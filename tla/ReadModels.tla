------------------------------ MODULE ReadModels ------------------------------
(***************************************************************************)
(* What the pages compute from the spools rows: the filtered list, its     *)
(* count and its stock value (crates/app/src/persistence/spools.rs), the   *)
(* query string they come from and the edit form's prefill                 *)
(* (crates/app/src/web/spools.rs), the dashboard overview                  *)
(* (crates/domain/src/dashboard/read_models.rs), the spools a slot may be  *)
(* given (crates/app/src/persistence/printers.rs).                         *)
(* The columns no command of SpoolModel changes are attributes of the id:  *)
(* material, manufacturer, price, and what a search term matches.  The     *)
(* order of a list, rounding to a digit and localized names are display    *)
(* only.                                                                   *)
(***************************************************************************)
EXTENDS Stock, Integers, FiniteSets, FiniteSetsExt, Functions

CONSTANTS
    MaterialOf,       \* material_id of each spool
    ManufacturerOf,   \* manufacturer_id of each spool
    PriceOf,          \* price_paid of each spool, in cents
    Found,            \* search term |-> the spools its ILIKE pattern matches
    NoFacet               \* a facet that does not filter

ASSUME ReadModelsAssumption ==
    /\ IsFiniteSet(SpoolIds) /\ IsFiniteSet(SlotIds)
    /\ PriceOf \in [SpoolIds -> Nat]
    /\ \A term \in DOMAIN Found : Found[term] \subseteq SpoolIds
    /\ NoFacet \notin Statuses \cup Locations \cup DOMAIN Found

-------------------------------------------------------------------------------
(* A ratio remaining/net is kept as the integer remaining * (Unit \div net)*)
(* in units of 1/Unit: exact, for Unit is a multiple of every net weight.  *)

Unit == FoldSet(LAMBDA net, product : net * product, 1, NetWeights)

Ratio(sp) == sp.remaining * (Unit \div sp.net)

(* Variant: an empty spool is soon empty too.                              *)
LowStockOrEmpty(sp, percent) == Ratio(sp) * 100 <= percent * Unit

(* Whether the ratio is at most percent %, with something left.            *)
LowStock(sp, percent) == sp.remaining > 0 /\ Ratio(sp) * 100 <= percent * Unit

DefaultPercent == 15

-------------------------------------------------------------------------------
(* Filters.                                                                *)

(* to_filter: a blank parameter and a status that does not parse filter    *)
(* nothing.                                                                *)
ToFilter(query) ==
    [query EXCEPT !.status = IF query.status \in Statuses THEN query.status ELSE NoFacet]

NoFilter == [status |-> NoFacet, material |-> NoFacet, manufacturer |-> NoFacet,
             location |-> NoFacet, search |-> NoFacet]

(* Everything but the status.                                              *)
Facets(rows, filter) ==
    {s \in SpoolIds :
        /\ rows[s] # NoRow
        /\ filter.material \in {NoFacet, MaterialOf[s]}
        /\ filter.manufacturer \in {NoFacet, ManufacturerOf[s]}
        /\ filter.location \in {NoFacet, rows[s].location}
        /\ filter.search = NoFacet \/ s \in Found[filter.search]}

(* The list hides archived spools unless they are asked for.               *)
Listed(rows, filter) ==
    {s \in Facets(rows, filter) :
        IF filter.status = NoFacet THEN rows[s].status # "Archived"
                               ELSE rows[s].status = filter.status}

(* Variant: one facet of the list is missing from the predicates of the    *)
(* count and the value.                                                    *)
InStockAnyMaterial(rows, filter) ==
    {s \in Facets(rows, [filter EXCEPT !.material = NoFacet]) :
        rows[s].status # "Archived" /\ filter.status \in {NoFacet, rows[s].status}}

(* The count and the stock value never see an archived spool.              *)
InStock(rows, filter) ==
    {s \in Facets(rows, filter) :
        rows[s].status # "Archived" /\ filter.status \in {NoFacet, rows[s].status}}

Count(rows, filter) == Cardinality(InStock(rows, filter))

ValueOf(rows, s) == Ratio(rows[s]) * PriceOf[s]

ValueOfAll(rows, set) == SumFunction([s \in set |-> ValueOf(rows, s)])

StockValue(rows, filter) == ValueOfAll(rows, InStock(rows, filter))

(* status_scoped_total: the status filter alone.                           *)
StatusScope(filter) == [NoFilter EXCEPT !.status = filter.status]

Total(rows, filter) == Cardinality(Listed(rows, StatusScope(filter)))

-------------------------------------------------------------------------------
(* Dashboard: one pass over the rows that are not archived.                *)

StockRows(rows) == {s \in SpoolIds : rows[s] # NoRow /\ rows[s].status # "Archived"}

WeightOf(rows, set) == SumFunction([s \in set |-> rows[s].remaining])

Breakdown(rows, set) ==
    [m \in {MaterialOf[s] : s \in set} |->
        WeightOf(rows, {s \in set : MaterialOf[s] = m})]

(* The value is summed exactly here, as it is in StockValue.  The code adds*)
(* ratios rounded to an f64 (from_rows), the list sums NUMERIC in SQL: the *)
(* two may differ in trailing digits, which Money shows rounded to cents.  *)
Overview(rows, percent) ==
    LET set == StockRows(rows) IN
    [value     |-> ValueOfAll(rows, set),
     remaining |-> WeightOf(rows, set),
     total     |-> Cardinality(set),
     active    |-> Cardinality({s \in set : rows[s].status \in {"Sealed", "Open"}}),
     empty     |-> Cardinality({s \in set : rows[s].status = "Empty"}),
     breakdown |-> Breakdown(rows, set),
     soon      |-> {s \in set : LowStock(rows[s], percent)}]

-------------------------------------------------------------------------------
(* Variant: every spool on the shelf is offered, loaded or not.            *)
OffersOnShelf(rows, held, current) ==
    {s \in SpoolIds : rows[s] # NoRow /\ Loadable(rows[s])}

(* loadable_spools: what the selector of a slot holding current offers.    *)
Offers(rows, held, current) ==
    {s \in SpoolIds :
        /\ rows[s] # NoRow
        /\ Loadable(rows[s])
        /\ (\A sl \in SlotIds : held[sl] # s) \/ s = current}

(* Variant: the form always opens on a new spool.                          *)
EditFormAlwaysNew(sp) ==
    [op |-> "edit", condition |-> "New", net |-> sp.net,
     entered |-> sp.remaining, location |-> sp.location]

(* edit_form: what the edit page is prefilled with.                        *)
EditForm(sp) ==
    [op |-> "edit", condition |-> IF sp.status = "Open" THEN "Opened" ELSE "New",
     net |-> sp.net, entered |-> sp.remaining, location |-> sp.location]
===============================================================================
