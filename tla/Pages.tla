--------------------------------- MODULE Pages ---------------------------------
(***************************************************************************)
(* The pages of crates/app/src/web/{spools,dashboard,printers,settings}.rs *)
(* read while other requests change the tables.  A handler asks for one    *)
(* number at a time, each a SELECT of its own over the pool: nothing makes *)
(* the answers one snapshot, so a page can put side by side numbers of     *)
(* different moments.  The writes are those of Inventory, each in one step:*)
(* what happens inside a write is SpoolRequests' subject.                  *)
(***************************************************************************)
EXTENDS Inventory, ReadModels, SequencesExt

CONSTANTS
    Browsers,   \* pages being rendered or on a screen at a time
    Queries,    \* query strings the list may be asked with
    Percents,   \* thresholds the settings form may store
    Unset,      \* no instance_configuration row
    MaxOverlaps \* bound: writes that may overlap one page

ASSUME PagesAssumption ==
    /\ Percents \subseteq 0 .. 100 /\ Unset \notin Percents
    /\ \A query \in Queries : DOMAIN query = {"status", "material", "manufacturer",
                                             "location", "search"}

VARIABLES
    stored,   \* the instance_configuration row
    pages     \* per browser: the page, the reads left to do, what was read

pageVars == <<spools, slots, stored, pages>>

NoPage == [kind |-> "none"]

Open(b) == pages[b].kind # "none"

(* Everything the handler asks for has been answered.                      *)
Shown(b) == Open(b) /\ pages[b].todo = <<>>

Quiet(b) == pages[b].overlaps = 0

Is(b, kind) == Shown(b) /\ pages[b].kind = kind

Ask(name) == [ask |-> name]
Seen(b, name) == pages[b].seen[Ask(name)]

Threshold == IF stored = Unset THEN DefaultPercent ELSE stored

-------------------------------------------------------------------------------
(* The reads of each handler, in its order.                                *)

OfferReads == [i \in 1 .. Cardinality(SlotIds) |->
                  [ask |-> "offers", slot |-> SetToSeq(SlotIds)[i]]]

Reads(kind) ==
    CASE kind = "list"    -> <<Ask("threshold"), Ask("total"), Ask("value"),
                               Ask("list"), Ask("nav")>>
      [] kind = "rows"    -> <<Ask("threshold"), Ask("value"), Ask("total"), Ask("list")>>
      [] kind = "home"    -> <<Ask("threshold"), Ask("overview"), Ask("nav")>>
      [] kind = "loading" -> <<Ask("printers")>> \o OfferReads \o <<Ask("nav")>>
      [] kind = "edit"    -> <<Ask("view")>>

Answer(page, read) ==
    CASE read.ask = "threshold" -> Threshold
      [] read.ask = "total"     -> Total(spools, ToFilter(page.query))
      [] read.ask = "value"     -> StockValue(spools, ToFilter(page.query))
      [] read.ask = "list"      -> Listed(spools, ToFilter(page.query))
      [] read.ask = "overview"  -> Overview(spools, page.seen[Ask("threshold")])
      [] read.ask = "nav"       -> Count(spools, NoFilter)
      [] read.ask = "printers"  -> slots
      [] read.ask = "offers"    -> Offers(spools, slots,
                                          page.seen[Ask("printers")][read.slot])
      [] read.ask = "view"      -> spools[page.spool]

Answered(page, read) ==
    [r \in DOMAIN page.seen \cup {read} |->
        IF r = read THEN Answer(page, read) ELSE page.seen[r]]

Opened(kind, query, s) ==
    [kind |-> kind, query |-> query, spool |-> s, todo |-> Reads(kind),
     seen |-> <<>>, overlaps |-> 0]

BlankQuery == [status |-> "", material |-> NoFacet, manufacturer |-> NoFacet,
               location |-> NoFacet, search |-> NoFacet]

-------------------------------------------------------------------------------

PagesInit ==
    /\ Init
    /\ stored = Unset
    /\ pages = [b \in Browsers |-> NoPage]

Visit(b) ==
    /\ ~Open(b)
    /\ \/ \E kind \in {"list", "rows"}, query \in Queries :
              pages' = [pages EXCEPT ![b] = Opened(kind, query, NoFacet)]
       \/ \E kind \in {"home", "loading"} :
              pages' = [pages EXCEPT ![b] = Opened(kind, BlankQuery, NoFacet)]
       \/ \E s \in Rows : pages' = [pages EXCEPT ![b] = Opened("edit", BlankQuery, s)]
    /\ UNCHANGED <<spools, slots, stored>>

Read(b) ==
    LET page == pages[b]  read == Head(page.todo) IN
    /\ Open(b) /\ ~Shown(b)
    /\ pages' = [pages EXCEPT ![b].todo = Tail(@),
                              ![b].seen = Answered(page, read)]
    /\ UNCHANGED <<spools, slots, stored>>

Leave(b) ==
    /\ Shown(b)
    /\ pages' = [pages EXCEPT ![b] = NoPage]
    /\ UNCHANGED <<spools, slots, stored>>

(* A write under the eyes of the browsers that are reading.                *)
Overlap(readers) ==
    LET open == {b \in readers : Open(b)} IN
    /\ \A b \in open : pages[b].overlaps < MaxOverlaps
    /\ pages' = [b \in Browsers |->
                    IF b \in open THEN [pages[b] EXCEPT !.overlaps = @ + 1]
                    ELSE IF b \in readers THEN pages[b]
                    ELSE NoPage]

Write ==
    /\ Overlap(Browsers)
    /\ Next
    /\ UNCHANGED stored

(* What the edit page may send back untouched: as it was filled, or with   *)
(* the condition chosen in its first step.                                 *)
Forms(sp) ==
    {EditForm(sp)} \cup {[EditForm(sp) EXCEPT !.condition = c] : c \in {"New", "Opened"}}

Saved(b, form) ==
    /\ Operate(pages[b].spool, form)
    /\ Overlap(Browsers \ {b})
    /\ UNCHANGED stored

Submit(b) ==
    /\ Is(b, "edit")
    /\ \E form \in Forms(Seen(b, "view")) : Saved(b, form)

SetThreshold(percent) ==
    /\ stored' = percent
    /\ Overlap(Browsers)
    /\ UNCHANGED <<spools, slots>>

PagesNext ==
    \/ Write
    \/ \E b \in Browsers : Visit(b) \/ Read(b) \/ Leave(b) \/ Submit(b)
    \/ \E percent \in Percents : SetThreshold(percent)

PagesSpec == PagesInit /\ [][PagesNext]_pageVars

-------------------------------------------------------------------------------

(* A list or its refresh adds up.  Its rows exceed its denominator by no   *)
(* more than the writes that overlapped it: each moves one spool into or   *)
(* out of the status scope.  When none did, the rows are within the        *)
(* denominator: "Scoping by status keeps the filtered count a subset of the*)
(* total" (status_scoped_total, web/spools.rs:344; for                     *)
(* docs/specs/07-spools-list-parity.md:42 it is the whole stock whatever   *)
(* the status asked for).  And the value is that of the rows, or nothing   *)
(* when they are the archived ones, which have no stock value              *)
(* (docs/specs/03b-spools-ops.md:101; the comment at                       *)
(* persistence/spools.rs:469 has the value of the visible set).            *)
ListAdds ==
    \A b \in Browsers : Is(b, "list") \/ Is(b, "rows") =>
        LET list == Seen(b, "list") IN
        /\ Cardinality(list) <= Seen(b, "total") + pages[b].overlaps
        /\ Quiet(b) =>
              Seen(b, "value") =
                 IF pages[b].query.status = "Archived" THEN 0
                 ELSE ValueOfAll(spools, list)

(* The overview adds up, whatever overlapped the page (it is one SELECT):  *)
(* every row is active or empty, an alert is an active spool, the breakdown*)
(* by material sums to the total weight.  That an alert is active rests on *)
(* the rows being consistent: an Empty spool has no weight left.  On a page*)
(* no write overlapped, its total is the count of the navigation and it    *)
(* values the spools the unfiltered list values.  (The sums are exact here:*)
(* that the f64 fold and the NUMERIC sum also round to the same cents,     *)
(* shared/mod.rs:208, is not shown.)                                       *)
OverviewAdds ==
    \A b \in Browsers : Is(b, "home") =>
        LET view == Seen(b, "overview") IN
        /\ view.active + view.empty = view.total
        /\ Cardinality(view.soon) <= view.active
        /\ view.remaining = SumFunction(view.breakdown)
        /\ Quiet(b) => /\ view.total = Seen(b, "nav")
                       /\ view.value = StockValue(spools, NoFilter)

(* On a loading page no write overlapped, the spool shown in a slot is one *)
(* its selector offers, and no selector offers what another slot holds:    *)
(* the selector's choices are those the load will accept.                  *)
QuietOffersFit ==
    \A b \in Browsers : Is(b, "loading") /\ Quiet(b) =>
        LET held == Seen(b, "printers")
            offers(sl) == pages[b].seen[[ask |-> "offers", slot |-> sl]] IN
        \A sl \in SlotIds :
            /\ held[sl] # NoSpool => held[sl] \in offers(sl)
            /\ \A other \in SlotIds \ {sl} : held[other] \notin offers(sl)

(* Sending back the edit page of a Sealed or Open spool as it was filled,  *)
(* nothing having been written since, changes nothing.  (Of an Empty or    *)
(* Archived spool it makes a full Sealed one: the page has no condition    *)
(* for those.)                                                             *)
UntouchedEditKeeps ==
    [][\A b \in Browsers :
          /\ Is(b, "edit")
          /\ Quiet(b)
          /\ Loadable(Seen(b, "view"))
          /\ Saved(b, EditForm(Seen(b, "view")))
          => UNCHANGED <<spools, slots>>]_pageVars
===============================================================================
