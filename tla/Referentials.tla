------------------------------ MODULE Referentials ------------------------------
(***************************************************************************)
(* The referentials a spool points at - materials, manufacturers and       *)
(* locations - and what happens to them while spool forms, deletions,      *)
(* settings pages and the seeding of starting processes overlap            *)
(* (crates/domain/src/{materials,manufacturers,locations}, their adapters  *)
(* in crates/app/src/persistence and their handlers in crates/app/src/web).*)
(* Each statement is one step.  Ids are ULIDs and never reused: a new row  *)
(* takes an id that no row and no request in flight still holds.           *)
(***************************************************************************)
EXTENDS Integers, Sequences, FiniteSets, FiniteSetsExt

CONSTANTS
    MaterialNames, ManufacturerNames, LocationNames,   \* names rows may have
    NoName,         \* no manufacturer was typed
    Spools,         \* spool rows that may exist
    NoSpool,        \* no such row
    Requests,       \* requests and starting processes
    BuiltinMaterials, BuiltinManufacturers,   \* the lists they seed, in order
    Ids,            \* bound: ids at a time; nothing is added when all are held
    MaxLocations    \* bound: locations at a time

Kinds == {"material", "manufacturer", "location"}

NamesOf == [material |-> MaterialNames, manufacturer |-> ManufacturerNames,
            location |-> LocationNames]

(* seed::builtin of the two seeded referentials.                           *)
Builtin == [material |-> BuiltinMaterials, manufacturer |-> BuiltinManufacturers]

ASSUME ReferentialsAssumption ==
    /\ Ids \subseteq Nat \ {0} /\ IsFiniteSet(Ids)
    /\ IsFiniteSet(Spools) /\ MaxLocations \in Nat
    /\ NoName \notin ManufacturerNames /\ NoSpool \notin [Kinds -> Ids \cup {0}]
    /\ \A kind \in DOMAIN Builtin : Builtin[kind] \in Seq(NamesOf[kind]) \ {<<>>}

VARIABLES
    rows,     \* rows[kind]: the names of the rows, by id
    spools,   \* the references of each spool, 0 for none
    reqs      \* what each request is doing

vars == <<rows, spools, reqs>>

Idle == [pc |-> "idle"]

Stored == {s \in Spools : spools[s] # NoSpool}

Init ==
    /\ rows = [kind \in Kinds |-> <<>>]
    /\ spools = [s \in Spools |-> NoSpool]
    /\ reqs = [r \in Requests |-> Idle]

-------------------------------------------------------------------------------
(* The tables.                                                             *)

Named(kind, name) == {id \in DOMAIN rows[kind] : rows[kind][id] = name}

(* UNIQUE (name), on materials and manufacturers.                          *)
Taken(kind, name) == kind # "location" /\ Named(kind, name) # {}

Referring(kind, id) == {s \in Stored : spools[s][kind] = id}

(* The foreign keys of a spool row; a spool always has a material.         *)
Fits(spool) ==
    \A kind \in Kinds :
        \/ spool[kind] \in DOMAIN rows[kind]
        \/ kind # "material" /\ spool[kind] = 0

HeldIds(kind) ==
    UNION {IF reqs[r].pc \in {"typed", "list", "write"} THEN {reqs[r].row[kind]}
           ELSE IF reqs[r].pc = "delete" /\ reqs[r].kind = kind THEN {reqs[r].id}
           ELSE {} : r \in Requests}

FreshIds(kind) == Ids \ (DOMAIN rows[kind] \cup HeldIds(kind))

NewId(kind) == CHOOSE id \in FreshIds(kind) : TRUE

Inserted(kind, name) ==
    [rows EXCEPT ![kind] = [id \in DOMAIN @ \cup {NewId(kind)} |->
                               IF id = NewId(kind) THEN name ELSE @[id]]]

(* A seeding that a rename or a deletion disturbs.                         *)
Disturbed == [r \in Requests |-> IF reqs[r].pc \in {"exists", "insert", "seeded"}
                                 THEN [reqs[r] EXCEPT !.disturbed = TRUE] ELSE reqs[r]]

(* The same for a deletion; a row that is gone has no spools to count.     *)
Deprived(kind, id) ==
    [r \in Requests |-> IF reqs[r].pc = "counts" /\ reqs[r].kind = kind
                        THEN [reqs[r] EXCEPT !.todo = @ \ {id}] ELSE Disturbed[r]]

-------------------------------------------------------------------------------
(* Requests of one statement, from the referentials' own pages.            *)

Add(kind, name) ==
    /\ ~Taken(kind, name) /\ FreshIds(kind) # {}
    /\ kind = "location" => Cardinality(DOMAIN rows[kind]) < MaxLocations
    /\ rows' = Inserted(kind, name)
    /\ UNCHANGED <<spools, reqs>>

(* Materials and locations can be edited, manufacturers cannot.            *)
Rename(kind, id, name) ==
    /\ kind # "manufacturer" /\ id \in DOMAIN rows[kind]
    /\ rows[kind][id] # name /\ ~Taken(kind, name)
    /\ rows' = [rows EXCEPT ![kind][id] = name]
    /\ reqs' = Disturbed
    /\ UNCHANGED spools

-------------------------------------------------------------------------------
(* Spool forms.  A form offers the rows its page listed, or takes the name *)
(* of a manufacturer; it is a creation when it names no spool.             *)

Forms ==
    {[material |-> m, manufacturer |-> f, location |-> l] :
        m \in DOMAIN rows["material"], f \in DOMAIN rows["manufacturer"] \cup {0},
        l \in DOMAIN rows["location"] \cup {0}}

Submit(r, s, row, typed) ==
    /\ reqs[r] = Idle
    /\ s \in Stored \/ (s = NoSpool /\ Stored # Spools)
    /\ row \in Forms /\ (typed # NoName => row.manufacturer = 0)
    /\ reqs' = [reqs EXCEPT ![r] = [pc |-> IF typed = NoName THEN "write" ELSE "typed",
                                    spool |-> s, row |-> row, typed |-> typed]]
    /\ UNCHANGED <<rows, spools>>

(* resolve_manufacturer_id: the typed name is added, or met with Duplicate.*)
ResolveAdd(r) ==
    LET name == reqs[r].typed IN
    /\ reqs[r].pc = "typed"
    /\ IF Taken("manufacturer", name)
       THEN /\ reqs' = [reqs EXCEPT ![r].pc = "list"]
            /\ UNCHANGED rows
       ELSE /\ FreshIds("manufacturer") # {}
            /\ rows' = Inserted("manufacturer", name)
            /\ reqs' = [reqs EXCEPT ![r].pc = "write",
                                    ![r].row.manufacturer = NewId("manufacturer")]
    /\ UNCHANGED spools

(* Variant: the latest row is taken for the one that was in the way.       *)
FoundLatest(name) ==
    IF rows["manufacturer"] = <<>> THEN {} ELSE {Max(DOMAIN rows["manufacturer"])}

(* After Duplicate, the row of that name among all of them; it may have    *)
(* been deleted since, and the request then fails.                         *)
FoundByName(name) == Named("manufacturer", name)

ResolveList(r) ==
    LET found == FoundByName(reqs[r].typed) IN
    /\ reqs[r].pc = "list"
    /\ reqs' = [reqs EXCEPT ![r] = IF found = {} THEN Idle
                   ELSE [@ EXCEPT !.pc = "write",
                                  !.row.manufacturer = CHOOSE id \in found : TRUE]]
    /\ UNCHANGED <<rows, spools>>

(* assign_location finds the row it will save back, moved.                 *)
Reassign(r, s, location) ==
    /\ reqs[r] = Idle
    /\ s \in Stored /\ location \in DOMAIN rows["location"] \cup {0}
    /\ reqs' = [reqs EXCEPT ![r] = [pc |-> "write", spool |-> s, typed |-> NoName,
                                    row |-> [spools[s] EXCEPT !.location = location]]]
    /\ UNCHANGED <<rows, spools>>

(* A settings page notes that the spools it is counting moved.             *)
Moved(s, row) ==
    [r \in Requests |->
        IF reqs[r].pc = "counts"
           /\ (IF s \in Stored THEN spools[s][reqs[r].kind] ELSE 0) # row[reqs[r].kind]
        THEN [reqs[r] EXCEPT !.overlaps =
                  Min({@ + 1, Cardinality(Spools) * Cardinality(Ids)})]
        ELSE reqs[r]]

(* INSERT or full-row UPDATE; an unknown id is refused.                    *)
Write(r) ==
    LET row == reqs[r].row IN
    /\ reqs[r].pc = "write"
    /\ IF ~Fits(row)
       THEN reqs' = [reqs EXCEPT ![r] = Idle] /\ UNCHANGED spools
       ELSE \E s \in IF reqs[r].spool = NoSpool THEN Spools \ Stored
                     ELSE {reqs[r].spool} :
               /\ spools' = [spools EXCEPT ![s] = row]
               /\ reqs' = [Moved(s, row) EXCEPT ![r] = Idle]
    /\ UNCHANGED rows

-------------------------------------------------------------------------------
(* Deletions: manufacturers and locations, never materials.                *)

(* The use case counts first; with a spool in the way it stops there.      *)
BeginDelete(r, kind, id) ==
    /\ reqs[r] = Idle
    /\ kind # "material" /\ id \in DOMAIN rows[kind]
    /\ Referring(kind, id) = {}
    /\ reqs' = [reqs EXCEPT ![r] = [pc |-> "delete", kind |-> kind, id |-> id]]
    /\ UNCHANGED <<rows, spools>>

(* Variant: the count is trusted.                                          *)
RemovedAsCounted(kind, id) ==
    [rows EXCEPT ![kind] = [other \in DOMAIN @ \ {id} |-> @[other]]]

(* DELETE: refused while a spool refers to the row, nothing when it is gone.*)
Removed(kind, id) ==
    [rows EXCEPT ![kind] = [other \in {o \in DOMAIN @ : o # id \/ Referring(kind, o) # {}}
                                |-> @[other]]]

Delete(r) ==
    /\ reqs[r].pc = "delete"
    /\ rows' = Removed(reqs[r].kind, reqs[r].id)
    /\ reqs' = [(IF rows' = rows THEN reqs ELSE Deprived(reqs[r].kind, reqs[r].id))
                   EXCEPT ![r] = Idle]
    /\ UNCHANGED spools

-------------------------------------------------------------------------------
(* list_with_spool_counts: one statement lists, one per row counts.        *)

BeginCounts(r, kind) ==
    /\ reqs[r] = Idle /\ kind # "material"
    /\ reqs' = [reqs EXCEPT ![r] = [pc |-> "counts", kind |-> kind, sum |-> 0,
                                    todo |-> DOMAIN rows[kind], overlaps |-> 0]]
    /\ UNCHANGED <<rows, spools>>

(* Variant: the query of the other referential, pasted.                    *)
CountOfManufacturer(kind, id) == Cardinality(Referring("manufacturer", id))

CountSpools(kind, id) == Cardinality(Referring(kind, id))

CountRow(r, id) ==
    /\ reqs[r].pc = "counts" /\ id \in reqs[r].todo
    /\ reqs' = [reqs EXCEPT ![r].todo = @ \ {id},
                            ![r].sum = @ + CountSpools(reqs[r].kind, id)]
    /\ UNCHANGED <<rows, spools>>

ShowCounts(r) ==
    /\ reqs[r].pc = "counts" /\ reqs[r].todo = {}
    /\ reqs' = [reqs EXCEPT ![r] = Idle]
    /\ UNCHANGED <<rows, spools>>

-------------------------------------------------------------------------------
(* seed_defaults, of the materials and then of the manufacturers.          *)

BeginSeed(r) ==
    /\ reqs[r] = Idle
    /\ reqs' = [reqs EXCEPT ![r] = [pc |-> "exists", kind |-> "material",
                                    todo |-> Builtin["material"], disturbed |-> FALSE]]
    /\ UNCHANGED <<rows, spools>>

(* Variant: a list that was begun is taken for a list that was seeded.     *)
SkippedList(req) ==
    IF req.kind = "material"
    THEN [req EXCEPT !.pc = "exists", !.kind = "manufacturer",
                     !.todo = Builtin["manufacturer"]]
    ELSE [req EXCEPT !.pc = "seeded", !.todo = <<>>]

NextName(req) ==
    IF Len(req.todo) > 1 THEN [req EXCEPT !.pc = "exists", !.todo = Tail(@)]
    ELSE SkippedList(req)

(* exists_by_name, then the next name or its insertion.                    *)
SeedCheck(r) ==
    /\ reqs[r].pc = "exists"
    /\ reqs' = [reqs EXCEPT ![r] =
                    IF Named(@.kind, Head(@.todo)) # {} THEN NextName(@)
                    ELSE [@ EXCEPT !.pc = "insert"]]
    /\ UNCHANGED <<rows, spools>>

(* Duplicate, when somebody else inserted it meanwhile, is passed over.    *)
SeedInsert(r) ==
    LET name == Head(reqs[r].todo) IN
    /\ reqs[r].pc = "insert"
    /\ IF Taken(reqs[r].kind, name)
       THEN reqs' = [reqs EXCEPT ![r] = NextName(@)] /\ UNCHANGED rows
       ELSE /\ FreshIds(reqs[r].kind) # {}
            /\ rows' = Inserted(reqs[r].kind, name)
            /\ reqs' = [reqs EXCEPT ![r] = NextName(@)]
    /\ UNCHANGED spools

(* The boot goes on.                                                       *)
EndSeed(r) ==
    /\ reqs[r].pc = "seeded"
    /\ reqs' = [reqs EXCEPT ![r] = Idle]
    /\ UNCHANGED <<rows, spools>>

(* A client hangs up or a process dies between two statements.             *)
Abort(r) ==
    /\ reqs[r] # Idle
    /\ reqs' = [reqs EXCEPT ![r] = Idle]
    /\ UNCHANGED <<rows, spools>>

-------------------------------------------------------------------------------

Next ==
    \/ \E kind \in Kinds : \E name \in NamesOf[kind] :
          \/ Add(kind, name)
          \/ \E id \in Ids : Rename(kind, id, name)
    \/ \E r \in Requests :
          \/ \E s \in Spools \cup {NoSpool}, row \in Forms, typed \in ManufacturerNames \cup {NoName} :
                Submit(r, s, row, typed)
          \/ \E s \in Spools, location \in Ids \cup {0} : Reassign(r, s, location)
          \/ ResolveAdd(r) \/ ResolveList(r) \/ Write(r)
          \/ \E kind \in Kinds, id \in Ids : BeginDelete(r, kind, id)
          \/ Delete(r)
          \/ \E kind \in Kinds : BeginCounts(r, kind)
          \/ \E id \in Ids : CountRow(r, id)
          \/ ShowCounts(r)
          \/ BeginSeed(r) \/ SeedCheck(r) \/ SeedInsert(r) \/ EndSeed(r)
          \/ Abort(r)

Spec == Init /\ [][Next]_vars

-------------------------------------------------------------------------------

(* Types, with what the schema holds: every reference of a spool leads to a*)
(* row, and no two materials or manufacturers share a name.  The count     *)
(* before a deletion does not ensure it: a spool may be assigned between   *)
(* the two.                                                                *)
RefTypeOK ==
    /\ \A kind \in Kinds : /\ DOMAIN rows[kind] \subseteq Ids
                           /\ \A id \in DOMAIN rows[kind] : rows[kind][id] \in NamesOf[kind]
    /\ \A s \in Stored : Fits(spools[s])
    /\ \A kind \in Kinds \ {"location"} : \A name \in NamesOf[kind] :
          Cardinality(Named(kind, name)) <= 1

(* A spool form with a typed manufacturer ends on a row of that name, and  *)
(* no other, whoever added or deleted it between the three statements.     *)
TypedNameAttributed ==
    \A r \in Requests :
        LET req == reqs[r] IN
        req.pc = "write" /\ req.typed # NoName
            /\ req.row.manufacturer \in DOMAIN rows["manufacturer"]
        => rows["manufacturer"][req.row.manufacturer] = req.typed

(* A process that has seeded has every builtin name in the tables, even if *)
(* another one seeded at once, or died while seeding: a partial list is    *)
(* completed.  Only a rename or a deletion meanwhile can leave one out.    *)
SeededHasBuiltins ==
    \A r \in Requests : reqs[r].pc = "seeded" /\ ~reqs[r].disturbed =>
        \A kind \in DOMAIN Builtin : \A i \in DOMAIN Builtin[kind] :
            Named(kind, Builtin[kind][i]) # {}

(* The counts of a settings page, added up, differ from the number of      *)
(* spools assigned by at most the number of assignments it overlapped: with*)
(* none, no spool is missed or counted twice.                              *)
CountsOffByWrites ==
    \A r \in Requests :
        LET req == reqs[r] IN
        req.pc = "counts" /\ req.todo = {} =>
            LET assigned == Cardinality({s \in Stored : spools[s][req.kind] # 0}) IN
            req.sum - assigned \in -req.overlaps..req.overlaps
===============================================================================
