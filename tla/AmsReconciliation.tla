--------------------------- MODULE AmsReconciliation ---------------------------
(***************************************************************************)
(* Bringing the slots of one Bambu printer in line with what its AMS holds *)
(* (crates/app/src/ams_reconciliation.rs and the drawer of                 *)
(* crates/app/src/web/printers.rs).  A sync reads the slots, asks the      *)
(* machine for its trays, reads the reconcilable spools, classifies each   *)
(* tray and writes the printer's badge.  The drawer stays open in the      *)
(* browser; confirming it applies one choice per row, one statement after  *)
(* another, and writes the badge again.  Meanwhile other requests work on  *)
(* spools and slots: here they take the atomic steps of Inventory.         *)
(***************************************************************************)
EXTENDS Inventory, Sequences

CONSTANTS
    Drawers,    \* browsers that may have the drawer open
    TrayOrder,  \* the trays as the machine reports them: the slot key of each,
                \* in SlotIds unless the printer is configured with fewer trays
    Newest,     \* all spools, latest created first
    Looks,      \* material and colour readings
    NoLook,     \* the tray reports neither material nor colour
    Closest,    \* Closest[look]: the spools of this material within the colour
                \* threshold, closest first
    OthersOps   \* what the other requests do to spools

ASSUME AmsAssumption ==
    /\ Len(TrayOrder) \in Nat /\ DOMAIN TrayOrder = 1 .. Len(TrayOrder)
    /\ \A i, j \in DOMAIN TrayOrder : TrayOrder[i] = TrayOrder[j] => i = j
    /\ Newest \in Seq(SpoolIds)
    /\ Closest \in [Looks -> Seq(SpoolIds)]
    /\ NoTag \notin Tags
    /\ NoLook \notin Looks
    /\ OthersOps \subseteq RowOps

VARIABLES
    badge,    \* printers.ams_sync_state
    tasks     \* what each drawer shows, or its request is about to do

amsVars == <<spools, slots, badge, tasks>>

Badges == {"UpToDate", "Drift", "Offline"}
Idle == [pc |-> "idle"]
Trays == DOMAIN TrayOrder

-------------------------------------------------------------------------------
(* What one sync reads.                                                    *)

Reading == [tag : Tags \cup {NoTag}, look : Looks \cup {NoLook}]
EmptyTray == [tag |-> NoTag, look |-> NoLook]

(* Tags are unique among real rolls: two trays never report the same one.  *)
Reports ==
    {trays \in [Trays -> Reading] :
        \A i, j \in Trays : trays[i].tag = trays[j].tag /\ trays[i].tag # NoTag => i = j}

(* The loaded spools as the printer list returns them, with their tags.    *)
Local ==
    [sl \in SlotIds |-> [spool |-> slots[sl],
                         tag |-> IF slots[sl] = NoSpool THEN NoTag ELSE spools[slots[sl]].tag]]

LocalAt(local, tray) ==
    IF tray \in SlotIds THEN local[tray] ELSE [spool |-> NoSpool, tag |-> NoTag]

Reconcilable == {s \in SpoolIds : Loadable(spools[s])}
Loaded == {slots[sl] : sl \in SlotIds} \ {NoSpool}

FirstIn(seq, S) ==
    LET found == {i \in DOMAIN seq : seq[i] \in S} IN
    IF found = {} THEN NoSpool ELSE seq[CHOOSE i \in found : \A j \in found : i <= j]

ByTag(tag) == FirstIn(Newest, {s \in Reconcilable : spools[s].tag = tag})

ByLook(look, used) ==
    IF look = NoLook THEN NoSpool
    ELSE FirstIn(Closest[look], Reconcilable \ (Loaded \cup used))

-------------------------------------------------------------------------------
(* The matcher: a row per tray, in the order of the report.                *)

Kind(reading, local, candidate) ==
    CASE reading = EmptyTray -> IF local.spool = NoSpool THEN "Omitted" ELSE "Removed"
      [] reading.tag # NoTag ->
            IF local.spool # NoSpool /\ local.tag = reading.tag THEN "Match" ELSE "Conflict"
      [] OTHER -> IF candidate = NoSpool THEN "None" ELSE "Attributed"

Suggestion(kind, reading, local, candidate) ==
    CASE kind = "Match"      -> local.spool
      [] kind = "Conflict"   -> ByTag(reading.tag)
      [] kind = "Attributed" -> candidate
      [] OTHER               -> NoSpool

(* Variant: the candidates are not narrowed by the rows above.             *)
ReconcileAfresh(local, trays) ==
    [i \in Trays |->
        LET here == LocalAt(local, TrayOrder[i])
            candidate == ByLook(trays[i].look, {})
            kind == Kind(trays[i], here, candidate)
        IN  [kind |-> kind, suggested |-> Suggestion(kind, trays[i], here, candidate)]]

(* Each row excludes from its candidates what the rows above suggest.      *)
ReconcileTrays(local, trays) ==
    LET rows[i \in Trays] ==
            LET used == {rows[j].suggested : j \in 1 .. (i - 1)}
                here == LocalAt(local, TrayOrder[i])
                candidate == ByLook(trays[i].look, used)
                kind == Kind(trays[i], here, candidate)
            IN  [kind |-> kind, suggested |-> Suggestion(kind, trays[i], here, candidate)]
    IN  rows

Diverges(row) == row.kind \notin {"Match", "Omitted"}

BadgeFor(rows) == IF \E i \in Trays : Diverges(rows[i]) THEN "Drift" ELSE "UpToDate"

-------------------------------------------------------------------------------
(* What a confirmation may do with a row.                                  *)
Keep == [op |-> "keep"]
Vacate == [op |-> "unload"]
Unlisted == [op |-> "unlisted"]
Place(s, tag) == [op |-> "load", spool |-> s, tag |-> tag]

(* The choices the drawer offers for a row: none for a match or for a tray *)
(* without a slot; the preselected spool may be loaded elsewhere.          *)
RowChoices(i, row, reading) ==
    LET free == {s \in Reconcilable : s \in Loaded => s = row.suggested} IN
    IF ~Diverges(row) \/ TrayOrder[i] \notin SlotIds THEN {}
    ELSE IF row.kind = "Removed" THEN {Vacate, Keep}
    ELSE {Keep} \cup {Place(s, reading.tag) : s \in free}

Drawer(rows, trays) ==
    [i \in Trays |-> [kind |-> rows[i].kind, suggested |-> rows[i].suggested,
                      choices |-> RowChoices(i, rows[i], trays[i])]]

-------------------------------------------------------------------------------
(* Sync: GET ams-reconciliation.                                           *)

AmsInit ==
    /\ spools = [s \in SpoolIds |-> NewSpool("New", MaxNet, MaxNet, NoLocation)]
    /\ slots = [sl \in SlotIds |-> NoSpool]
    /\ badge = "Offline"
    /\ tasks = [d \in Drawers |-> Idle]

Goto(d, task) == tasks' = [tasks EXCEPT ![d] = task]

ListPrinters(d) ==
    /\ tasks[d] = Idle
    /\ Goto(d, [pc |-> "fetch", local |-> Local])
    /\ UNCHANGED <<spools, slots, badge>>

(* The trays are changed by hand at any time: a report may say anything.   *)
FetchTrays(d, trays) ==
    /\ tasks[d].pc = "fetch"
    /\ Goto(d, [pc |-> "match", local |-> tasks[d].local, trays |-> trays])
    /\ UNCHANGED <<spools, slots, badge>>

FetchFails(d) ==
    /\ tasks[d].pc = "fetch"
    /\ Goto(d, [pc |-> "offline"])
    /\ UNCHANGED <<spools, slots, badge>>

SetOffline(d) ==
    /\ tasks[d].pc = "offline"
    /\ badge' = "Offline"
    /\ Goto(d, Idle)
    /\ UNCHANGED <<spools, slots>>

(* The reconcilable spools are read last and matched in memory.            *)
MatchTrays(d) ==
    LET q == tasks[d] IN
    /\ q.pc = "match"
    /\ Goto(d, [pc |-> "report",
                rows |-> Drawer(ReconcileTrays(q.local, q.trays), q.trays)])
    /\ UNCHANGED <<spools, slots, badge>>

(* The badge is saved, then the drawer opens with the rows.                *)
OpenDrawer(d) ==
    /\ tasks[d].pc = "report"
    /\ badge' = BadgeFor(tasks[d].rows)
    /\ Goto(d, [pc |-> "drawer", rows |-> tasks[d].rows])
    /\ UNCHANGED <<spools, slots>>

CloseDrawer(d) ==
    /\ tasks[d].pc = "drawer"
    /\ Goto(d, Idle)
    /\ UNCHANGED <<spools, slots, badge>>

-------------------------------------------------------------------------------
(* Confirmation: POST ams-reconciliation.                                  *)

(* What the drawer posts: a choice for each row that offers one.  Rows     *)
(* that offer none are not posted.                                         *)
Plans(rows) ==
    {plan \in [Trays -> UNION {rows[i].choices : i \in Trays} \cup {Unlisted}] :
        \A i \in Trays : IF rows[i].choices = {} THEN plan[i] = Unlisted
                         ELSE plan[i] \in rows[i].choices}

Confirm(d, plan) ==
    /\ tasks[d].pc = "drawer"
    /\ Goto(d, [pc |-> "apply", rows |-> tasks[d].rows, plan |-> plan, k |-> 1])
    /\ UNCHANGED <<spools, slots, badge>>

(* The request is at a row whose action is op.                             *)
At(d, pc, op) ==
    /\ tasks[d].pc = pc
    /\ tasks[d].k \in Trays
    /\ tasks[d].plan[tasks[d].k].op = op

Slot(d) == TrayOrder[tasks[d].k]
Action(d) == tasks[d].plan[tasks[d].k]
GotoRow(d, pc, k) == Goto(d, [pc |-> pc, rows |-> tasks[d].rows, plan |-> tasks[d].plan, k |-> k])
NextRow(d) == GotoRow(d, "apply", tasks[d].k + 1)

KeepRow(d) ==
    /\ At(d, "apply", "keep") \/ At(d, "apply", "unlisted")
    /\ NextRow(d)
    /\ UNCHANGED <<spools, slots, badge>>

(* Variant: an unload that forgets the key and clears the printer.         *)
UnloadPrinter(d) ==
    /\ At(d, "apply", "unload")
    /\ slots' = [sl \in SlotIds |->
                   IF \E i \in Trays : TrayOrder[i] = sl THEN NoSpool ELSE slots[sl]]
    /\ NextRow(d)
    /\ UNCHANGED <<spools, badge>>

(* unload_slot: whatever the slot holds by now.                            *)
UnloadRow(d) ==
    /\ At(d, "apply", "unload")
    /\ slots' = [slots EXCEPT ![Slot(d)] = NoSpool]
    /\ NextRow(d)
    /\ UNCHANGED <<spools, badge>>

TagCommand(d) == [op |-> "memorize_ams_tag", tag |-> Action(d).tag]

(* Variant: only a spool without a tag memorizes one.                      *)
FirstTagOnly(d) ==
    Action(d).tag # NoTag /\ spools[Action(d).spool].tag = NoTag

(* A tray without a tag memorizes nothing; a tag already there returns     *)
(* before saving.                                                          *)
Memorizes(d) ==
    Action(d).tag # NoTag /\ Accepts(TagCommand(d), spools[Action(d).spool])

FindSpool(d) ==
    /\ At(d, "apply", "load")
    /\ Memorizes(d)
    /\ Goto(d, [pc |-> "save", rows |-> tasks[d].rows, plan |-> tasks[d].plan,
                k |-> tasks[d].k, copy |-> Apply(TagCommand(d), spools[Action(d).spool])])
    /\ UNCHANGED <<spools, slots, badge>>

(* memorize_ams_tag saves the whole row as it was found.                   *)
SaveTag(d) ==
    /\ At(d, "save", "load")
    /\ spools' = [spools EXCEPT ![Action(d).spool] = tasks[d].copy]
    /\ GotoRow(d, "check", tasks[d].k)
    /\ UNCHANGED <<slots, badge>>

SkipTag(d) ==
    /\ At(d, "apply", "load")
    /\ ~Memorizes(d)
    /\ GotoRow(d, "check", tasks[d].k)
    /\ UNCHANGED <<spools, slots, badge>>

(* load_slot: the look outside the transaction, then the one inside it     *)
(* together with the move (see SpoolRequests).                             *)
CheckRow(d) ==
    /\ At(d, "check", "load")
    /\ Loadable(spools[Action(d).spool])
    /\ GotoRow(d, "move", tasks[d].k)
    /\ UNCHANGED <<spools, slots, badge>>

(* Variant: a move that trusts the first look.                             *)
MoveUnchecked(d) ==
    /\ At(d, "move", "load")
    /\ slots' = Moved(slots, Action(d).spool, Slot(d))
    /\ NextRow(d)
    /\ UNCHANGED <<spools, badge>>

(* Variant: a move that leaves an occupied slot alone.                     *)
MoveIfFree(d) ==
    /\ At(d, "move", "load")
    /\ Loadable(spools[Action(d).spool])
    /\ slots' = IF slots[Slot(d)] = NoSpool THEN Moved(slots, Action(d).spool, Slot(d))
                ELSE slots
    /\ NextRow(d)
    /\ UNCHANGED <<spools, badge>>

MoveRow(d) ==
    /\ At(d, "move", "load")
    /\ Loadable(spools[Action(d).spool])
    /\ slots' = Moved(slots, Action(d).spool, Slot(d))
    /\ NextRow(d)
    /\ UNCHANGED <<spools, badge>>

(* An error answer leaves the drawer open as it was: the rows already      *)
(* applied stay applied and may be posted again.                           *)
Reopen(d) == Goto(d, [pc |-> "drawer", rows |-> tasks[d].rows])

RefuseRow(d) ==
    /\ At(d, "check", "load") \/ At(d, "move", "load")
    /\ ~Loadable(spools[Action(d).spool])
    /\ Reopen(d)
    /\ UNCHANGED <<spools, slots, badge>>

KeepsDrift(plan) == \E i \in Trays : plan[i] = Keep

(* All rows are applied: the badge is saved and the drawer closes.         *)
Finish(d) ==
    /\ tasks[d].pc = "apply"
    /\ tasks[d].k \notin Trays
    /\ badge' = IF KeepsDrift(tasks[d].plan) THEN "Drift" ELSE "UpToDate"
    /\ Goto(d, Idle)
    /\ UNCHANGED <<spools, slots>>

Applying == {"apply", "save", "check", "move"}

(* A confirmation is cut off between two statements.                       *)
Abort(d) ==
    /\ tasks[d].pc \in Applying
    /\ Reopen(d)
    /\ UNCHANGED <<spools, slots, badge>>

-------------------------------------------------------------------------------

Sync(d) ==
    \/ ListPrinters(d)
    \/ \E trays \in Reports : FetchTrays(d, trays)
    \/ FetchFails(d) \/ SetOffline(d) \/ MatchTrays(d) \/ OpenDrawer(d) \/ CloseDrawer(d)

ApplyPlan(d) ==
    \/ KeepRow(d) \/ UnloadRow(d)
    \/ FindSpool(d) \/ SaveTag(d) \/ SkipTag(d)
    \/ CheckRow(d) \/ MoveRow(d) \/ RefuseRow(d)
    \/ Finish(d)

Reconcile(d) ==
    \/ Sync(d)
    \/ tasks[d].pc = "drawer" /\ \E plan \in Plans(tasks[d].rows) : Confirm(d, plan)
    \/ ApplyPlan(d)

Others ==
    /\ \/ \E s \in SpoolIds, cmd \in Commands : cmd.op \in OthersOps /\ Operate(s, cmd)
       \/ \E s \in SpoolIds, sl \in SlotIds : Load(s, sl)
       \/ \E sl \in SlotIds : Unload(sl)
    /\ UNCHANGED <<badge, tasks>>

(* No request of a drawer is being served (drawers may be open).           *)
NoneServed == \A d \in Drawers : tasks[d].pc \in {"idle", "drawer"}

SerialNext == (\E d \in Drawers : Reconcile(d)) \/ (NoneServed /\ Others)

AmsNext ==
    \/ \E d \in Drawers : Reconcile(d) \/ Abort(d)
    \/ Others

(* Requests served one at a time, from one drawer.                         *)
SerialSpec == AmsInit /\ [][SerialNext]_amsVars

(* Requests interleaved, several drawers, confirmations cut off.           *)
AmsSpec == AmsInit /\ [][AmsNext]_amsVars

-------------------------------------------------------------------------------

Actions == {Keep, Vacate, Unlisted} \cup [op : {"load"}, spool : SpoolIds, tag : Tags \cup {NoTag}]
Plan == {plan \in [Trays -> Actions] :
            \A i \in Trays : plan[i] # Unlisted => TrayOrder[i] \in SlotIds}

(* A slot takes a spool only while it is Sealed or Open, although a        *)
(* confirmation chose it from a drawer opened earlier.                     *)
LoadsOnlyLoadable ==
    [][\A sl \in SlotIds : slots'[sl] \notin {slots[sl], NoSpool} =>
          Loadable(spools[slots'[sl]])]_amsVars

(* The rows of a confirmation that are applied, and whose spool no later   *)
(* applied row has taken.                                                  *)
Standing(q) ==
    {i \in Trays : i < q.k /\
        \A j \in Trays : i < j /\ j < q.k =>
            ~(/\ q.plan[i].op = "load" /\ q.plan[j].op = "load"
              /\ q.plan[i].spool = q.plan[j].spool)}

(* Served without interference, a confirmation puts each row it has        *)
(* applied into effect, keeps it in effect while it applies the rest, and  *)
(* does so again when it is posted again after an error (confirm).         *)
RowsInEffect ==
    \A d \in Drawers : tasks[d].pc \in Applying =>
        LET q == tasks[d] IN
        \A i \in Standing(q) :
            /\ q.plan[i].op = "unload" => slots[TrayOrder[i]] = NoSpool
            /\ q.plan[i].op = "load" => slots[TrayOrder[i]] = q.plan[i].spool

(* Served without interference, each tray with a tag for which a row was   *)
(* applied is a match for the next sync (confirm memorizes the tag).       *)
NextSyncMatches ==
    \A d \in Drawers : tasks[d].pc = "apply" =>
        LET q == tasks[d] IN
        \A i \in Standing(q) : q.plan[i].op = "load" /\ q.plan[i].tag # NoTag =>
            Kind([tag |-> q.plan[i].tag, look |-> NoLook],
                 LocalAt(Local, TrayOrder[i]), NoSpool) = "Match"

(* Served without interference, confirmations change spools and slots only *)
(* as a client of Inventory may.                                           *)
StepsAreAtomic == [][Next]_vars

(* A spool suggested for its material and colour is not suggested by a row *)
(* above, for whatever reason (the set used of reconcile_trays).           *)
AttributedOnce ==
    \A d \in Drawers : tasks[d].pc = "report" =>
        LET rows == tasks[d].rows IN
        \A i \in Trays : rows[i].kind = "Attributed" =>
            \A j \in Trays : j < i => rows[j].suggested # rows[i].suggested
===============================================================================
