----------------------------- MODULE SpoolRequests -----------------------------
(***************************************************************************)
(* Spools and slot loading as the server runs them: HTTP requests handled  *)
(* concurrently by tokio tasks, each a sequence of awaited SQL statements  *)
(* over the same pool.  A mutating spool request finds the row, changes    *)
(* the copy it holds in memory, saves the whole row back, and, when the    *)
(* saved status is Empty or Archived, empties the slot in a further        *)
(* statement.  Nothing locks or versions the row between its find and its  *)
(* update.  A load request asks for the spool's status, then moves the     *)
(* spool in a transaction that locks the row and asks again.               *)
(*                                                                         *)
(* Sources: crates/domain/src/spools/usecases.rs, crates/app/src/web/      *)
(* spools.rs, crates/app/src/persistence/{spools,printers}.rs,             *)
(* crates/domain/src/printers/usecases.rs.  Requests that are refused      *)
(* change nothing and are not steps.                                       *)
(***************************************************************************)
EXTENDS Stock

CONSTANTS
    Requests,   \* requests in flight at a time (tasks of the server)
    Can         \* Can[r]: the operations request r may carry

ASSUME CanAssumption == Can \in [Requests -> SUBSET (RowOps \cup {"load"})]

VARIABLES
    spools,   \* the spools table
    slots,    \* printer_slots.spool_id
    reqs      \* what each request is about to do, with what it holds in memory

vars == <<spools, slots, reqs>>

Idle == [pc |-> "idle"]

Request ==
    {Idle}
      \cup [pc : {"update"}, id : SpoolIds, cmd : Commands, row : Spool]
      \cup [pc : {"unload"}, id : SpoolIds]
      \cup [pc : {"set_slot"}, id : SpoolIds, slot : SlotIds]

Rows == {s \in SpoolIds : spools[s] # NoRow}

(* A request has saved s Empty or Archived and is about to unload it.      *)
Unloading(s) == \E r \in Requests : reqs[r].pc = "unload" /\ reqs[r].id = s

-------------------------------------------------------------------------------

Init ==
    /\ spools = [s \in SpoolIds |-> NoRow]
    /\ slots = [sl \in SlotIds |-> NoSpool]
    /\ reqs = [r \in Requests |-> Idle]

(* POST /spools: one INSERT under a fresh id.                              *)
Create(s) ==
    /\ s \notin Rows
    /\ \E condition \in Conditions, net \in NetWeights, entered \in Grams,
          location \in Locations \cup {NoLocation} :
          spools' = [spools EXCEPT ![s] = NewSpool(condition, net, entered, location)]
    /\ UNCHANGED <<slots, reqs>>

(* repo.find, then the domain method on the copy: the request goes on only *)
(* when the domain accepts the command.                                    *)
Find(r, s, cmd) ==
    /\ reqs[r] = Idle
    /\ cmd.op \in Can[r]
    /\ s \in Rows
    /\ Accepts(cmd, spools[s])
    /\ reqs' = [reqs EXCEPT ![r] =
                  [pc |-> "update", id |-> s, cmd |-> cmd, row |-> Apply(cmd, spools[s])]]
    /\ UNCHANGED <<spools, slots>>

(* What a handler still owes once its row is saved.                        *)
AfterSave(q) == IF Unloads(q.cmd, q.row) THEN [pc |-> "unload", id |-> q.id] ELSE Idle

(* Variant: an update that saves the columns the weight operations change. *)
UpdateWeights(r) ==
    LET q == reqs[r] IN
    /\ q.pc = "update"
    /\ spools' = [spools EXCEPT ![q.id].remaining = q.row.remaining,
                                ![q.id].status = q.row.status]
    /\ reqs' = [reqs EXCEPT ![r] = AfterSave(q)]
    /\ UNCHANGED slots

(* repo.update: the row the request computed replaces whatever the row has *)
(* become since the find.                                                  *)
Update(r) ==
    LET q == reqs[r] IN
    /\ q.pc = "update"
    /\ spools' = [spools EXCEPT ![q.id] = q.row]
    /\ reqs' = [reqs EXCEPT ![r] = AfterSave(q)]
    /\ UNCHANGED slots

(* unload_spool: a statement of its own, after the update has committed.   *)
UnloadSpool(r) ==
    /\ reqs[r].pc = "unload"
    /\ slots' = Without(slots, reqs[r].id)
    /\ reqs' = [reqs EXCEPT ![r] = Idle]
    /\ UNCHANGED spools

-------------------------------------------------------------------------------

(* load_slot: a first look at the status, outside any transaction.         *)
CheckLoadable(r, s, sl) ==
    /\ reqs[r] = Idle
    /\ "load" \in Can[r]
    /\ s \in Rows
    /\ Loadable(spools[s])
    /\ reqs' = [reqs EXCEPT ![r] = [pc |-> "set_slot", id |-> s, slot |-> sl]]
    /\ UNCHANGED <<spools, slots>>

(* Variant: a move that trusts the first look.                             *)
SetSlotUnchecked(r) ==
    LET q == reqs[r] IN
    /\ q.pc = "set_slot"
    /\ slots' = Moved(slots, q.id, q.slot)
    /\ reqs' = [reqs EXCEPT ![r] = Idle]
    /\ UNCHANGED spools

(* set_slot_spool: SELECT ... FOR UPDATE holds the row against an update   *)
(* until the commit, so that the second look and the move are one step.    *)
SetSlot(r) ==
    LET q == reqs[r] IN
    /\ q.pc = "set_slot"
    /\ Loadable(spools[q.id])
    /\ slots' = Moved(slots, q.id, q.slot)
    /\ reqs' = [reqs EXCEPT ![r] = Idle]
    /\ UNCHANGED spools

(* The second look finds the spool Empty or Archived: rollback.            *)
RefuseLoad(r) ==
    /\ reqs[r].pc = "set_slot"
    /\ ~Loadable(spools[reqs[r].id])
    /\ reqs' = [reqs EXCEPT ![r] = Idle]
    /\ UNCHANGED <<spools, slots>>

(* unload_slot: one UPDATE, no read before it.                             *)
UnloadSlot(sl) ==
    /\ slots' = [slots EXCEPT ![sl] = NoSpool]
    /\ UNCHANGED <<spools, reqs>>

(* A request ends between two statements: one of them failed (500), the    *)
(* client hung up and the handler was dropped, or the process stopped.     *)
(* Nothing takes up what it had left to do.                                *)
Abort(r) ==
    /\ reqs[r] # Idle
    /\ reqs' = [reqs EXCEPT ![r] = Idle]
    /\ UNCHANGED <<spools, slots>>

Continue(r) == Update(r) \/ UnloadSpool(r) \/ SetSlot(r) \/ RefuseLoad(r)

Next ==
    \/ \E s \in SpoolIds : Create(s)
    \/ \E r \in Requests, s \in SpoolIds, cmd \in Commands : Find(r, s, cmd)
    \/ \E r \in Requests, s \in SpoolIds, sl \in SlotIds : CheckLoadable(r, s, sl)
    \/ \E r \in Requests : Continue(r)
    \/ \E sl \in SlotIds : UnloadSlot(sl)

NextOrAbort == Next \/ \E r \in Requests : Abort(r)

Spec == Init /\ [][Next]_vars
FaultySpec == Init /\ [][NextOrAbort]_vars

(* tokio goes on polling a request once it is taken up, and each statement *)
(* is answered; users owe nothing.                                         *)
FairSpec == Spec /\ \A r \in Requests : WF_vars(Continue(r))

-------------------------------------------------------------------------------

TypeOK ==
    /\ spools \in [SpoolIds -> Spool \cup {NoRow}]
    /\ slots \in [SlotIds -> SpoolIds \cup {NoSpool}]
    /\ reqs \in [Requests -> Request]

(* Exclusivity under racing loads, unloads and aborted requests: no spool  *)
(* is in two slots (set_slot_spool, persistence/printers.rs).              *)
Exclusive == HeldOnce(slots)

(* However the finds and the updates of racing requests interleave, each   *)
(* stored row is one whose weight and status agree: an update writes the   *)
(* net weight, the remaining weight and the status together.               *)
RowsConsistent == \A s \in Rows : Consistent(spools[s])

(* A slot that holds an Empty or Archived spool is about to be emptied by  *)
(* the request that made it so (finish_op, web/spools.rs).                 *)
AutoUnload ==
    \A sl \in SlotIds : slots[sl] # NoSpool =>
        Loadable(spools[slots[sl]]) \/ Unloading(slots[sl])

(* No request reassigns a location or memorizes a tag: these two save the  *)
(* status they found, Empty and Archived included, and never unload.       *)
NoStatusCarrier ==
    \A r \in Requests : Can[r] \cap {"assign_location", "memorize_ams_tag"} = {}

(* A slot takes a spool only at an instant when the spool is Sealed or     *)
(* Open, even when it was emptied or archived after the first look at it   *)
(* (the locked second look of set_slot_spool).                             *)
LoadsOnlyLoadable ==
    [][\A sl \in SlotIds : slots'[sl] \notin {slots[sl], NoSpool} =>
          slots'[sl] \in Rows /\ Loadable(spools[slots'[sl]])]_vars

(* A consumption takes its amount off the weight stored when it is saved   *)
(* (consume, spools/usecases.rs).                                          *)
ConsumeSubtracts ==
    [][\A r \in Requests : Update(r) /\ reqs[r].cmd.op = "consume" =>
          spools'[reqs[r].id].remaining =
              Drawn(spools[reqs[r].id].remaining, reqs[r].cmd.grams)]_vars

(* A loaded spool that became Empty or Archived leaves its slot, or is     *)
(* made loadable again, in the end.                                        *)
Stranded(s) == \E sl \in SlotIds : slots[sl] = s /\ ~Loadable(spools[s])
EventuallyUnloaded == \A s \in SpoolIds : Stranded(s) ~> ~Stranded(s)

-------------------------------------------------------------------------------
(* The slots as the promise of Inventory has them: a spool that a request  *)
(* is about to unload has left its slot already.                           *)
VisibleSlots ==
    [sl \in SlotIds |-> IF slots[sl] # NoSpool /\ Unloading(slots[sl])
                        THEN NoSpool ELSE slots[sl]]

Atomic == INSTANCE Inventory WITH slots <- VisibleSlots

(* When one client at a time changes spools (any number may load them),    *)
(* the two-statement handlers are as good as atomic ones.                  *)
ImplementsInventory == Atomic!Spec
===============================================================================
