------------------------------- MODULE Inventory -------------------------------
(***************************************************************************)
(* What the spools and the printer slots promise together, as one operator *)
(* at one browser sees it (docs/specs/03b-spools-ops.md and                *)
(* docs/specs/15b-printer-spool-loading.md give the intent, the operators  *)
(* of SpoolModel the effect of the code): every command applies to the     *)
(* spool as it stands, and a spool that becomes Empty or Archived leaves   *)
(* its slot in the same step.  SpoolRequests implements it request by      *)
(* request and statement by statement.                                     *)
(***************************************************************************)
EXTENDS Stock

VARIABLES
    spools,   \* the spools rows, NoRow for an id that is not there yet
    slots     \* printer_slots.spool_id, NoSpool for NULL

vars == <<spools, slots>>

Rows == {s \in SpoolIds : spools[s] # NoRow}

Init ==
    /\ spools = [s \in SpoolIds |-> NoRow]
    /\ slots = [sl \in SlotIds |-> NoSpool]

Create(s) ==
    /\ s \notin Rows
    /\ \E condition \in Conditions, net \in NetWeights, entered \in Grams,
          location \in Locations \cup {NoLocation} :
          spools' = [spools EXCEPT ![s] = NewSpool(condition, net, entered, location)]
    /\ UNCHANGED slots

Operate(s, cmd) ==
    LET row == Apply(cmd, spools[s]) IN
    /\ s \in Rows
    /\ Accepts(cmd, spools[s])
    /\ spools' = [spools EXCEPT ![s] = row]
    /\ slots' = IF Unloads(cmd, row) THEN Without(slots, s) ELSE slots

(* Loading moves the spool: the slot that held it is emptied.              *)
Load(s, sl) ==
    /\ s \in Rows
    /\ Loadable(spools[s])
    /\ slots' = Moved(slots, s, sl)
    /\ UNCHANGED spools

Unload(sl) ==
    /\ slots' = [slots EXCEPT ![sl] = NoSpool]
    /\ UNCHANGED spools

Next ==
    \/ \E s \in SpoolIds : Create(s)
    \/ \E s \in SpoolIds, cmd \in Commands : Operate(s, cmd)
    \/ \E s \in SpoolIds, sl \in SlotIds : Load(s, sl)
    \/ \E sl \in SlotIds : Unload(sl)

Spec == Init /\ [][Next]_vars

-------------------------------------------------------------------------------

TypeOK ==
    /\ spools \in [SpoolIds -> Spool \cup {NoRow}]
    /\ slots \in [SlotIds -> SpoolIds \cup {NoSpool}]

(* Exclusivity: two slots never hold the same spool (set_slot_spool clears *)
(* the slot the spool leaves, persistence/printers.rs).                    *)
Exclusive == HeldOnce(slots)

(* A slot holds only a Sealed or Open spool: loading asks for it and every *)
(* command that takes it away unloads.                                     *)
LoadedIsLoadable ==
    \A sl \in SlotIds : slots[sl] # NoSpool =>
        slots[sl] \in Rows /\ Loadable(spools[slots[sl]])
===============================================================================
