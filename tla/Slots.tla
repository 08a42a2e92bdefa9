--------------------------------- MODULE Slots ---------------------------------
(***************************************************************************)
(* The column printer_slots.spool_id, NoSpool for NULL: which spool sits   *)
(* in which slot.  A slot here is one (printer, slot_key) row; the         *)
(* printers and their topology are configured before.                      *)
(***************************************************************************)
CONSTANTS
    SpoolIds,   \* ids a spool row may get (a fresh ULID each)
    SlotIds,    \* the rows of printer_slots
    NoSpool     \* spool_id IS NULL

ASSUME SlotsAssumption == NoSpool \notin SpoolIds

(* UPDATE printer_slots SET spool_id=NULL WHERE spool_id=s                 *)
Without(held, s) == [sl \in SlotIds |-> IF held[sl] = s THEN NoSpool ELSE held[sl]]

(* Variant: the slot the spool leaves is not emptied.                      *)
Overwritten(held, s, sl) == [held EXCEPT ![sl] = s]

(* set_slot_spool with a spool: the slot it leaves is emptied first.       *)
Moved(held, s, sl) == [Without(held, s) EXCEPT ![sl] = s]

HeldOnce(held) ==
    \A a, b \in SlotIds : held[a] = held[b] /\ held[a] # NoSpool => a = b
===============================================================================
