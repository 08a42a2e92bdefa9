--------------------------------- MODULE Stock ---------------------------------
(***************************************************************************)
(* The two tables the spool and loading slices share: spools, one row per  *)
(* spool id, and the spool_id column of printer_slots.                     *)
(***************************************************************************)
EXTENDS SpoolModel, Slots

CONSTANT NoRow   \* no spools row has this id yet

ASSUME StockAssumption == NoRow \notin Spool
===============================================================================
