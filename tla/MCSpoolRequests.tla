---------------------------- MODULE MCSpoolRequests ----------------------------
(***************************************************************************)
(* TLC instances of SpoolRequests.  They differ in what the requests may   *)
(* carry: who writes spool rows and who loads.                             *)
(***************************************************************************)
EXTENDS SpoolRequests, TLC

CONSTANTS writer, rival, loader   \* requests, as model values

AllRowOps == RowOps
FinishOrEdit == FinishedOps \cup {"edit"}

(* One client writes spools, another loads them.                           *)
OneWriter == (writer :> AllRowOps) @@ (loader :> {"load"})

(* Two clients race on the operations that unload what they empty.         *)
RacingFinishers ==
    (writer :> FinishOrEdit) @@ (rival :> FinishOrEdit) @@ (loader :> {"load"})

(* Two clients race on every operation; each may also load.                *)
RacingAll == (writer :> RowOps \cup {"load"}) @@ (rival :> RowOps \cup {"load"})

(* Two clients consume from the same spool.                                *)
RacingConsumers == (writer :> {"consume"}) @@ (rival :> {"consume"})

WriterSymmetry == Permutations(SpoolIds) \cup Permutations(SlotIds)
RivalSymmetry == WriterSymmetry \cup Permutations({writer, rival})
===============================================================================
