------------------------------ MODULE MCPrinters ------------------------------
(***************************************************************************)
(* TLC instances of Printers.  The topologies share keys: an edit may keep *)
(* a slot (head-0), delete it or add one, and change the brand, the kind   *)
(* of link and the credential with it; one of them is no valid printer.    *)
(***************************************************************************)
EXTENDS Printers

CONSTANTS p1, e1, k1, k2

OneHead == Topology("bambu", "plain", 1, NoModule, 0, <<"direct">>)
TwoHeads == Topology("prusa", "XL", 2, NoModule, 0, <<"direct", "direct">>)
OneSpool == Topology("other", "plain", 1, NoModule, 0, <<"direct">>)
NoTray == Topology("bambu", "plain", 1, NoModule, 0, <<"ams_fed">>)

Edited == {OneHead, TwoHeads, OneSpool, NoTray}
===============================================================================
