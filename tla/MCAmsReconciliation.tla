-------------------------- MODULE MCAmsReconciliation --------------------------
(***************************************************************************)
(* TLC instances of AmsReconciliation: a printer with two trays, a tray it *)
(* is configured without, and a slot elsewhere.                            *)
(***************************************************************************)
EXTENDS AmsReconciliation, TLC

CONSTANTS s1, s2, tray1, tray2, extra, grey

ThreeTrays == <<tray1, extra, tray2>>
BothTrays == <<tray1, tray2>>
LatestSecond == <<s2, s1>>

(* The grey reading is closest to s1.                                      *)
GreyFirst == grey :> <<s1, s2>>
===============================================================================
