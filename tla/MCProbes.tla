-------------------------------- MODULE MCProbes --------------------------------
(***************************************************************************)
(* TLC instance of Probes.                                                 *)
(***************************************************************************)
EXTENDS Probes
===============================================================================
