------------------------------- MODULE MCService -------------------------------
(***************************************************************************)
(* TLC instances of Service.                                               *)
(***************************************************************************)
EXTENDS Service
===============================================================================
