----------------------------- MODULE MCReferentials -----------------------------
(***************************************************************************)
(* TLC instance of Referentials.                                           *)
(***************************************************************************)
EXTENDS Referentials, TLC

CONSTANTS n1, n2

SeedMaterials == <<n1>>
SeedManufacturers == <<n1, n2>>

Symmetry == Permutations(Requests)
===============================================================================
