-------------------------------- MODULE MCPages --------------------------------
(***************************************************************************)
(* TLC instance of Pages: two spools that differ in every facet, and the   *)
(* queries that tell the filters apart.                                    *)
(***************************************************************************)
EXTENDS Pages

CONSTANTS s1, s2, pla, petg, acme   \* model values

Materials2 == (s1 :> pla) @@ (s2 :> petg)
Manufacturers2 == (s1 :> acme) @@ (s2 :> NoLocation)
Prices == (s1 :> 20) @@ (s2 :> 30)
Terms == ("acme" :> {s1})

AllQueries ==
    {BlankQuery,
     [BlankQuery EXCEPT !.status = "Archived"],
     [BlankQuery EXCEPT !.status = "Lost"],
     [BlankQuery EXCEPT !.status = "Open", !.material = pla],
     [BlankQuery EXCEPT !.manufacturer = acme, !.search = "acme"]}
===============================================================================
