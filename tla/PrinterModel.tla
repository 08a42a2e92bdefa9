----------------------------- MODULE PrinterModel -----------------------------
(***************************************************************************)
(* Printers as crates/domain/src/printers/model.rs has them: which heads,  *)
(* module and AMS units a brand and model admit, which slots follow from   *)
(* them, and which machine link fits the brand.  A topology is a record;   *)
(* a slot key is a pair of its prefix and its index.  Models are classes:  *)
(* "dual" stands for X2D and H2D, "plain" for the models of a brand that   *)
(* no rule singles out.                                                    *)
(***************************************************************************)
EXTENDS Integers, Sequences

MaxAmsUnits == 4
XlHeadCounts == {1, 2, 5}
PrusaMultiSlotCounts == {4, 8}
OtherSlotCounts == {2, 3, 4, 5, 6, 8}

Models == [bambu |-> {"dual", "H2C", "plain"},
           prusa |-> {"XL", "CORE One", "plain"},
           other |-> {"plain"}]

NoModule == [kind |-> "none", slots |-> 0]
Mmu == [kind |-> "mmu", slots |-> 0]
MultiSlot(n) == [kind |-> "multi_slot", slots |-> n]

Topology(brand, model, heads, module, units, modes) ==
    [brand |-> brand, model |-> model, heads |-> heads, module |-> module,
     units |-> units, modes |-> modes]

-------------------------------------------------------------------------------
(* Module::validate.                                                       *)

ValidHeads(c) ==
    CASE c.brand = "bambu" /\ c.model = "dual" -> c.heads = 2
      [] c.brand = "prusa" /\ c.model = "XL"   -> c.heads \in XlHeadCounts
      [] OTHER                                 -> c.heads = 1

(* The modules of a printer with one head.                                 *)
SingleHeadModules(c) ==
    CASE c.brand = "bambu" /\ c.model = "dual" -> {}
      [] c.brand = "bambu" /\ c.model = "H2C"  -> {NoModule, MultiSlot(7)}
      [] c.brand = "bambu" /\ c.model = "plain" -> {NoModule}
      [] c.brand = "prusa" /\ c.model = "XL"   -> {NoModule}
      [] c.brand = "prusa" /\ c.model = "CORE One" ->
             {NoModule, Mmu} \cup {MultiSlot(n) : n \in PrusaMultiSlotCounts}
      [] c.brand = "prusa" /\ c.model = "plain" -> {NoModule, Mmu}
      [] c.brand = "other" -> {NoModule} \cup {MultiSlot(n) : n \in OtherSlotCounts}

ValidModule(c) ==
    /\ c.model \in Models[c.brand]
    /\ ValidHeads(c)
    /\ c.module \in IF c.heads > 1 THEN {NoModule} ELSE SingleHeadModules(c)

-------------------------------------------------------------------------------
(* derive_slots: what it rejects, then the keys in their order.            *)

Fed(c) == {h \in 1 .. Len(c.modes) : c.modes[h] = "ams_fed"}

Valid(c) ==
    /\ ValidModule(c)
    /\ Len(c.modes) = c.heads
    /\ c.units <= MaxAmsUnits
    /\ c.module # NoModule => c.units = 0
    /\ c.brand # "bambu" => c.units = 0 /\ Fed(c) = {}
    /\ Fed(c) # {} => c.units > 0

Numbered(prefix, n) == [i \in 1 .. n |-> <<prefix, i - 1>>]

Units == <<"ams0", "ams1", "ams2", "ams3">>

(* A direct head has a slot of its own, an AMS unit has four; there are    *)
(* one or two heads.                                                       *)
HeadSlot(c, h) == IF c.modes[h] = "direct" THEN <<<<"head", h - 1>>>> ELSE <<>>

BambuSlots(c) ==
    LET heads == IF c.heads = 1 THEN HeadSlot(c, 1) ELSE HeadSlot(c, 1) \o HeadSlot(c, 2)
        trays == [i \in 1 .. 4 * c.units |-> <<Units[(i - 1) \div 4 + 1], (i - 1) % 4>>]
    IN heads \o trays

DeriveSlots(c) ==
    CASE c.module = NoModule ->
             IF c.brand = "bambu" THEN BambuSlots(c)
             ELSE IF c.heads > 1 THEN Numbered("head", c.heads)
             ELSE <<<<"main", 0>>>>
      [] c.module = Mmu -> Numbered("mmu", 5)
      [] c.module.kind = "multi_slot" ->
             Numbered(IF c.brand = "prusa" THEN "indx" ELSE "multi", c.module.slots)

Keys(c) == {DeriveSlots(c)[i] : i \in DOMAIN DeriveSlots(c)}

-------------------------------------------------------------------------------
(* Machine links.                                                          *)

KindFor == [bambu |-> "bambu", prusa |-> "prusalink", other |-> "moonraker"]

(* PrusaLink and Bambu links carry a credential, Moonraker links none.     *)
HasCredential(kind) == kind # "moonraker"
===============================================================================
