-------------------------- MODULE MCInstanceTransfer --------------------------
(***************************************************************************)
(* TLC instances of InstanceTransfer: an instance with one row of each     *)
(* kind; a file of another instance and one of the same, whose ids and     *)
(* names meet what is there and what is added; a file with printers as     *)
(* older versions wrote them; files whose printers the list or the schema  *)
(* refuses; files that validate refuses.                                   *)
(***************************************************************************)
EXTENDS InstanceTransfer, TLC

Material(id, name) == [id |-> id, name |-> name, density |-> 1]
Named1(id, name) == [id |-> id, name |-> name]
Spool(id, m, l, f) ==
    [id |-> id, material |-> m, location |-> l, manufacturer |-> f, net |-> 2,
     remaining |-> 2, price |-> 0, colour |-> "hex"]
Slot(key, spool) == [key |-> key, spool |-> spool]
OneSpool == Topology("other", "plain", 1, NoModule, 0, <<"direct">>)
Single(id, spool) ==
    [id |-> id, name |-> id, top |-> OneSpool, sync |-> "offline", slots |-> {Slot(<<"main", 0>>, spool)}]

Seeded ==
    [materials |-> {Material("m1", "PLA")}, manufacturers |-> {}, locations |-> {Named1("l1", "shelf")},
     spools |-> {Spool("s1", "m1", "l1", NoRef)}, printers |-> {Single("p1", "s1")},
     threshold |-> Unset, links |-> {"p1"}]

Added ==
    [materials |-> {}, manufacturers |-> {Named1("f9", "Polymaker")},
     locations |-> {Named1("l9", "drawer")}, spools |-> {Spool("s9", "m1", "l9", NoRef)},
     printers |-> {Single("p9", NoRef)}]

File(ms, fs, ls, ss, ps) ==
    [format |-> Format, version |-> 1, materials |-> ms, manufacturers |-> fs,
     locations |-> ls, spools |-> ss, printers |-> ps, threshold |-> 20]

Legacy(id, brand, model, kind, count, slots) ==
    [id |-> id, name |-> id, brand |-> brand, model |-> model, heads |-> Absent,
     kind |-> kind, count |-> count, units |-> Absent, modes |-> Absent, sync |-> Absent, slots |-> slots]

OldSlots(prefix, n) == [k \in 1 .. n |-> Slot(<<prefix, k - 1>>, NoRef)]

OldPrinters ==
    <<Legacy("p2", "bambu", "plain", "ams", Absent,
             <<Slot(<<"ext", 0>>, "s2")>> \o OldSlots("ams", 4)),
      Legacy("p3", "bambu", "plain", "none", Absent, <<Slot(<<"ext", 0>>, NoRef)>>),
      Legacy("p4", "prusa", "XL", "tool_changer", 2, OldSlots("head", 2)),
      Legacy("p5", "prusa", "CORE One", "indx", 4, OldSlots("indx", 4)),
      Legacy("p6", "other", "plain", "multi_colour", 2, OldSlots("multi", 2))>>

OldFile == File(<<Material("m2", "PLA")>>, <<>>, <<>>, <<Spool("s2", "m2", NoRef, NoRef)>>, OldPrinters)
SameFile == File(<<Material("m1", "PLA")>>, <<Named1("f1", "Polymaker")>>, <<Named1("l2", "shelf")>>,
                 <<Spool("s1", "m1", "l2", "f1")>>, <<EncodedPrinter([Single("p1", "s1") EXCEPT !.slots = SetToSeq(@)])>>)

(* Printers as docs/specs/15a-printers-core.md has them: a tool changer of *)
(* 1 to 5 heads, an INDX of 5 slots.                                       *)
ThreeHeads == Legacy("p7", "prusa", "XL", "tool_changer", 3, OldSlots("head", 3))
FiveSlots == Legacy("p8", "prusa", "CORE One", "indx", 5, OldSlots("indx", 5))
OlderFile == File(<<>>, <<>>, <<>>, <<>>, <<ThreeHeads, FiveSlots>>)

(* Five AMS units, no heads, a feed mode or a state there is not.          *)
UncheckedFile ==
    LET p == SameFile.printers[1] IN
    [SameFile EXCEPT !.printers =
        <<[p EXCEPT !.units = 5], [p EXCEPT !.id = "p2", !.heads = 0, !.slots = <<>>],
          [p EXCEPT !.id = "p3", !.modes = <<"both">>, !.slots = <<>>],
          [p EXCEPT !.id = "p4", !.sync = "late", !.slots = <<>>]>>]

BadFiles ==
    {File(<<Material("m1", "PLA"), Material("m2", "PLA")>>, <<>>, <<>>, <<>>, <<>>),
     File(<<Material("m1", "PLA")>>, <<>>, <<>>, <<Spool("s1", "m2", NoRef, NoRef)>>, <<>>),
     [SameFile EXCEPT !.version = 2],
     [SameFile EXCEPT !.printers = <<@[1], [@[1] EXCEPT !.id = "p2"]>>]}

Form(file) == <<[name |-> "backup", size |-> "within 1 MiB", file |-> file],
                [name |-> "confirm_replace", value |-> "yes"]>>
Forms == {Form(f) : f \in {OldFile, SameFile, OlderFile, UncheckedFile} \cup BadFiles}
         \cup {<<Form(SameFile)[1]>>, Append(Form(SameFile), [name |-> "confirm_replace", value |-> "no"])}
===============================================================================
