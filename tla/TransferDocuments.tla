-------------------------- MODULE TransferDocuments --------------------------
(***************************************************************************)
(* The backup file of an instance: what its content is                     *)
(* (crates/domain/src/instance_transfer/model.rs), how its JSON is written *)
(* and read, the printers of older files included                          *)
(* (crates/app/src/instance_transfer.rs), what validate() refuses, what    *)
(* the schema of the database refuses (the migrations), and which upload   *)
(* the settings page takes (crates/app/src/web/settings.rs).               *)
(*                                                                         *)
(* Names are kept where they must be unique, "" standing for a blank one;  *)
(* weights are small integers; the other text of a row, its dates and the  *)
(* nozzle settings are left out.  The model of a printer is its class      *)
(* among those of its brand, "plain" for any that no rule singles out.  A  *)
(* stored module of 0 slots is also one without a count: nothing that      *)
(* reads the column tells them apart.                                      *)
(***************************************************************************)
EXTENDS PrinterModel, FiniteSets, SequencesExt

Format == "filature-instance"
Version == 1

CONSTANTS
    NoRef,     \* an optional reference that is not set
    Absent     \* an optional field of a file that is null or missing

Referentials == {"materials", "manufacturers", "locations"}
Tables == Referentials \cup {"spools", "printers"}

(* The rows of a table, by their ids.                                      *)
Ids(rows) == {r.id : r \in rows}

ModeNames == {"direct", "ams_fed"}
SyncStates == {"up_to_date", "drift", "offline"}

(* The integers of a printer in a file are of one or two bytes.            *)
Byte == 0 .. 255
TwoBytes == 0 .. 65535

ASSUME AbsentAssumption ==
    /\ Absent \notin Nat \cup SyncStates
    /\ \A n \in Byte : Absent \notin [1 .. n -> ModeNames]

-------------------------------------------------------------------------------
(* The rows that the forms and the program's own types let through.        *)

SoundTopology(c) ==
    /\ c.brand \in DOMAIN Models /\ c.units \in Nat /\ c.heads \in Nat
    /\ c.modes \in [1 .. c.heads -> ModeNames]
    /\ c = Topology(c.brand, c.model, c.heads, c.module, c.units, c.modes)
    /\ Valid(c)

SpoolFields(s) ==
    s = [id |-> s.id, material |-> s.material, location |-> s.location,
         manufacturer |-> s.manufacturer, net |-> s.net, remaining |-> s.remaining,
         price |-> s.price, colour |-> s.colour]

SoundSpoolRow(s) ==
    /\ SpoolFields(s)
    /\ s.net \in Int /\ s.remaining \in 0 .. s.net /\ s.price >= 0
    /\ s.colour \in {"hex", "transparent", NoRef}

SoundPrinterRow(p) ==
    /\ p = [id |-> p.id, name |-> p.name, top |-> p.top, sync |-> p.sync, slots |-> p.slots]
    /\ p.name # "" /\ SoundTopology(p.top) /\ p.sync \in SyncStates
    /\ IsFiniteSet(p.slots)
    /\ \A s \in p.slots : s = [key |-> s.key, spool |-> s.spool]
    /\ {s.key : s \in p.slots} = Keys(p.top)

SoundRow(t, r) ==
    CASE t = "spools"   -> SoundSpoolRow(r)
      [] t = "printers" -> SoundPrinterRow(r)
      [] OTHER          -> r.name # ""

-------------------------------------------------------------------------------
(* Reading a file: printers as every version of the program wrote them.    *)

OldAms(p) == p.brand = "bambu" /\ p.kind = "ams"

(* The heads of a tool changer were its count.                             *)
DecodedHeads(p) ==
    IF p.kind = "tool_changer" THEN IF p.count \in Byte THEN p.count ELSE 1
    ELSE IF p.heads = Absent THEN 1 ELSE p.heads

Count(p) == IF p.count = Absent THEN 0 ELSE p.count

DecodedModule(p) ==
    CASE p.kind = "tool_changer" \/ OldAms(p) -> NoModule
      [] p.kind \in {"indx", "multi_colour"}  -> MultiSlot(Count(p))
      [] OTHER                                -> [kind |-> p.kind, slots |-> Count(p)]

DecodedUnits(p) ==
    IF p.units # Absent THEN p.units ELSE IF OldAms(p) THEN 1 ELSE 0

DecodedModes(p) ==
    IF p.modes # Absent THEN p.modes
    ELSE [h \in 1 .. DecodedHeads(p) |-> IF OldAms(p) THEN "ams_fed" ELSE "direct"]

(* Older Bambu printers had an external slot besides the trays of one AMS: *)
(* it becomes the head's own, or goes when the head is fed by the AMS (the *)
(* other slots keep their places in the list).                             *)
RenamedSlot(p, s) ==
    [key   |-> CASE OldAms(p) /\ s.key[1] = "ams"  -> <<"ams0", s.key[2]>>
                 [] ~OldAms(p) /\ s.key[1] = "ext" -> <<"head", 0>>
                 [] OTHER                          -> s.key,
     spool |-> s.spool]

(* Variant: the external slot of an AMS printer is kept.                   *)
DecodedSlotsKept(p) ==
    IF p.brand # "bambu" \/ p.units # Absent THEN p.slots
    ELSE [i \in DOMAIN p.slots |-> RenamedSlot(p, p.slots[i])]

DecodedSlots(p) ==
    IF p.brand # "bambu" \/ p.units # Absent THEN p.slots
    ELSE [i \in {j \in DOMAIN p.slots : ~(OldAms(p) /\ p.slots[j].key[1] = "ext")} |->
             RenamedSlot(p, p.slots[i])]

DecodedPrinter(p) ==
    [id |-> p.id, name |-> p.name,
     top |-> Topology(p.brand, p.model, DecodedHeads(p), DecodedModule(p),
                      DecodedUnits(p), DecodedModes(p)),
     sync |-> IF p.sync = Absent THEN "offline" ELSE p.sync,
     slots |-> DecodedSlots(p)]

Decode(file) ==
    [file EXCEPT !.printers = [i \in DOMAIN file.printers |-> DecodedPrinter(file.printers[i])]]

WrittenCount(module) == IF module.slots = 0 THEN Absent ELSE module.slots

(* Variant: written as before the AMS topology.                            *)
EncodedPrinterWithoutTopology(p) ==
    [id |-> p.id, name |-> p.name, brand |-> p.top.brand, model |-> p.top.model,
     heads |-> p.top.heads, kind |-> p.top.module.kind, count |-> WrittenCount(p.top.module),
     units |-> Absent, modes |-> Absent, sync |-> p.sync, slots |-> p.slots]

(* Writing one: nothing is left out, but the machine links.                *)
EncodedPrinter(p) ==
    [id |-> p.id, name |-> p.name, brand |-> p.top.brand, model |-> p.top.model,
     heads |-> p.top.heads, kind |-> p.top.module.kind, count |-> WrittenCount(p.top.module),
     units |-> p.top.units, modes |-> p.top.modes, sync |-> p.sync, slots |-> p.slots]

Encode(document) ==
    [document EXCEPT !.printers =
        [i \in DOMAIN document.printers |-> EncodedPrinter(document.printers[i])]]

-------------------------------------------------------------------------------
(* The printers that the program wrote into its files: this version, or    *)
(* those before it, as far as migrations 0011 and 0012 take them over and  *)
(* the present rules still admit the brand, the model and the number of    *)
(* heads or slots.                                                         *)

SlotKeys(p) == {p.slots[j].key : j \in DOMAIN p.slots}

WrittenNow(p) ==
    LET c == Topology(p.brand, p.model, p.heads, [kind |-> p.kind, slots |-> Count(p)],
                      p.units, p.modes)
    IN SoundTopology(c) /\ SlotKeys(p) = Keys(c)

(* What the versions before the AMS topology admitted of a brand, the      *)
(* number of heads being absent before there were several.                 *)
OneHead(p) == p.heads \in {Absent, 1}

OldForm(p) ==
    \/ p.kind = "ams" /\ p.brand = "bambu" /\ p.model = "plain" /\ p.count = Absent /\ OneHead(p)
    \/ p.kind = "tool_changer" /\ p.brand = "prusa" /\ p.model = "XL" /\ p.count \in {2, 5}
       /\ p.heads = Absent
    \/ p.kind \in {"indx", "multi_slot"} /\ p.brand = "prusa" /\ p.model = "CORE One"
       /\ p.count \in PrusaMultiSlotCounts /\ OneHead(p)
    \/ p.kind \in {"multi_colour", "multi_slot"} /\ p.brand = "other" /\ p.model = "plain"
       /\ p.count \in OtherSlotCounts /\ OneHead(p)
    \/ p.kind = "multi_slot" /\ p.brand = "bambu" /\ p.model = "H2C" /\ p.count = 7 /\ p.heads = 1
    \/ p.kind = "mmu" /\ p.brand = "prusa" /\ p.model \in {"CORE One", "plain"}
       /\ p.count = Absent /\ OneHead(p)
    \/ p.kind = "none" /\ p.brand \in DOMAIN Models /\ p.model \in Models[p.brand]
       /\ p.count = Absent
       /\ CASE p.model = "dual" -> p.heads = 2
            [] p.model = "XL"   -> p.heads \in XlHeadCounts
            [] OTHER            -> OneHead(p)

KeysUpTo(prefix, n) == {<<prefix, k>> : k \in 0 .. n - 1}

OldKeys(p) ==
    CASE p.kind = "ams"          -> {<<"ext", 0>>} \cup KeysUpTo("ams", 4)
      [] p.kind = "tool_changer" -> KeysUpTo("head", p.count)
      [] p.kind = "mmu"          -> KeysUpTo("mmu", 5)
      [] p.kind = "none" /\ p.heads \in {2, 5}    -> KeysUpTo("head", p.heads)
      [] p.kind = "none" /\ p.heads \notin {2, 5} ->
             {IF p.brand = "bambu" THEN <<"ext", 0>> ELSE <<"main", 0>>}
      [] OTHER -> KeysUpTo(IF p.brand = "prusa" THEN "indx" ELSE "multi", p.count)

WrittenBefore(p) ==
    p.units = Absent /\ p.modes = Absent /\ OldForm(p) /\ SlotKeys(p) = OldKeys(p)

-------------------------------------------------------------------------------
(* What the JSON reader takes for a file: every field there and of its     *)
(* type.  Texts, lists and numbers may be any.                             *)

FilePrinter(p) ==
    /\ p.heads \in Byte \cup {Absent} /\ p.units \in Byte \cup {Absent}
    /\ p.count \in TwoBytes \cup {Absent}
    /\ IsFiniteSet(DOMAIN p.slots)
    /\ p.slots = [j \in DOMAIN p.slots |->
                     [key |-> p.slots[j].key, spool |-> p.slots[j].spool]]

WellFormed(file) ==
    /\ file = [format |-> file.format, version |-> file.version,
               materials |-> file.materials, manufacturers |-> file.manufacturers,
               locations |-> file.locations, spools |-> file.spools,
               printers |-> file.printers, threshold |-> file.threshold]
    /\ \A t \in Tables : IsFiniteSet(DOMAIN file[t])
    /\ \A i \in DOMAIN file.spools :
           SpoolFields(file.spools[i]) /\ file.spools[i].net \in Int
    /\ \A i \in DOMAIN file.printers : FilePrinter(file.printers[i])

-------------------------------------------------------------------------------
(* InstanceDocument::validate.                                             *)

UniqueIds(list) == IsInjective([i \in DOMAIN list |-> list[i].id])
Named(list) == \A i \in DOMAIN list : list[i].name # ""

(* Variant: names are not compared.                                        *)
UniqueNamesUnchecked(list) == TRUE
UniqueNames(list) == IsInjective([i \in DOMAIN list |-> list[i].name])

SoundSpool(d, s) ==
    /\ s.material \in Ids(ToSet(d.materials))
    /\ s.location \in Ids(ToSet(d.locations)) \cup {NoRef}
    /\ s.manufacturer \in Ids(ToSet(d.manufacturers)) \cup {NoRef}
    /\ s.net > 0 /\ s.remaining \in 0 .. s.net
    /\ s.price >= 0
    /\ s.colour \in {"hex", "transparent", NoRef}

(* The loaded slots of a document, each by its place: which printer, which *)
(* slot.                                                                   *)
SpoolAt(d, at) == d.printers[at[1]].slots[at[2]].spool

Loaded(d) ==
    {at \in UNION {{i} \X DOMAIN d.printers[i].slots : i \in DOMAIN d.printers} :
        SpoolAt(d, at) # NoRef}

SoundPrinters(d) ==
    /\ UniqueIds(d.printers) /\ Named(d.printers)
    /\ \A i \in DOMAIN d.printers :
           LET slots == d.printers[i].slots
           IN IsInjective([j \in DOMAIN slots |-> slots[j].key])
    /\ \A at \in Loaded(d) : SpoolAt(d, at) \in Ids(ToSet(d.spools))
    /\ IsInjective([at \in Loaded(d) |-> SpoolAt(d, at)])

Validates(d) ==
    /\ d.format = Format /\ d.version = Version
    /\ d.threshold \in 0 .. 100
    /\ \A t \in Referentials : UniqueIds(d[t]) /\ Named(d[t])
    /\ UniqueNames(d.materials) /\ UniqueNames(d.manufacturers)
    /\ \A i \in DOMAIN d.materials : d.materials[i].density > 0
    /\ UniqueIds(d.spools)
    /\ \A i \in DOMAIN d.spools : SoundSpool(d, d.spools[i])
    /\ SoundPrinters(d)

-------------------------------------------------------------------------------
(* The schema: which rows may stand together in the database.              *)

IdsDiffer(rows) == \A r, q \in rows : r.id = q.id => r = q
NamesDiffer(rows) == \A r, q \in rows : r.name = q.name => r = q

SlotRows(printers) ==
    UNION {{<<p.id, s.key, s.spool>> : s \in p.slots} : p \in printers}

References(spools) ==
    [materials |-> {s.material : s \in spools},
     locations |-> {s.location : s \in spools} \ {NoRef},
     manufacturers |-> {s.manufacturer : s \in spools} \ {NoRef}]

(* Primary keys and unique names.                                          *)
KeysHold(c) ==
    /\ \A t \in Tables : IdsDiffer(c[t])
    /\ NamesDiffer(c.materials) /\ NamesDiffer(c.manufacturers)

(* Foreign keys.                                                           *)
RefsHold(c) == \A t \in Referentials : References(c.spools)[t] \subseteq Ids(c[t])

(* The checks on single columns: those of spools and materials, and those *)
(* of a printer, its AMS units and the feed modes of its heads.            *)
StockColumnsHold(c) ==
    /\ \A s \in c.spools : s.net > 0 /\ s.remaining >= 0
    /\ \A m \in c.materials : m.density > 0

PrinterColumnsHold(c) ==
    \A p \in c.printers :
        /\ p.top.heads >= 1 /\ p.top.units <= MaxAmsUnits
        /\ \A h \in DOMAIN p.top.modes : p.top.modes[h] \in ModeNames
        /\ p.sync \in SyncStates

(* The keys of the slots and the index on loaded spools.                   *)
SlotsHold(c) ==
    \A r, q \in SlotRows(c.printers) :
        /\ r[3] \in Ids(c.spools) \cup {NoRef}
        /\ r[1] = q[1] /\ r[2] = q[2] => r = q
        /\ r[3] = q[3] /\ r[3] # NoRef => r = q

FitsSchema(c) ==
    /\ KeysHold(c) /\ RefsHold(c) /\ SlotsHold(c)
    /\ StockColumnsHold(c) /\ PrinterColumnsHold(c)

-------------------------------------------------------------------------------
(* The list of printers: what it makes of the columns of a row, and which  *)
(* rows it can show.                                                       *)

(* Module::from_storage: the number of slots is cut to a byte.             *)
FromStorage(module) ==
    IF module.kind \in {"multi_slot", "indx", "multi_colour"} THEN MultiSlot(module.slots % 256)
    ELSE [kind |-> module.kind, slots |-> 0]

(* A printer without stored feed modes has direct heads.                   *)
ListedTopology(c) ==
    [c EXCEPT !.module = FromStorage(@),
              !.modes = IF @ = << >> THEN [h \in 1 .. c.heads |-> "direct"] ELSE @]

Listable(p) ==
    /\ p.name # "" /\ p.sync \in SyncStates /\ p.top.brand \in DOMAIN Models
    /\ Valid(ListedTopology(p.top))

-------------------------------------------------------------------------------
(* POST /settings/import: the fields of the form, in the order sent.       *)

FieldsNamed(fields, name) == {i \in DOMAIN fields : fields[i].name = name}

(* One backup of at most 1 MiB, and nothing else but confirmations, the    *)
(* last of which says yes.                                                 *)
Confirmed(fields) ==
    LET said == FieldsNamed(fields, "confirm_replace")
    IN \E i \in said : fields[i].value = "yes" /\ \A j \in said : j <= i

Acceptable(fields) ==
    /\ \A i \in DOMAIN fields : fields[i].name \in {"confirm_replace", "backup"}
    /\ Cardinality(FieldsNamed(fields, "backup")) = 1
    /\ \A i \in FieldsNamed(fields, "backup") : fields[i].size = "within 1 MiB"
    /\ Confirmed(fields)

Backup(fields) == fields[CHOOSE i \in FieldsNamed(fields, "backup") : TRUE].file
===============================================================================
