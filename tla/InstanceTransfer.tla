--------------------------- MODULE InstanceTransfer ---------------------------
(***************************************************************************)
(* Export and import of a whole instance while it is in use: the           *)
(* transactions of crates/app/src/persistence/instance_transfer.rs, the    *)
(* service that validates before and after them                            *)
(* (crates/domain/src/instance_transfer/usecases.rs) and the handlers of   *)
(* crates/app/src/web/settings.rs.                                         *)
(*                                                                         *)
(* An import runs at READ COMMITTED: each DELETE aims at the rows          *)
(* committed when it starts, waits for those another import has deleted,   *)
(* and keeps what it deletes locked; nobody sees the change before the     *)
(* commit.  What others commit meanwhile and no DELETE aims at stays.  An  *)
(* export reads table after table from one snapshot.                       *)
(*                                                                         *)
(* The other requests are atomic here: rows are added, a spool found       *)
(* earlier is saved, a slot is loaded, the threshold is set.  A request    *)
(* that waits for a lock is one that has not happened yet, or, once the    *)
(* row is gone, one that gives up.                                         *)
(***************************************************************************)
EXTENDS TransferDocuments

CONSTANTS
    Importers,   \* imports that may be under way at a time
    Initial,     \* the content of the instance at first
    Uploads,     \* the forms posted with a file that is not of this run
    Fresh,       \* by table, the rows other requests add, each with an id of its own
    Clients,     \* requests that have read a spool and not yet saved it
    MaxRequests, \* requests in all, a bound
    Thresholds, Unset, NoFile

ASSUME ContentAssumption ==
    /\ Initial = [f \in Tables \cup {"threshold", "links"} |-> Initial[f]]
    /\ FitsSchema(Initial) /\ Initial.links \subseteq Ids(Initial.printers)
    /\ Initial.threshold \in 0 .. 100 \cup {Unset} /\ Thresholds \subseteq 0 .. 100
    /\ \A t \in Tables :
           /\ Ids(Fresh[t]) \cap Ids(Initial[t]) = {}
           /\ IsFiniteSet(Initial[t])
           /\ \A r \in Initial[t] \cup Fresh[t] : SoundRow(t, r)

(* Uploaded files are what the JSON reader takes, of any content.          *)
ASSUME UploadsAssumption ==
    \A fields \in Uploads : Acceptable(fields) => WellFormed(Backup(fields))

VARIABLES
    db,        \* the committed rows by table, the threshold, the printers with a link
    imports,   \* the transaction of each import
    export,    \* the transaction of the export
    backup,    \* the file downloaded last
    copies,    \* the spools that requests hold a copy of
    requests   \* how many requests there have been

vars == <<db, imports, export, backup, copies, requests>>

Request == requests < MaxRequests /\ requests' = requests + 1

Idle == [pc |-> 0]

(* The DELETEs in their order; the INSERTs and the COMMIT come after.      *)
Deletes == <<"printer_slots", "printers", "spools", "materials", "locations",
             "manufacturers", "instance_configuration">>

NoIds == [t \in Tables |-> {}]
Running(i) == imports[i].pc # 0

(* Row locks: what imports other than i have deleted and not committed.    *)
LockedFor(i, t) == UNION {imports[j].gone[t] : j \in {k \in Importers \ {i} : Running(k)}}
Locked(t) == UNION {imports[j].gone[t] : j \in {k \in Importers : Running(k)}}
SlotsLocked == UNION {imports[j].slots : j \in {k \in Importers : Running(k)}}
ThresholdLocked == \E j \in Importers : Running(j) /\ imports[j].threshold

Row(t, id) == CHOOSE r \in db[t] : r.id = id

Init ==
    /\ db = Initial
    /\ imports = [i \in Importers |-> Idle]
    /\ export = Idle
    /\ backup = NoFile
    /\ copies = [c \in Clients |-> NoRef]
    /\ requests = 0

-------------------------------------------------------------------------------
(* POST /settings/import: the form is read, its file decoded and validated *)
(* before the transaction begins.                                          *)

OwnUpload == <<[name |-> "confirm_replace", value |-> "yes"],
               [name |-> "backup", size |-> "within 1 MiB", file |-> backup]>>

Begun(d) ==
    [pc |-> 1, doc |-> d, aimed |-> FALSE, aim |-> {}, gone |-> NoIds, slots |-> {},
     threshold |-> FALSE, since |-> [t \in Tables |-> Ids(db[t])]]

BeginImport(i, fields) ==
    /\ Request
    /\ ~Running(i)
    /\ Acceptable(fields) /\ Backup(fields) # NoFile
    /\ LET d == Decode(Backup(fields))
       IN Validates(d) /\ imports' = [imports EXCEPT ![i] = Begun(d)]
    /\ UNCHANGED <<db, export, backup, copies>>

(* The table a statement deletes from, and the ids of the rows it aims at: *)
(* slots go by their printer, the configuration is a row of its own.       *)
Statement(i) == Deletes[imports[i].pc]

Aimed(i) ==
    CASE Statement(i) \in Tables        -> Ids(db[Statement(i)])
      [] Statement(i) = "printer_slots" -> Ids(db.printers)
      [] OTHER                          -> {}

Aim(i) ==
    /\ Running(i) /\ imports[i].pc <= Len(Deletes) /\ ~imports[i].aimed
    /\ imports' = [imports EXCEPT ![i] = [@ EXCEPT !.aimed = TRUE, !.aim = Aimed(i)]]
    /\ UNCHANGED <<db, export, backup, copies, requests>>

(* A DELETE of rows that spools left behind refer to is refused.           *)
StillReferred(i, t) ==
    t \in Referentials /\
    References({s \in db.spools : s.id \notin imports[i].gone.spools})[t] \cap imports[i].aim # {}

Advanced(i) == [imports[i] EXCEPT !.pc = @ + 1, !.aimed = FALSE, !.aim = {}]

(* Variant: locations are left alone.                                      *)
DeleteButLocations(i) ==
    LET t == Statement(i) IN
    /\ Running(i) /\ imports[i].aimed
    /\ ~StillReferred(i, t)
    /\ imports' = [imports EXCEPT ![i] =
         CASE t = "locations" -> Advanced(i)
           [] t \in Tables \ {"locations"} -> [Advanced(i) EXCEPT !.gone[t] = imports[i].aim]
           [] t = "printer_slots" -> [Advanced(i) EXCEPT !.slots = imports[i].aim]
           [] OTHER -> [Advanced(i) EXCEPT !.threshold = db.threshold # Unset]]
    /\ UNCHANGED <<db, export, backup, copies, requests>>

Delete(i) ==
    LET t == Statement(i) IN
    /\ Running(i) /\ imports[i].aimed
    /\ CASE t \in Tables            -> imports[i].aim \cap LockedFor(i, t) = {} /\ ~StillReferred(i, t)
         [] t = "printer_slots"     -> imports[i].aim \cap SlotsLocked = {}
         [] OTHER                   -> ~ThresholdLocked
    /\ imports' = [imports EXCEPT ![i] =
         CASE t \in Tables        -> [Advanced(i) EXCEPT !.gone[t] = imports[i].aim]
           [] t = "printer_slots" -> [Advanced(i) EXCEPT !.slots = imports[i].aim]
           [] OTHER               -> [Advanced(i) EXCEPT !.threshold = db.threshold # Unset]]
    /\ UNCHANGED <<db, export, backup, copies, requests>>

(* A printer and its slots, and what the deletes of i leave of it: a slot  *)
(* that held a deleted spool is empty.                                     *)
WithSlots(p, slots) ==
    [id |-> p.id, name |-> p.name, top |-> p.top, sync |-> p.sync, slots |-> slots]

Holding(s, spool) == [key |-> s.key, spool |-> spool]

Emptied(p, spools) ==
    WithSlots(p, {Holding(s, IF s.spool \in spools THEN NoRef ELSE s.spool) : s \in p.slots})

Left(i, t) ==
    LET rows == {r \in db[t] : r.id \notin imports[i].gone[t]} IN
    IF t # "printers" THEN rows
    ELSE {Emptied(p, imports[i].gone.spools) : p \in rows}

Inserted(i, t) ==
    LET rows == ToSet(imports[i].doc[t]) IN
    IF t # "printers" THEN rows ELSE {WithSlots(p, ToSet(p.slots)) : p \in rows}

Replaced(i, t) == Left(i, t) \cup Inserted(i, t)

Result(i) ==
    [materials     |-> Replaced(i, "materials"),
     manufacturers |-> Replaced(i, "manufacturers"),
     locations     |-> Replaced(i, "locations"),
     spools        |-> Replaced(i, "spools"),
     printers      |-> Replaced(i, "printers"),
     threshold     |-> imports[i].doc.threshold,
     links         |-> db.links \ imports[i].gone.printers]

(* A row of the document that the schema refuses by itself; a row left     *)
(* behind with the id or the name of one to insert; a threshold saved      *)
(* where there was none.                                                   *)
Conflicts(i) ==
    \/ ~FitsSchema([t \in Tables |-> Inserted(i, t)])
    \/ \E t \in Tables : Ids(Left(i, t)) \cap Ids(Inserted(i, t)) # {}
    \/ ~NamesDiffer(Result(i).materials) \/ ~NamesDiffer(Result(i).manufacturers)
    \/ db.threshold # Unset /\ ~imports[i].threshold

(* Of the rows j is aiming at, those that i has deleted.                   *)
TakenFrom(j, i) ==
    CASE imports[j].pc > Len(Deletes)   -> {}
      [] Statement(j) \in Tables        -> imports[i].gone[Statement(j)]
      [] Statement(j) = "printer_slots" -> imports[i].slots
      [] OTHER                          -> {}

(* Rows an import replaces are other rows for whoever was aiming at them.  *)
Overtaken(j, i) ==
    [imports[j] EXCEPT !.aim = @ \ TakenFrom(j, i),
                       !.since = [t \in Tables |-> @[t] \ imports[i].gone[t]]]

Commit(i) ==
    /\ imports[i].pc = Len(Deletes) + 1
    /\ ~Conflicts(i)
    /\ db' = Result(i)
    /\ imports' = [j \in Importers |->
                      IF j # i /\ Running(j) THEN Overtaken(j, i) ELSE Idle]
    /\ UNCHANGED <<export, backup, copies, requests>>

(* An error of a statement, or of the connection: everything is rolled     *)
(* back.                                                                   *)
Abort(i) ==
    /\ Running(i)
    /\ imports' = [imports EXCEPT ![i] = Idle]
    /\ UNCHANGED <<db, export, backup, copies, requests>>

-------------------------------------------------------------------------------
(* GET /settings/export.                                                   *)

Reads == <<"materials", "manufacturers", "locations", "spools", "printers">>

BeginExport ==
    /\ Request
    /\ export.pc = 0
    /\ export' = [pc |-> 1, snapshot |-> db, read |-> [t \in Tables |-> {}]]
    /\ UNCHANGED <<db, imports, backup, copies>>

(* Variant: every query sees what is committed when it runs.               *)
ReadCommitted ==
    /\ export.pc \in DOMAIN Reads
    /\ export' = [export EXCEPT !.pc = @ + 1, !.read[Reads[export.pc]] = db[Reads[export.pc]]]
    /\ UNCHANGED <<db, imports, backup, copies, requests>>

(* REPEATABLE READ: every query sees the snapshot.                         *)
ReadTable ==
    /\ export.pc \in DOMAIN Reads
    /\ export' = [export EXCEPT !.pc = @ + 1,
                                !.read[Reads[export.pc]] = export.snapshot[Reads[export.pc]]]
    /\ UNCHANGED <<db, imports, backup, copies, requests>>

Listed(t, rows) ==
    SetToSeq(IF t # "printers" THEN rows ELSE {WithSlots(p, SetToSeq(p.slots)) : p \in rows})

DefaultThreshold == 15

Exported ==
    [format |-> Format, version |-> Version,
     materials     |-> Listed("materials", export.read.materials),
     manufacturers |-> Listed("manufacturers", export.read.manufacturers),
     locations     |-> Listed("locations", export.read.locations),
     spools        |-> Listed("spools", export.read.spools),
     printers      |-> Listed("printers", export.read.printers),
     threshold     |-> IF export.snapshot.threshold = Unset THEN DefaultThreshold
                       ELSE export.snapshot.threshold]

FinishExport ==
    /\ export.pc = Len(Reads) + 1
    /\ Validates(Exported)
    /\ backup' = Encode(Exported)
    /\ export' = Idle
    /\ UNCHANGED <<db, imports, copies, requests>>

-------------------------------------------------------------------------------
(* The other requests.                                                     *)

(* Variant: a reference is looked up without a lock on the row.            *)
AddUnlocked(t, r) ==
    /\ Request
    /\ r.id \notin Ids(db[t]) \cup UNION {imports[i].since[t] : i \in {j \in Importers : Running(j)}}
    /\ LET new == [db EXCEPT ![t] = @ \cup {r}]
       IN FitsSchema(new) /\ db' = new
    /\ UNCHANGED <<imports, export, backup, copies>>

(* A new row waits for the locked rows it refers to, or takes a name from. *)
(* Its id is fresh: it comes back only once no import remembers it.        *)
Add(t, r) ==
    /\ Request
    /\ r.id \notin Ids(db[t]) \cup UNION {imports[i].since[t] : i \in {j \in Importers : Running(j)}}
    /\ t = "spools" => \A u \in Referentials : References({r})[u] \cap Locked(u) = {}
    /\ LET new == [db EXCEPT ![t] = @ \cup {r}]
       IN FitsSchema(new) /\ db' = new
    /\ UNCHANGED <<imports, export, backup, copies>>

Find(c, id) ==
    /\ Request
    /\ copies[c] = NoRef /\ id \in Ids(db.spools)
    /\ copies' = [copies EXCEPT ![c] = Row("spools", id)]
    /\ UNCHANGED <<db, imports, export, backup>>

(* The whole row is written back, one gram lighter.                        *)
Save(c) ==
    LET s == [copies[c] EXCEPT !.remaining = IF @ > 0 THEN @ - 1 ELSE 0] IN
    /\ copies[c] # NoRef
    /\ s.id \in Ids(db.spools) \ Locked("spools")
    /\ \A u \in Referentials :
           References({s})[u] # References({Row("spools", s.id)})[u] =>
               References({s})[u] \cap Locked(u) = {}
    /\ LET new == [db EXCEPT !.spools = (@ \ {Row("spools", s.id)}) \cup {s}]
       IN FitsSchema(new) /\ db' = new
    /\ copies' = [copies EXCEPT ![c] = NoRef]
    /\ UNCHANGED <<imports, export, backup, requests>>

(* The spool is not found any more, or what it refers to is not.           *)
GiveUp(c) ==
    /\ copies[c] # NoRef
    /\ copies' = [copies EXCEPT ![c] = NoRef]
    /\ UNCHANGED <<db, imports, export, backup, requests>>

Load(p, key, id) ==
    /\ Request
    /\ p \in Ids(db.printers) \ (SlotsLocked \cup Locked("printers"))
    /\ id \in Ids(db.spools) \ Locked("spools")
    /\ \A q \in db.printers : id \in {s.spool : s \in q.slots} => q.id \notin SlotsLocked
    /\ key \in {s.key : s \in Row("printers", p).slots}
    /\ db' = [db EXCEPT !.printers =
         {WithSlots(q, {Holding(s, IF q.id = p /\ s.key = key THEN id
                                   ELSE IF s.spool = id THEN NoRef
                                   ELSE s.spool) : s \in q.slots}) : q \in @}]
    /\ UNCHANGED <<imports, export, backup, copies>>

SetLink(p) ==
    /\ Request
    /\ p \in Ids(db.printers) \ (Locked("printers") \cup SlotsLocked)
    /\ db' = [db EXCEPT !.links = @ \cup {p}]
    /\ UNCHANGED <<imports, export, backup, copies>>

SetThreshold(n) ==
    /\ Request
    /\ ~ThresholdLocked
    /\ db' = [db EXCEPT !.threshold = n]
    /\ UNCHANGED <<imports, export, backup, copies>>

-------------------------------------------------------------------------------

AllSlotKeys == UNION {{s.key : s \in p.slots} : p \in db.printers}

Others ==
    \/ \E t \in Tables : \E r \in Fresh[t] : Add(t, r)
    \/ \E c \in Clients : (\E id \in Ids(db.spools) : Find(c, id)) \/ Save(c) \/ GiveUp(c)
    \/ \E p \in Ids(db.printers), id \in Ids(db.spools) : \E k \in AllSlotKeys : Load(p, k, id)
    \/ \E p \in Ids(db.printers) : SetLink(p)
    \/ \E n \in Thresholds : SetThreshold(n)

Next ==
    \/ \E i \in Importers :
           \/ \E fields \in Uploads \cup {OwnUpload} : BeginImport(i, fields)
           \/ Aim(i) \/ Delete(i) \/ Commit(i) \/ Abort(i)
    \/ BeginExport \/ ReadTable \/ FinishExport
    \/ Others

Spec == Init /\ [][Next]_vars

-------------------------------------------------------------------------------

(* Keys, references, unique names and single loads hold in every committed *)
(* state, whatever is added while an import has deleted half the tables;   *)
(* links belong to printers that exist.                                    *)
SchemaHolds == FitsSchema(db) /\ db.links \subseteq Ids(db.printers)

(* What validate() accepts (model.rs:199) the schema accepts too, but for  *)
(* the columns of a printer, which only the database checks: ids, names,   *)
(* references, weights and loads of an accepted file never fail an INSERT  *)
(* after everything was deleted, unless over rows that others added.  With *)
(* the columns of a printer it would be false: more than four AMS units, no*)
(* heads, a feed mode or a sync state there is not pass, although          *)
(* docs/security/accepted-risks.md:16 has the import validate the schema   *)
(* "before touching the DB"; SchemaHolds shows that they are not stored.   *)
AcceptedFits ==
    \A i \in Importers : Running(i) =>
        LET c == [t \in Tables |-> Inserted(i, t)] IN
        /\ KeysHold(c) /\ RefsHold(c) /\ SlotsHold(c) /\ StockColumnsHold(c)
        /\ \A t \in Tables : IsInjective(imports[i].doc[t])

(* What a list of printers sees of one.                                    *)
Shape(top, keys) == [top |-> top, keys |-> keys]

(* The printers of uploads that no version of the program wrote, or that   *)
(* an earlier one wrote in a form the present rules do not admit, as they  *)
(* are read.                                                               *)
OddShapes ==
    {Shape(DecodedPrinter(p).top, SlotKeys(DecodedPrinter(p))) :
        p \in {q \in UNION {ToSet(Backup(fields).printers) :
                            fields \in {f \in Uploads : Acceptable(f) /\ Backup(f) # NoFile}} :
                  ~WrittenNow(q) /\ ~WrittenBefore(q)}}

(* A printer the list can show (persistence/printers.rs:218 validates each *)
(* row and derives its slots), with exactly the slots it derives.          *)
ListsWhole(p) ==
    Listable(p) /\ {s.key : s \in p.slots} = Keys(ListedTopology(p.top))

(* Whatever is imported, renamed or reloaded meanwhile, printers of files  *)
(* that this version wrote, and of older files in the forms that are taken *)
(* over, list with all their slots.  Only printers of another form may     *)
(* fail: validate() lets those in as they are, and some of them are of     *)
(* forms an earlier version had (docs/specs/15a-printers-core.md:39) and   *)
(* docs/specs/16-printer-heads.md:127 has arrive.                          *)
ImportedPrintersList ==
    \A p \in db.printers :
        ListsWhole(p) \/ Shape(p.top, {s.key : s \in p.slots}) \in OddShapes

(* An export always has a consistent document to write: its service        *)
(* validates what it read (usecases.rs:24) and must not refuse it because  *)
(* rows were added or an import was committed while it was reading.        *)
ExportsValidate == export.pc = Len(Reads) + 1 => Validates(Exported)

(* A file reads back as the content that was exported.                     *)
ExportsReadBack == [][backup' # backup => Decode(backup') = Exported]_backup

(* A committed import leaves the content of its file, and besides it only  *)
(* rows that others added after it began: nothing that was there before,   *)
(* and no machine link of a printer of the same id.                        *)
ImportsReplace ==
    [][\A i \in Importers : Commit(i) =>
         /\ \A t \in Tables :
                /\ Inserted(i, t) \subseteq db'[t]
                /\ Ids(db'[t] \ Inserted(i, t)) \cap imports[i].since[t] = {}
         /\ db'.links \cap Ids(Inserted(i, "printers")) = {}
         /\ db'.threshold = imports[i].doc.threshold]_vars
===============================================================================
