------------------------ MODULE InstanceTransferProofs ------------------------
(***************************************************************************)
(* Theorems about InstanceTransfer: for every number of imports and of     *)
(* requests, whatever the content of the instance, an import never breaks  *)
(* the schema and leaves the content of its file; what a file accepted     *)
(* holds the schema accepts, but for the columns of a printer; printers    *)
(* imported in a form of this version or taken over from an older one can  *)
(* be listed; every export is valid, and its file reads back as what was   *)
(* exported.                                                               *)
(*                                                                         *)
(* Two inductive invariants carry them: IInv, of the rows and of what the  *)
(* imports have deleted and hold locked, and ContentInv, of the rows as    *)
(* the program writes them, the documents and the files.                   *)
(***************************************************************************)
EXTENDS InstanceTransfer, FiniteSetTheorems, SequenceTheorems, TLAPS

-------------------------------------------------------------------------------
(* The inductive invariant.                                                *)

Fields == Tables \cup {"threshold", "links"}

(* Where a table stands among the DELETEs.                                 *)
Turn == [printers |-> 2, spools |-> 3, materials |-> 4, locations |-> 5, manufacturers |-> 6]

(* Of a table an import has aimed at or deleted from, it has everything    *)
(* that was there when it began and is there yet; it deletes what is there.*)
TableWell(m, c, t) ==
    /\ m.gone[t] \subseteq Ids(c[t]) /\ m.since[t] \subseteq Ids(c[t])
    /\ m.pc <= Turn[t] => m.gone[t] = {}
    /\ m.pc = Turn[t] /\ m.aimed => m.aim \subseteq Ids(c[t]) /\ m.since[t] \subseteq m.aim
    /\ m.pc > Turn[t] => m.since[t] \subseteq m.gone[t]

(* No spool an import leaves refers to a row it has deleted.               *)
NoneRefers(m, c) ==
    \A s \in c.spools : s.id \notin m.gone.spools =>
        s.material \notin m.gone.materials
        /\ (s.location # NoRef => s.location \notin m.gone.locations)
        /\ (s.manufacturer # NoRef => s.manufacturer \notin m.gone.manufacturers)

ImportWell(m, c) ==
    /\ m = [pc |-> m.pc, doc |-> m.doc, aimed |-> m.aimed, aim |-> m.aim, gone |-> m.gone,
            slots |-> m.slots, threshold |-> m.threshold, since |-> m.since]
    /\ m.pc \in 1 .. 8 /\ (m.aimed => m.pc # 8)
    /\ m.gone = [t \in Tables |-> m.gone[t]] /\ m.since = [t \in Tables |-> m.since[t]]
    /\ \A t \in Tables : TableWell(m, c, t)
    /\ NoneRefers(m, c)

(* A row is locked by one import.                                          *)
Apart ==
    \A i, j \in Importers : i # j /\ Running(i) /\ Running(j) =>
        \A t \in Tables : imports[i].gone[t] \cap imports[j].gone[t] = {}

IInv ==
    /\ db = [f \in Fields |-> db[f]]
    /\ SchemaHolds
    /\ imports = [i \in Importers |-> imports[i]]
    /\ \A i \in Importers : Running(i) => ImportWell(imports[i], db)
    /\ \A i \in Importers : ~Running(i) => imports[i] = Idle
    /\ Apart

-------------------------------------------------------------------------------
(* Lemmas on rows.                                                         *)

LEMMA DeletesAre ==
    /\ Len(Deletes) = 7 /\ Deletes[1] \notin Tables /\ Deletes[7] \notin Tables
    /\ \A pc \in 1 .. 7 : Deletes[pc] \in Tables => pc = Turn[Deletes[pc]]
    /\ \A t \in Tables : Turn[t] \in 2 .. 6 /\ Deletes[Turn[t]] = t
  BY DEF Deletes, Tables, Referentials, Turn

LEMMA WithSlotsIs ==
    ASSUME NEW p, NEW slots
    PROVE  /\ WithSlots(p, slots).id = p.id /\ WithSlots(p, slots).name = p.name
           /\ WithSlots(p, slots).top = p.top /\ WithSlots(p, slots).slots = slots
           /\ WithSlots(p, slots).sync = p.sync
  BY DEF WithSlots

LEMMA EmptiedIs ==
    ASSUME NEW p, NEW spools
    PROVE  /\ Emptied(p, spools).id = p.id /\ Emptied(p, spools).top = p.top
           /\ Emptied(p, spools).sync = p.sync
           /\ \A s \in Emptied(p, spools).slots : \E was \in p.slots :
                 /\ s.key = was.key
                 /\ s.spool = IF was.spool \in spools THEN NoRef ELSE was.spool
  BY WithSlotsIs DEF Emptied, Holding

LEMMA SlotRowsAre ==
    ASSUME NEW printers, NEW r \in SlotRows(printers)
    PROVE  \E p \in printers : \E s \in p.slots : r = <<p.id, s.key, s.spool>>
  BY DEF SlotRows

LEMMA RowsOfSlots ==
    ASSUME NEW printers, NEW p \in printers, NEW s \in p.slots
    PROVE  <<p.id, s.key, s.spool>> \in SlotRows(printers)
  BY DEF SlotRows

(* What an import leaves are rows that are there and that it has not       *)
(* deleted, printers with some slots emptied.                              *)
LEMMA LeftAre ==
    ASSUME NEW i, NEW t \in Tables
    PROVE  /\ \A r \in Left(i, t) : \E was \in db[t] :
                 /\ was.id \notin imports[i].gone[t] /\ r.id = was.id
                 /\ IF t = "printers" THEN r = Emptied(was, imports[i].gone.spools)
                                      ELSE r = was
           /\ Ids(Left(i, t)) = Ids(db[t]) \ imports[i].gone[t]
  <1>1. CASE t = "printers"
    <2>1. Left(i, t) = {Emptied(p, imports[i].gone.spools) :
                           p \in {q \in db[t] : q.id \notin imports[i].gone[t]}}
      BY <1>1 DEF Left
    <2>2. \A p : Emptied(p, imports[i].gone.spools).id = p.id
      BY EmptiedIs
    <2> QED BY <1>1, <2>1, <2>2 DEF Ids
  <1>2. CASE t # "printers"
    BY <1>2 DEF Left, Ids
  <1> QED BY <1>1, <1>2

LEMMA ResultIs ==
    ASSUME NEW i
    PROVE  /\ \A t \in Tables : Result(i)[t] = Left(i, t) \cup Inserted(i, t)
           /\ Result(i).links = db.links \ imports[i].gone.printers
           /\ Result(i).threshold = imports[i].doc.threshold
           /\ Result(i) = [f \in Fields |-> Result(i)[f]]
  <1>1. \A t \in Tables : Result(i)[t] = Left(i, t) \cup Inserted(i, t)
    BY DEF Result, Replaced, Tables, Referentials
  <1>2. /\ Result(i).links = db.links \ imports[i].gone.printers
        /\ Result(i).threshold = imports[i].doc.threshold
    BY DEF Result
  <1>3. DOMAIN Result(i) = Fields
    BY DEF Result, Tables, Referentials, Fields
  <1>4. Result(i) = [f \in DOMAIN Result(i) |-> Result(i)[f]]
    BY DEF Result
  <1> QED BY <1>1, <1>2, <1>3, <1>4

LEMMA IdsOfUnion ==
    ASSUME NEW S, NEW T
    PROVE  Ids(S \cup T) = Ids(S) \cup Ids(T)
  BY DEF Ids

LEMMA SameTablesFit ==
    ASSUME NEW c, NEW d, FitsSchema(c), \A t \in Tables : d[t] = c[t]
    PROVE  FitsSchema(d)
  <1>1. /\ d.materials = c.materials /\ d.manufacturers = c.manufacturers
        /\ d.spools = c.spools /\ d.printers = c.printers
    BY DEF Tables, Referentials
  <1>2. KeysHold(d)
    BY <1>1 DEF FitsSchema, KeysHold
  <1>3. RefsHold(d)
    BY <1>1 DEF FitsSchema, RefsHold, Tables
  <1> QED BY <1>1, <1>2, <1>3 DEF FitsSchema, StockColumnsHold, PrinterColumnsHold, SlotsHold

(* The commit of an import: rows left and rows inserted stand together.    *)
LEMMA CommitFits ==
    ASSUME NEW i \in Importers, FitsSchema(db), db.links \subseteq Ids(db.printers),
           ImportWell(imports[i], db), ~Conflicts(i)
    PROVE  FitsSchema(Result(i)) /\ Result(i).links \subseteq Ids(Result(i).printers)
  <1> DEFINE m == imports[i]
             res == Result(i)
             ins == [t \in Tables |-> Inserted(i, t)]
  <1>1. /\ \A t \in Tables : res[t] = Left(i, t) \cup Inserted(i, t)
        /\ res.links = db.links \ m.gone.printers
    BY ResultIs
  <1>2. /\ FitsSchema(ins)
        /\ \A t \in Tables : Ids(Left(i, t)) \cap Ids(Inserted(i, t)) = {}
        /\ NamesDiffer(res.materials) /\ NamesDiffer(res.manufacturers)
    BY DEF Conflicts
  <1>3. \A t \in Tables : ins[t] = Inserted(i, t)
    OBVIOUS
  <1> HIDE DEF m, res, ins
  <1>4. \A t \in Tables : Ids(res[t]) = Ids(Left(i, t)) \cup Ids(Inserted(i, t))
    BY <1>1, IdsOfUnion
  <1>5. KeysHold(res)
    <2> SUFFICES ASSUME NEW t \in Tables, NEW r \in res[t], NEW q \in res[t], r.id = q.id
                 PROVE  r = q
      BY <1>2 DEF KeysHold, IdsDiffer
    <2>1. r \in Left(i, t) => r.id \in Ids(Left(i, t))
      BY DEF Ids
    <2>2. q \in Left(i, t) => q.id \in Ids(Left(i, t))
      BY DEF Ids
    <2>3. r \in Inserted(i, t) => r.id \in Ids(Inserted(i, t))
      BY DEF Ids
    <2>4. q \in Inserted(i, t) => q.id \in Ids(Inserted(i, t))
      BY DEF Ids
    <2>5. CASE r \in Left(i, t) /\ q \in Left(i, t)
      <3>1. PICK r0 \in db[t] : r.id = r0.id /\ IF t = "printers"
                                   THEN r = Emptied(r0, m.gone.spools) ELSE r = r0
        BY <2>5, LeftAre DEF m
      <3>2. PICK q0 \in db[t] : q.id = q0.id /\ IF t = "printers"
                                   THEN q = Emptied(q0, m.gone.spools) ELSE q = q0
        BY <2>5, LeftAre DEF m
      <3>3. r0 = q0
        BY <3>1, <3>2 DEF FitsSchema, KeysHold, IdsDiffer
      <3> QED BY <3>1, <3>2, <3>3
    <2>6. CASE r \in Inserted(i, t) /\ q \in Inserted(i, t)
      BY <1>2, <1>3, <2>6 DEF FitsSchema, KeysHold, IdsDiffer
    <2> QED BY <1>1, <1>2, <2>1, <2>2, <2>3, <2>4, <2>5, <2>6
  <1>6. RefsHold(res)
    <2>1. ASSUME NEW s \in Left(i, "spools")
          PROVE  /\ s \in db.spools /\ s.material \in Ids(Left(i, "materials"))
                 /\ s.location # NoRef => s.location \in Ids(Left(i, "locations"))
                 /\ s.manufacturer # NoRef => s.manufacturer \in Ids(Left(i, "manufacturers"))
      <3>1. s \in db.spools /\ s.id \notin m.gone.spools
        BY LeftAre DEF m, Tables
      <3>2. /\ s.material \in Ids(db.materials)
            /\ s.location # NoRef => s.location \in Ids(db.locations)
            /\ s.manufacturer # NoRef => s.manufacturer \in Ids(db.manufacturers)
        BY <3>1 DEF FitsSchema, RefsHold, References, Referentials
      <3> QED BY <3>1, <3>2, LeftAre DEF ImportWell, NoneRefers, m, Tables, Referentials
    <2>2. ASSUME NEW s \in Inserted(i, "spools")
          PROVE  /\ s.material \in Ids(Inserted(i, "materials"))
                 /\ s.location # NoRef => s.location \in Ids(Inserted(i, "locations"))
                 /\ s.manufacturer # NoRef => s.manufacturer \in Ids(Inserted(i, "manufacturers"))
      BY <1>2, <1>3 DEF FitsSchema, RefsHold, References, Referentials, Tables
    <2>3. ASSUME NEW s \in res.spools
          PROVE  /\ s.material \in Ids(res.materials)
                 /\ s.location # NoRef => s.location \in Ids(res.locations)
                 /\ s.manufacturer # NoRef => s.manufacturer \in Ids(res.manufacturers)
      BY <1>1, <1>4, <2>1, <2>2 DEF Tables, Referentials
    <2> QED BY <2>3 DEF RefsHold, References, Referentials
  <1>7. StockColumnsHold(res) /\ PrinterColumnsHold(res)
    <2>1. ASSUME NEW s \in res.spools PROVE s.net > 0 /\ s.remaining >= 0
      <3>1. s \in db.spools \/ s \in ins.spools
        BY <1>1, <1>3, LeftAre DEF Tables
      <3> QED BY <1>2, <3>1 DEF FitsSchema, StockColumnsHold
    <2>2. ASSUME NEW r \in res.materials PROVE r.density > 0
      <3>1. r \in db.materials \/ r \in ins.materials
        BY <1>1, <1>3, LeftAre DEF Tables, Referentials
      <3> QED BY <1>2, <3>1 DEF FitsSchema, StockColumnsHold
    <2>3. ASSUME NEW p \in res.printers
          PROVE  /\ p.top.heads >= 1 /\ p.top.units <= MaxAmsUnits
                 /\ \A h \in DOMAIN p.top.modes : p.top.modes[h] \in ModeNames
                 /\ p.sync \in SyncStates
      <3>1. \E q : (q \in db.printers \/ q \in ins.printers) /\ p.top = q.top /\ p.sync = q.sync
        BY <1>1, <1>3, LeftAre, EmptiedIs DEF Tables
      <3> QED BY <1>2, <3>1 DEF FitsSchema, PrinterColumnsHold
    <2> QED BY <2>1, <2>2, <2>3 DEF StockColumnsHold, PrinterColumnsHold
  <1>8. SlotsHold(res)
    <2>1. ASSUME NEW p \in Left(i, "printers"), NEW s \in p.slots
          PROVE  \E was \in SlotRows(db.printers) :
                    /\ was[1] = p.id /\ was[2] = s.key
                    /\ s.spool = IF was[3] \in m.gone.spools THEN NoRef ELSE was[3]
      <3>1. PICK q \in db.printers : p.id = q.id /\ p = Emptied(q, m.gone.spools)
        BY LeftAre DEF m, Tables
      <3>2. PICK k \in q.slots : /\ s.key = k.key
                                 /\ s.spool = IF k.spool \in m.gone.spools THEN NoRef ELSE k.spool
        BY <3>1, EmptiedIs
      <3>3. <<q.id, k.key, k.spool>> \in SlotRows(db.printers)
        BY RowsOfSlots
      <3> QED BY <3>1, <3>2, <3>3
    <2> DEFINE L == SlotRows(Left(i, "printers"))
               N == SlotRows(Inserted(i, "printers"))
    <2>2. \A r \in SlotRows(res.printers) : r \in L \/ r \in N
      BY <1>1 DEF SlotRows, Tables
    <2>3. ASSUME NEW r \in L
          PROVE  /\ r[1] \in Ids(Left(i, "printers"))
                 /\ r = <<r[1], r[2], r[3]>>
                 /\ \E was \in SlotRows(db.printers) :
                       /\ was[1] = r[1] /\ was[2] = r[2]
                       /\ r[3] = IF was[3] \in m.gone.spools THEN NoRef ELSE was[3]
      <3>1. PICK p \in Left(i, "printers") : \E s \in p.slots : r = <<p.id, s.key, s.spool>>
        BY SlotRowsAre
      <3>2. PICK s \in p.slots : r = <<p.id, s.key, s.spool>>
        BY <3>1
      <3>3. p.id \in Ids(Left(i, "printers"))
        BY DEF Ids
      <3>4. r[1] = p.id /\ r[2] = s.key /\ r[3] = s.spool
        BY <3>2
      <3> QED BY <2>1, <3>2, <3>3, <3>4
    <2>4. ASSUME NEW r \in N
          PROVE  r[1] \in Ids(Inserted(i, "printers")) /\ r[3] \in Ids(Inserted(i, "spools")) \cup {NoRef}
      <3>1. r[3] \in Ids(ins.spools) \cup {NoRef}
        BY <1>2, <1>3 DEF FitsSchema, SlotsHold, Tables
      <3>2. PICK p \in Inserted(i, "printers") : \E s \in p.slots : r = <<p.id, s.key, s.spool>>
        BY SlotRowsAre
      <3>3. r[1] = p.id /\ p.id \in Ids(Inserted(i, "printers"))
        BY <3>2 DEF Ids
      <3> QED BY <1>3, <3>1, <3>3 DEF Tables
    <2>5. ASSUME NEW r \in L
          PROVE  r[3] \in Ids(Left(i, "spools")) \cup {NoRef}
      <3>1. PICK was \in SlotRows(db.printers) :
               r[3] = IF was[3] \in m.gone.spools THEN NoRef ELSE was[3]
        BY <2>3
      <3>2. was[3] \in Ids(db.spools) \cup {NoRef}
        BY DEF FitsSchema, SlotsHold
      <3> QED BY <3>1, <3>2, LeftAre DEF m, Tables
    <2> SUFFICES ASSUME NEW r \in SlotRows(res.printers), NEW q \in SlotRows(res.printers)
                 PROVE  /\ r[3] \in Ids(res.spools) \cup {NoRef}
                        /\ r[1] = q[1] /\ r[2] = q[2] => r = q
                        /\ r[3] = q[3] /\ r[3] # NoRef => r = q
      BY DEF SlotsHold
    <2>6. r[3] \in Ids(res.spools) \cup {NoRef}
      BY <1>4, <2>2, <2>4, <2>5 DEF Tables
    <2>7. CASE r \in L /\ q \in L
      <3>1. PICK r0 \in SlotRows(db.printers) :
               /\ r0[1] = r[1] /\ r0[2] = r[2]
               /\ r[3] = IF r0[3] \in m.gone.spools THEN NoRef ELSE r0[3]
        BY <2>3, <2>7
      <3>2. PICK q0 \in SlotRows(db.printers) :
               /\ q0[1] = q[1] /\ q0[2] = q[2]
               /\ q[3] = IF q0[3] \in m.gone.spools THEN NoRef ELSE q0[3]
        BY <2>3, <2>7
      <3>3. (r[1] = q[1] /\ r[2] = q[2]) \/ (r[3] = q[3] /\ r[3] # NoRef) => r0 = q0
        BY <3>1, <3>2 DEF FitsSchema, SlotsHold
      <3>4. r = <<r[1], r[2], r[3]>> /\ q = <<q[1], q[2], q[3]>>
        BY <2>3, <2>7
      <3>5. r0 = q0 => r[1] = q[1] /\ r[2] = q[2] /\ r[3] = q[3]
        BY <3>1, <3>2
      <3> QED BY <2>6, <3>3, <3>4, <3>5
    <2>8. CASE r \in N /\ q \in N
      BY <1>2, <1>3, <2>6, <2>8 DEF FitsSchema, SlotsHold, Tables
    <2>9. CASE (r \in L /\ q \in N) \/ (r \in N /\ q \in L)
      BY <1>2, <2>3, <2>4, <2>5, <2>6, <2>9 DEF Tables
    <2> QED BY <2>2, <2>7, <2>8, <2>9
  <1>9. res.links \subseteq Ids(res.printers)
    BY <1>1, <1>4, LeftAre DEF m, Tables
  <1> QED BY <1>5, <1>6, <1>7, <1>8, <1>9 DEF FitsSchema, res

-------------------------------------------------------------------------------
(* Every step keeps the invariant.                                         *)

(* A request that changes no import: ids stay, and no spool is left        *)
(* referring to a row that an import has deleted.                          *)
LEMMA ImportsStay ==
    ASSUME IInv, UNCHANGED imports,
           db' = [f \in Fields |-> db'[f]], SchemaHolds',
           \A t \in Tables : Ids(db[t]) \subseteq Ids(db'[t]),
           \A i \in Importers : Running(i) => NoneRefers(imports[i], db')
    PROVE  IInv'
  <1>1. \A i \in Importers : Running(i) => ImportWell(imports[i], db')
    <2> TAKE i \in Importers
    <2> HAVE Running(i)
    <2>1. ImportWell(imports[i], db)
      BY DEF IInv
    <2>2. \A t \in Tables : TableWell(imports[i], db', t)
      BY <2>1 DEF ImportWell, TableWell
    <2> QED BY <2>1, <2>2 DEF ImportWell
  <1>2. Apart'
    BY DEF IInv, Apart, Running
  <1> QED BY <1>1, <1>2 DEF IInv, Running

LEMMA LockedIs ==
    ASSUME NEW i \in Importers, Running(i), NEW t
    PROVE  imports[i].gone[t] \subseteq Locked(t)
  BY DEF Locked

LEMMA AddStep ==
    ASSUME IInv, NEW t \in Tables, NEW r, Add(t, r)
    PROVE  IInv'
  <1>1. db' = [db EXCEPT ![t] = db[t] \cup {r}] /\ FitsSchema(db') /\ UNCHANGED imports
    BY DEF Add
  <1>2. db' = [f \in Fields |-> db'[f]] /\ db'[t] = db[t] \cup {r}
        /\ \A f \in Fields \ {t} : db'[f] = db[f]
    BY <1>1 DEF IInv, Fields
  <1>3. \A u \in Tables : Ids(db[u]) \subseteq Ids(db'[u])
    BY <1>2 DEF Ids, Fields
  <1>4. db'.links = db.links
    BY <1>2 DEF Fields, Tables, Referentials
  <1>5. SchemaHolds'
    BY <1>1, <1>3, <1>4 DEF IInv, SchemaHolds, Tables
  <1>6. ASSUME NEW i \in Importers, Running(i)
        PROVE  NoneRefers(imports[i], db')
    <2>1. NoneRefers(imports[i], db)
      BY <1>6 DEF IInv, ImportWell
    <2>2. CASE t = "spools"
      <3>1. \A u \in Referentials : References({r})[u] \cap imports[i].gone[u] = {}
        BY <1>6, <2>2, LockedIs DEF Add
      <3>2. /\ r.material \notin imports[i].gone.materials
            /\ r.location # NoRef => r.location \notin imports[i].gone.locations
            /\ r.manufacturer # NoRef => r.manufacturer \notin imports[i].gone.manufacturers
        BY <3>1 DEF References, Referentials
      <3> QED BY <1>2, <2>1, <2>2, <3>2 DEF NoneRefers
    <2>3. CASE t # "spools"
      <3>1. db'.spools = db.spools
        BY <1>2, <2>3 DEF Fields, Tables
      <3> QED BY <2>1, <3>1 DEF NoneRefers
    <2> QED BY <2>2, <2>3
  <1> QED BY <1>1, <1>2, <1>3, <1>5, <1>6, ImportsStay

LEMMA RowIs ==
    ASSUME NEW t, NEW id \in Ids(db[t])
    PROVE  Row(t, id) \in db[t] /\ Row(t, id).id = id
  BY DEF Row, Ids

LEMMA SaveStep ==
    ASSUME IInv, NEW c \in Clients, Save(c)
    PROVE  IInv'
  <1> DEFINE s == [copies[c] EXCEPT !.remaining = IF @ > 0 THEN @ - 1 ELSE 0]
             row == Row("spools", s.id)
  <1>1. /\ s.id \in Ids(db.spools) \ Locked("spools")
        /\ \A u \in Referentials : References({s})[u] # References({row})[u] =>
              References({s})[u] \cap Locked(u) = {}
        /\ db' = [db EXCEPT !.spools = (@ \ {row}) \cup {s}] /\ FitsSchema(db')
        /\ UNCHANGED imports
    BY DEF Save
  <1>2. row \in db.spools /\ row.id = s.id
    BY <1>1, RowIs
  <1> HIDE DEF s, row
  <1>3. db' = [f \in Fields |-> db'[f]] /\ db'.spools = (db.spools \ {row}) \cup {s}
        /\ \A f \in Fields \ {"spools"} : db'[f] = db[f]
    BY <1>1 DEF IInv, Fields, Tables
  <1>4. \A u \in Tables : Ids(db[u]) \subseteq Ids(db'[u])
    BY <1>2, <1>3 DEF Ids, Fields
  <1>5. SchemaHolds'
    BY <1>1, <1>3, <1>4 DEF IInv, SchemaHolds, Tables, Fields
  <1>6. ASSUME NEW i \in Importers, Running(i)
        PROVE  NoneRefers(imports[i], db')
    <2>1. NoneRefers(imports[i], db)
      BY <1>6 DEF IInv, ImportWell
    <2>2. row.id \notin imports[i].gone.spools
      BY <1>1, <1>2, <1>6, LockedIs
    <2>3. /\ row.material \notin imports[i].gone.materials
          /\ row.location # NoRef => row.location \notin imports[i].gone.locations
          /\ row.manufacturer # NoRef => row.manufacturer \notin imports[i].gone.manufacturers
      BY <1>2, <2>1, <2>2 DEF NoneRefers
    <2>4. \A u \in Referentials : References({row})[u] \cap imports[i].gone[u] = {}
      BY <2>3 DEF References, Referentials
    <2>5. \A u \in Referentials : References({s})[u] \cap imports[i].gone[u] = {}
      BY <1>1, <1>6, <2>4, LockedIs
    <2>6. /\ s.material \notin imports[i].gone.materials
          /\ s.location # NoRef => s.location \notin imports[i].gone.locations
          /\ s.manufacturer # NoRef => s.manufacturer \notin imports[i].gone.manufacturers
      BY <2>5 DEF References, Referentials
    <2> QED BY <1>3, <2>1, <2>6 DEF NoneRefers
  <1> QED BY <1>1, <1>3, <1>4, <1>5, <1>6, ImportsStay

(* The slot that is loaded is one, and the spool is in no other.           *)
LEMMA LoadStep ==
    ASSUME IInv, NEW p, NEW key, NEW id, Load(p, key, id)
    PROVE  IInv'
  <1> DEFINE Now(q, k) == IF q = p /\ k.key = key THEN id
                          ELSE IF k.spool = id THEN NoRef ELSE k.spool
             New(q) == WithSlots(q, {Holding(k, Now(q.id, k)) : k \in q.slots})
             news == {New(q) : q \in db.printers}
  <1>1. db' = [db EXCEPT !.printers = news] /\ UNCHANGED imports /\ id \in Ids(db.spools)
    BY DEF Load
  <1>2. /\ db' = [f \in Fields |-> db'[f]] /\ db'.printers = news
        /\ \A f \in Fields \ {"printers"} : db'[f] = db[f]
    BY <1>1 DEF IInv, Fields, Tables
  <1>3. /\ db'.spools = db.spools /\ db'.materials = db.materials /\ db'.links = db.links
        /\ db'.manufacturers = db.manufacturers /\ db'.locations = db.locations
    BY <1>2 DEF Fields, Tables, Referentials
  <1>4. \A q : New(q).id = q.id /\ New(q).top = q.top /\ New(q).sync = q.sync
              /\ New(q).slots = {Holding(k, Now(q.id, k)) : k \in q.slots}
    BY WithSlotsIs
  <1> HIDE DEF New
  <1>5. Ids(news) = Ids(db.printers)
    BY <1>4 DEF Ids
  <1>6. KeysHold(db') /\ RefsHold(db') /\ StockColumnsHold(db') /\ PrinterColumnsHold(db')
    <2>1. FitsSchema(db)
      BY DEF IInv, SchemaHolds
    <2>2. IdsDiffer(news)
      BY <1>4, <2>1 DEF FitsSchema, KeysHold, IdsDiffer, Tables
    <2>3. KeysHold(db')
      BY <1>2, <1>3, <2>1, <2>2 DEF FitsSchema, KeysHold, Tables, Referentials
    <2>4. RefsHold(db')
      BY <1>3, <2>1 DEF FitsSchema, RefsHold, Referentials
    <2>5. StockColumnsHold(db')
      BY <1>3, <2>1 DEF FitsSchema, StockColumnsHold
    <2>6. PrinterColumnsHold(db')
      BY <1>2, <1>4, <2>1 DEF FitsSchema, PrinterColumnsHold
    <2> QED BY <2>3, <2>4, <2>5, <2>6
  <1>7. ASSUME NEW r \in SlotRows(news)
        PROVE  \E was \in SlotRows(db.printers) :
                  r = <<was[1], was[2], IF was[1] = p /\ was[2] = key THEN id
                                        ELSE IF was[3] = id THEN NoRef ELSE was[3]>>
    <2>1. PICK n \in news : \E k \in n.slots : r = <<n.id, k.key, k.spool>>
      BY SlotRowsAre
    <2>2. PICK q \in db.printers : n = New(q)
      BY <2>1
    <2>3. PICK k \in q.slots : r = <<q.id, Holding(k, Now(q.id, k)).key,
                                           Holding(k, Now(q.id, k)).spool>>
      BY <1>4, <2>1, <2>2
    <2>4. r = <<q.id, k.key, Now(q.id, k)>>
      BY <2>3 DEF Holding
    <2>5. <<q.id, k.key, k.spool>> \in SlotRows(db.printers)
      BY RowsOfSlots
    <2> QED BY <2>4, <2>5
  <1>8. SlotsHold(db')
    <2> SUFFICES ASSUME NEW r \in SlotRows(news), NEW q \in SlotRows(news)
                 PROVE  /\ r[3] \in Ids(db.spools) \cup {NoRef}
                        /\ r[1] = q[1] /\ r[2] = q[2] => r = q
                        /\ r[3] = q[3] /\ r[3] # NoRef => r = q
      BY <1>2, <1>3 DEF SlotsHold
    <2> DEFINE Loaded3(w) == IF w[1] = p /\ w[2] = key THEN id
                             ELSE IF w[3] = id THEN NoRef ELSE w[3]
    <2>1. PICK r0 \in SlotRows(db.printers) : r = <<r0[1], r0[2], Loaded3(r0)>>
      BY <1>7
    <2>2. PICK q0 \in SlotRows(db.printers) : q = <<q0[1], q0[2], Loaded3(q0)>>
      BY <1>7
    <2>3. /\ r0[3] \in Ids(db.spools) \cup {NoRef}
          /\ r0[1] = q0[1] /\ r0[2] = q0[2] => r0 = q0
          /\ r0[3] = q0[3] /\ r0[3] # NoRef => r0 = q0
      BY DEF IInv, SchemaHolds, FitsSchema, SlotsHold
    <2>4. /\ r[1] = r0[1] /\ r[2] = r0[2] /\ r[3] = Loaded3(r0)
          /\ q[1] = q0[1] /\ q[2] = q0[2] /\ q[3] = Loaded3(q0)
      BY <2>1, <2>2
    <2>5. r[3] \in Ids(db.spools) \cup {NoRef}
      BY <1>1, <2>3, <2>4
    <2>6. r[1] = q[1] /\ r[2] = q[2] => r = q
      BY <2>1, <2>2, <2>3, <2>4
    <2>7. r[3] = q[3] /\ r[3] # NoRef => r[1] = q[1] /\ r[2] = q[2]
      BY <2>3, <2>4
    <2> QED BY <2>5, <2>6, <2>7
  <1>9. SchemaHolds'
    BY <1>2, <1>3, <1>5, <1>6, <1>8 DEF SchemaHolds, FitsSchema, IInv
  <1>10. \A t \in Tables : Ids(db[t]) \subseteq Ids(db'[t])
    BY <1>2, <1>5 DEF Fields
  <1>11. \A i \in Importers : Running(i) => NoneRefers(imports[i], db')
    BY <1>3 DEF IInv, ImportWell, NoneRefers
  <1> QED BY <1>1, <1>2, <1>9, <1>10, <1>11, ImportsStay

(* A step of one import that publishes nothing.                            *)
LEMMA OneImport ==
    ASSUME IInv, UNCHANGED db, NEW i \in Importers, NEW m,
           imports' = [imports EXCEPT ![i] = m], ImportWell(m, db),
           \A j \in Importers \ {i} : Running(j) =>
               \A t \in Tables : m.gone[t] \cap imports[j].gone[t] = {}
    PROVE  IInv'
  <1>1. m.pc # 0
    BY DEF ImportWell
  <1>2. imports'[i] = m /\ \A j \in Importers \ {i} : imports'[j] = imports[j]
    BY DEF IInv
  <1>3. Running(i)' /\ \A j \in Importers \ {i} : Running(j)' = Running(j)
    BY <1>1, <1>2 DEF Running
  <1>4. imports' = [j \in Importers |-> imports'[j]]
    BY DEF IInv
  <1>5. \A j \in Importers : Running(j)' => ImportWell(imports'[j], db)
    BY <1>2, <1>3 DEF IInv
  <1>6. \A j \in Importers : ~Running(j)' => imports'[j] = Idle
    BY <1>2, <1>3 DEF IInv
  <1>7. Apart'
    <2> SUFFICES ASSUME NEW j \in Importers, NEW k \in Importers, j # k,
                        Running(j)', Running(k)', NEW t \in Tables
                 PROVE  imports'[j].gone[t] \cap imports'[k].gone[t] = {}
      BY DEF Apart
    <2> QED BY <1>2, <1>3 DEF IInv, Apart
  <1> QED BY <1>4, <1>5, <1>6, <1>7 DEF IInv, SchemaHolds

LEMMA BegunStep ==
    ASSUME IInv, NEW i \in Importers, NEW fields, BeginImport(i, fields)
    PROVE  IInv'
  <1> DEFINE d == Decode(Backup(fields))
             m == Begun(d)
  <1>1. imports' = [imports EXCEPT ![i] = m] /\ UNCHANGED db
    BY DEF BeginImport
  <1>2. /\ m.pc = 1 /\ m.aimed = FALSE /\ m.gone = NoIds /\ m.since = [t \in Tables |-> Ids(db[t])]
        /\ m = [pc |-> m.pc, doc |-> m.doc, aimed |-> m.aimed, aim |-> m.aim, gone |-> m.gone,
                 slots |-> m.slots, threshold |-> m.threshold, since |-> m.since]
    BY DEF Begun
  <1> HIDE DEF m
  <1>3. \A t \in Tables : m.gone[t] = {} /\ m.since[t] = Ids(db[t]) /\ Turn[t] > 1
    BY <1>2, DeletesAre DEF NoIds
  <1>4. NoneRefers(m, db)
    BY <1>3 DEF NoneRefers, Tables, Referentials
  <1>5. \A t \in Tables : TableWell(m, db, t)
    BY <1>2, <1>3, DeletesAre DEF TableWell
  <1>6. ImportWell(m, db)
    BY <1>2, <1>4, <1>5 DEF ImportWell, NoIds
  <1> QED BY <1>1, <1>3, <1>6, OneImport

LEMMA AimStep ==
    ASSUME IInv, NEW i \in Importers, Aim(i)
    PROVE  IInv'
  <1> DEFINE m == imports[i]
             aim == Aimed(i)
             n == [m EXCEPT !.aimed = TRUE, !.aim = aim]
  <1>1. imports' = [imports EXCEPT ![i] = n] /\ UNCHANGED db
    BY DEF Aim
  <1>2. Running(i) /\ m.pc <= 7 /\ Statement(i) = Deletes[m.pc]
    BY DeletesAre DEF Aim, Statement
  <1>3. ImportWell(m, db)
    BY <1>2 DEF IInv
  <1>4. ASSUME Statement(i) \in Tables PROVE aim = Ids(db[Statement(i)])
    BY <1>4 DEF Aimed, Tables, Referentials
  <1> HIDE DEF m, aim
  <1>5. n = [pc |-> m.pc, doc |-> m.doc, aimed |-> TRUE, aim |-> aim, gone |-> m.gone,
             slots |-> m.slots, threshold |-> m.threshold, since |-> m.since]
    <2> DEFINE whole == [pc |-> m.pc, doc |-> m.doc, aimed |-> m.aimed, aim |-> m.aim,
                         gone |-> m.gone, slots |-> m.slots, threshold |-> m.threshold,
                         since |-> m.since]
    <2>1. m = whole
      BY <1>3 DEF ImportWell
    <2>2. n = [whole EXCEPT !.aimed = TRUE, !.aim = aim]
      BY <2>1
    <2> HIDE DEF n
    <2>3. n = [pc |-> m.pc, doc |-> m.doc, aimed |-> TRUE, aim |-> aim, gone |-> m.gone,
               slots |-> m.slots, threshold |-> m.threshold, since |-> m.since]
      BY <2>2
    <2> QED BY <2>3
  <1> HIDE DEF n
  <1>6. /\ n.pc = m.pc /\ n.aimed = TRUE /\ n.aim = aim /\ n.gone = m.gone /\ n.since = m.since
        /\ n = [pc |-> n.pc, doc |-> n.doc, aimed |-> n.aimed, aim |-> n.aim, gone |-> n.gone,
                 slots |-> n.slots, threshold |-> n.threshold, since |-> n.since]
    BY <1>5
  <1>7. \A t \in Tables : m.pc = Turn[t] => aim = Ids(db[t])
    BY <1>2, <1>4, DeletesAre
  <1>8. \A t \in Tables : TableWell(n, db, t)
    BY <1>3, <1>6, <1>7 DEF ImportWell, TableWell
  <1>9. ImportWell(n, db)
    BY <1>2, <1>3, <1>6, <1>8 DEF ImportWell, NoneRefers
  <1>10. \A j \in Importers \ {i} : Running(j) =>
            \A t \in Tables : n.gone[t] \cap imports[j].gone[t] = {}
    BY <1>2, <1>6 DEF IInv, Apart, m
  <1> QED BY <1>1, <1>9, <1>10, OneImport DEF n

(* What a DELETE takes, nobody else has taken, and nothing left needs.     *)
LEMMA DeleteStep ==
    ASSUME IInv, NEW i \in Importers, Delete(i)
    PROVE  IInv'
  <1> DEFINE m == imports[i]
             t == Statement(i)
             n == CASE t \in Tables        -> [Advanced(i) EXCEPT !.gone[t] = m.aim]
                    [] t = "printer_slots" -> [Advanced(i) EXCEPT !.slots = m.aim]
                    [] OTHER -> [Advanced(i) EXCEPT !.threshold = db.threshold # Unset]
  <1>1. /\ imports' = [imports EXCEPT ![i] = n] /\ UNCHANGED db
        /\ Running(i) /\ m.aimed
        /\ t \in Tables => m.aim \cap LockedFor(i, t) = {} /\ ~StillReferred(i, t)
    <2>1. UNCHANGED db /\ Running(i) /\ m.aimed
      BY DEF Delete
    <2>2. imports' = [imports EXCEPT ![i] = n]
      BY DEF Delete
    <2>3. ASSUME t \in Tables
          PROVE  m.aim \cap LockedFor(i, t) = {} /\ ~StillReferred(i, t)
      BY <2>3 DEF Delete, Tables, Referentials
    <2> QED BY <2>1, <2>2, <2>3
  <1>2. ImportWell(m, db)
    BY <1>1 DEF IInv
  <1> HIDE DEF m, n
  <1>3. Advanced(i) = [pc |-> m.pc + 1, doc |-> m.doc, aimed |-> FALSE, aim |-> {},
                       gone |-> m.gone, slots |-> m.slots, threshold |-> m.threshold,
                       since |-> m.since]
    <2> DEFINE whole == [pc |-> m.pc, doc |-> m.doc, aimed |-> m.aimed, aim |-> m.aim,
                         gone |-> m.gone, slots |-> m.slots, threshold |-> m.threshold,
                         since |-> m.since]
    <2>1. m = whole
      BY <1>2 DEF ImportWell
    <2>2. Advanced(i) = [whole EXCEPT !.pc = @ + 1, !.aimed = FALSE, !.aim = {}]
      BY <2>1 DEF Advanced, m
    <2> QED BY <2>2
  <1>4. \A u \in Tables : TableWell(m, db, u)
    BY <1>2 DEF ImportWell
  <1>5. m.pc \in 1 .. 7 /\ m.gone = [u \in Tables |-> m.gone[u]]
        /\ m.since = [u \in Tables |-> m.since[u]] /\ NoneRefers(m, db)
    BY <1>1, <1>2 DEF ImportWell, m
  <1>6. CASE t \in Tables
    <2> DEFINE gone == [m.gone EXCEPT ![t] = m.aim]
               adv == [pc |-> m.pc + 1, doc |-> m.doc, aimed |-> FALSE, aim |-> {},
                       gone |-> m.gone, slots |-> m.slots, threshold |-> m.threshold,
                       since |-> m.since]
    <2>1. n = [Advanced(i) EXCEPT !.gone[t] = m.aim]
      BY <1>6 DEF n, Tables, Referentials
    <2>11. [adv EXCEPT !.gone[t] = m.aim] = [adv EXCEPT !.gone = gone]
      <3>1. adv.gone = m.gone
        OBVIOUS
      <3> HIDE DEF adv
      <3> QED BY <3>1
    <2>12. n = [adv EXCEPT !.gone = gone]
      BY <1>3, <2>1, <2>11
    <2> HIDE DEF gone
    <2>2. n = [pc |-> m.pc + 1, doc |-> m.doc, aimed |-> FALSE, aim |-> {},
               gone |-> gone, slots |-> m.slots, threshold |-> m.threshold,
               since |-> m.since]
      BY <2>12
    <2>3. /\ n.pc = m.pc + 1 /\ n.gone = gone /\ n.since = m.since /\ n.aimed = FALSE
          /\ n = [pc |-> n.pc, doc |-> n.doc, aimed |-> n.aimed, aim |-> n.aim, gone |-> n.gone,
                   slots |-> n.slots, threshold |-> n.threshold, since |-> n.since]
      BY <2>2
    <2>4. m.pc \in 1 .. 7 /\ m.pc = Turn[t]
      BY <1>5, <1>6, DeletesAre DEF Statement, m
    <2>5. /\ gone = [u \in Tables |-> gone[u]] /\ gone[t] = m.aim
          /\ \A u \in Tables \ {t} : gone[u] = m.gone[u]
      BY <1>5, <1>6 DEF gone
    <2>6. m.aim \subseteq Ids(db[t]) /\ m.since[t] \subseteq m.aim
      BY <1>1, <1>4, <1>6, <2>4 DEF TableWell, m
    <2>7. ASSUME NEW u \in Tables
          PROVE  TableWell(n, db, u)
      <3>1. Turn[u] \in 2 .. 6 /\ (u # t => Turn[u] # Turn[t])
        BY <1>6, DeletesAre
      <3>2. TableWell(m, db, u)
        BY <1>4
      <3>3. CASE u = t
        BY <2>3, <2>4, <2>5, <2>6, <3>1, <3>3 DEF TableWell
      <3>4. CASE u # t
        BY <2>3, <2>4, <2>5, <3>1, <3>2, <3>4 DEF TableWell
      <3> QED BY <3>3, <3>4
    <2>8. NoneRefers(n, db)
      <3>1. CASE t = "spools"
        <4>1. m.gone.spools = {}
          BY <1>4, <1>6, <2>4, <3>1 DEF TableWell
        <4>2. \A u \in Referentials : n.gone[u] = m.gone[u]
          BY <2>3, <2>5, <3>1 DEF Tables, Referentials
        <4> QED BY <1>5, <4>1, <4>2 DEF NoneRefers, Referentials
      <3>2. CASE t = "printers"
        <4>1. \A u \in Tables \ {"printers"} : n.gone[u] = m.gone[u]
          BY <2>3, <2>5, <3>2
        <4> QED BY <1>5, <4>1 DEF NoneRefers, Tables, Referentials
      <3>3. CASE t \in Referentials
        <4>1. References({s \in db.spools : s.id \notin m.gone.spools})[t] \cap m.aim = {}
          BY <1>1, <1>6, <3>3 DEF StillReferred, m
        <4>2. \A s \in db.spools : s.id \notin m.gone.spools =>
                 /\ t = "materials" => s.material \notin m.aim
                 /\ t = "locations" /\ s.location # NoRef => s.location \notin m.aim
                 /\ t = "manufacturers" /\ s.manufacturer # NoRef => s.manufacturer \notin m.aim
          <5> DEFINE left == {s \in db.spools : s.id \notin m.gone.spools}
          <5>1. /\ t = "materials" => {s.material : s \in left} \cap m.aim = {}
                /\ t = "locations" => ({s.location : s \in left} \ {NoRef}) \cap m.aim = {}
                /\ t = "manufacturers" => ({s.manufacturer : s \in left} \ {NoRef}) \cap m.aim = {}
            <6> HIDE DEF left
            <6>1. /\ References(left).materials = {s.material : s \in left}
                  /\ References(left).locations = {s.location : s \in left} \ {NoRef}
                  /\ References(left).manufacturers = {s.manufacturer : s \in left} \ {NoRef}
              BY DEF References
            <6> QED BY <4>1, <6>1 DEF left
          <5> QED BY <5>1
        <4>3. n.gone.spools = m.gone.spools
          BY <2>3, <2>5, <3>3 DEF Tables, Referentials
        <4>4. \A u \in Referentials : n.gone[u] = IF u = t THEN m.aim ELSE m.gone[u]
          BY <2>3, <2>5 DEF Tables
        <4> QED BY <1>5, <4>2, <4>3, <4>4 DEF NoneRefers, Referentials
      <3> QED BY <1>6, <3>1, <3>2, <3>3 DEF Tables
    <2>9. ImportWell(n, db)
      BY <1>5, <2>3, <2>4, <2>5, <2>7, <2>8 DEF ImportWell
    <2>10. \A j \in Importers \ {i} : Running(j) =>
              \A u \in Tables : n.gone[u] \cap imports[j].gone[u] = {}
      <3> TAKE j \in Importers \ {i}
      <3> HAVE Running(j)
      <3> TAKE u \in Tables
      <3>1. CASE u = t
        <4>1. imports[j].gone[t] \subseteq LockedFor(i, t)
          BY DEF LockedFor
        <4> QED BY <1>1, <1>6, <2>3, <2>5, <3>1, <4>1
      <3>2. CASE u # t
        <4>1. m.gone[u] \cap imports[j].gone[u] = {}
          BY <1>1 DEF IInv, Apart, m
        <4> QED BY <2>3, <2>5, <3>2, <4>1
      <3> QED BY <3>1, <3>2
    <2> QED BY <1>1, <2>9, <2>10, OneImport
  <1>7. CASE t \notin Tables
    <2>1. /\ n.pc = m.pc + 1 /\ n.gone = m.gone /\ n.since = m.since /\ n.aimed = FALSE
          /\ n = [pc |-> n.pc, doc |-> n.doc, aimed |-> n.aimed, aim |-> n.aim, gone |-> n.gone,
                   slots |-> n.slots, threshold |-> n.threshold, since |-> n.since]
      <3> DEFINE adv == [pc |-> m.pc + 1, doc |-> m.doc, aimed |-> FALSE, aim |-> {},
                         gone |-> m.gone, slots |-> m.slots, threshold |-> m.threshold,
                         since |-> m.since]
      <3>1. CASE t = "printer_slots"
        <4>1. n = [adv EXCEPT !.slots = m.aim]
          BY <1>3, <1>7, <3>1 DEF n
        <4> QED BY <4>1
      <3>2. CASE t # "printer_slots"
        <4>1. n = [adv EXCEPT !.threshold = db.threshold # Unset]
          BY <1>3, <1>7, <3>2 DEF n
        <4> QED BY <4>1
      <3> QED BY <3>1, <3>2
    <2>2. m.pc \in 1 .. 7 /\ \A u \in Tables : m.pc # Turn[u]
      BY <1>5, <1>7, DeletesAre DEF Statement, m
    <2>3. \A u \in Tables : TableWell(n, db, u)
      <3> TAKE u \in Tables
      <3>1. TableWell(m, db, u) /\ m.pc # Turn[u] /\ Turn[u] \in 2 .. 6
        BY <1>4, <2>2, DeletesAre
      <3> QED BY <2>1, <2>2, <3>1 DEF TableWell
    <2>4. ImportWell(n, db)
      BY <1>5, <2>1, <2>2, <2>3 DEF ImportWell, NoneRefers
    <2>5. \A j \in Importers \ {i} : Running(j) =>
              \A u \in Tables : n.gone[u] \cap imports[j].gone[u] = {}
      BY <1>1, <2>1 DEF IInv, Apart, m
    <2> QED BY <1>1, <2>4, <2>5, OneImport
  <1> QED BY <1>6, <1>7

(* What another import was about when i commits: it goes on with what it   *)
(* had deleted, aims at what is still there.                               *)
LEMMA OvertakenWell ==
    ASSUME IInv, NEW i \in Importers, Commit(i), NEW j \in Importers \ {i}, Running(j)
    PROVE  ImportWell(Overtaken(j, i), Result(i)) /\ Overtaken(j, i).gone = imports[j].gone
  <1> DEFINE m == imports[j]
             w == imports[i]
             n == Overtaken(j, i)
             aim == m.aim \ TakenFrom(j, i)
             since == [t \in Tables |-> m.since[t] \ w.gone[t]]
  <1>1. Running(i) /\ ~Conflicts(i)
    BY DEF Commit, IInv, Running, Idle, Deletes
  <1>2. /\ ImportWell(m, db) /\ ImportWell(w, db)
        /\ \A t \in Tables : m.gone[t] \cap w.gone[t] = {}
    BY <1>1 DEF IInv, Apart
  <1>3. n = [m EXCEPT !.aim = aim, !.since = since]
    BY DEF Overtaken
  <1>4. m.pc \in 1 .. 7 /\ Statement(j) \in Tables => TakenFrom(j, i) = w.gone[Statement(j)]
    BY DeletesAre DEF TakenFrom, Tables, Referentials
  <1>5. Statement(j) = Deletes[m.pc]
    BY DEF Statement
  <1> HIDE DEF m, w, n, aim, since
  <1>6. n = [pc |-> m.pc, doc |-> m.doc, aimed |-> m.aimed, aim |-> aim, gone |-> m.gone,
             slots |-> m.slots, threshold |-> m.threshold, since |-> since]
    <2> DEFINE whole == [pc |-> m.pc, doc |-> m.doc, aimed |-> m.aimed, aim |-> m.aim,
                         gone |-> m.gone, slots |-> m.slots, threshold |-> m.threshold,
                         since |-> m.since]
    <2>1. m = whole
      BY <1>2 DEF ImportWell
    <2>2. n = [whole EXCEPT !.aim = aim, !.since = since]
      BY <1>3, <2>1
    <2> QED BY <2>2
  <1>7. /\ n.pc = m.pc /\ n.aimed = m.aimed /\ n.aim = aim /\ n.gone = m.gone /\ n.since = since
        /\ n = [pc |-> n.pc, doc |-> n.doc, aimed |-> n.aimed, aim |-> n.aim, gone |-> n.gone,
                 slots |-> n.slots, threshold |-> n.threshold, since |-> n.since]
    BY <1>6
  <1>8. ASSUME NEW t \in Tables
        PROVE  /\ Ids(db[t]) \ w.gone[t] \subseteq Ids(Result(i)[t])
               /\ since[t] = m.since[t] \ w.gone[t]
    <2>1. Ids(Left(i, t)) = Ids(db[t]) \ w.gone[t]
      BY LeftAre DEF w
    <2> QED BY <2>1, ResultIs, IdsOfUnion DEF since
  <1>9. ASSUME NEW t \in Tables
        PROVE  TableWell(n, Result(i), t)
    <2>1. TableWell(m, db, t)
      BY <1>2 DEF ImportWell
    <2>2. m.gone[t] \cap w.gone[t] = {}
      BY <1>2
    <2>3. n.gone[t] \subseteq Ids(Result(i)[t]) /\ n.since[t] \subseteq Ids(Result(i)[t])
      BY <1>7, <1>8, <2>1, <2>2 DEF TableWell
    <2>4. m.pc = Turn[t] => aim = m.aim \ w.gone[t]
      BY <1>4, <1>5, DeletesAre DEF aim
    <2>5. m.pc = Turn[t] /\ m.aimed => aim \subseteq Ids(Result(i)[t]) /\ since[t] \subseteq aim
      BY <1>8, <2>1, <2>4 DEF TableWell
    <2> QED BY <1>7, <1>8, <2>1, <2>2, <2>3, <2>5 DEF TableWell
  <1>10. NoneRefers(n, Result(i))
    <2>1. ASSUME NEW s \in Left(i, "spools"), s.id \notin m.gone.spools
          PROVE  /\ s.material \notin m.gone.materials
                 /\ s.location # NoRef => s.location \notin m.gone.locations
                 /\ s.manufacturer # NoRef => s.manufacturer \notin m.gone.manufacturers
      <3>1. s \in db.spools
        BY LeftAre DEF Tables
      <3> QED BY <1>2, <2>1, <3>1 DEF ImportWell, NoneRefers
    <2>2. ASSUME NEW t \in Tables
          PROVE  Ids(Inserted(i, t)) \cap m.gone[t] = {}
      <3>1. m.gone[t] \subseteq Ids(Left(i, t))
        BY <1>2, LeftAre DEF ImportWell, TableWell, w
      <3> QED BY <1>1, <3>1 DEF Conflicts
    <2>3. ASSUME NEW s \in Inserted(i, "spools")
          PROVE  /\ s.material \notin m.gone.materials
                 /\ s.location # NoRef => s.location \notin m.gone.locations
                 /\ s.manufacturer # NoRef => s.manufacturer \notin m.gone.manufacturers
      <3> DEFINE ins == [t \in Tables |-> Inserted(i, t)]
      <3>1. FitsSchema(ins) /\ \A t \in Tables : ins[t] = Inserted(i, t)
        BY <1>1 DEF Conflicts
      <3> HIDE DEF ins
      <3>2. /\ s.material \in Ids(Inserted(i, "materials"))
            /\ s.location # NoRef => s.location \in Ids(Inserted(i, "locations"))
            /\ s.manufacturer # NoRef => s.manufacturer \in Ids(Inserted(i, "manufacturers"))
        BY <3>1 DEF FitsSchema, RefsHold, References, Referentials, Tables
      <3> QED BY <2>2, <3>2 DEF Tables, Referentials
    <2>4. Result(i).spools = Left(i, "spools") \cup Inserted(i, "spools")
      BY ResultIs DEF Tables
    <2> QED BY <1>7, <2>1, <2>3, <2>4 DEF NoneRefers
  <1>11. ImportWell(n, Result(i))
    BY <1>2, <1>7, <1>9, <1>10 DEF ImportWell, since
  <1> QED BY <1>7, <1>11 DEF n, m

LEMMA CommitStep ==
    ASSUME IInv, NEW i \in Importers, Commit(i)
    PROVE  IInv'
  <1>1. /\ Running(i) /\ ~Conflicts(i) /\ db' = Result(i)
        /\ imports' = [j \in Importers |->
                          IF j # i /\ Running(j) THEN Overtaken(j, i) ELSE Idle]
    BY DEF Commit, IInv, Running, Idle, Deletes
  <1>2. ImportWell(imports[i], db) /\ SchemaHolds
    BY <1>1 DEF IInv
  <1>3. SchemaHolds' /\ db' = [f \in Fields |-> db'[f]]
    BY <1>1, <1>2, CommitFits, ResultIs DEF SchemaHolds
  <1>4. ASSUME NEW j \in Importers
        PROVE  /\ j # i /\ Running(j) => /\ imports'[j] = Overtaken(j, i) /\ Running(j)'
                                          /\ ImportWell(imports'[j], db')
                                          /\ imports'[j].gone = imports[j].gone
               /\ j = i \/ ~Running(j) => imports'[j] = Idle /\ ~Running(j)'
    <2>1. CASE j # i /\ Running(j)
      <3>1. imports'[j] = Overtaken(j, i)
        BY <1>1, <2>1
      <3>2. ImportWell(imports'[j], db') /\ imports'[j].gone = imports[j].gone
        BY <1>1, <2>1, <3>1, OvertakenWell
      <3>3. Running(j)'
        BY <3>2 DEF ImportWell, Running
      <3> QED BY <2>1, <3>1, <3>2, <3>3
    <2>2. CASE j = i \/ ~Running(j)
      <3>1. imports'[j] = Idle
        BY <1>1, <2>2
      <3> QED BY <2>2, <3>1 DEF Running, Idle
    <2> QED BY <2>1, <2>2
  <1>5. imports' = [j \in Importers |-> imports'[j]]
    BY <1>1
  <1>6. Apart'
    <2> SUFFICES ASSUME NEW j \in Importers, NEW k \in Importers, j # k,
                        Running(j)', Running(k)', NEW t \in Tables
                 PROVE  imports'[j].gone[t] \cap imports'[k].gone[t] = {}
      BY DEF Apart
    <2> QED BY <1>4 DEF IInv, Apart
  <1> QED BY <1>3, <1>4, <1>5, <1>6 DEF IInv

LEMMA AbortStep ==
    ASSUME IInv, NEW i \in Importers, Abort(i)
    PROVE  IInv'
  <1>1. imports' = [imports EXCEPT ![i] = Idle] /\ UNCHANGED db
    BY DEF Abort
  <1>2. /\ imports'[i] = Idle /\ ~Running(i)'
        /\ \A j \in Importers \ {i} : imports'[j] = imports[j] /\ Running(j)' = Running(j)
        /\ imports' = [j \in Importers |-> imports'[j]]
    BY <1>1 DEF IInv, Running, Idle
  <1>3. Apart'
    <2> SUFFICES ASSUME NEW j \in Importers, NEW k \in Importers, j # k,
                        Running(j)', Running(k)', NEW t \in Tables
                 PROVE  imports'[j].gone[t] \cap imports'[k].gone[t] = {}
      BY DEF Apart
    <2> QED BY <1>2 DEF IInv, Apart
  <1> QED BY <1>1, <1>2, <1>3 DEF IInv, SchemaHolds

LEMMA IInvInit == Init => IInv
  <1> SUFFICES ASSUME Init PROVE IInv
    OBVIOUS
  <1>1. \A i \in Importers : imports[i] = Idle /\ ~Running(i)
    BY DEF Init, Running, Idle
  <1> QED BY <1>1, ContentAssumption DEF Init, IInv, SchemaHolds, Apart, Fields

LEMMA IInvStep == IInv /\ [Next]_vars => IInv'
  <1> SUFFICES ASSUME IInv, [Next]_vars PROVE IInv'
    OBVIOUS
  <1>1. CASE UNCHANGED <<db, imports>>
    BY <1>1 DEF IInv, SchemaHolds, Apart, Running
  <1>2. ASSUME NEW i \in Importers, \E fields \in Uploads \cup {OwnUpload} : BeginImport(i, fields)
        PROVE  IInv'
    BY <1>2, BegunStep
  <1>3. ASSUME NEW i \in Importers, Aim(i) \/ Delete(i) \/ Commit(i) \/ Abort(i)
        PROVE  IInv'
    BY <1>3, AimStep, DeleteStep, CommitStep, AbortStep
  <1>4. CASE BeginExport \/ ReadTable \/ FinishExport
    <2>1. UNCHANGED <<db, imports>>
      BY <1>4 DEF BeginExport, ReadTable, FinishExport
    <2> QED BY <1>1, <2>1
  <1>5. ASSUME NEW t \in Tables, NEW r \in Fresh[t], Add(t, r)
        PROVE  IInv'
    BY <1>5, AddStep
  <1>6. ASSUME NEW c \in Clients, (\E id \in Ids(db.spools) : Find(c, id)) \/ GiveUp(c)
        PROVE  IInv'
    <2>1. UNCHANGED <<db, imports>>
      BY <1>6 DEF Find, GiveUp
    <2> QED BY <1>1, <2>1
  <1>7. ASSUME NEW c \in Clients, Save(c)
        PROVE  IInv'
    BY <1>7, SaveStep
  <1>8. ASSUME NEW p, NEW id, NEW key, Load(p, key, id)
        PROVE  IInv'
    BY <1>8, LoadStep
  <1>9. ASSUME NEW p \in Ids(db.printers), SetLink(p)
        PROVE  IInv'
    <2> DEFINE links == db.links \cup {p}
    <2>1. db' = [db EXCEPT !.links = links] /\ UNCHANGED imports
      BY <1>9 DEF SetLink
    <2> HIDE DEF links
    <2>2. /\ db' = [f \in Fields |-> db'[f]] /\ db'.links = links
          /\ \A t \in Tables : db'[t] = db[t]
      BY <2>1 DEF IInv, Fields, Tables, Referentials
    <2>3. SchemaHolds'
      BY <2>2, SameTablesFit DEF IInv, SchemaHolds, Tables, links
    <2>4. \A i \in Importers : Running(i) => NoneRefers(imports[i], db')
      BY <2>2 DEF IInv, ImportWell, NoneRefers, Tables
    <2> QED BY <2>1, <2>2, <2>3, <2>4, ImportsStay
  <1>10. ASSUME NEW n \in Thresholds, SetThreshold(n)
         PROVE  IInv'
    <2>1. db' = [db EXCEPT !.threshold = n] /\ UNCHANGED imports
      BY <1>10 DEF SetThreshold
    <2>2. /\ db' = [f \in Fields |-> db'[f]] /\ db'.links = db.links
          /\ \A t \in Tables : db'[t] = db[t]
      BY <2>1 DEF IInv, Fields, Tables, Referentials
    <2>3. SchemaHolds'
      BY <2>2, SameTablesFit DEF IInv, SchemaHolds, Tables
    <2>4. \A i \in Importers : Running(i) => NoneRefers(imports[i], db')
      BY <2>2 DEF IInv, ImportWell, NoneRefers, Tables
    <2> QED BY <2>1, <2>2, <2>3, <2>4, ImportsStay
  <1>11. CASE UNCHANGED vars
    BY <1>1, <1>11 DEF vars
  <1> QED BY <1>2, <1>3, <1>4, <1>5, <1>6, <1>7, <1>8, <1>9, <1>10, <1>11 DEF Next, Others

-------------------------------------------------------------------------------

(* Keys, references, unique names and single loads hold in every committed *)
(* state, and links belong to printers that exist: no import commits rows  *)
(* that a spool added or saved meanwhile, or another import, contradicts.  *)
THEOREM TheSchemaHolds == Spec => []SchemaHolds
  <1>1. IInv => SchemaHolds
    BY DEF IInv
  <1> QED BY <1>1, IInvInit, IInvStep, PTL DEF Spec

(* A committed import leaves the content of its file and, of what was      *)
(* there, only what others added after it began; no printer of its file    *)
(* has inherited a machine link.                                           *)
THEOREM ImportsLeaveTheirFile == Spec => ImportsReplace
  <1>1. ASSUME IInv, NEW i \in Importers, Commit(i)
        PROVE  /\ \A t \in Tables :
                      /\ Inserted(i, t) \subseteq db'[t]
                      /\ Ids(db'[t] \ Inserted(i, t)) \cap imports[i].since[t] = {}
               /\ db'.links \cap Ids(Inserted(i, "printers")) = {}
               /\ db'.threshold = imports[i].doc.threshold
    <2>1. /\ Running(i) /\ imports[i].pc = 8 /\ ~Conflicts(i) /\ db' = Result(i)
      BY <1>1 DEF Commit, IInv, Running, Idle, Deletes
    <2>2. ImportWell(imports[i], db) /\ db.links \subseteq Ids(db.printers)
      BY <1>1, <2>1 DEF IInv, SchemaHolds
    <2>3. ASSUME NEW t \in Tables
          PROVE  /\ Inserted(i, t) \subseteq db'[t]
                 /\ Ids(db'[t] \ Inserted(i, t)) \cap imports[i].since[t] = {}
      <3>1. db'[t] = Left(i, t) \cup Inserted(i, t)
        BY <2>1, ResultIs
      <3>2. imports[i].since[t] \subseteq imports[i].gone[t]
        BY <2>1, <2>2, DeletesAre DEF ImportWell, TableWell
      <3>3. \A r \in Left(i, t) : r.id \notin imports[i].gone[t]
        BY LeftAre
      <3>4. \A r \in db'[t] \ Inserted(i, t) : r.id \notin imports[i].since[t]
        BY <3>1, <3>2, <3>3
      <3> QED BY <3>1, <3>4 DEF Ids
    <2>4. db'.links \cap Ids(Inserted(i, "printers")) = {}
      BY <2>1, <2>2, ResultIs, LeftAre DEF Conflicts, Tables
    <2> QED BY <2>1, <2>3, <2>4, ResultIs
  <1>2. IInv => [\A i \in Importers : Commit(i) =>
                     /\ \A t \in Tables :
                            /\ Inserted(i, t) \subseteq db'[t]
                            /\ Ids(db'[t] \ Inserted(i, t)) \cap imports[i].since[t] = {}
                     /\ db'.links \cap Ids(Inserted(i, "printers")) = {}
                     /\ db'.threshold = imports[i].doc.threshold]_vars
    BY <1>1
  <1> QED BY <1>2, IInvInit, IInvStep, PTL DEF Spec, ImportsReplace

-------------------------------------------------------------------------------
(* Numbered keys are all the keys up to their number.                      *)
LEMMA NumberedAre ==
    ASSUME NEW prefix, NEW n \in Nat
    PROVE  /\ Numbered(prefix, n) = [i \in 1 .. n |-> <<prefix, i - 1>>]
           /\ {Numbered(prefix, n)[i] : i \in DOMAIN Numbered(prefix, n)} = KeysUpTo(prefix, n)
  <1>1. DOMAIN Numbered(prefix, n) = 1 .. n
    BY DEF Numbered
  <1>2. \A i \in 1 .. n : Numbered(prefix, n)[i] = <<prefix, i - 1>> /\ i - 1 \in 0 .. n - 1
    BY DEF Numbered
  <1>3. ASSUME NEW k \in 0 .. n - 1 PROVE k + 1 \in 1 .. n /\ Numbered(prefix, n)[k + 1] = <<prefix, k>>
    BY DEF Numbered
  <1>4. {Numbered(prefix, n)[i] : i \in DOMAIN Numbered(prefix, n)} \subseteq KeysUpTo(prefix, n)
    BY <1>1, <1>2 DEF KeysUpTo
  <1>5. KeysUpTo(prefix, n) \subseteq {Numbered(prefix, n)[i] : i \in DOMAIN Numbered(prefix, n)}
    BY <1>1, <1>3 DEF KeysUpTo
  <1> QED BY <1>4, <1>5 DEF Numbered

(* What Module::validate and derive_slots let through of a topology.       *)
LEMMA ValidIs ==
    ASSUME NEW c, c.brand \in DOMAIN Models, Valid(c)
    PROVE  /\ c.heads \in XlHeadCounts /\ c.units <= MaxAmsUnits /\ Len(c.modes) = c.heads
           /\ c.module \in {NoModule, Mmu} \/ \E n \in 2 .. 8 : c.module = MultiSlot(n)
           /\ c.module.kind \in {"none", "mmu", "multi_slot"} /\ c.module.slots \in 0 .. 8
           /\ c.module = [kind |-> c.module.kind, slots |-> c.module.slots]
  <1>1. c.brand \in {"bambu", "prusa", "other"}
    BY DEF Models
  <1>2. c.heads \in XlHeadCounts
    BY DEF Valid, ValidModule, ValidHeads, XlHeadCounts
  <1>3. /\ c.brand = "bambu" => c.model \in {"dual", "H2C", "plain"}
        /\ c.brand = "prusa" => c.model \in {"XL", "CORE One", "plain"}
        /\ c.brand = "other" => c.model \in {"plain"}
    <2>1. Models.bambu = {"dual", "H2C", "plain"} /\ Models.prusa = {"XL", "CORE One", "plain"}
          /\ Models.other = {"plain"}
      BY DEF Models
    <2> QED BY <2>1 DEF Valid, ValidModule
  <1>4. c.module \in {NoModule, Mmu} \/ \E n \in 2 .. 8 : c.module = MultiSlot(n)
    <2>1. CASE c.heads > 1
      BY <2>1 DEF Valid, ValidModule
    <2>2. CASE ~(c.heads > 1)
      <3>1. c.module \in SingleHeadModules(c)
        BY <2>2 DEF Valid, ValidModule
      <3>2. CASE c.brand = "bambu"
        BY <3>1, <3>2, <1>3 DEF SingleHeadModules
      <3>3. CASE c.brand = "prusa"
        <4>1. /\ SingleHeadModules(c) \subseteq {NoModule, Mmu} \cup {MultiSlot(n) : n \in PrusaMultiSlotCounts}
          BY <3>3, <1>3 DEF SingleHeadModules
        <4>2. PrusaMultiSlotCounts \subseteq 2 .. 8
          BY DEF PrusaMultiSlotCounts
        <4> QED BY <3>1, <4>1, <4>2
      <3>4. CASE c.brand = "other"
        BY <3>1, <3>4, <1>3 DEF SingleHeadModules, OtherSlotCounts
      <3> QED BY <3>2, <3>3, <3>4, <1>1
    <2> QED BY <2>1, <2>2
  <1>5. /\ c.module.kind \in {"none", "mmu", "multi_slot"} /\ c.module.slots \in 0 .. 8
        /\ c.module = [kind |-> c.module.kind, slots |-> c.module.slots]
    <2>1. CASE c.module \in {NoModule, Mmu}
      BY <2>1 DEF NoModule, Mmu
    <2>2. ASSUME NEW n \in 2 .. 8, c.module = MultiSlot(n)
          PROVE  /\ c.module.kind \in {"none", "mmu", "multi_slot"} /\ c.module.slots \in 0 .. 8
                 /\ c.module = [kind |-> c.module.kind, slots |-> c.module.slots]
      BY <2>2 DEF MultiSlot
    <2> QED BY <2>1, <2>2, <1>4
  <1> QED BY <1>2, <1>4, <1>5 DEF Valid

(* Two slots one after the other, and no trays.                            *)
LEMMA OneByOne ==
    ASSUME NEW a, NEW b
    PROVE  (<<a>> \o <<b>>) \o << >> = <<a, b>>
  <1>1. <<a>> \o <<b>> = <<a, b>>
    <2> DEFINE s == <<a>>  u == <<b>>
    <2>1. s \in Seq({a, b}) /\ u \in Seq({a, b}) /\ Len(s) = 1 /\ Len(u) = 1 /\ s[1] = a /\ u[1] = b
      OBVIOUS
    <2> HIDE DEF s, u
    <2>2. s \o u \in Seq({a, b}) /\ Len(s \o u) = 2 /\ (s \o u)[1] = a /\ (s \o u)[2] = b
      <3> DEFINE joined == s \o u
      <3>1. /\ joined \in Seq({a, b}) /\ Len(joined) = Len(s) + Len(u)
            /\ \A i \in 1 .. Len(s) + Len(u) :
                  joined[i] = IF i <= Len(s) THEN s[i] ELSE u[i - Len(s)]
        BY <2>1, ConcatProperties, Zenon
      <3> HIDE DEF joined
      <3>2. Len(joined) = 2 /\ joined[1] = a /\ joined[2] = b
        <4>1. 1 \in 1 .. Len(s) + Len(u) /\ 2 \in 1 .. Len(s) + Len(u) /\ Len(joined) = 2
          BY <2>1, <3>1
        <4>2. joined[1] = s[1]
          BY <2>1, <3>1, <4>1
        <4>3. joined[2] = u[2 - 1]
          BY <2>1, <3>1, <4>1
        <4> QED BY <2>1, <4>1, <4>2, <4>3
      <3> QED BY <3>1, <3>2 DEF joined
    <2>3. <<a, b>> \in Seq({a, b}) /\ Len(<<a, b>>) = 2 /\ <<a, b>>[1] = a /\ <<a, b>>[2] = b
      OBVIOUS
    <2> DEFINE w == s \o u  v == <<a, b>>
    <2>4. /\ w \in Seq({a, b}) /\ v \in Seq({a, b}) /\ Len(w) = Len(v)
          /\ \A i \in 1 .. Len(w) : w[i] = v[i]
      BY <2>2, <2>3
    <2> HIDE DEF w, v
    <2>5. w = v
      BY <2>4, SeqEqual
    <2> QED BY <2>5 DEF s, u, w, v
  <1>2. <<a, b>> \o << >> = <<a, b>>
    OBVIOUS
  <1> QED BY <1>1, <1>2

(* The keys of a Bambu printer as its older forms become them: one head of *)
(* its own, one AMS, two heads.                                            *)
LEMMA BambuKeys ==
    ASSUME NEW c, c.brand = "bambu", c.module = NoModule
    PROVE  /\ c.heads = 1 /\ c.units = 0 /\ c.modes = <<"direct">> => Keys(c) = {<<"head", 0>>}
           /\ c.heads = 1 /\ c.units = 1 /\ c.modes = <<"ams_fed">> => Keys(c) = KeysUpTo("ams0", 4)
           /\ c.heads = 2 /\ c.units = 0 /\ c.modes = <<"direct", "direct">> =>
                 Keys(c) = KeysUpTo("head", 2)
  <1>0. DeriveSlots(c) = BambuSlots(c)
    <2>1. NoModule # Mmu /\ NoModule.kind # "multi_slot"
      BY DEF NoModule, Mmu
    <2> QED BY <2>1 DEF DeriveSlots
  <1>1. ASSUME c.heads = 1, c.units = 0, c.modes = <<"direct">>
        PROVE  Keys(c) = {<<"head", 0>>}
    <2>1. HeadSlot(c, 1) = <<<<"head", 0>>>>
      BY <1>1 DEF HeadSlot
    <2>2. BambuSlots(c) = <<<<"head", 0>>>>
      BY <1>1, <2>1 DEF BambuSlots
    <2> QED BY <1>0, <2>2 DEF Keys
  <1>2. ASSUME c.heads = 1, c.units = 1, c.modes = <<"ams_fed">>
        PROVE  Keys(c) = KeysUpTo("ams0", 4)
    <2>1. HeadSlot(c, 1) = << >>
      BY <1>2 DEF HeadSlot
    <2>2. BambuSlots(c) = << >> \o [i \in 1 .. 4 * 1 |-> <<Units[(i - 1) \div 4 + 1], (i - 1) % 4>>]
      BY <1>2, <2>1 DEF BambuSlots
    <2>3. \A i \in 1 .. 4 : (i - 1) \div 4 = 0 /\ (i - 1) % 4 = i - 1
      OBVIOUS
    <2>4. [i \in 1 .. 4 * 1 |-> <<Units[(i - 1) \div 4 + 1], (i - 1) % 4>>] = Numbered("ams0", 4)
      BY <2>3 DEF Numbered, Units
    <2>5. << >> \o Numbered("ams0", 4) = Numbered("ams0", 4)
      BY DEF Numbered
    <2>6. BambuSlots(c) = Numbered("ams0", 4)
      BY <2>2, <2>4, <2>5
    <2> QED BY <1>0, <2>6, NumberedAre DEF Keys
  <1>3. ASSUME c.heads = 2, c.units = 0, c.modes = <<"direct", "direct">>
        PROVE  Keys(c) = KeysUpTo("head", 2)
    <2>1. HeadSlot(c, 1) = <<<<"head", 0>>>> /\ HeadSlot(c, 2) = <<<<"head", 1>>>>
      BY <1>3 DEF HeadSlot
    <2>2. BambuSlots(c) = (<<<<"head", 0>>>> \o <<<<"head", 1>>>>) \o
                          [i \in 1 .. 4 * 0 |-> <<Units[(i - 1) \div 4 + 1], (i - 1) % 4>>]
      BY <1>3, <2>1 DEF BambuSlots
    <2>4. [i \in 1 .. 4 * 0 |-> <<Units[(i - 1) \div 4 + 1], (i - 1) % 4>>] = << >>
      OBVIOUS
    <2>5. BambuSlots(c) = <<<<"head", 0>>, <<"head", 1>>>>
      BY <2>2, <2>4, OneByOne
    <2>3. <<<<"head", 0>>, <<"head", 1>>>> = Numbered("head", 2)
      BY DEF Numbered
    <2>6. BambuSlots(c) = Numbered("head", 2)
      BY <2>5, <2>3
    <2>7. Keys(c) = {Numbered("head", 2)[i] : i \in DOMAIN Numbered("head", 2)}
      BY <1>0, <2>6 DEF Keys
    <2> QED BY <2>7, NumberedAre
  <1> QED BY <1>1, <1>2, <1>3

(* The keys of the other printers.                                         *)
LEMMA OtherKeys ==
    ASSUME NEW c, c.brand \in DOMAIN Models
    PROVE  /\ c.module = NoModule /\ c.brand # "bambu" /\ c.heads = 1 => Keys(c) = {<<"main", 0>>}
           /\ c.module = NoModule /\ c.brand # "bambu" /\ c.heads \in {2, 5} =>
                 Keys(c) = KeysUpTo("head", c.heads)
           /\ c.module = Mmu => Keys(c) = KeysUpTo("mmu", 5)
           /\ \A n \in Nat : c.module = MultiSlot(n) =>
                 Keys(c) = KeysUpTo(IF c.brand = "prusa" THEN "indx" ELSE "multi", n)
  <1>0. /\ NoModule # Mmu /\ NoModule.kind = "none" /\ Mmu.kind = "mmu"
        /\ \A n : MultiSlot(n).kind = "multi_slot" /\ MultiSlot(n).slots = n
    BY DEF NoModule, Mmu, MultiSlot
  <1>1. ASSUME c.module = NoModule, c.brand # "bambu", c.heads = 1
        PROVE  Keys(c) = {<<"main", 0>>}
    <2>1. DeriveSlots(c) = <<<<"main", 0>>>>
      BY <1>0, <1>1 DEF DeriveSlots
    <2> QED BY <2>1 DEF Keys
  <1>2. ASSUME c.module = NoModule, c.brand # "bambu", c.heads \in {2, 5}
        PROVE  Keys(c) = KeysUpTo("head", c.heads)
    <2>1. DeriveSlots(c) = Numbered("head", c.heads)
      BY <1>0, <1>2 DEF DeriveSlots
    <2>2. c.heads \in Nat
      BY <1>2
    <2> QED BY <2>1, <2>2, NumberedAre DEF Keys
  <1>3. ASSUME c.module = Mmu
        PROVE  Keys(c) = KeysUpTo("mmu", 5)
    <2>1. DeriveSlots(c) = Numbered("mmu", 5)
      BY <1>0, <1>3 DEF DeriveSlots
    <2> QED BY <2>1, NumberedAre DEF Keys
  <1>4. ASSUME NEW n \in Nat, c.module = MultiSlot(n)
        PROVE  Keys(c) = KeysUpTo(IF c.brand = "prusa" THEN "indx" ELSE "multi", n)
    <2>1. DeriveSlots(c) = Numbered(IF c.brand = "prusa" THEN "indx" ELSE "multi", n)
      BY <1>0, <1>4 DEF DeriveSlots
    <2> DEFINE prefix == IF c.brand = "prusa" THEN "indx" ELSE "multi"
    <2> HIDE DEF prefix
    <2>2. {Numbered(prefix, n)[i] : i \in DOMAIN Numbered(prefix, n)} = KeysUpTo(prefix, n)
      BY NumberedAre
    <2>3. DeriveSlots(c) = Numbered(prefix, n)
      BY <2>1 DEF prefix
    <2> QED BY <2>2, <2>3 DEF Keys, prefix
  <1> QED BY <1>1, <1>2, <1>3, <1>4

(* A printer in the form written now is read as it is.                     *)
LEMMA NowReadsBack ==
    ASSUME NEW p, WrittenNow(p)
    PROVE  /\ DecodedPrinter(p).top =
                 Topology(p.brand, p.model, p.heads, [kind |-> p.kind, slots |-> Count(p)],
                          p.units, p.modes)
           /\ DecodedPrinter(p).slots = p.slots
  <1> DEFINE c == Topology(p.brand, p.model, p.heads, [kind |-> p.kind, slots |-> Count(p)],
                          p.units, p.modes)
  <1>1. SoundTopology(c)
    BY DEF WrittenNow
  <1>2. /\ c.brand = p.brand /\ c.heads = p.heads /\ c.units = p.units /\ c.modes = p.modes
        /\ c.module = [kind |-> p.kind, slots |-> Count(p)]
    BY DEF Topology
  <1>3. c.brand \in DOMAIN Models /\ Valid(c)
    BY <1>1 DEF SoundTopology
  <1> HIDE DEF c
  <1>4. c.heads \in XlHeadCounts /\ c.module.kind \in {"none", "mmu", "multi_slot"}
    BY <1>3, ValidIs
  <1>5. p.kind \in {"none", "mmu", "multi_slot"} /\ p.heads \in XlHeadCounts
    BY <1>2, <1>4
  <1>6. p.units # Absent /\ p.modes # Absent /\ p.heads # Absent
    <2>1. p.modes \in [1 .. p.heads -> ModeNames] /\ p.units \in Nat
      BY <1>1, <1>2 DEF SoundTopology
    <2>2. p.heads \in Byte /\ p.heads \in Nat
      BY <1>5 DEF XlHeadCounts, Byte
    <2> QED BY <2>1, <2>2, AbsentAssumption
  <1>7. /\ DecodedHeads(p) = p.heads /\ DecodedModule(p) = [kind |-> p.kind, slots |-> Count(p)]
        /\ DecodedUnits(p) = p.units /\ DecodedModes(p) = p.modes /\ DecodedSlots(p) = p.slots
    BY <1>5, <1>6 DEF DecodedHeads, DecodedModule, DecodedUnits, DecodedModes, DecodedSlots, OldAms
  <1> QED BY <1>7 DEF DecodedPrinter, c

(* How the slots of an older Bambu printer are renamed.                    *)
LEMMA RenamedAre ==
    ASSUME NEW p, NEW s
    PROVE  /\ \A k : OldAms(p) /\ s.key = <<"ams", k>> => RenamedSlot(p, s).key = <<"ams0", k>>
           /\ ~OldAms(p) /\ s.key = <<"ext", 0>> => RenamedSlot(p, s).key = <<"head", 0>>
           /\ ~OldAms(p) /\ s.key[1] # "ext" => RenamedSlot(p, s).key = s.key
           /\ RenamedSlot(p, s).spool = s.spool
           /\ RenamedSlot(p, s) = [key |-> RenamedSlot(p, s).key, spool |-> RenamedSlot(p, s).spool]
  <1>1. ASSUME NEW k, OldAms(p), s.key = <<"ams", k>>
        PROVE  RenamedSlot(p, s).key = <<"ams0", k>>
    <2>1. s.key[1] = "ams" /\ s.key[2] = k
      BY <1>1
    <2> QED BY <2>1, <1>1 DEF RenamedSlot
  <1>2. ASSUME ~OldAms(p), s.key = <<"ext", 0>>
        PROVE  RenamedSlot(p, s).key = <<"head", 0>>
    <2>1. s.key[1] = "ext"
      BY <1>2
    <2> QED BY <2>1, <1>2 DEF RenamedSlot
  <1> QED BY <1>1, <1>2 DEF RenamedSlot

(* The slots an older Bambu printer is left with: four trays in the first  *)
(* AMS unit and no external slot, or the one slot of its head.             *)
LEMMA OldSlotsAre ==
    ASSUME NEW p, p.units = Absent, NEW keys, SlotKeys(p) = keys,
           p.slots = [j \in DOMAIN p.slots |-> [key |-> p.slots[j].key, spool |-> p.slots[j].spool]]
    PROVE  /\ p.brand # "bambu" => DecodedSlots(p) = p.slots
           /\ p.brand = "bambu" /\ keys = {<<"ext", 0>>} \cup KeysUpTo("ams", 4) /\ OldAms(p) =>
                 {DecodedSlots(p)[j].key : j \in DOMAIN DecodedSlots(p)} = KeysUpTo("ams0", 4)
           /\ p.brand = "bambu" /\ keys = {<<"ext", 0>>} /\ ~OldAms(p) =>
                 {DecodedSlots(p)[j].key : j \in DOMAIN DecodedSlots(p)} = {<<"head", 0>>}
           /\ \A prefix, n : p.brand = "bambu" /\ ~OldAms(p) /\ prefix # "ext"
                              /\ keys = KeysUpTo(prefix, n) =>
                 {DecodedSlots(p)[j].key : j \in DOMAIN DecodedSlots(p)} = keys
  <1>1. CASE p.brand # "bambu"
    BY <1>1 DEF DecodedSlots
  <1>2. CASE p.brand = "bambu"
    <2> DEFINE kept == {j \in DOMAIN p.slots : ~(OldAms(p) /\ p.slots[j].key[1] = "ext")}
    <2>1. DecodedSlots(p) = [j \in kept |-> RenamedSlot(p, p.slots[j])]
      BY <1>2 DEF DecodedSlots
    <2>2. DOMAIN DecodedSlots(p) = kept /\ \A j \in kept : DecodedSlots(p)[j] = RenamedSlot(p, p.slots[j])
      BY <2>1
    <2>3. \A j \in DOMAIN p.slots : p.slots[j].key \in keys
      BY DEF SlotKeys
    <2>4. \A k \in keys : \E j \in DOMAIN p.slots : p.slots[j].key = k
      BY DEF SlotKeys
    <2>5. ASSUME keys = {<<"ext", 0>>} \cup KeysUpTo("ams", 4), OldAms(p)
          PROVE  {DecodedSlots(p)[j].key : j \in kept} = KeysUpTo("ams0", 4)
      <3>1. \A j \in kept : \E k \in 0 .. 3 : p.slots[j].key = <<"ams", k>>
        BY <2>3, <2>5 DEF KeysUpTo
      <3>2. \A j \in kept : \E k \in 0 .. 3 : DecodedSlots(p)[j].key = <<"ams0", k>>
        BY <3>1, <2>2, <2>5, RenamedAre
      <3>3. ASSUME NEW k \in 0 .. 3
            PROVE  \E j \in kept : DecodedSlots(p)[j].key = <<"ams0", k>>
        <4>1. <<"ams", k>> \in keys
          BY <2>5 DEF KeysUpTo
        <4>2. PICK j \in DOMAIN p.slots : p.slots[j].key = <<"ams", k>>
          BY <4>1, <2>4
        <4>3. p.slots[j].key[1] = "ams"
          BY <4>2
        <4>4. j \in kept
          BY <4>3
        <4> QED BY <4>2, <4>4, <2>2, <2>5, RenamedAre
      <3> HIDE DEF kept
      <3>4. \A k \in 0 .. 3 : <<"ams0", k>> \in {DecodedSlots(p)[j].key : j \in kept}
        BY <3>3
      <3>5. KeysUpTo("ams0", 4) = {<<"ams0", k>> : k \in 0 .. 3}
        BY DEF KeysUpTo
      <3>6. \A j \in kept : DecodedSlots(p)[j].key \in {<<"ams0", k>> : k \in 0 .. 3}
        BY <3>2
      <3> QED BY <3>4, <3>5, <3>6
    <2>6. ASSUME keys = {<<"ext", 0>>}, ~OldAms(p)
          PROVE  {DecodedSlots(p)[j].key : j \in kept} = {<<"head", 0>>}
      <3>1. kept = DOMAIN p.slots
        BY <2>6
      <3>2. \A j \in kept : DecodedSlots(p)[j].key = <<"head", 0>>
        BY <2>2, <2>3, <2>6, <3>1, RenamedAre
      <3>3. kept # {}
        BY <2>4, <2>6, <3>1
      <3> HIDE DEF kept
      <3> QED BY <3>2, <3>3
    <2>7. ASSUME NEW prefix, NEW n, ~OldAms(p), prefix # "ext", keys = KeysUpTo(prefix, n)
          PROVE  {DecodedSlots(p)[j].key : j \in kept} = keys
      <3>1. kept = DOMAIN p.slots
        BY <2>7
      <3>2. \A j \in kept : p.slots[j].key[1] = prefix
        BY <2>3, <2>7, <3>1 DEF KeysUpTo
      <3>3. \A j \in kept : DecodedSlots(p)[j].key = p.slots[j].key
        BY <2>2, <2>7, <3>2, RenamedAre
      <3> HIDE DEF kept
      <3> QED BY <3>1, <3>3 DEF SlotKeys
    <2> QED BY <1>2, <2>2, <2>5, <2>6, <2>7
  <1> QED BY <1>1, <1>2

(* A printer with one head is valid with a module its model has.           *)
LEMMA OneHeadValid ==
    ASSUME NEW c, c.brand \in DOMAIN Models, c.model \in Models[c.brand], c.model # "dual",
           c.heads = 1, c.module \in SingleHeadModules(c)
    PROVE  ValidModule(c)
  <1>1. ValidHeads(c)
    BY DEF ValidHeads, XlHeadCounts
  <1> QED BY <1>1 DEF ValidModule

(* The modules that printers of older versions may have are admitted yet.  *)
LEMMA Admitted ==
    ASSUME NEW c
    PROVE  /\ c.brand = "prusa" /\ c.model = "CORE One" =>
                 \A n \in PrusaMultiSlotCounts : MultiSlot(n) \in SingleHeadModules(c)
           /\ c.brand = "other" => \A n \in OtherSlotCounts : MultiSlot(n) \in SingleHeadModules(c)
           /\ c.brand = "bambu" /\ c.model = "H2C" => MultiSlot(7) \in SingleHeadModules(c)
           /\ c.brand = "prusa" /\ c.model \in {"CORE One", "plain"} => Mmu \in SingleHeadModules(c)
  <1>1. ASSUME c.brand = "prusa", c.model = "CORE One"
        PROVE  SingleHeadModules(c) = {NoModule, Mmu} \cup {MultiSlot(n) : n \in PrusaMultiSlotCounts}
    BY <1>1 DEF SingleHeadModules
  <1>2. ASSUME c.brand = "prusa", c.model = "plain"
        PROVE  SingleHeadModules(c) = {NoModule, Mmu}
    BY <1>2 DEF SingleHeadModules
  <1>3. ASSUME c.brand = "other"
        PROVE  SingleHeadModules(c) = {NoModule} \cup {MultiSlot(n) : n \in OtherSlotCounts}
    BY <1>3 DEF SingleHeadModules
  <1>4. ASSUME c.brand = "bambu", c.model = "H2C"
        PROVE  SingleHeadModules(c) = {NoModule, MultiSlot(7)}
    BY <1>4 DEF SingleHeadModules
  <1> QED BY <1>1, <1>2, <1>3, <1>4

(* Every printer that an older version wrote is read as one that is valid  *)
(* today, with exactly the slots its topology derives.                     *)
LEMMA BeforeReadsBack ==
    ASSUME NEW p, WrittenBefore(p),
           p.slots = [j \in DOMAIN p.slots |-> [key |-> p.slots[j].key, spool |-> p.slots[j].spool]]
    PROVE  /\ SoundTopology(DecodedPrinter(p).top)
           /\ SlotKeys(DecodedPrinter(p)) = Keys(DecodedPrinter(p).top)
  <1> DEFINE c == DecodedPrinter(p).top
  <1>1. /\ p.units = Absent /\ p.modes = Absent /\ OldForm(p) /\ SlotKeys(p) = OldKeys(p)
        /\ Absent \notin Nat
    BY AbsentAssumption DEF WrittenBefore
  <1>c. /\ p.count = Absent => Count(p) = 0
        /\ \A n \in Nat : p.count = n => Count(p) = n
    BY <1>1 DEF Count
  <1>2. /\ c.brand = p.brand /\ c.model = p.model /\ c.heads = DecodedHeads(p)
        /\ c.module = DecodedModule(p) /\ c.units = DecodedUnits(p) /\ c.modes = DecodedModes(p)
        /\ c = Topology(c.brand, c.model, c.heads, c.module, c.units, c.modes)
        /\ DecodedPrinter(p).slots = DecodedSlots(p)
    BY DEF DecodedPrinter, Topology
  <1>3. DecodedModes(p) = [h \in 1 .. DecodedHeads(p) |-> IF OldAms(p) THEN "ams_fed" ELSE "direct"]
    BY <1>1 DEF DecodedModes
  <1>4. DecodedUnits(p) = IF OldAms(p) THEN 1 ELSE 0
    BY <1>1 DEF DecodedUnits
  <1>5. Models.bambu = {"dual", "H2C", "plain"} /\ Models.prusa = {"XL", "CORE One", "plain"}
        /\ Models.other = {"plain"} /\ DOMAIN Models = {"bambu", "prusa", "other"}
    BY DEF Models
  <1>6. SlotKeys(DecodedPrinter(p)) = {DecodedSlots(p)[j].key : j \in DOMAIN DecodedSlots(p)}
    BY <1>2 DEF SlotKeys
  <1> HIDE DEF c
  <1>7. ASSUME NEW n \in {1, 2, 5}, DecodedHeads(p) = n, ~OldAms(p), p.brand \in DOMAIN Models,
               ValidModule(c)
        PROVE  SoundTopology(c)
    <2>1. c.units = 0 /\ c.heads = n /\ c.modes = [h \in 1 .. n |-> "direct"]
      BY <1>2, <1>3, <1>4, <1>7
    <2>2. c.modes \in [1 .. c.heads -> ModeNames] /\ Len(c.modes) = c.heads
      BY <2>1 DEF ModeNames
    <2>3. Fed(c) = {}
      BY <2>1, <2>2 DEF Fed
    <2>4. Valid(c)
      BY <1>7, <2>1, <2>2, <2>3 DEF Valid, MaxAmsUnits
    <2> QED BY <1>2, <1>7, <2>1, <2>2, <2>4 DEF SoundTopology
  <1>10. CASE p.kind = "ams" /\ p.brand = "bambu" /\ p.model = "plain" /\ p.count = Absent /\ OneHead(p)
    <2>1. OldAms(p) /\ DecodedHeads(p) = 1 /\ DecodedModule(p) = NoModule
      BY <1>10 DEF OldAms, OneHead, DecodedHeads, DecodedModule
    <2>2. c.brand = "bambu" /\ c.model = "plain" /\ c.heads = 1 /\ c.module = NoModule /\ c.units = 1
          /\ c.modes = [h \in 1 .. 1 |-> "ams_fed"]
      BY <2>1, <1>10, <1>2, <1>3, <1>4
    <2>3. c.modes = <<"ams_fed">> /\ Len(c.modes) = 1 /\ c.modes \in [1 .. 1 -> ModeNames]
      BY <2>2 DEF ModeNames
    <2>4. ValidModule(c)
      BY <2>2, <1>5 DEF ValidModule, ValidHeads, SingleHeadModules
    <2>5. Valid(c)
      BY <2>2, <2>3, <2>4 DEF Valid, MaxAmsUnits
    <2>6. SoundTopology(c)
      <3>1. c.units \in Nat /\ c.heads \in Nat /\ c.modes \in [1 .. c.heads -> ModeNames]
        BY <2>2, <2>3
      <3>2. c.brand \in DOMAIN Models
        BY <2>2, <1>5
      <3> QED BY <3>1, <3>2, <2>5, <1>2 DEF SoundTopology
    <2>7. Keys(c) = KeysUpTo("ams0", 4)
      BY <2>2, <2>3, BambuKeys
    <2>8. OldKeys(p) = {<<"ext", 0>>} \cup KeysUpTo("ams", 4)
      BY <1>10 DEF OldKeys
    <2>9. {DecodedSlots(p)[j].key : j \in DOMAIN DecodedSlots(p)} = KeysUpTo("ams0", 4)
      BY <1>1, <2>1, <2>8, <1>10, OldSlotsAre
    <2> QED BY <2>6, <2>7, <2>9, <1>6 DEF c
  <1>11. CASE p.kind = "tool_changer" /\ p.brand = "prusa" /\ p.model = "XL" /\ p.count \in {2, 5}
              /\ p.heads = Absent
    <2>1. ~OldAms(p) /\ DecodedHeads(p) = p.count /\ DecodedModule(p) = NoModule
      BY <1>11 DEF OldAms, DecodedHeads, DecodedModule, Byte
    <2>2. ValidModule(c)
      <3>1. c.brand = "prusa" /\ c.model = "XL" /\ c.heads \in {2, 5} /\ c.module = NoModule
        BY <2>1, <1>2, <1>11
      <3>2. ValidHeads(c)
        BY <3>1 DEF ValidHeads, XlHeadCounts
      <3>3. c.model \in Models[c.brand]
        BY <3>1, <1>5
      <3>4. c.heads > 1
        BY <3>1
      <3> QED BY <3>1, <3>2, <3>3, <3>4 DEF ValidModule
    <2>3. SoundTopology(c)
      BY <1>7, <2>1, <2>2, <1>11, <1>5
    <2>4. Keys(c) = KeysUpTo("head", p.count)
      <3>1. c.brand = "prusa" /\ c.heads = p.count /\ c.heads \in {2, 5} /\ c.module = NoModule
            /\ c.brand \in DOMAIN Models
        BY <1>2, <1>5, <2>1, <1>11
      <3>2. Keys(c) = KeysUpTo("head", c.heads)
        BY <3>1, OtherKeys
      <3> QED BY <3>1, <3>2
    <2>5. OldKeys(p) = KeysUpTo("head", p.count)
      BY <1>11 DEF OldKeys
    <2>6. DecodedSlots(p) = p.slots
      BY <1>1, <1>11 DEF DecodedSlots
    <2> QED BY <2>3, <2>4, <2>5, <2>6, <1>1, <1>6 DEF c, SlotKeys
  <1>12. CASE p.kind \in {"indx", "multi_slot"} /\ p.brand = "prusa" /\ p.model = "CORE One"
              /\ p.count \in PrusaMultiSlotCounts /\ OneHead(p)
    <2>0. Count(p) = p.count
      BY <1>c, <1>12 DEF PrusaMultiSlotCounts
    <2>1. ~OldAms(p) /\ DecodedHeads(p) = 1 /\ DecodedModule(p) = MultiSlot(p.count)
      BY <2>0, <1>12 DEF OldAms, DecodedHeads, DecodedModule, OneHead, MultiSlot
    <2>2. ValidModule(c)
      <3>1. /\ c.brand = "prusa" /\ c.model = p.model /\ c.heads = 1 /\ c.module = MultiSlot(p.count)
            /\ c.brand \in DOMAIN Models /\ c.model \in Models[c.brand] /\ c.model # "dual"
        BY <2>1, <1>2, <1>12, <1>5
      <3>2. MultiSlot(p.count) \in SingleHeadModules(c)
        BY <3>1, <1>12, Admitted
      <3> QED BY <3>1, <3>2, OneHeadValid
    <2>3. SoundTopology(c)
      BY <1>7, <2>1, <2>2, <1>12, <1>5
    <2>4. Keys(c) = KeysUpTo("indx", p.count)
      <3>a. PrusaMultiSlotCounts \subseteq Nat
        BY DEF PrusaMultiSlotCounts
      <3>0. p.count \in Nat
        BY <1>12, <3>a
      <3>1. /\ c.brand = "prusa" /\ c.module = MultiSlot(p.count) /\ p.count \in Nat
            /\ c.brand \in DOMAIN Models
        BY <3>0, <1>2, <1>5, <2>1, <1>12
      <3>2. \A n \in Nat : c.module = MultiSlot(n) =>
               Keys(c) = KeysUpTo(IF c.brand = "prusa" THEN "indx" ELSE "multi", n)
        BY <3>1, OtherKeys
      <3>3. Keys(c) = KeysUpTo(IF c.brand = "prusa" THEN "indx" ELSE "multi", p.count)
        BY <3>1, <3>2
      <3> QED BY <3>1, <3>3
    <2>5. OldKeys(p) = KeysUpTo("indx", p.count)
      BY <1>12 DEF OldKeys
    <2>6. DecodedSlots(p) = p.slots
      BY <1>1, <1>12 DEF DecodedSlots
    <2> QED BY <2>3, <2>4, <2>5, <2>6, <1>1, <1>6 DEF c, SlotKeys
  <1>13. CASE p.kind \in {"multi_colour", "multi_slot"} /\ p.brand = "other" /\ p.model = "plain"
              /\ p.count \in OtherSlotCounts /\ OneHead(p)
    <2>0. Count(p) = p.count
      BY <1>c, <1>13 DEF OtherSlotCounts
    <2>1. ~OldAms(p) /\ DecodedHeads(p) = 1 /\ DecodedModule(p) = MultiSlot(p.count)
      BY <2>0, <1>13 DEF OldAms, DecodedHeads, DecodedModule, OneHead, MultiSlot
    <2>2. ValidModule(c)
      <3>1. /\ c.brand = "other" /\ c.model = p.model /\ c.heads = 1 /\ c.module = MultiSlot(p.count)
            /\ c.brand \in DOMAIN Models /\ c.model \in Models[c.brand] /\ c.model # "dual"
        BY <2>1, <1>2, <1>13, <1>5
      <3>2. MultiSlot(p.count) \in SingleHeadModules(c)
        BY <3>1, <1>13, Admitted
      <3> QED BY <3>1, <3>2, OneHeadValid
    <2>3. SoundTopology(c)
      BY <1>7, <2>1, <2>2, <1>13, <1>5
    <2>4. Keys(c) = KeysUpTo("multi", p.count)
      <3>0. p.count \in Nat
        BY <1>13 DEF OtherSlotCounts
      <3>1. /\ c.brand = "other" /\ c.module = MultiSlot(p.count) /\ p.count \in Nat
            /\ c.brand \in DOMAIN Models
        BY <3>0, <1>2, <1>5, <2>1, <1>13
      <3>2. \A n \in Nat : c.module = MultiSlot(n) =>
               Keys(c) = KeysUpTo(IF c.brand = "prusa" THEN "indx" ELSE "multi", n)
        BY <3>1, OtherKeys
      <3>3. Keys(c) = KeysUpTo(IF c.brand = "prusa" THEN "indx" ELSE "multi", p.count)
        BY <3>1, <3>2
      <3> QED BY <3>1, <3>3
    <2>5. OldKeys(p) = KeysUpTo("multi", p.count)
      BY <1>13 DEF OldKeys
    <2>6. DecodedSlots(p) = p.slots
      BY <1>1, <1>13 DEF DecodedSlots
    <2> QED BY <2>3, <2>4, <2>5, <2>6, <1>1, <1>6 DEF c, SlotKeys
  <1>14. CASE p.kind = "multi_slot" /\ p.brand = "bambu" /\ p.model = "H2C" /\ p.count = 7 /\ p.heads = 1
    <2>1. ~OldAms(p) /\ DecodedHeads(p) = 1 /\ DecodedModule(p) = MultiSlot(7)
      BY <1>1, <1>c, <1>14 DEF OldAms, DecodedHeads, DecodedModule, MultiSlot
    <2>2. ValidModule(c)
      <3>1. /\ c.brand = "bambu" /\ c.model = p.model /\ c.heads = 1 /\ c.module = MultiSlot(7)
            /\ c.brand \in DOMAIN Models /\ c.model \in Models[c.brand] /\ c.model # "dual"
        BY <2>1, <1>2, <1>14, <1>5
      <3>2. MultiSlot(7) \in SingleHeadModules(c)
        BY <3>1, <1>14, Admitted
      <3> QED BY <3>1, <3>2, OneHeadValid
    <2>3. SoundTopology(c)
      BY <1>7, <2>1, <2>2, <1>14, <1>5
    <2>4. Keys(c) = KeysUpTo("multi", 7)
      <3>1. /\ c.brand = "bambu" /\ c.module = MultiSlot(7) /\ 7 \in Nat
            /\ c.brand \in DOMAIN Models
        BY <1>2, <1>5, <2>1, <1>14
      <3>2. \A n \in Nat : c.module = MultiSlot(n) =>
               Keys(c) = KeysUpTo(IF c.brand = "prusa" THEN "indx" ELSE "multi", n)
        BY <3>1, OtherKeys
      <3>3. Keys(c) = KeysUpTo(IF c.brand = "prusa" THEN "indx" ELSE "multi", 7)
        BY <3>1, <3>2
      <3> QED BY <3>1, <3>3
    <2>5. OldKeys(p) = KeysUpTo("multi", 7)
      BY <1>14 DEF OldKeys
    <2>6. {DecodedSlots(p)[j].key : j \in DOMAIN DecodedSlots(p)} = KeysUpTo("multi", 7)
      BY <1>1, <2>1, <2>5, <1>14, OldSlotsAre
    <2> QED BY <2>3, <2>4, <2>6, <1>6 DEF c
  <1>15. CASE p.kind = "mmu" /\ p.brand = "prusa" /\ p.model \in {"CORE One", "plain"} /\ p.count = Absent
              /\ OneHead(p)
    <2>1. ~OldAms(p) /\ DecodedHeads(p) = 1 /\ DecodedModule(p) = Mmu
      BY <1>c, <1>15 DEF OldAms, DecodedHeads, DecodedModule, OneHead, Mmu
    <2>2. ValidModule(c)
      <3>1. /\ c.brand = "prusa" /\ c.model = p.model /\ c.heads = 1 /\ c.module = Mmu
            /\ c.brand \in DOMAIN Models /\ c.model \in Models[c.brand] /\ c.model # "dual"
        BY <2>1, <1>2, <1>15, <1>5
      <3>2. Mmu \in SingleHeadModules(c)
        BY <3>1, <1>15, Admitted
      <3> QED BY <3>1, <3>2, OneHeadValid
    <2>3. SoundTopology(c)
      BY <1>7, <2>1, <2>2, <1>15, <1>5
    <2>4. Keys(c) = KeysUpTo("mmu", 5)
      BY <1>2, <1>5, <2>1, <1>15, OtherKeys
    <2>5. OldKeys(p) = KeysUpTo("mmu", 5)
      BY <1>15 DEF OldKeys
    <2>6. DecodedSlots(p) = p.slots
      BY <1>1, <1>15 DEF DecodedSlots
    <2> QED BY <2>3, <2>4, <2>5, <2>6, <1>1, <1>6 DEF c, SlotKeys
  <1>16. CASE p.kind = "none" /\ p.brand \in DOMAIN Models /\ p.model \in Models[p.brand] /\ p.count = Absent
              /\ CASE p.model = "dual" -> p.heads = 2
                   [] p.model = "XL"   -> p.heads \in XlHeadCounts
                   [] OTHER            -> OneHead(p)
    <2>1. ~OldAms(p) /\ DecodedModule(p) = NoModule
      BY <1>c, <1>16 DEF OldAms, DecodedModule, NoModule
    <2>2. DecodedHeads(p) = IF p.heads = Absent THEN 1 ELSE p.heads
      BY <1>16 DEF DecodedHeads
    <2>3. /\ p.model = "dual" => p.heads = 2 /\ p.brand = "bambu"
          /\ p.model = "XL" => p.heads \in {1, 2, 5} /\ p.brand = "prusa"
          /\ p.model \notin {"dual", "XL"} => p.heads \in {Absent, 1}
      BY <1>16, <1>5 DEF OneHead, XlHeadCounts
    <2>4. /\ DecodedHeads(p) \in {1, 2, 5}
          /\ DecodedHeads(p) = 1 => p.heads \notin {2, 5}
          /\ DecodedHeads(p) \in {2, 5} => p.heads = DecodedHeads(p)
          /\ p.model = "dual" => DecodedHeads(p) = 2
          /\ p.model \notin {"dual", "XL"} => DecodedHeads(p) = 1
      BY <2>2, <2>3, <1>1
    <2>5. ValidModule(c)
      <3>1. ValidHeads(c) /\ c.model \in Models[c.brand]
        BY <2>3, <2>4, <1>2, <1>16 DEF ValidHeads, XlHeadCounts
      <3>2. CASE c.heads > 1
        BY <3>1, <3>2, <2>1, <1>2 DEF ValidModule
      <3>3. CASE ~(c.heads > 1)
        <4>1. c.heads = 1
          BY <3>3, <2>4, <1>2
        <4>2. c.model # "dual"
          BY <4>1, <2>4, <1>2
        <4>3. NoModule \in SingleHeadModules(c)
          <5>1. CASE p.brand = "bambu"
            BY <5>1, <4>2, <1>2, <1>5, <1>16 DEF SingleHeadModules
          <5>2. CASE p.brand = "prusa"
            BY <5>2, <1>2, <1>5, <1>16 DEF SingleHeadModules
          <5>3. CASE p.brand = "other"
            BY <5>3, <1>2, <1>5, <1>16 DEF SingleHeadModules
          <5> QED BY <5>1, <5>2, <5>3, <1>5, <1>16
        <4> QED BY <3>1, <3>3, <4>3, <2>1, <1>2 DEF ValidModule
      <3> QED BY <3>2, <3>3
    <2>6. SoundTopology(c)
      BY <1>7, <2>1, <2>4, <2>5, <1>16
    <2>7. c.units = 0 /\ c.heads = DecodedHeads(p)
          /\ c.modes = [h \in 1 .. DecodedHeads(p) |-> "direct"] /\ c.module = NoModule
      BY <2>1, <1>2, <1>3, <1>4
    <2>8. CASE DecodedHeads(p) = 1
      <3>1. OldKeys(p) = {IF p.brand = "bambu" THEN <<"ext", 0>> ELSE <<"main", 0>>}
        BY <2>8, <2>4, <1>16 DEF OldKeys
      <3>2. CASE p.brand = "bambu"
        <4>1. c.modes = <<"direct">>
          BY <2>7, <2>8
        <4>2. Keys(c) = {<<"head", 0>>}
          BY <4>1, <2>7, <2>8, <3>2, <1>2, BambuKeys
        <4>3. {DecodedSlots(p)[j].key : j \in DOMAIN DecodedSlots(p)} = {<<"head", 0>>}
          BY <1>1, <2>1, <3>1, <3>2, OldSlotsAre
        <4> QED BY <2>6, <4>2, <4>3, <1>6 DEF c
      <3>3. CASE p.brand # "bambu"
        <4>1. Keys(c) = {<<"main", 0>>}
          BY <2>7, <2>8, <3>3, <1>2, <1>16, OtherKeys
        <4>2. DecodedSlots(p) = p.slots
          BY <1>1, <3>3 DEF DecodedSlots
        <4> QED BY <2>6, <3>1, <3>3, <4>1, <4>2, <1>1, <1>6 DEF c, SlotKeys
      <3> QED BY <3>2, <3>3
    <2>9. CASE DecodedHeads(p) \in {2, 5}
      <3>1. OldKeys(p) = KeysUpTo("head", DecodedHeads(p))
        BY <2>9, <2>4, <1>16 DEF OldKeys
      <3>2. CASE p.brand = "bambu"
        <4>0. DecodedHeads(p) = 2
          BY <2>3, <2>4, <2>9, <3>2
        <4>1. c.modes = <<"direct", "direct">>
          BY <2>7, <4>0
        <4>2. Keys(c) = KeysUpTo("head", 2)
          BY <4>0, <4>1, <2>7, <3>2, <1>2, BambuKeys
        <4>3. {DecodedSlots(p)[j].key : j \in DOMAIN DecodedSlots(p)} = KeysUpTo("head", 2)
          BY <1>1, <2>1, <3>1, <3>2, <4>0, OldSlotsAre
        <4> QED BY <2>6, <4>2, <4>3, <1>6 DEF c
      <3>3. CASE p.brand # "bambu"
        <4>1. Keys(c) = KeysUpTo("head", c.heads)
          BY <2>7, <2>9, <3>3, <1>2, <1>16, OtherKeys
        <4>2. DecodedSlots(p) = p.slots
          BY <1>1, <3>3 DEF DecodedSlots
        <4> QED BY <2>6, <2>7, <3>1, <4>1, <4>2, <1>1, <1>6 DEF c, SlotKeys
      <3> QED BY <3>2, <3>3
    <2> QED BY <2>4, <2>8, <2>9
  <1> QED BY <1>1, <1>10, <1>11, <1>12, <1>13, <1>14, <1>15, <1>16 DEF OldForm

(* Printers and documents as decode gives them.                            *)
ListedSlots(p) ==
    p.slots = [j \in DOMAIN p.slots |-> [key |-> p.slots[j].key, spool |-> p.slots[j].spool]]

(* No field that a reader fills in is missing, and the module is none that *)
(* a reader takes for another.                                             *)
Settled(c) ==
    /\ c = Topology(c.brand, c.model, c.heads, c.module, c.units, c.modes)
    /\ c.module = [kind |-> c.module.kind, slots |-> c.module.slots]
    /\ c.module.kind \notin {"tool_changer", "indx", "multi_colour"}
    /\ ~(c.brand = "bambu" /\ c.module.kind = "ams")
    /\ Absent \notin {c.heads, c.module.slots, c.units, c.modes}

(* A printer of today's rules with its slots, or one that came as it is.   *)
Fine(top, keys) ==
    \/ SoundTopology(top) /\ keys = Keys(top)
    \/ Shape(top, keys) \in OddShapes

DocPrinter(p) ==
    /\ p = [id |-> p.id, name |-> p.name, top |-> p.top, sync |-> p.sync, slots |-> p.slots]
    /\ Settled(p.top) /\ p.sync # Absent
    /\ IsFiniteSet(DOMAIN p.slots) /\ ListedSlots(p)
    /\ Fine(p.top, SlotKeys(p))

DocSound(d) ==
    /\ Validates(d)
    /\ \A t \in Tables : IsFiniteSet(DOMAIN d[t])
    /\ \A k \in DOMAIN d.spools : SpoolFields(d.spools[k]) /\ d.spools[k].net \in Int
    /\ \A k \in DOMAIN d.printers : DocPrinter(d.printers[k])

(* The rows of printers that forms and imports store.                      *)
StoredPrinter(p) ==
    /\ p = [id |-> p.id, name |-> p.name, top |-> p.top, sync |-> p.sync, slots |-> p.slots]
    /\ p.name # "" /\ Settled(p.top) /\ p.sync # Absent
    /\ IsFiniteSet(p.slots)
    /\ \A s \in p.slots : s = [key |-> s.key, spool |-> s.spool]
    /\ Fine(p.top, {s.key : s \in p.slots})

StoredRow(t, r) ==
    CASE t = "spools"   -> SoundSpoolRow(r)
      [] t = "printers" -> StoredPrinter(r)
      [] OTHER          -> r.name # ""

LEMMA SoundSettled ==
    ASSUME NEW c, SoundTopology(c)
    PROVE  Settled(c)
  <1>1. /\ c.brand \in DOMAIN Models /\ Valid(c) /\ c.units \in Nat
        /\ c.modes \in [1 .. c.heads -> ModeNames]
        /\ c = Topology(c.brand, c.model, c.heads, c.module, c.units, c.modes)
    BY DEF SoundTopology
  <1>2. /\ c.heads \in XlHeadCounts /\ c.module.kind \in {"none", "mmu", "multi_slot"}
        /\ c.module.slots \in 0 .. 8
        /\ c.module = [kind |-> c.module.kind, slots |-> c.module.slots]
    BY <1>1, ValidIs
  <1>3. c.heads \in Byte /\ c.heads \in Nat
    BY <1>2 DEF XlHeadCounts, Byte
  <1>4. Absent \notin {c.heads, c.module.slots, c.units, c.modes}
    BY <1>1, <1>2, <1>3, AbsentAssumption
  <1> QED BY <1>1, <1>2, <1>4 DEF Settled

LEMMA SoundStored ==
    ASSUME NEW t, NEW r, SoundRow(t, r)
    PROVE  StoredRow(t, r)
  <1>1. CASE t = "printers"
    <2>1. SoundPrinterRow(r)
      BY <1>1 DEF SoundRow
    <2>2. Settled(r.top) /\ r.sync # Absent
      BY <2>1, SoundSettled, AbsentAssumption DEF SoundPrinterRow
    <2>3. Fine(r.top, {s.key : s \in r.slots})
      BY <2>1 DEF SoundPrinterRow, Fine
    <2> QED BY <1>1, <2>1, <2>2, <2>3 DEF SoundPrinterRow, StoredPrinter, StoredRow
  <1>2. CASE t # "printers"
    BY <1>2 DEF SoundRow, StoredRow
  <1> QED BY <1>1, <1>2

(* The list makes of a printer of today's rules what it is.                *)
LEMMA SoundListed ==
    ASSUME NEW c, SoundTopology(c)
    PROVE  ListedTopology(c) = c
  <1>1. /\ c.brand \in DOMAIN Models /\ Valid(c) /\ c.modes \in [1 .. c.heads -> ModeNames]
        /\ c = Topology(c.brand, c.model, c.heads, c.module, c.units, c.modes)
    BY DEF SoundTopology
  <1>2. /\ c.heads \in XlHeadCounts
        /\ c.module \in {NoModule, Mmu} \/ \E n \in 2 .. 8 : c.module = MultiSlot(n)
    BY <1>1, ValidIs
  <1>3. FromStorage(c.module) = c.module
    <2>1. CASE c.module \in {NoModule, Mmu}
      BY <2>1 DEF NoModule, Mmu, FromStorage
    <2>2. ASSUME NEW n \in 2 .. 8, c.module = MultiSlot(n)
          PROVE  FromStorage(c.module) = c.module
      <3>1. n % 256 = n
        OBVIOUS
      <3> QED BY <2>2, <3>1 DEF MultiSlot, FromStorage
    <2> QED BY <1>2, <2>1, <2>2
  <1>4. c.modes # << >>
    <2>1. 1 \in DOMAIN c.modes
      BY <1>1, <1>2 DEF XlHeadCounts
    <2> QED BY <2>1
  <1> QED BY <1>1, <1>3, <1>4 DEF ListedTopology, Topology

(* What is read is settled.                                                *)
LEMMA ReadSettled ==
    ASSUME NEW p, FilePrinter(p)
    PROVE  Settled(DecodedPrinter(p).top) /\ DecodedPrinter(p).sync # Absent
  <1> DEFINE c == DecodedPrinter(p).top
  <1>1. /\ c = Topology(c.brand, c.model, c.heads, c.module, c.units, c.modes)
        /\ c.brand = p.brand /\ c.heads = DecodedHeads(p) /\ c.module = DecodedModule(p)
        /\ c.units = DecodedUnits(p) /\ c.modes = DecodedModes(p)
    BY DEF DecodedPrinter, Topology
  <1> HIDE DEF c
  <1>2. DecodedHeads(p) \in Byte
    BY DEF DecodedHeads, FilePrinter, Byte
  <1>3. Count(p) # Absent /\ DecodedUnits(p) # Absent /\ DecodedHeads(p) # Absent
    <2>1. DecodedHeads(p) \in Nat /\ 0 \in Nat /\ 1 \in Nat
      BY <1>2 DEF Byte
    <2>2. Absent \notin Nat
      BY AbsentAssumption
    <2> QED BY <2>1, <2>2 DEF Count, DecodedUnits
  <1>4. DecodedModes(p) # Absent
    <2>1. [h \in 1 .. DecodedHeads(p) |-> IF OldAms(p) THEN "ams_fed" ELSE "direct"]
             \in [1 .. DecodedHeads(p) -> ModeNames]
      BY DEF ModeNames
    <2> QED BY <2>1, <1>2, AbsentAssumption DEF DecodedModes
  <1>5. /\ c.module = [kind |-> c.module.kind, slots |-> c.module.slots]
        /\ c.module.kind \notin {"tool_changer", "indx", "multi_colour"}
        /\ ~(c.brand = "bambu" /\ c.module.kind = "ams")
        /\ c.module.slots # Absent
    <2>1. CASE p.kind = "tool_changer" \/ OldAms(p)
      <3>1. c.module = NoModule
        BY <2>1, <1>1 DEF DecodedModule, OldAms
      <3>2. NoModule.kind = "none" /\ NoModule.slots = 0
            /\ NoModule = [kind |-> NoModule.kind, slots |-> NoModule.slots]
        BY DEF NoModule
      <3>3. Absent # 0
        BY AbsentAssumption
      <3> QED BY <3>1, <3>2, <3>3
    <2>2. CASE ~(p.kind = "tool_changer" \/ OldAms(p)) /\ p.kind \in {"indx", "multi_colour"}
      <3>1. c.module = [kind |-> "multi_slot", slots |-> Count(p)]
        BY <2>2, <1>1 DEF DecodedModule, MultiSlot
      <3> QED BY <3>1, <1>3
    <2>3. CASE ~(p.kind = "tool_changer" \/ OldAms(p)) /\ p.kind \notin {"indx", "multi_colour"}
      <3>1. c.module = [kind |-> p.kind, slots |-> Count(p)]
        BY <2>3, <1>1 DEF DecodedModule
      <3> QED BY <2>3, <3>1, <1>1, <1>3 DEF OldAms
    <2> QED BY <2>1, <2>2, <2>3
  <1>6. Settled(c)
    BY <1>1, <1>3, <1>4, <1>5 DEF Settled
  <1>7. DecodedPrinter(p).sync # Absent
    <2>1. DecodedPrinter(p).sync = IF p.sync = Absent THEN "offline" ELSE p.sync
      BY DEF DecodedPrinter
    <2>2. "offline" # Absent
      BY AbsentAssumption DEF SyncStates
    <2> QED BY <2>1, <2>2
  <1> QED BY <1>6, <1>7 DEF c

(* A printer of a file is read as one with today's topology and slots, or  *)
(* its shape is one of the odd ones.                                       *)
OddForm(p) == Shape(DecodedPrinter(p).top, SlotKeys(DecodedPrinter(p))) \in OddShapes

LEMMA PrinterReads ==
    ASSUME NEW p, FilePrinter(p), WrittenNow(p) \/ WrittenBefore(p) \/ OddForm(p)
    PROVE  DocPrinter(DecodedPrinter(p))
  <1> DEFINE q == DecodedPrinter(p)
  <1>0. IsFiniteSet(DOMAIN p.slots) /\ ListedSlots(p)
    BY DEF FilePrinter, ListedSlots
  <1>1. q = [id |-> q.id, name |-> q.name, top |-> q.top, sync |-> q.sync, slots |-> q.slots]
    BY DEF DecodedPrinter
  <1>2. Fine(q.top, SlotKeys(q))
    <2>1. CASE WrittenNow(p)
      <3>1. SoundTopology(q.top) /\ SlotKeys(q) = Keys(q.top)
        BY <2>1, NowReadsBack DEF WrittenNow, SlotKeys
      <3> QED BY <3>1 DEF Fine
    <2>2. CASE WrittenBefore(p)
      <3>1. SoundTopology(q.top) /\ SlotKeys(q) = Keys(q.top)
        BY <2>2, <1>0, BeforeReadsBack DEF ListedSlots
      <3> QED BY <3>1 DEF Fine
    <2>3. CASE OddForm(p)
      BY <2>3 DEF OddForm, Fine
    <2> QED BY <2>1, <2>2, <2>3
  <1>3. q.slots = DecodedSlots(p)
    BY DEF DecodedPrinter
  <1>4. IsFiniteSet(DOMAIN q.slots) /\ ListedSlots(q)
    <2>1. CASE p.brand # "bambu" \/ p.units # Absent
      <3>1. q.slots = p.slots
        BY <2>1, <1>3 DEF DecodedSlots
      <3> QED BY <3>1, <1>0 DEF ListedSlots
    <2>2. CASE ~(p.brand # "bambu" \/ p.units # Absent)
      <3> DEFINE kept == {j \in DOMAIN p.slots : ~(OldAms(p) /\ p.slots[j].key[1] = "ext")}
      <3>1. q.slots = [j \in kept |-> RenamedSlot(p, p.slots[j])]
        BY <2>2, <1>3 DEF DecodedSlots
      <3>2. kept \subseteq DOMAIN p.slots
        OBVIOUS
      <3> HIDE DEF kept
      <3>3. DOMAIN q.slots = kept /\ \A j \in kept : q.slots[j] = RenamedSlot(p, p.slots[j])
        BY <3>1
      <3>4. \A j \in kept : q.slots[j] = [key |-> q.slots[j].key, spool |-> q.slots[j].spool]
        BY <3>3, RenamedAre
      <3>5. q.slots = [j \in kept |-> q.slots[j]]
        BY <3>1, <3>3
      <3>6. ListedSlots(q)
        BY <3>3, <3>4, <3>5 DEF ListedSlots
      <3> QED BY <1>0, <3>2, <3>3, <3>6, FS_Subset
    <2> QED BY <2>1, <2>2
  <1> HIDE DEF q
  <1>5. Settled(q.top) /\ q.sync # Absent
    BY ReadSettled DEF q
  <1>6. DocPrinter(q)
    BY <1>1, <1>2, <1>4, <1>5 DEF DocPrinter
  <1> QED BY <1>6 DEF q

(* A well-formed file that validate accepts is a sound document.           *)
LEMMA DecodeSound ==
    ASSUME NEW f, WellFormed(f), Validates(Decode(f)),
           \A k \in DOMAIN f.printers :
               WrittenNow(f.printers[k]) \/ WrittenBefore(f.printers[k]) \/ OddForm(f.printers[k])
    PROVE  DocSound(Decode(f))
  <1> DEFINE d == Decode(f)
  <1>1. /\ d.printers = [k \in DOMAIN f.printers |-> DecodedPrinter(f.printers[k])]
        /\ d.spools = f.spools /\ d.materials = f.materials /\ d.locations = f.locations
        /\ d.manufacturers = f.manufacturers
    BY DEF Decode, WellFormed
  <1>2. \A t \in Tables : DOMAIN d[t] = DOMAIN f[t]
    BY <1>1 DEF Tables, Referentials
  <1>3. \A k \in DOMAIN d.spools : SpoolFields(d.spools[k]) /\ d.spools[k].net \in Int
    BY <1>1 DEF WellFormed
  <1>4. \A k \in DOMAIN d.printers : d.printers[k] = DecodedPrinter(f.printers[k]) /\ k \in DOMAIN f.printers
    BY <1>1
  <1>5. \A k \in DOMAIN f.printers : FilePrinter(f.printers[k])
    BY DEF WellFormed
  <1>6. \A k \in DOMAIN d.printers : DocPrinter(d.printers[k])
    BY <1>4, <1>5, PrinterReads
  <1>7. \A t \in Tables : IsFiniteSet(DOMAIN f[t])
    BY DEF WellFormed
  <1> HIDE DEF d
  <1>8. Validates(d)
    BY DEF d
  <1>9. DocSound(d)
    BY <1>2, <1>3, <1>6, <1>7, <1>8 DEF DocSound
  <1> QED BY <1>9 DEF d

(* The image of a finite set is finite.                                    *)
LEMMA ImageFinite ==
    ASSUME NEW S, IsFiniteSet(S), NEW f
    PROVE  IsFiniteSet({f[x] : x \in S})
  <1> DEFINE T == {f[x] : x \in S}
             g == [x \in S |-> f[x]]
  <1>1. g \in [S -> T] /\ \A y \in T : \E x \in S : g[x] = y
    OBVIOUS
  <1> HIDE DEF T, g
  <1>2. g \in Surjection(S, T)
    BY <1>1 DEF Surjection
  <1>3. IsFiniteSet(T)
    BY <1>2, FS_Surjection
  <1> QED BY <1>3 DEF T

(* The rows an import inserts are those of its document.                   *)
LEMMA InsertedAre ==
    ASSUME NEW i
    PROVE  /\ \A t \in Tables \ {"printers"} : \A r \in Inserted(i, t) :
                 \E k \in DOMAIN imports[i].doc[t] : r = imports[i].doc[t][k]
           /\ \A r \in Inserted(i, "printers") : \E k \in DOMAIN imports[i].doc.printers :
                 r = WithSlots(imports[i].doc.printers[k], ToSet(imports[i].doc.printers[k].slots))
           /\ \A t \in Tables : Ids(Inserted(i, t)) = Ids(ToSet(imports[i].doc[t]))
  <1>1. \A t \in Tables \ {"printers"} : Inserted(i, t) = {imports[i].doc[t][k] : k \in DOMAIN imports[i].doc[t]}
    BY DEF Inserted, ToSet
  <1>2. Inserted(i, "printers") =
          {WithSlots(p, ToSet(p.slots)) :
              p \in {imports[i].doc.printers[k] : k \in DOMAIN imports[i].doc.printers}}
    BY DEF Inserted, ToSet
  <1>3. \A t \in Tables : ToSet(imports[i].doc[t]) = {imports[i].doc[t][k] : k \in DOMAIN imports[i].doc[t]}
    BY DEF ToSet
  <1>4. Ids(Inserted(i, "printers")) = Ids(ToSet(imports[i].doc.printers))
    BY <1>2, <1>3, WithSlotsIs DEF Ids, Tables
  <1>5. ASSUME NEW t \in Tables
        PROVE  Ids(Inserted(i, t)) = Ids(ToSet(imports[i].doc[t]))
    BY <1>1, <1>3, <1>4
  <1>6. ASSUME NEW r \in Inserted(i, "printers")
        PROVE  \E k \in DOMAIN imports[i].doc.printers :
                  r = WithSlots(imports[i].doc.printers[k], ToSet(imports[i].doc.printers[k].slots))
    BY <1>2
  <1> QED BY <1>1, <1>5, <1>6

(* They are finitely many,                                                 *)
LEMMA InsertedFinite ==
    ASSUME NEW i, NEW t \in Tables, IsFiniteSet(DOMAIN imports[i].doc[t])
    PROVE  IsFiniteSet(Inserted(i, t))
  <1> DEFINE list == imports[i].doc[t]
             wrapped == [k \in DOMAIN list |-> WithSlots(list[k], ToSet(list[k].slots))]
  <1>1. IsFiniteSet({list[k] : k \in DOMAIN list}) /\ IsFiniteSet({wrapped[k] : k \in DOMAIN list})
    <2> HIDE DEF list, wrapped
    <2>1. IsFiniteSet(DOMAIN list)
      BY DEF list
    <2> QED BY <2>1, ImageFinite
  <1>2. CASE t # "printers"
    BY <1>1, <1>2 DEF Inserted, ToSet
  <1>3. CASE t = "printers"
    <2>1. Inserted(i, t) = {WithSlots(p, ToSet(p.slots)) : p \in ToSet(list)}
      BY <1>3 DEF Inserted
    <2>2. ToSet(list) = {list[k] : k \in DOMAIN list}
      BY DEF ToSet
    <2>3. \A k \in DOMAIN list : wrapped[k] = WithSlots(list[k], ToSet(list[k].slots))
      OBVIOUS
    <2> HIDE DEF wrapped, list
    <2>4. Inserted(i, t) = {wrapped[k] : k \in DOMAIN list}
      BY <2>1, <2>2, <2>3
    <2> QED BY <1>1, <2>4
  <1> QED BY <1>2, <1>3

(* and as sound as the document.                                           *)
LEMMA InsertedSound ==
    ASSUME NEW i, DocSound(imports[i].doc)
    PROVE  \A t \in Tables : /\ IsFiniteSet(Inserted(i, t))
                             /\ \A r \in Inserted(i, t) : StoredRow(t, r)
  <1> DEFINE d == imports[i].doc
  <1>1. ASSUME NEW r \in Inserted(i, "spools")
        PROVE  SoundSpoolRow(r)
    <2>1. PICK k \in DOMAIN d.spools : r = d.spools[k]
      BY InsertedAre DEF Tables
    <2>2. SoundSpool(d, r) /\ SpoolFields(r) /\ r.net \in Int
      BY <2>1 DEF DocSound, Validates
    <2> QED BY <2>2 DEF SoundSpool, SoundSpoolRow
  <1>2. ASSUME NEW r \in Inserted(i, "printers")
        PROVE  StoredPrinter(r)
    <2>1. PICK k \in DOMAIN d.printers : r = WithSlots(d.printers[k], ToSet(d.printers[k].slots))
      BY InsertedAre
    <2> DEFINE p == d.printers[k]
    <2>2. DocPrinter(p) /\ p.name # ""
      BY DEF DocSound, Validates, SoundPrinters, Named
    <2> HIDE DEF p
    <2>3. r.id = p.id /\ r.name = p.name /\ r.top = p.top /\ r.slots = ToSet(p.slots)
          /\ r.sync = p.sync
          /\ r = [id |-> r.id, name |-> r.name, top |-> r.top, sync |-> r.sync, slots |-> r.slots]
      BY <2>1 DEF p, WithSlots
    <2>4. r.slots = {p.slots[j] : j \in DOMAIN p.slots}
      BY <2>3 DEF ToSet
    <2>5. IsFiniteSet(r.slots)
      <3> DEFINE list == p.slots
      <3>1. IsFiniteSet(DOMAIN list)
        BY <2>2 DEF DocPrinter
      <3>2. r.slots = {list[j] : j \in DOMAIN list}
        BY <2>4
      <3> HIDE DEF list
      <3> QED BY <3>1, <3>2, ImageFinite
    <2>6. \A j \in DOMAIN p.slots : p.slots[j] = [key |-> p.slots[j].key, spool |-> p.slots[j].spool]
      BY <2>2 DEF DocPrinter, ListedSlots
    <2>7. {s.key : s \in r.slots} = SlotKeys(p)
      BY <2>4 DEF SlotKeys
    <2> QED BY <2>2, <2>3, <2>4, <2>5, <2>6, <2>7 DEF StoredPrinter, DocPrinter
  <1>3. ASSUME NEW t \in Referentials, NEW r \in Inserted(i, t)
        PROVE  r.name # ""
    <2>1. PICK k \in DOMAIN d[t] : r = d[t][k]
      BY InsertedAre DEF Tables, Referentials
    <2> QED BY <2>1 DEF DocSound, Validates, Named
  <1>4. \A t \in Tables : t \in Referentials \/ t = "spools" \/ t = "printers"
    BY DEF Tables
  <1>5. \A t \in Referentials : t # "spools" /\ t # "printers"
    BY DEF Referentials
  <1>6. \A t \in Tables : \A r \in Inserted(i, t) : StoredRow(t, r)
    BY <1>1, <1>2, <1>3, <1>4, <1>5 DEF StoredRow
  <1>7. \A t \in Tables : IsFiniteSet(Inserted(i, t))
    BY InsertedFinite DEF DocSound
  <1> QED BY <1>6, <1>7

(* What validate accepts the schema accepts, but for the columns of a      *)
(* printer: its unique ids and names are the keys, its spools refer to     *)
(* rows of the document, no spool is in two slots.                         *)
LEMMA DocFits ==
    ASSUME NEW i, DocSound(imports[i].doc)
    PROVE  LET c == [t \in Tables |-> Inserted(i, t)] IN
           /\ KeysHold(c) /\ RefsHold(c) /\ SlotsHold(c) /\ StockColumnsHold(c)
           /\ \A t \in Tables : IsInjective(imports[i].doc[t])
  <1> DEFINE d == imports[i].doc
             c == [t \in Tables |-> Inserted(i, t)]
  <1>0. /\ c.materials = Inserted(i, "materials") /\ c.manufacturers = Inserted(i, "manufacturers")
        /\ c.locations = Inserted(i, "locations") /\ c.spools = Inserted(i, "spools")
        /\ c.printers = Inserted(i, "printers")
        /\ \A t \in Tables : c[t] = Inserted(i, t)
    BY DEF Tables, Referentials
  <1>1. \A t \in Tables : \A k, m \in DOMAIN d[t] : d[t][k].id = d[t][m].id => k = m
    <2>1. \A t \in Tables : UniqueIds(d[t])
      BY DEF DocSound, Validates, SoundPrinters, Tables
    <2> QED BY <2>1 DEF UniqueIds, IsInjective
  <1>2. /\ \A k, m \in DOMAIN d.materials : d.materials[k].name = d.materials[m].name => k = m
        /\ \A k, m \in DOMAIN d.manufacturers : d.manufacturers[k].name = d.manufacturers[m].name => k = m
    BY DEF DocSound, Validates, UniqueNames, IsInjective
  <1>3. \A t \in Tables : IsInjective(d[t])
    BY <1>1 DEF IsInjective
  <1> HIDE DEF c
  <1>4. KeysHold(c)
    <2>1. ASSUME NEW t \in Tables, NEW r \in c[t], NEW q \in c[t], r.id = q.id
          PROVE  r = q
      <3>1. CASE t # "printers"
        <4>1. PICK k \in DOMAIN d[t] : r = d[t][k]
          BY <1>0, <3>1, InsertedAre
        <4>2. PICK m \in DOMAIN d[t] : q = d[t][m]
          BY <1>0, <3>1, InsertedAre
        <4> QED BY <4>1, <4>2, <2>1, <1>1
      <3>2. CASE t = "printers"
        <4>1. PICK k \in DOMAIN d.printers : r = WithSlots(d.printers[k], ToSet(d.printers[k].slots))
          BY <1>0, <3>2, InsertedAre
        <4>2. PICK m \in DOMAIN d.printers : q = WithSlots(d.printers[m], ToSet(d.printers[m].slots))
          BY <1>0, <3>2, InsertedAre
        <4>3. d.printers[k].id = d.printers[m].id
          BY <4>1, <4>2, <2>1, WithSlotsIs
        <4>4. k = m
          BY <4>3, <1>1, <3>2
        <4> QED BY <4>1, <4>2, <4>4
      <3> QED BY <3>1, <3>2
    <2>2. NamesDiffer(c.materials)
      BY <1>0, <1>2, InsertedAre DEF NamesDiffer, Tables, Referentials
    <2>3. NamesDiffer(c.manufacturers)
      BY <1>0, <1>2, InsertedAre DEF NamesDiffer, Tables, Referentials
    <2> QED BY <2>1, <2>2, <2>3 DEF KeysHold, IdsDiffer
  <1>5. \A s \in c.spools : SoundSpool(d, s) /\ s.net \in Int
    BY <1>0, InsertedAre DEF DocSound, Validates, Tables
  <1>6. RefsHold(c)
    <2>1. /\ Ids(c.materials) = Ids(ToSet(d.materials)) /\ Ids(c.locations) = Ids(ToSet(d.locations))
          /\ Ids(c.manufacturers) = Ids(ToSet(d.manufacturers))
      BY <1>0, InsertedAre DEF Tables, Referentials
    <2>2. /\ References(c.spools).materials \subseteq Ids(c.materials)
          /\ References(c.spools).locations \subseteq Ids(c.locations)
          /\ References(c.spools).manufacturers \subseteq Ids(c.manufacturers)
      BY <1>5, <2>1 DEF References, SoundSpool
    <2> QED BY <2>2 DEF RefsHold, Referentials
  <1>7. StockColumnsHold(c)
    <2>1. \A s \in c.spools : s.net > 0 /\ s.remaining >= 0
      BY <1>5 DEF SoundSpool
    <2>2. \A m \in c.materials : m.density > 0
      BY <1>0, InsertedAre DEF DocSound, Validates, Tables, Referentials
    <2> QED BY <2>1, <2>2 DEF StockColumnsHold
  <1>8. SlotsHold(c)
    <2>1. ASSUME NEW r \in SlotRows(c.printers)
          PROVE  \E k \in DOMAIN d.printers : \E j \in DOMAIN d.printers[k].slots :
                    r = <<d.printers[k].id, d.printers[k].slots[j].key, d.printers[k].slots[j].spool>>
      <3>1. PICK p \in c.printers : \E s \in p.slots : r = <<p.id, s.key, s.spool>>
        BY SlotRowsAre
      <3>2. PICK s \in p.slots : r = <<p.id, s.key, s.spool>>
        BY <3>1
      <3>3. PICK k \in DOMAIN d.printers : p = WithSlots(d.printers[k], ToSet(d.printers[k].slots))
        BY <1>0, InsertedAre
      <3>4. p.id = d.printers[k].id /\ s \in ToSet(d.printers[k].slots)
        BY <3>3, WithSlotsIs
      <3>5. PICK j \in DOMAIN d.printers[k].slots : s = d.printers[k].slots[j]
        BY <3>4 DEF ToSet
      <3> QED BY <3>2, <3>4, <3>5
    <2>2. ASSUME NEW k \in DOMAIN d.printers, NEW j \in DOMAIN d.printers[k].slots
          PROVE  /\ SpoolAt(d, <<k, j>>) = d.printers[k].slots[j].spool
                 /\ SpoolAt(d, <<k, j>>) # NoRef => <<k, j>> \in Loaded(d)
      <3>1. SpoolAt(d, <<k, j>>) = d.printers[k].slots[j].spool
        BY DEF SpoolAt
      <3>2. <<k, j>> \in {k} \X DOMAIN d.printers[k].slots
        OBVIOUS
      <3>3. <<k, j>> \in UNION {{m} \X DOMAIN d.printers[m].slots : m \in DOMAIN d.printers}
        BY <3>2
      <3> QED BY <3>1, <3>3 DEF Loaded
    <2>3. SoundPrinters(d)
      BY DEF DocSound, Validates
    <2>4. Ids(c.spools) = Ids(ToSet(d.spools))
      BY <1>0, InsertedAre DEF Tables
    <2>5. ASSUME NEW r \in SlotRows(c.printers), NEW q \in SlotRows(c.printers)
          PROVE  /\ r[3] \in Ids(c.spools) \cup {NoRef}
                 /\ r[1] = q[1] /\ r[2] = q[2] => r = q
                 /\ r[3] = q[3] /\ r[3] # NoRef => r = q
      <3>1. PICK k \in DOMAIN d.printers : \E j \in DOMAIN d.printers[k].slots :
                    r = <<d.printers[k].id, d.printers[k].slots[j].key, d.printers[k].slots[j].spool>>
        BY <2>1
      <3>2. PICK j \in DOMAIN d.printers[k].slots :
                    r = <<d.printers[k].id, d.printers[k].slots[j].key, d.printers[k].slots[j].spool>>
        BY <3>1
      <3>3. PICK m \in DOMAIN d.printers : \E n \in DOMAIN d.printers[m].slots :
                    q = <<d.printers[m].id, d.printers[m].slots[n].key, d.printers[m].slots[n].spool>>
        BY <2>1
      <3>4. PICK n \in DOMAIN d.printers[m].slots :
                    q = <<d.printers[m].id, d.printers[m].slots[n].key, d.printers[m].slots[n].spool>>
        BY <3>3
      <3>5. r[3] # NoRef => r[3] \in Ids(c.spools)
        BY <2>2, <2>3, <2>4, <3>2 DEF SoundPrinters
      <3>6. ASSUME r[1] = q[1], r[2] = q[2]
            PROVE  r = q
        <4>1. d.printers[k].id = d.printers[m].id
          BY <3>2, <3>4, <3>6
        <4>2. k = m
          BY <4>1, <1>1 DEF Tables
        <4>3. d.printers[k].slots[j].key = d.printers[k].slots[n].key /\ n \in DOMAIN d.printers[k].slots
          BY <3>2, <3>4, <3>6, <4>2
        <4>4. IsInjective([b \in DOMAIN d.printers[k].slots |-> d.printers[k].slots[b].key])
          BY <2>3 DEF SoundPrinters
        <4>5. j = n
          BY <4>3, <4>4 DEF IsInjective
        <4> QED BY <3>2, <3>4, <4>2, <4>5
      <3>7. ASSUME r[3] = q[3], r[3] # NoRef
            PROVE  r = q
        <4>1. SpoolAt(d, <<k, j>>) = SpoolAt(d, <<m, n>>) /\ <<k, j>> \in Loaded(d) /\ <<m, n>> \in Loaded(d)
          BY <2>2, <3>2, <3>4, <3>7
        <4>2. IsInjective([at \in Loaded(d) |-> SpoolAt(d, at)])
          BY <2>3 DEF SoundPrinters
        <4>3. <<k, j>> = <<m, n>>
          BY <4>1, <4>2 DEF IsInjective
        <4> QED BY <3>2, <3>4, <4>3
      <3> QED BY <3>5, <3>6, <3>7
    <2> QED BY <2>5 DEF SlotsHold
  <1> QED BY <1>3, <1>4, <1>6, <1>7, <1>8 DEF c

(* A printer written is read back as it was.                               *)
LEMMA PrinterReadsBack ==
    ASSUME NEW p, DocPrinter(p)
    PROVE  DecodedPrinter(EncodedPrinter(p)) = p
  <1> DEFINE e == EncodedPrinter(p)
             c == p.top
  <1>1. /\ e.id = p.id /\ e.name = p.name /\ e.slots = p.slots /\ e.sync = p.sync
        /\ e.brand = c.brand /\ e.model = c.model /\ e.heads = c.heads /\ e.units = c.units
        /\ e.modes = c.modes /\ e.kind = c.module.kind /\ e.count = WrittenCount(c.module)
    BY DEF EncodedPrinter
  <1>2. Settled(c) /\ e.sync # Absent
    BY <1>1 DEF DocPrinter
  <1> HIDE DEF e, c
  <1>3. Absent \notin {e.heads, c.module.slots, e.units, e.modes} /\ ~OldAms(e)
        /\ e.kind \notin {"tool_changer", "indx", "multi_colour"}
    BY <1>1, <1>2 DEF Settled, OldAms
  <1>4. Count(e) = c.module.slots
    BY <1>1, <1>3 DEF Count, WrittenCount
  <1>5. DecodedModule(e) = c.module
    <2>1. DecodedModule(e) = [kind |-> e.kind, slots |-> Count(e)]
      BY <1>3 DEF DecodedModule
    <2> QED BY <2>1, <1>1, <1>2, <1>4 DEF Settled
  <1>6. /\ DecodedHeads(e) = c.heads /\ DecodedUnits(e) = c.units /\ DecodedModes(e) = c.modes
        /\ DecodedSlots(e) = p.slots
    BY <1>1, <1>3 DEF DecodedHeads, DecodedUnits, DecodedModes, DecodedSlots
  <1>7. Topology(e.brand, e.model, DecodedHeads(e), DecodedModule(e), DecodedUnits(e), DecodedModes(e)) = c
    BY <1>1, <1>2, <1>5, <1>6 DEF Settled
  <1>8. DecodedPrinter(e) = [id |-> p.id, name |-> p.name, top |-> p.top, sync |-> p.sync, slots |-> p.slots]
    BY <1>1, <1>2, <1>6, <1>7 DEF DecodedPrinter, c
  <1> QED BY <1>8 DEF e, DocPrinter

(* So is a whole document.                                                 *)
LEMMA ReadsBack ==
    ASSUME NEW d, d = [f \in DOMAIN d |-> d[f]], "printers" \in DOMAIN d,
           d.printers = [k \in DOMAIN d.printers |-> d.printers[k]],
           \A k \in DOMAIN d.printers : DocPrinter(d.printers[k])
    PROVE  Decode(Encode(d)) = d
  <1> DEFINE e == Encode(d)
  <1>1. /\ e = [f \in DOMAIN d |-> IF f = "printers"
                    THEN [k \in DOMAIN d.printers |-> EncodedPrinter(d.printers[k])] ELSE d[f]]
    BY DEF Encode
  <1>2. e.printers = [k \in DOMAIN d.printers |-> EncodedPrinter(d.printers[k])] /\ DOMAIN e = DOMAIN d
    BY <1>1
  <1> HIDE DEF e
  <1>3. [k \in DOMAIN e.printers |-> DecodedPrinter(e.printers[k])] = d.printers
    BY <1>2, PrinterReadsBack
  <1>4. Decode(e) = [f \in DOMAIN e |-> IF f = "printers"
                        THEN [k \in DOMAIN e.printers |-> DecodedPrinter(e.printers[k])] ELSE e[f]]
    BY <1>1, <1>2 DEF Decode
  <1>5. Decode(e) = [f \in DOMAIN d |-> IF f = "printers" THEN d.printers ELSE d[f]]
    BY <1>1, <1>2, <1>3, <1>4
  <1> QED BY <1>5 DEF e

(* The rows of a table in some order: each once.                           *)
LEMMA SetToSeqOK ==
    ASSUME NEW S, IsFiniteSet(S)
    PROVE  /\ Cardinality(S) \in Nat
           /\ SetToSeq(S) \in [1 .. Cardinality(S) -> S] /\ IsInjective(SetToSeq(S))
           /\ \A x \in S : \E i \in 1 .. Cardinality(S) : SetToSeq(S)[i] = x
  <1> DEFINE n == Cardinality(S)
  <1>1. n \in Nat /\ ExistsBijection(1 .. n, S)
    BY FS_CardinalityType
  <1>2. PICK f \in Bijection(1 .. n, S) : TRUE
    BY <1>1 DEF ExistsBijection
  <1>3. f \in [1 .. n -> S] /\ IsInjective(f)
    BY <1>2 DEF Bijection, Injection
  <1>4. SetToSeq(S) \in [1 .. n -> S] /\ IsInjective(SetToSeq(S))
    BY <1>3 DEF SetToSeq
  <1>5. SetToSeq(S) \in Injection(1 .. n, S)
    BY <1>4 DEF Injection
  <1>6. Cardinality(1 .. n) = n
    BY <1>1, FS_Interval
  <1>7. SetToSeq(S) \in Surjection(1 .. n, S)
    BY <1>5, <1>6, FS_Injection
  <1> QED BY <1>1, <1>4, <1>7 DEF Surjection

(* Tables and exports whose rows the program could have stored.            *)
ContentSound(c) ==
    /\ \A t \in Tables : IsFiniteSet(c[t]) /\ \A r \in c[t] : StoredRow(t, r)
    /\ c.threshold \in 0 .. 100 \cup {Unset}

AllRead ==
    \A t \in Tables : export.read[t] = export.snapshot[t]

(* The document of an export, list by list.                                *)
LEMMA ExportedAre ==
    ASSUME AllRead, ContentSound(export.snapshot)
    PROVE  /\ \A t \in Tables \ {"printers"} :
                 /\ Exported[t] = SetToSeq(export.snapshot[t])
                 /\ IsFiniteSet(DOMAIN Exported[t]) /\ IsInjective(Exported[t])
                 /\ \A k \in DOMAIN Exported[t] : Exported[t][k] \in export.snapshot[t]
                 /\ ToSet(Exported[t]) = export.snapshot[t]
           /\ IsFiniteSet(DOMAIN Exported.printers) /\ IsInjective(Exported.printers)
           /\ Exported.printers = [k \in DOMAIN Exported.printers |-> Exported.printers[k]]
           /\ \A k \in DOMAIN Exported.printers : \E p \in export.snapshot.printers :
                 Exported.printers[k] = WithSlots(p, SetToSeq(p.slots))
           /\ Exported = [f \in DOMAIN Exported |-> Exported[f]] /\ "printers" \in DOMAIN Exported
           /\ Exported.threshold \in 0 .. 100
           /\ Exported.format = Format /\ Exported.version = Version
  <1>1. ASSUME NEW t \in Tables \ {"printers"}
        PROVE  /\ Exported[t] = SetToSeq(export.snapshot[t])
               /\ IsFiniteSet(DOMAIN Exported[t]) /\ IsInjective(Exported[t])
               /\ \A k \in DOMAIN Exported[t] : Exported[t][k] \in export.snapshot[t]
               /\ ToSet(Exported[t]) = export.snapshot[t]
    <2>1. Exported[t] = SetToSeq(export.snapshot[t])
      BY DEF Exported, Listed, AllRead, Tables, Referentials
    <2> DEFINE S == export.snapshot[t]
    <2>2. IsFiniteSet(S)
      BY DEF ContentSound
    <2> HIDE DEF S
    <2>3. /\ Cardinality(S) \in Nat /\ SetToSeq(S) \in [1 .. Cardinality(S) -> S]
          /\ IsInjective(SetToSeq(S))
          /\ \A x \in S : \E k \in 1 .. Cardinality(S) : SetToSeq(S)[k] = x
      BY <2>2, SetToSeqOK
    <2>4. IsFiniteSet(DOMAIN SetToSeq(S))
      BY <2>3, FS_Interval
    <2>5. ToSet(SetToSeq(S)) = S
      BY <2>3 DEF ToSet
    <2>6. \A k \in DOMAIN SetToSeq(S) : SetToSeq(S)[k] \in S
      BY <2>3
    <2> QED BY <2>1, <2>3, <2>4, <2>5, <2>6 DEF S
  <1>2. /\ IsFiniteSet(DOMAIN Exported.printers) /\ IsInjective(Exported.printers)
        /\ Exported.printers = [k \in DOMAIN Exported.printers |-> Exported.printers[k]]
        /\ \A k \in DOMAIN Exported.printers : \E p \in export.snapshot.printers :
              Exported.printers[k] = WithSlots(p, SetToSeq(p.slots))
    <2> DEFINE P == export.snapshot.printers
               S == {WithSlots(p, SetToSeq(p.slots)) : p \in P}
               f == [p \in P |-> WithSlots(p, SetToSeq(p.slots))]
    <2>1. Exported.printers = SetToSeq(S)
      BY DEF Exported, Listed, AllRead, Tables
    <2>2. IsFiniteSet(P)
      BY DEF ContentSound, Tables
    <2>3. S = {f[p] : p \in P}
      OBVIOUS
    <2>4. \A x \in S : \E p \in P : x = WithSlots(p, SetToSeq(p.slots))
      OBVIOUS
    <2> HIDE DEF P, S, f
    <2>5. IsFiniteSet(S)
      BY <2>2, <2>3, ImageFinite
    <2>6. /\ Cardinality(S) \in Nat /\ SetToSeq(S) \in [1 .. Cardinality(S) -> S]
          /\ IsInjective(SetToSeq(S))
      BY <2>5, SetToSeqOK
    <2>7. IsFiniteSet(DOMAIN SetToSeq(S))
      BY <2>6, FS_Interval
    <2>8. \A k \in DOMAIN SetToSeq(S) : SetToSeq(S)[k] \in S
      BY <2>6
    <2> QED BY <2>1, <2>4, <2>6, <2>7, <2>8 DEF P
  <1>3. /\ Exported = [f \in DOMAIN Exported |-> Exported[f]] /\ "printers" \in DOMAIN Exported
        /\ Exported.threshold \in 0 .. 100
        /\ Exported.format = Format /\ Exported.version = Version
    BY DEF Exported, ContentSound, DefaultThreshold
  <1> QED BY <1>1, <1>2, <1>3

(* A printer row, its slots listed, is a printer of a document.            *)
LEMMA ListedPrinter ==
    ASSUME NEW p, StoredPrinter(p), NEW q, q = WithSlots(p, SetToSeq(p.slots))
    PROVE  /\ DocPrinter(q) /\ q.id = p.id /\ q.name = p.name
           /\ \A j \in DOMAIN q.slots : q.slots[j] \in p.slots
           /\ IsInjective(q.slots)
  <1>1. /\ q.id = p.id /\ q.name = p.name /\ q.top = p.top /\ q.slots = SetToSeq(p.slots)
        /\ q.sync = p.sync
        /\ q = [id |-> q.id, name |-> q.name, top |-> q.top, sync |-> q.sync, slots |-> q.slots]
    BY DEF WithSlots
  <1> DEFINE S == p.slots
  <1>2. IsFiniteSet(S) /\ (\A s \in S : s = [key |-> s.key, spool |-> s.spool])
        /\ Settled(p.top) /\ p.sync # Absent /\ Fine(p.top, {s.key : s \in S})
    BY DEF StoredPrinter
  <1> HIDE DEF S
  <1>3. /\ Cardinality(S) \in Nat /\ SetToSeq(S) \in [1 .. Cardinality(S) -> S]
        /\ IsInjective(SetToSeq(S))
        /\ \A x \in S : \E k \in 1 .. Cardinality(S) : SetToSeq(S)[k] = x
    BY <1>2, SetToSeqOK
  <1>4. q.slots = SetToSeq(S)
    BY <1>1 DEF S
  <1>5. DOMAIN q.slots = 1 .. Cardinality(S) /\ q.slots = [j \in 1 .. Cardinality(S) |-> q.slots[j]]
        /\ IsInjective(q.slots)
    BY <1>3, <1>4
  <1>6. \A j \in DOMAIN q.slots : q.slots[j] \in S
    BY <1>3, <1>4, <1>5
  <1>7. \A x \in S : \E k \in DOMAIN q.slots : q.slots[k] = x
    BY <1>3, <1>4, <1>5
  <1>8. IsFiniteSet(DOMAIN q.slots)
    BY <1>3, <1>5, FS_Interval
  <1>9. ListedSlots(q)
    BY <1>2, <1>5, <1>6 DEF ListedSlots
  <1>10. SlotKeys(q) = {s.key : s \in S}
    BY <1>6, <1>7 DEF SlotKeys
  <1>11. DocPrinter(q)
    BY <1>1, <1>2, <1>8, <1>9, <1>10 DEF DocPrinter
  <1> QED BY <1>1, <1>5, <1>6, <1>11 DEF S

(* The document of a snapshot that the schema admits and whose rows are    *)
(* sound is one that validate accepts.                                     *)
LEMMA ExportedSound ==
    ASSUME AllRead, ContentSound(export.snapshot), FitsSchema(export.snapshot)
    PROVE  Validates(Exported) /\ DocSound(Exported)
  <1> DEFINE d == Exported
             c == export.snapshot
  <1>1. /\ \A t \in Tables \ {"printers"} :
              /\ IsFiniteSet(DOMAIN d[t]) /\ IsInjective(d[t])
              /\ \A k \in DOMAIN d[t] : d[t][k] \in c[t]
              /\ ToSet(d[t]) = c[t]
        /\ IsFiniteSet(DOMAIN d.printers) /\ IsInjective(d.printers)
        /\ \A k \in DOMAIN d.printers : \E p \in c.printers :
              d.printers[k] = WithSlots(p, SetToSeq(p.slots))
        /\ d.threshold \in 0 .. 100 /\ d.format = Format /\ d.version = Version
    BY ExportedAre
  <1>2. \A t \in Tables : \A r \in c[t] : StoredRow(t, r)
    BY DEF ContentSound
  <1>3. /\ KeysHold(c) /\ RefsHold(c) /\ StockColumnsHold(c) /\ SlotsHold(c)
    BY DEF FitsSchema
  <1>tab. /\ Referentials = {"materials", "manufacturers", "locations"}
          /\ Tables = {"materials", "manufacturers", "locations", "spools", "printers"}
    BY DEF Tables, Referentials
  <1> HIDE DEF d, c
  <1>4. ASSUME NEW t \in Tables \ {"printers"}
        PROVE  UniqueIds(d[t])
    BY <1>1, <1>3 DEF UniqueIds, IsInjective, KeysHold, IdsDiffer
  <1>5. ASSUME NEW t \in Referentials
        PROVE  Named(d[t])
    <2>1. \A r \in c[t] : r.name # ""
      BY <1>2, <1>tab DEF StoredRow
    <2> QED BY <2>1, <1>1, <1>tab DEF Named
  <1>6. UniqueNames(d.materials) /\ UniqueNames(d.manufacturers)
    BY <1>1, <1>3, <1>tab DEF UniqueNames, IsInjective, KeysHold, NamesDiffer
  <1>7. \A k \in DOMAIN d.materials : d.materials[k].density > 0
    BY <1>1, <1>3, <1>tab DEF StockColumnsHold
  <1>8. ASSUME NEW k \in DOMAIN d.spools
        PROVE  SoundSpool(d, d.spools[k]) /\ SpoolFields(d.spools[k]) /\ d.spools[k].net \in Int
    <2> DEFINE s == d.spools[k]
    <2>1. s \in c.spools
      BY <1>1, <1>tab
    <2> HIDE DEF s
    <2>2. SoundSpoolRow(s)
      BY <2>1, <1>2, <1>tab DEF StoredRow
    <2>3. s.net > 0
      BY <2>1, <1>3 DEF StockColumnsHold
    <2>4. /\ ToSet(d.materials) = c.materials /\ ToSet(d.locations) = c.locations
          /\ ToSet(d.manufacturers) = c.manufacturers
      BY <1>1, <1>tab
    <2>5. /\ References(c.spools).materials \subseteq Ids(c.materials)
          /\ References(c.spools).locations \subseteq Ids(c.locations)
          /\ References(c.spools).manufacturers \subseteq Ids(c.manufacturers)
      BY <1>3, <1>tab DEF RefsHold
    <2>6. /\ s.material \in Ids(c.materials) /\ s.location \in Ids(c.locations) \cup {NoRef}
          /\ s.manufacturer \in Ids(c.manufacturers) \cup {NoRef}
      BY <2>1, <2>5 DEF References
    <2>7. SoundSpool(d, s)
      BY <2>2, <2>3, <2>4, <2>6 DEF SoundSpool, SoundSpoolRow
    <2> QED BY <2>2, <2>7 DEF s, SoundSpoolRow
  <1>9. ASSUME NEW k \in DOMAIN d.printers
        PROVE  \E p \in c.printers :
                  /\ d.printers[k] = WithSlots(p, SetToSeq(p.slots))
                  /\ StoredPrinter(p) /\ DocPrinter(d.printers[k])
                  /\ d.printers[k].id = p.id /\ d.printers[k].name = p.name
                  /\ \A j \in DOMAIN d.printers[k].slots : d.printers[k].slots[j] \in p.slots
                  /\ IsInjective(d.printers[k].slots)
    <2>1. PICK p \in c.printers : d.printers[k] = WithSlots(p, SetToSeq(p.slots))
      BY <1>1
    <2>2. StoredPrinter(p)
      BY <1>2, <1>tab DEF StoredRow
    <2> QED BY <2>1, <2>2, ListedPrinter
  <1>10. UniqueIds(d.printers) /\ Named(d.printers)
    <2>1. ASSUME NEW k \in DOMAIN d.printers, NEW m \in DOMAIN d.printers,
                 d.printers[k].id = d.printers[m].id
          PROVE  k = m
      <3>1. PICK p \in c.printers : d.printers[k] = WithSlots(p, SetToSeq(p.slots)) /\ d.printers[k].id = p.id
        BY <1>9
      <3>2. PICK q \in c.printers : d.printers[m] = WithSlots(q, SetToSeq(q.slots)) /\ d.printers[m].id = q.id
        BY <1>9
      <3>3. p = q
        BY <3>1, <3>2, <2>1, <1>3, <1>tab DEF KeysHold, IdsDiffer
      <3> QED BY <3>1, <3>2, <3>3, <1>1 DEF IsInjective
    <2> QED BY <2>1, <1>9 DEF UniqueIds, Named, IsInjective, StoredPrinter
  <1>11. ASSUME NEW k \in DOMAIN d.printers, NEW j \in DOMAIN d.printers[k].slots
         PROVE  \E p \in c.printers :
                   /\ d.printers[k].id = p.id /\ d.printers[k].slots[j] \in p.slots
                   /\ <<d.printers[k].id, d.printers[k].slots[j].key, d.printers[k].slots[j].spool>>
                         \in SlotRows(c.printers)
    BY <1>9, RowsOfSlots
  <1>12. ASSUME NEW k \in DOMAIN d.printers, NEW j \in DOMAIN d.printers[k].slots,
                NEW n \in DOMAIN d.printers[k].slots,
                d.printers[k].slots[j].key = d.printers[k].slots[n].key
         PROVE  j = n
    <2>1. <<d.printers[k].id, d.printers[k].slots[j].key, d.printers[k].slots[j].spool>> =
          <<d.printers[k].id, d.printers[k].slots[n].key, d.printers[k].slots[n].spool>>
      BY <1>3, <1>11, <1>12 DEF SlotsHold
    <2>2. d.printers[k].slots[j].spool = d.printers[k].slots[n].spool
      BY <2>1
    <2>3. ListedSlots(d.printers[k]) /\ IsInjective(d.printers[k].slots)
      BY <1>9 DEF DocPrinter
    <2>4. d.printers[k].slots[j] = d.printers[k].slots[n]
      BY <2>2, <2>3, <1>12 DEF ListedSlots
    <2> QED BY <2>3, <2>4 DEF IsInjective
  <1>13. ASSUME NEW at \in Loaded(d)
         PROVE  /\ at[1] \in DOMAIN d.printers /\ at[2] \in DOMAIN d.printers[at[1]].slots
                /\ at = <<at[1], at[2]>> /\ SpoolAt(d, at) # NoRef
                /\ <<d.printers[at[1]].id, d.printers[at[1]].slots[at[2]].key, SpoolAt(d, at)>>
                      \in SlotRows(c.printers)
    <2>1. PICK k \in DOMAIN d.printers : at \in {k} \X DOMAIN d.printers[k].slots
      BY DEF Loaded
    <2>2. at[1] = k /\ at[2] \in DOMAIN d.printers[k].slots /\ at = <<at[1], at[2]>>
      BY <2>1
    <2>3. SpoolAt(d, at) # NoRef
      BY DEF Loaded
    <2> QED BY <2>2, <2>3, <1>11 DEF SpoolAt
  <1>14. \A at \in Loaded(d) : SpoolAt(d, at) \in Ids(ToSet(d.spools))
    <2>1. ToSet(d.spools) = c.spools
      BY <1>1, <1>tab
    <2> QED BY <2>1, <1>3, <1>13 DEF SlotsHold
  <1>15. ASSUME NEW at \in Loaded(d), NEW to \in Loaded(d), SpoolAt(d, at) = SpoolAt(d, to)
         PROVE  at = to
    <2>1. <<d.printers[at[1]].id, d.printers[at[1]].slots[at[2]].key, SpoolAt(d, at)>> =
          <<d.printers[to[1]].id, d.printers[to[1]].slots[to[2]].key, SpoolAt(d, to)>>
      BY <1>3, <1>13, <1>15 DEF SlotsHold
    <2>2. d.printers[at[1]].id = d.printers[to[1]].id
      BY <2>1
    <2>3. at[1] = to[1]
      BY <2>2, <1>10, <1>13 DEF UniqueIds, IsInjective
    <2>4. d.printers[at[1]].slots[at[2]].key = d.printers[to[1]].slots[to[2]].key
      BY <2>1
    <2>5. at[2] = to[2]
      BY <2>3, <2>4, <1>12, <1>13
    <2> QED BY <2>3, <2>5, <1>13
  <1>16. SoundPrinters(d)
    BY <1>10, <1>12, <1>14, <1>15 DEF SoundPrinters, IsInjective
  <1>17. \A t \in Referentials : UniqueIds(d[t]) /\ Named(d[t])
    BY <1>4, <1>5, <1>tab
  <1>18. UniqueIds(d.spools)
    BY <1>4, <1>tab
  <1>19. Validates(d)
    BY <1>1, <1>6, <1>7, <1>8, <1>16, <1>17, <1>18 DEF Validates
  <1>20. \A t \in Tables : IsFiniteSet(DOMAIN d[t])
    BY <1>1, <1>tab
  <1>21. DocSound(d)
    BY <1>8, <1>9, <1>19, <1>20 DEF DocSound
  <1> QED BY <1>19, <1>21 DEF d

-------------------------------------------------------------------------------
(* The second invariant: rows and files stay sound.                        *)

ExportWell ==
    \/ export = Idle
    \/ /\ export = [pc |-> export.pc, snapshot |-> export.snapshot, read |-> export.read]
       /\ export.pc \in 1 .. 6
       /\ export.read = [t \in Tables |-> export.read[t]]
       /\ ContentSound(export.snapshot) /\ FitsSchema(export.snapshot)
       /\ \A k \in 1 .. 5 : k < export.pc =>
              export.read[Reads[k]] = export.snapshot[Reads[k]]

CopiesWell ==
    /\ copies = [c \in Clients |-> copies[c]]
    /\ \A c \in Clients : copies[c] # NoRef => SoundSpoolRow(copies[c])

ContentInv ==
    /\ ContentSound(db)
    /\ \A i \in Importers : Running(i) => DocSound(imports[i].doc)
    /\ ExportWell
    /\ backup # NoFile => DocSound(Decode(backup))
    /\ CopiesWell

(* Sound rows of the two tables that forms fill.                           *)
LEMMA RowSoundBy ==
    /\ \A r : StoredRow("spools", r) <=> SoundSpoolRow(r)
    /\ \A r : StoredRow("printers", r) <=> StoredPrinter(r)
    /\ "spools" \in Tables /\ "printers" \in Tables
  BY DEF StoredRow, Tables

(* A printer stays sound when its slots are loaded otherwise,              *)
LEMMA RefilledSound ==
    ASSUME NEW p, StoredPrinter(p), NEW f
    PROVE  StoredPrinter(WithSlots(p, {Holding(s, f[s]) : s \in p.slots}))
  <1> DEFINE S == p.slots
             g == [s \in S |-> Holding(s, f[s])]
             T == {Holding(s, f[s]) : s \in S}
             q == WithSlots(p, T)
  <1>1. T = {g[s] : s \in S} /\ IsFiniteSet(S)
    BY DEF StoredPrinter
  <1>2. IsFiniteSet(T)
    <2> HIDE DEF S, g, T
    <2> QED BY <1>1, ImageFinite
  <1>3. \A s : Holding(s, f[s]).key = s.key /\ Holding(s, f[s]) =
                  [key |-> Holding(s, f[s]).key, spool |-> Holding(s, f[s]).spool]
    BY DEF Holding
  <1>4. {s.key : s \in T} = {s.key : s \in S}
    BY <1>3
  <1>5. \A s \in T : s = [key |-> s.key, spool |-> s.spool]
    BY <1>3
  <1> HIDE DEF S, T
  <1>6. /\ q = [id |-> q.id, name |-> q.name, top |-> q.top, sync |-> q.sync, slots |-> q.slots]
        /\ q.name = p.name /\ q.top = p.top /\ q.sync = p.sync /\ q.slots = T
    BY DEF WithSlots
  <1>7. Fine(p.top, {s.key : s \in S}) /\ p.name # "" /\ Settled(p.top) /\ p.sync # Absent
    BY DEF S, StoredPrinter
  <1> HIDE DEF q
  <1>8. StoredPrinter(q)
    BY <1>2, <1>4, <1>5, <1>6, <1>7 DEF StoredPrinter
  <1> QED BY <1>8 DEF q, T, S

(* or emptied of the spools that go,                                       *)
LEMMA EmptiedSound ==
    ASSUME NEW p, StoredPrinter(p), NEW spools
    PROVE  StoredPrinter(Emptied(p, spools))
  <1> DEFINE f == [s \in p.slots |-> IF s.spool \in spools THEN NoRef ELSE s.spool]
  <1>1. {Holding(s, IF s.spool \in spools THEN NoRef ELSE s.spool) : s \in p.slots} =
        {Holding(s, f[s]) : s \in p.slots}
    OBVIOUS
  <1>2. Emptied(p, spools) = WithSlots(p, {Holding(s, f[s]) : s \in p.slots})
    BY <1>1 DEF Emptied
  <1> HIDE DEF f
  <1> QED BY <1>2, RefilledSound

(* so what an import leaves is sound.                                      *)
LEMMA LeftSound ==
    ASSUME ContentSound(db), NEW i
    PROVE  \A t \in Tables : IsFiniteSet(Left(i, t)) /\ \A r \in Left(i, t) : StoredRow(t, r)
  <1> SUFFICES ASSUME NEW t \in Tables
               PROVE  IsFiniteSet(Left(i, t)) /\ \A r \in Left(i, t) : StoredRow(t, r)
    OBVIOUS
  <1> DEFINE rows == {r \in db[t] : r.id \notin imports[i].gone[t]}
             f == [p \in rows |-> Emptied(p, imports[i].gone.spools)]
  <1>1. IsFiniteSet(db[t]) /\ \A r \in db[t] : StoredRow(t, r)
    BY DEF ContentSound
  <1>2. rows \subseteq db[t]
    OBVIOUS
  <1>3. IsFiniteSet(rows)
    <2> HIDE DEF rows
    <2> QED BY <1>1, <1>2, FS_Subset
  <1>4. CASE t # "printers"
    <2>1. Left(i, t) = rows
      BY <1>4 DEF Left
    <2> QED BY <1>1, <1>2, <1>3, <2>1
  <1>5. CASE t = "printers"
    <2>1. Left(i, t) = {f[p] : p \in rows}
      BY <1>5 DEF Left
    <2>2. \A p \in rows : f[p] = Emptied(p, imports[i].gone.spools)
      OBVIOUS
    <2> HIDE DEF rows, f
    <2>3. IsFiniteSet(Left(i, t))
      BY <1>3, <2>1, ImageFinite
    <2>4. \A p \in rows : StoredPrinter(f[p])
      BY <1>1, <1>2, <1>5, <2>2, EmptiedSound, RowSoundBy
    <2> QED BY <2>1, <2>3, <2>4, <1>5, RowSoundBy
  <1> QED BY <1>4, <1>5

(* The content at first is sound by assumption.                            *)
LEMMA ContentInit == Init => ContentInv
  <1> SUFFICES ASSUME Init PROVE ContentInv
    OBVIOUS
  <1>1. ContentSound(db)
    BY ContentAssumption, SoundStored DEF Init, ContentSound
  <1>2. \A i \in Importers : ~Running(i)
    BY DEF Init, Running, Idle
  <1>3. ExportWell /\ CopiesWell /\ backup = NoFile
    BY DEF Init, ExportWell, CopiesWell
  <1> QED BY <1>1, <1>2, <1>3 DEF ContentInv

(* The content after a step that rewrites one table.                       *)
LEMMA OneTable ==
    ASSUME ContentSound(db), db = [f \in Fields |-> db[f]], NEW t \in Tables, NEW rows,
           db' = [db EXCEPT ![t] = rows], IsFiniteSet(rows), \A r \in rows : StoredRow(t, r)
    PROVE  ContentSound(db')
  <1>1. \A u \in Tables : db'[u] = IF u = t THEN rows ELSE db[u]
    BY DEF Fields
  <1>2. db'.threshold = db.threshold
    BY DEF Fields, Tables, Referentials
  <1> QED BY <1>1, <1>2 DEF ContentSound

(* A step of no import leaves the documents alone.                         *)
LEMMA ImportsKept ==
    ASSUME ContentInv, UNCHANGED imports
    PROVE  \A i \in Importers : Running(i)' => DocSound(imports'[i].doc)
  BY DEF ContentInv, Running

(* A file is decoded and validated before its import begins.               *)
LEMMA BackupSound ==
    ASSUME ContentInv, NEW fields \in Uploads \cup {OwnUpload}, Acceptable(fields),
           Backup(fields) # NoFile, Validates(Decode(Backup(fields)))
    PROVE  DocSound(Decode(Backup(fields)))
  <1>1. CASE fields \in Uploads
    <2> DEFINE f == Backup(fields)
    <2>1. WellFormed(f)
      BY <1>1, UploadsAssumption
    <2>2. ASSUME NEW k \in DOMAIN f.printers, ~WrittenNow(f.printers[k]), ~WrittenBefore(f.printers[k])
          PROVE  OddForm(f.printers[k])
      <3>1. f.printers[k] \in ToSet(f.printers)
        BY DEF ToSet
      <3>2. ToSet(f.printers) \in {ToSet(Backup(g).printers) :
                                      g \in {u \in Uploads : Acceptable(u) /\ Backup(u) # NoFile}}
        BY <1>1
      <3> QED BY <2>2, <3>1, <3>2 DEF OddForm, OddShapes
    <2> HIDE DEF f
    <2> QED BY <2>1, <2>2, DecodeSound DEF f
  <1>2. CASE fields = OwnUpload
    <2> DEFINE own == OwnUpload
    <2> DEFINE first == [name |-> "confirm_replace", value |-> "yes"]
               second == [name |-> "backup", size |-> "within 1 MiB", file |-> backup]
    <2>0. first.name = "confirm_replace" /\ second.name = "backup" /\ second.file = backup
      OBVIOUS
    <2>9. own = <<first, second>>
      BY DEF OwnUpload
    <2> HIDE DEF own, first, second
    <2>1. DOMAIN own = {1, 2} /\ own[1].name = "confirm_replace" /\ own[2].name = "backup" /\ own[2].file = backup
      BY <2>0, <2>9
    <2>2. FieldsNamed(own, "backup") = {2}
      BY <2>1 DEF FieldsNamed
    <2>3. Backup(own) = backup
      BY <2>1, <2>2 DEF Backup
    <2>4. Backup(fields) = backup
      BY <2>3, <1>2 DEF own
    <2> QED BY <2>4 DEF ContentInv
  <1> QED BY <1>1, <1>2

(* A spool found earlier and saved later is sound yet.                     *)
LEMMA SaveSound ==
    ASSUME IInv, ContentInv, NEW c \in Clients, Save(c)
    PROVE  ContentSound(db') /\ CopiesWell'
  <1> DEFINE s == [copies[c] EXCEPT !.remaining = IF @ > 0 THEN @ - 1 ELSE 0]
             old == Row("spools", s.id)
             rows == (db.spools \ {old}) \cup {s}
  <1>1. copies[c] # NoRef /\ db' = [db EXCEPT !.spools = rows] /\ copies' = [copies EXCEPT ![c] = NoRef]
    BY DEF Save, IInv, Fields, Tables
  <1>2. SoundSpoolRow(copies[c])
    BY <1>1 DEF ContentInv, CopiesWell
  <1>3. SoundSpoolRow(s)
    <2> DEFINE b == copies[c]
               n == IF b.remaining > 0 THEN b.remaining - 1 ELSE 0
    <2>1. b = [id |-> b.id, material |-> b.material, location |-> b.location,
               manufacturer |-> b.manufacturer, net |-> b.net, remaining |-> b.remaining,
               price |-> b.price, colour |-> b.colour]
      BY <1>2 DEF SoundSpoolRow, SpoolFields
    <2>2. s = [id |-> b.id, material |-> b.material, location |-> b.location,
               manufacturer |-> b.manufacturer, net |-> b.net, remaining |-> n,
               price |-> b.price, colour |-> b.colour]
      BY <2>1
    <2>3. b.net \in Int /\ b.remaining \in 0 .. b.net /\ b.price >= 0
          /\ b.colour \in {"hex", "transparent", NoRef}
      BY <1>2 DEF SoundSpoolRow
    <2> HIDE DEF s, b
    <2>4. n \in 0 .. b.net
      BY <2>3
    <2> HIDE DEF n
    <2> QED BY <2>2, <2>3, <2>4 DEF SoundSpoolRow, SpoolFields
  <1> HIDE DEF s, old
  <1>4. IsFiniteSet(db.spools) /\ \A r \in db.spools : StoredRow("spools", r)
    BY RowSoundBy DEF ContentInv, ContentSound
  <1>5. db.spools \ {old} \subseteq db.spools
    OBVIOUS
  <1>6. IsFiniteSet(db.spools \ {old})
    BY <1>4, <1>5, FS_Subset
  <1>7. IsFiniteSet(rows)
    BY <1>6, FS_AddElement
  <1>8. \A r \in rows : StoredRow("spools", r)
    BY <1>3, <1>4, RowSoundBy
  <1> HIDE DEF rows
  <1>9. ContentSound(db')
    BY <1>1, <1>7, <1>8, RowSoundBy, OneTable DEF ContentInv, IInv
  <1>10. CopiesWell'
    <2>1. copies = [d \in Clients |-> copies[d]]
      BY DEF ContentInv, CopiesWell
    <2>2. \A d \in Clients : copies'[d] = IF d = c THEN NoRef ELSE copies[d]
      BY <1>1, <2>1
    <2>3. copies' = [d \in Clients |-> copies'[d]]
      BY <1>1, <2>1
    <2> QED BY <2>2, <2>3 DEF ContentInv, CopiesWell
  <1> QED BY <1>9, <1>10

(* Loading a slot, and taking the spool from any other, keeps the rows     *)
(* sound.                                                                  *)
LEMMA LoadSound ==
    ASSUME IInv, ContentInv, NEW p, NEW key, NEW id, Load(p, key, id)
    PROVE  ContentSound(db')
  <1> DEFINE to(q, s) == IF q.id = p /\ s.key = key THEN id ELSE IF s.spool = id THEN NoRef ELSE s.spool
             P == db.printers
             f == [q \in P |-> WithSlots(q, {Holding(s, to(q, s)) : s \in q.slots})]
             rows == {WithSlots(q, {Holding(s, to(q, s)) : s \in q.slots}) : q \in P}
  <1>1. db' = [db EXCEPT !.printers = rows]
    BY DEF Load, IInv, Fields, Tables
  <1>2. rows = {f[q] : q \in P}
    OBVIOUS
  <1>3. IsFiniteSet(P) /\ \A q \in P : StoredPrinter(q)
    BY RowSoundBy DEF ContentInv, ContentSound
  <1>4. ASSUME NEW q \in P
        PROVE  StoredPrinter(f[q])
    <2> DEFINE g == [s \in q.slots |-> to(q, s)]
    <2>1. f[q] = WithSlots(q, {Holding(s, to(q, s)) : s \in q.slots})
      OBVIOUS
    <2>2. {Holding(s, to(q, s)) : s \in q.slots} = {Holding(s, g[s]) : s \in q.slots}
      OBVIOUS
    <2> HIDE DEF g, f, P
    <2>3. f[q] = WithSlots(q, {Holding(s, g[s]) : s \in q.slots})
      BY <2>1, <2>2
    <2>4. StoredPrinter(q)
      BY <1>3
    <2> QED BY <2>3, <2>4, RefilledSound
  <1> HIDE DEF f, rows, P
  <1>5. IsFiniteSet(rows) /\ \A r \in rows : StoredRow("printers", r)
    BY <1>2, <1>3, <1>4, ImageFinite, RowSoundBy
  <1> QED BY <1>1, <1>5, RowSoundBy, OneTable DEF ContentInv, IInv

(* An export keeps its snapshot and reads it table by table.               *)
LEMMA ExportStep ==
    ASSUME IInv, ContentInv, BeginExport \/ ReadTable
    PROVE  ExportWell'
  <1>1. CASE BeginExport
    <2>1. export' = [pc |-> 1, snapshot |-> db, read |-> [t \in Tables |-> {}]]
      BY <1>1 DEF BeginExport
    <2>2. /\ export'.pc = 1 /\ export'.snapshot = db /\ export'.read = [t \in Tables |-> {}]
          /\ export' = [pc |-> export'.pc, snapshot |-> export'.snapshot, read |-> export'.read]
          /\ export'.read = [t \in Tables |-> export'.read[t]]
      BY <2>1
    <2> QED BY <2>2 DEF ContentInv, IInv, SchemaHolds, ExportWell
  <1>2. CASE ReadTable
    <2>0. Reads = <<"materials", "manufacturers", "locations", "spools", "printers">> /\ DOMAIN Reads = 1 .. 5
          /\ \A k \in 1 .. 5 : Reads[k] \in Tables
      BY DEF Reads, Tables, Referentials
    <2>1. export.pc \in 1 .. 5
      BY <1>2, <2>0 DEF ReadTable
    <2>2. export # Idle
      BY <2>1 DEF Idle
    <2> DEFINE pc == export.pc
               snap == export.snapshot
               seen == export.read
               next == [seen EXCEPT ![Reads[pc]] = snap[Reads[pc]]]
    <2>3. /\ export = [pc |-> pc, snapshot |-> snap, read |-> seen]
          /\ seen = [t \in Tables |-> seen[t]]
          /\ ContentSound(snap) /\ FitsSchema(snap)
          /\ \A k \in 1 .. 5 : k < pc => seen[Reads[k]] = snap[Reads[k]]
      BY <2>2 DEF ContentInv, ExportWell
    <2>4. export' = [export EXCEPT !.pc = pc + 1, !.read = next]
      BY <1>2, <2>3 DEF ReadTable
    <2>5. export' = [pc |-> pc + 1, snapshot |-> snap, read |-> next]
      BY <2>3, <2>4
    <2>6. next = [t \in Tables |-> next[t]] /\ \A t \in Tables : next[t] = IF t = Reads[pc] THEN snap[t] ELSE seen[t]
      BY <2>3
    <2> HIDE DEF next, pc, snap, seen
    <2>7. /\ export'.pc = pc + 1 /\ export'.snapshot = snap /\ export'.read = next
          /\ export' = [pc |-> export'.pc, snapshot |-> export'.snapshot, read |-> export'.read]
      BY <2>5
    <2>8. pc \in 1 .. 5
      BY <2>1 DEF pc
    <2>9. \A k \in 1 .. 5 : k < pc + 1 => next[Reads[k]] = snap[Reads[k]]
      BY <2>0, <2>3, <2>6, <2>8
    <2>10. export'.pc \in 1 .. 6
      BY <2>7, <2>8
    <2> QED BY <2>3, <2>6, <2>7, <2>9, <2>10 DEF ExportWell
  <1> QED BY <1>1, <1>2

(* When all tables are read, the export has the snapshot whole.            *)
LEMMA ReadAll ==
    ASSUME ContentInv, export.pc = Len(Reads) + 1
    PROVE  AllRead /\ ContentSound(export.snapshot) /\ FitsSchema(export.snapshot)
  <1>1. Len(Reads) = 5 /\ Reads[1] = "materials" /\ Reads[2] = "manufacturers" /\ Reads[3] = "locations"
        /\ Reads[4] = "spools" /\ Reads[5] = "printers"
    BY DEF Reads
  <1>2. export.pc = 6 /\ export # Idle
    BY <1>1 DEF Idle
  <1>3. \A k \in 1 .. 5 : export.read[Reads[k]] = export.snapshot[Reads[k]]
    BY <1>2 DEF ContentInv, ExportWell
  <1>4. AllRead
    BY <1>1, <1>3 DEF AllRead, Tables, Referentials
  <1> QED BY <1>2, <1>4 DEF ContentInv, ExportWell

(* The file downloaded reads back as the document it was made of.          *)
LEMMA BackupReads ==
    ASSUME AllRead, ContentSound(export.snapshot), FitsSchema(export.snapshot)
    PROVE  Decode(Encode(Exported)) = Exported
  <1>1. \A k \in DOMAIN Exported.printers : DocPrinter(Exported.printers[k])
    BY ExportedSound DEF DocSound
  <1> QED BY <1>1, ExportedAre, ReadsBack

(* Every step keeps rows and files sound.                                  *)
LEMMA ContentStep == IInv /\ ContentInv /\ [Next]_vars => ContentInv'
  <1> SUFFICES ASSUME IInv, ContentInv, [Next]_vars PROVE ContentInv'
    OBVIOUS
  <1> USE DEF ContentInv
  <1>1. ASSUME NEW i \in Importers, NEW fields \in Uploads \cup {OwnUpload}, BeginImport(i, fields)
        PROVE  ContentInv'
    <2>1. /\ Acceptable(fields) /\ Backup(fields) # NoFile /\ Validates(Decode(Backup(fields)))
          /\ imports' = [imports EXCEPT ![i] = Begun(Decode(Backup(fields)))]
          /\ UNCHANGED <<db, export, backup, copies>>
      BY <1>1 DEF BeginImport
    <2>2. DocSound(Decode(Backup(fields)))
      BY <2>1, BackupSound
    <2>3. \A j \in Importers : imports'[j] = IF j = i THEN Begun(Decode(Backup(fields))) ELSE imports[j]
      BY <2>1 DEF IInv
    <2>4. Begun(Decode(Backup(fields))).doc = Decode(Backup(fields))
      BY DEF Begun
    <2>5. \A j \in Importers : Running(j)' => DocSound(imports'[j].doc)
      BY <2>2, <2>3, <2>4 DEF Running
    <2> QED BY <2>1, <2>5 DEF ContentSound, ExportWell, CopiesWell
  <1>2. ASSUME NEW i \in Importers, Aim(i) \/ Delete(i) \/ Abort(i)
        PROVE  ContentInv'
    <2>1. UNCHANGED <<db, export, backup, copies>>
      BY <1>2 DEF Aim, Delete, Abort
    <2>2. \A j \in Importers : Running(j)' => Running(j) /\ imports'[j].doc = imports[j].doc
      <3>1. CASE Abort(i)
        BY <3>1 DEF Abort, Running, Idle, IInv
      <3>2. CASE Aim(i)
        <4>1. /\ Running(i) /\ imports' = [imports EXCEPT ![i] = [@ EXCEPT !.aimed = TRUE, !.aim = Aimed(i)]]
          BY <3>2 DEF Aim
        <4>2. [imports[i] EXCEPT !.aimed = TRUE, !.aim = Aimed(i)].doc = imports[i].doc
          BY <4>1 DEF IInv, ImportWell
        <4> QED BY <4>1, <4>2 DEF Running, IInv
      <3>3. CASE Delete(i)
        <4>1. Running(i) /\ \A j \in Importers \ {i} : imports'[j] = imports[j]
          BY <3>3 DEF Delete, IInv
        <4>2. imports'[i].doc = imports[i].doc
          BY <3>3, <4>1 DEF Delete, Advanced, IInv, ImportWell
        <4> QED BY <4>1, <4>2 DEF Running
      <3> QED BY <1>2, <3>1, <3>2, <3>3
    <2>3. \A j \in Importers : Running(j)' => DocSound(imports'[j].doc)
      BY <2>2
    <2> QED BY <2>1, <2>3 DEF ContentSound, ExportWell, CopiesWell
  <1>3. ASSUME NEW i \in Importers, Commit(i)
        PROVE  ContentInv'
    <2>1. /\ imports[i].pc = Len(Deletes) + 1 /\ db' = Result(i)
          /\ imports' = [j \in Importers |-> IF j # i /\ Running(j) THEN Overtaken(j, i) ELSE Idle]
          /\ UNCHANGED <<export, backup, copies>>
      BY <1>3 DEF Commit
    <2>2. Running(i) /\ DocSound(imports[i].doc)
      BY <2>1, DeletesAre DEF Running, IInv
    <2>3. ContentSound(db')
      <3>1. ASSUME NEW t \in Tables
            PROVE  IsFiniteSet(db'[t]) /\ \A r \in db'[t] : StoredRow(t, r)
        <4>1. db'[t] = Left(i, t) \cup Inserted(i, t)
          BY <2>1, ResultIs
        <4>2. /\ IsFiniteSet(Left(i, t)) /\ \A r \in Left(i, t) : StoredRow(t, r)
              /\ IsFiniteSet(Inserted(i, t)) /\ \A r \in Inserted(i, t) : StoredRow(t, r)
          BY <2>2, LeftSound, InsertedSound
        <4>3. IsFiniteSet(Left(i, t) \cup Inserted(i, t))
          BY <4>2, FS_Union
        <4> QED BY <4>1, <4>2, <4>3
      <3>2. db'.threshold \in 0 .. 100
        BY <2>1, <2>2, ResultIs DEF DocSound, Validates
      <3> QED BY <3>1, <3>2 DEF ContentSound
    <2>4. \A j \in Importers : Running(j)' => Running(j) /\ imports'[j].doc = imports[j].doc
      <3> SUFFICES ASSUME NEW j \in Importers, Running(j)'
                   PROVE  Running(j) /\ imports'[j].doc = imports[j].doc
        OBVIOUS
      <3>1. j # i /\ Running(j) /\ imports'[j] = Overtaken(j, i)
        BY <2>1 DEF Running, Idle
      <3>2. Overtaken(j, i).doc = imports[j].doc
        BY <3>1 DEF Overtaken, IInv, ImportWell
      <3> QED BY <3>1, <3>2
    <2> QED BY <2>1, <2>3, <2>4 DEF ExportWell, CopiesWell
  <1>4. ASSUME BeginExport \/ ReadTable
        PROVE  ContentInv'
    <2>1. UNCHANGED <<db, imports, backup, copies>>
      BY <1>4 DEF BeginExport, ReadTable
    <2> QED BY <1>4, <2>1, ExportStep, ImportsKept DEF ContentSound, CopiesWell
  <1>5. ASSUME FinishExport
        PROVE  ContentInv'
    <2>1. /\ export.pc = Len(Reads) + 1 /\ backup' = Encode(Exported) /\ export' = Idle
          /\ UNCHANGED <<db, imports, copies>>
      BY <1>5 DEF FinishExport
    <2>2. DocSound(Decode(backup'))
      BY <2>1, ReadAll, ExportedSound, BackupReads
    <2> QED BY <2>1, <2>2, ImportsKept DEF ContentSound, CopiesWell, ExportWell
  <1>6. ASSUME NEW t \in Tables, NEW r \in Fresh[t], Add(t, r)
        PROVE  ContentInv'
    <2>1. db' = [db EXCEPT ![t] = db[t] \cup {r}] /\ UNCHANGED <<imports, export, backup, copies>>
      BY <1>6 DEF Add, IInv, Fields
    <2>2. StoredRow(t, r)
      BY ContentAssumption, SoundStored
    <2>3. IsFiniteSet(db[t]) /\ \A q \in db[t] : StoredRow(t, q)
      BY DEF ContentSound
    <2>4. IsFiniteSet(db[t] \cup {r})
      BY <2>3, FS_AddElement
    <2>5. ContentSound(db')
      BY <2>1, <2>2, <2>3, <2>4, OneTable DEF IInv
    <2> QED BY <2>1, <2>5, ImportsKept DEF ExportWell, CopiesWell
  <1>7. ASSUME NEW c \in Clients, NEW id \in Ids(db.spools), Find(c, id)
        PROVE  ContentInv'
    <2>1. copies' = [copies EXCEPT ![c] = Row("spools", id)] /\ UNCHANGED <<db, imports, export, backup>>
      BY <1>7 DEF Find
    <2>2. Row("spools", id) \in db.spools
      BY RowIs DEF IInv, SchemaHolds, FitsSchema
    <2>3. SoundSpoolRow(Row("spools", id))
      BY <2>2, RowSoundBy DEF ContentSound
    <2>4. copies = [d \in Clients |-> copies[d]]
      BY DEF CopiesWell
    <2>5. /\ \A d \in Clients : copies'[d] = IF d = c THEN Row("spools", id) ELSE copies[d]
          /\ copies' = [d \in Clients |-> copies'[d]]
      BY <2>1, <2>4
    <2>6. CopiesWell'
      BY <2>3, <2>5 DEF CopiesWell
    <2> QED BY <2>1, <2>6, ImportsKept DEF ContentSound, ExportWell
  <1>8. ASSUME NEW c \in Clients, Save(c)
        PROVE  ContentInv'
    <2>1. UNCHANGED <<imports, export, backup>>
      BY <1>8 DEF Save
    <2> QED BY <1>8, <2>1, SaveSound, ImportsKept DEF ExportWell
  <1>9. ASSUME NEW c \in Clients, GiveUp(c)
        PROVE  ContentInv'
    <2>1. copies' = [copies EXCEPT ![c] = NoRef] /\ UNCHANGED <<db, imports, export, backup>>
      BY <1>9 DEF GiveUp
    <2>2. copies = [d \in Clients |-> copies[d]]
      BY DEF CopiesWell
    <2>3. /\ \A d \in Clients : copies'[d] = IF d = c THEN NoRef ELSE copies[d]
          /\ copies' = [d \in Clients |-> copies'[d]]
      BY <2>1, <2>2
    <2>4. CopiesWell'
      BY <2>3 DEF CopiesWell
    <2> QED BY <2>1, <2>4, ImportsKept DEF ContentSound, ExportWell
  <1>10. ASSUME NEW p, NEW key, NEW id, Load(p, key, id)
         PROVE  ContentInv'
    <2>1. UNCHANGED <<imports, export, backup, copies>>
      BY <1>10 DEF Load
    <2> QED BY <1>10, <2>1, LoadSound, ImportsKept DEF ExportWell, CopiesWell
  <1>11. ASSUME NEW p, SetLink(p)
         PROVE  ContentInv'
    <2>1. db' = [db EXCEPT !.links = db.links \cup {p}] /\ UNCHANGED <<imports, export, backup, copies>>
      BY <1>11 DEF SetLink
    <2>2. (\A t \in Tables : db'[t] = db[t]) /\ db'.threshold = db.threshold
      BY <2>1 DEF IInv, Fields, Tables, Referentials
    <2> QED BY <2>1, <2>2, ImportsKept DEF ContentSound, ExportWell, CopiesWell
  <1>12. ASSUME NEW n \in Thresholds, SetThreshold(n)
         PROVE  ContentInv'
    <2>1. db' = [db EXCEPT !.threshold = n] /\ UNCHANGED <<imports, export, backup, copies>>
      BY <1>12 DEF SetThreshold
    <2>2. (\A t \in Tables : db'[t] = db[t]) /\ db'.threshold = n
      BY <2>1 DEF IInv, Fields, Tables, Referentials
    <2> QED BY <2>1, <2>2, ContentAssumption, ImportsKept DEF ContentSound, ExportWell, CopiesWell
  <1>13. ASSUME UNCHANGED vars
         PROVE  ContentInv'
    BY <1>13, ImportsKept DEF vars, ContentSound, ExportWell, CopiesWell
  <1> QED BY <1>1, <1>2, <1>3, <1>4, <1>5, <1>6, <1>7, <1>8, <1>9, <1>10, <1>11, <1>12, <1>13
          DEF Next, Others

(* What an import of an accepted file inserts the schema accepts, but for  *)
(* the columns of a printer: no other INSERT fails after everything was    *)
(* deleted.                                                                *)
THEOREM AcceptedFilesFit == Spec => []AcceptedFits
  <1>1. ContentInv => AcceptedFits
    BY DocFits DEF ContentInv, AcceptedFits
  <1> QED BY <1>1, IInvInit, IInvStep, ContentInit, ContentStep, PTL DEF Spec

(* Whatever files are imported, the printers page can list every printer   *)
(* there is, with exactly the slots it derives, but those that came in a   *)
(* form neither this version writes nor the reader takes over.             *)
THEOREM PrintersCanBeListed == Spec => []ImportedPrintersList
  <1>1. ASSUME IInv, ContentInv, NEW p \in db.printers,
               Shape(p.top, {s.key : s \in p.slots}) \notin OddShapes
        PROVE  ListsWhole(p)
    <2>1. StoredPrinter(p)
      BY <1>1, RowSoundBy DEF ContentInv, ContentSound
    <2>2. SoundTopology(p.top) /\ {s.key : s \in p.slots} = Keys(p.top) /\ p.name # ""
      BY <1>1, <2>1 DEF StoredPrinter, Fine
    <2>3. p.sync \in SyncStates
      BY <1>1 DEF IInv, SchemaHolds, FitsSchema, PrinterColumnsHold
    <2>4. ListedTopology(p.top) = p.top
      BY <2>2, SoundListed
    <2>5. p.top.brand \in DOMAIN Models /\ Valid(p.top)
      BY <2>2 DEF SoundTopology
    <2> QED BY <2>2, <2>3, <2>4, <2>5 DEF ListsWhole, Listable
  <1>2. IInv /\ ContentInv => ImportedPrintersList
    BY <1>1 DEF ImportedPrintersList
  <1> QED BY <1>2, IInvInit, IInvStep, ContentInit, ContentStep, PTL DEF Spec

(* An export whose tables have all been read never fails validation,       *)
(* whatever imports and other requests did meanwhile.                      *)
THEOREM ExportsAlwaysValid == Spec => []ExportsValidate
  <1>1. ContentInv => ExportsValidate
    BY ReadAll, ExportedSound DEF ExportsValidate
  <1> QED BY <1>1, IInvInit, IInvStep, ContentInit, ContentStep, PTL DEF Spec

(* A file downloaded is read back as the content it was made of.           *)
THEOREM FilesReadBack == Spec => ExportsReadBack
  <1>1. ASSUME ContentInv, [Next]_vars, backup' # backup
        PROVE  Decode(backup') = Exported
    <2>1. FinishExport
      BY <1>1 DEF Next, Others, vars, BeginImport, Aim, Delete, Commit, Abort, BeginExport, ReadTable,
                  Add, Find, Save, GiveUp, Load, SetLink, SetThreshold
    <2>2. export.pc = Len(Reads) + 1 /\ backup' = Encode(Exported)
      BY <2>1 DEF FinishExport
    <2> QED BY <1>1, <2>2, ReadAll, BackupReads
  <1>2. ContentInv /\ [Next]_vars => [backup' # backup => Decode(backup') = Exported]_backup
    BY <1>1
  <1> QED BY <1>2, IInvInit, IInvStep, ContentInit, ContentStep, PTL DEF Spec, ExportsReadBack
===============================================================================
