----------------------------- MODULE PrintersProofs -----------------------------
(***************************************************************************)
(* Theorems about Printers, for any number of printers, slots, spools and  *)
(* transactions at a time, cut off anywhere: what the row locks of         *)
(* persistence/printers.rs are enough for.  The keys a topology derives    *)
(* are whatever PrinterModel says; only that there are some is used.       *)
(***************************************************************************)
EXTENDS Printers, TLAPS

-------------------------------------------------------------------------------
(* What the transactions hold.                                             *)

ValidTopologies == {c \in Topologies : Valid(c)}

Links == [kind : {KindFor[c.brand] : c \in Topologies}, endpoint : Endpoints,
          secret : Secrets \cup {NoSecret, Configured}]
Loads == [op : {"load"}, pc : {"clear", "set", "commit"}, spool : SpoolIds,
          to : SlotRows, left : SUBSET SlotRows]
Edits == [op : {"edit"}, printer : PrinterIds, top : ValidTopologies,
          link : LinkForms, locked : SUBSET SlotRows]
Deletes == [op : {"delete"}, printer : PrinterIds, locked : SUBSET SlotRows]
Txs == {Idle} \cup Loads \cup Edits \cup Deletes

Types ==
    /\ printers \in [PrinterIds -> ValidTopologies \cup {NoPrinter}]
    /\ held \in [SlotRows -> SpoolIds \cup {NoSpool, NoSlot}]
    /\ links \in [PrinterIds -> {NoLink} \cup Links]
    /\ txs \in [Clients -> Txs]

(* What a transaction is, read off its operation.                          *)
LEMMA TxFields ==
    ASSUME NEW q \in Txs
    PROVE  /\ q.op = "none" => q = Idle
           /\ q.op = "load" => q \in Loads
           /\ q.op = "edit" => q \in Edits
           /\ q.op = "delete" => q \in Deletes
           /\ q.op \in {"none", "load", "edit", "delete"}
  BY DEF Txs, Idle, Loads, Edits, Deletes

LEMMA IdleTx == Idle \in Txs /\ Idle.op = "none"
  BY DEF Txs, Idle

LEMMA BegunTxs ==
    /\ \A s \in SpoolIds, r \in SlotRows :
          [op |-> "load", pc |-> "clear", spool |-> s, to |-> r, left |-> {}] \in Loads
    /\ \A p \in PrinterIds, c \in ValidTopologies, f \in LinkForms :
          [op |-> "edit", printer |-> p, top |-> c, link |-> f, locked |-> {}] \in Edits
    /\ \A p \in PrinterIds : [op |-> "delete", printer |-> p, locked |-> {}] \in Deletes
  BY DEF Loads, Edits, Deletes

LEMMA TypesInit == Init => Types
  BY IdleTx DEF Init, Types

(* What a form makes of a link is a link, of the kind its brand asks for.  *)
LEMMA FormLinkType ==
    ASSUME NEW c \in Topologies, NEW f \in LinkForms
    PROVE  FormLink(c.brand, f) \in {NoLink} \cup Links
  <1>1. CASE f = NoLink \/ ~LinksEnabled
    BY <1>1 DEF FormLink
  <1>2. CASE f # NoLink /\ LinksEnabled
    <2>1. f.endpoint \in Endpoints /\ f.key \in Secrets \cup {NoSecret}
      BY <1>2 DEF LinkForms
    <2>2. FormSecret(KindFor[c.brand], f) \in Secrets \cup {NoSecret, Configured}
      BY <2>1 DEF FormSecret
    <2> QED BY <1>2, <2>1, <2>2 DEF FormLink, Link, Links
  <1> QED BY <1>1, <1>2

LEMMA TypesStep == Types /\ [Next]_vars => Types'
  <1> SUFFICES ASSUME Types, [Next]_vars
               PROVE  Types'
    OBVIOUS
  <1> USE DEF Types
  <1>1. ASSUME NEW p \in PrinterIds, NEW c \in Topologies, NEW f \in LinkForms, Create(p, c, f)
        PROVE  Types'
    <2>1. c \in ValidTopologies
      BY <1>1 DEF Create, ValidTopologies
    <2>2. held' \in [SlotRows -> SpoolIds \cup {NoSpool, NoSlot}]
      BY <1>1 DEF Create
    <2> QED BY <1>1, <2>1, <2>2, FormLinkType DEF Create
  <1>2. ASSUME NEW t \in Clients, NEW n \in Txs, txs' = [txs EXCEPT ![t] = n],
               UNCHANGED <<printers, held, links>>
        PROVE  Types'
    BY <1>2
  <1>3. ASSUME NEW t \in Clients, NEW s \in SpoolIds, NEW r \in SlotRows, BeginLoad(t, s, r)
        PROVE  Types'
    BY <1>2, <1>3, BegunTxs DEF BeginLoad, Txs
  <1>4. ASSUME NEW t \in Clients, NEW p \in PrinterIds, NEW c \in Topologies,
               NEW f \in LinkForms, BeginEdit(t, p, c, f)
        PROVE  Types'
    BY <1>2, <1>4, BegunTxs DEF BeginEdit, Txs, ValidTopologies
  <1>5. ASSUME NEW t \in Clients, NEW p \in PrinterIds, BeginDelete(t, p)
        PROVE  Types'
    BY <1>2, <1>5, BegunTxs DEF BeginDelete, Txs
  <1>6. ASSUME NEW t \in Clients, ClearOld(t)
        PROVE  Types'
    <2>1. txs[t] \in Loads
      BY <1>6, TxFields DEF ClearOld
    <2>2. HoldersOf(txs[t].spool) \in SUBSET SlotRows
      BY DEF HoldersOf
    <2>3. [txs[t] EXCEPT !.pc = "set", !.left = HoldersOf(txs[t].spool)] \in Loads
      BY <2>1, <2>2 DEF Loads
    <2>4. txs' = [txs EXCEPT ![t] = [txs[t] EXCEPT !.pc = "set",
                                                  !.left = HoldersOf(txs[t].spool)]]
      BY <1>6 DEF ClearOld
    <2> QED BY <1>2, <1>6, <2>3, <2>4 DEF ClearOld, Txs
  <1>7. ASSUME NEW t \in Clients, SetTarget(t)
        PROVE  Types'
    <2>1. txs[t] \in Loads
      BY <1>7, TxFields DEF SetTarget
    <2>2. [txs[t] EXCEPT !.pc = "commit"] \in Loads
      BY <2>1 DEF Loads
    <2>3. txs' = [txs EXCEPT ![t] = [txs[t] EXCEPT !.pc = "commit"]]
      BY <1>7 DEF SetTarget
    <2> QED BY <1>2, <1>7, <2>2, <2>3 DEF SetTarget, Txs
  <1>8. ASSUME NEW t \in Clients, TargetMissing(t) \/ RefuseEdit(t) \/ BreakDeadlock(t) \/ Abort(t)
        PROVE  Types'
    BY <1>2, <1>8, IdleTx DEF TargetMissing, RefuseEdit, BreakDeadlock, Abort, End
  <1>9. ASSUME NEW t \in Clients, CommitLoad(t)
        PROVE  Types'
    <2>1. txs[t].spool \in SpoolIds
      BY <1>9, TxFields DEF CommitLoad, Loads
    <2>2. held' \in [SlotRows -> SpoolIds \cup {NoSpool, NoSlot}]
      BY <1>9, <2>1 DEF CommitLoad
    <2> QED BY <1>9, <2>2, IdleTx DEF CommitLoad, End
  <1>10. ASSUME NEW t \in Clients, LockSlot(t)
         PROVE  Types'
    <2> PICK r \in NextLocks(t) : txs' = [txs EXCEPT ![t].locked = @ \cup {r}]
      BY <1>10 DEF LockSlot
    <2>1. txs[t] \in Edits \cup Deletes
      BY <1>10, TxFields DEF LockSlot
    <2>2. r \in SlotRows
      BY DEF NextLocks, Unlocked, RowsOf
    <2>3. [txs[t] EXCEPT !.locked = @ \cup {r}] \in Edits \cup Deletes
      BY <2>1, <2>2 DEF Edits, Deletes
    <2>4. txs' = [txs EXCEPT ![t] = [txs[t] EXCEPT !.locked = @ \cup {r}]]
      OBVIOUS
    <2> QED BY <1>2, <1>10, <2>3, <2>4 DEF LockSlot, Txs
  <1>11. ASSUME NEW t \in Clients, CommitEdit(t)
         PROVE  Types'
    <2>1. txs[t] \in Edits
      BY <1>11, TxFields DEF CommitEdit
    <2>2. /\ txs[t].printer \in PrinterIds /\ txs[t].top \in ValidTopologies
          /\ txs[t].link \in LinkForms /\ txs[t].top \in Topologies
      BY <2>1 DEF Edits, ValidTopologies
    <2> DEFINE link == FormLink(txs[t].top.brand, txs[t].link)
    <2>3. link \in {NoLink} \cup Links
      BY <2>2, FormLinkType
    <2>4. Writable(links[txs[t].printer], link)
      BY <1>11 DEF CommitEdit
    <2> HIDE DEF link
    <2>5. Written(links[txs[t].printer], link) \in {NoLink} \cup Links
      BY <2>2, <2>3, <2>4 DEF Written, Writable, Links
    <2>6. held' \in [SlotRows -> SpoolIds \cup {NoSpool, NoSlot}]
      BY <1>11 DEF CommitEdit, SlotAfter
    <2> QED BY <1>11, <2>2, <2>5, <2>6, IdleTx DEF CommitEdit, End, link
  <1>12. ASSUME NEW t \in Clients, CommitDelete(t)
         PROVE  Types'
    <2>1. held' \in [SlotRows -> SpoolIds \cup {NoSpool, NoSlot}]
      BY <1>12 DEF CommitDelete
    <2> QED BY <1>12, <2>1, IdleTx DEF CommitDelete, End
  <1>13. ASSUME NEW r \in SlotRows, UnloadSlot(r)
         PROVE  Types'
    BY <1>13 DEF UnloadSlot
  <1>14. ASSUME NEW s \in SpoolIds, UnloadSpool(s)
         PROVE  Types'
    BY <1>14 DEF UnloadSpool
  <1>15. CASE UNCHANGED vars
    BY <1>15 DEF vars
  <1> QED BY <1>1, <1>3, <1>4, <1>5, <1>6, <1>7, <1>8, <1>9, <1>10, <1>11, <1>12, <1>13,
             <1>14, <1>15 DEF Next, Step

THEOREM TypesInvariant == Spec => []Types
  <1>1. Types /\ [Next]_vars => Types'
    BY TypesStep
  <1> QED BY TypesInit, <1>1, PTL DEF Spec

-------------------------------------------------------------------------------
(* The locks.                                                              *)

(* The rows a transaction q has locked: SlotLocks of its holder.           *)
LocksOf(q) ==
    CASE q.op = "none" -> {}
      [] q.op = "load" -> q.left \cup IF q.pc = "commit" THEN {q.to} ELSE {}
      [] OTHER         -> q.locked

(* No two transactions hold a row, nor load a spool, at the same time; and *)
(* no row that is locked has been deleted.                                 *)
Exclusion ==
    /\ \A t, u \in Clients : t # u => LocksOf(txs[t]) \cap LocksOf(txs[u]) = {}
    /\ \A t \in Clients : \A r \in LocksOf(txs[t]) : held[r] # NoSlot
    /\ \A t, u \in Clients :
          t # u /\ txs[t].op = "load" /\ txs[u].op = "load" => txs[t].spool # txs[u].spool

(* There is a row where a printer derives one, and nowhere else.           *)
RowsDerived ==
    \A r \in SlotRows :
        held[r] # NoSlot <=> printers[r[1]] # NoPrinter /\ r[2] \in Keys(printers[r[1]])

LEMMA LocksAt == \A t \in Clients : SlotLocks(t) = LocksOf(txs[t])
  BY DEF SlotLocks, LocksOf

LEMMA LocksByKind ==
    ASSUME NEW q \in Txs
    PROVE  /\ LocksOf(Idle) = {}
           /\ q \in Loads => LocksOf(q) = q.left \cup IF q.pc = "commit" THEN {q.to} ELSE {}
           /\ q \in Edits \cup Deletes => LocksOf(q) = q.locked
           /\ LocksOf(q) \subseteq SlotRows
  <1>1. LocksOf(Idle) = {}
    BY DEF LocksOf, Idle
  <1>2. q \in Loads => LocksOf(q) = q.left \cup IF q.pc = "commit" THEN {q.to} ELSE {}
    BY DEF LocksOf, Loads
  <1>3. q \in Edits \cup Deletes => LocksOf(q) = q.locked
    BY DEF LocksOf, Edits, Deletes
  <1>4. CASE q = Idle
    BY <1>1, <1>2, <1>3, <1>4
  <1>5. CASE q \in Loads
    BY <1>1, <1>2, <1>3, <1>5 DEF Loads
  <1>6. CASE q \in Edits \cup Deletes
    BY <1>1, <1>2, <1>3, <1>6 DEF Edits, Deletes
  <1> QED BY <1>4, <1>5, <1>6 DEF Txs

(* One transaction moves to n and takes only rows that exist and that      *)
(* nobody holds, while no locked row goes: the locks stay exclusive.       *)
LEMMA OneMoves ==
    ASSUME Types, Exclusion, NEW t \in Clients, NEW n \in Txs, txs' = [txs EXCEPT ![t] = n],
           \A r \in LocksOf(n) \ LocksOf(txs[t]) :
              held[r] # NoSlot /\ \A u \in Clients \ {t} : r \notin LocksOf(txs[u]),
           n.op = "load" => \A u \in Clients \ {t} : txs[u].op = "load" => txs[u].spool # n.spool,
           \A u \in Clients : \A r \in LocksOf(txs'[u]) : held[r] # NoSlot => held'[r] # NoSlot
    PROVE  Exclusion'
  <1>1. txs'[t] = n /\ \A u \in Clients \ {t} : txs'[u] = txs[u]
    BY DEF Types
  <1>2. ASSUME NEW u \in Clients, NEW v \in Clients, u # v
        PROVE  LocksOf(txs'[u]) \cap LocksOf(txs'[v]) = {}
    BY <1>1, <1>2 DEF Exclusion
  <1>3. ASSUME NEW u \in Clients, NEW r \in LocksOf(txs'[u])
        PROVE  held'[r] # NoSlot
    BY <1>1, <1>3 DEF Exclusion
  <1>4. ASSUME NEW u \in Clients, NEW v \in Clients, u # v,
               txs'[u].op = "load", txs'[v].op = "load"
        PROVE  txs'[u].spool # txs'[v].spool
    BY <1>1, <1>4 DEF Exclusion
  <1> QED BY <1>2, <1>3, <1>4 DEF Exclusion

LEMMA SomeMarks == \A s \in SpoolIds : s # NoSpool /\ s # NoSlot
  BY MarksAssumption

LEMMA ExclusionInit == Init => Exclusion
  BY LocksByKind, IdleTx DEF Init, Exclusion, Idle

LEMMA ExclusionStep == Types /\ RowsDerived /\ Exclusion /\ [Next]_vars => Exclusion'
  <1> SUFFICES ASSUME Types, RowsDerived, Exclusion, [Next]_vars
               PROVE  Exclusion'
    OBVIOUS
  <1>0. \A t \in Clients : txs[t] \in Txs /\ LocksOf(txs[t]) \subseteq SlotRows
    BY LocksByKind DEF Types
  <1>1. ASSUME NEW p \in PrinterIds, NEW c \in Topologies, NEW f \in LinkForms, Create(p, c, f)
        PROVE  Exclusion'
    <2>1. \A r \in SlotRows : held[r] # NoSlot => held'[r] = held[r]
      BY <1>1 DEF Create, Existing, RowsDerived
    <2> QED BY <1>0, <1>1, <2>1 DEF Create, Exclusion
  <1>2. ASSUME NEW t \in Clients, NEW s \in SpoolIds, NEW r \in SlotRows, BeginLoad(t, s, r)
        PROVE  Exclusion'
    <2> DEFINE n == [op |-> "load", pc |-> "clear", spool |-> s, to |-> r, left |-> {}]
    <2>1. n \in Loads /\ n \in Txs
      BY BegunTxs DEF Txs
    <2>2. LocksOf(n) = {}
      BY <2>1, LocksByKind
    <2> QED BY <1>2, <2>1, <2>2, OneMoves DEF BeginLoad, SpoolFree
  <1>3. ASSUME NEW t \in Clients, NEW p \in PrinterIds, NEW c \in Topologies,
               NEW f \in LinkForms, BeginEdit(t, p, c, f)
        PROVE  Exclusion'
    <2> DEFINE n == [op |-> "edit", printer |-> p, top |-> c, link |-> f, locked |-> {}]
    <2>1. n \in Edits /\ n \in Txs
      BY <1>3, BegunTxs DEF Txs, BeginEdit, ValidTopologies
    <2>2. LocksOf(n) = {}
      BY <2>1, LocksByKind
    <2> QED BY <1>3, <2>1, <2>2, OneMoves DEF BeginEdit
  <1>4. ASSUME NEW t \in Clients, NEW p \in PrinterIds, BeginDelete(t, p)
        PROVE  Exclusion'
    <2> DEFINE n == [op |-> "delete", printer |-> p, locked |-> {}]
    <2>1. n \in Deletes /\ n \in Txs
      BY BegunTxs DEF Txs
    <2>2. LocksOf(n) = {}
      BY <2>1, LocksByKind
    <2> QED BY <1>4, <2>1, <2>2, OneMoves DEF BeginDelete
  <1>5. ASSUME NEW t \in Clients, ClearOld(t)
        PROVE  Exclusion'
    <2> DEFINE holders == HoldersOf(txs[t].spool)
               n == [txs[t] EXCEPT !.pc = "set", !.left = holders]
    <2>1. txs[t] \in Loads /\ txs' = [txs EXCEPT ![t] = n]
      BY <1>5, TxFields DEF ClearOld, Types
    <2>2. n \in Loads /\ n \in Txs /\ n.spool = txs[t].spool /\ n.left = holders /\ n.pc = "set"
      BY <2>1 DEF Loads, Txs, HoldersOf
    <2>3. LocksOf(n) = holders
      BY <2>2, LocksByKind
    <2>4. \A r \in holders : held[r] # NoSlot
      BY <2>1, SomeMarks DEF HoldersOf, Loads
    <2>5. \A r \in holders, u \in Clients \ {t} : r \notin LocksOf(txs[u])
      BY <1>5, LocksAt DEF ClearOld, Free
    <2>6. \A u \in Clients \ {t} : txs[u].op = "load" => txs[u].spool # n.spool
      BY <1>5, <2>2 DEF Exclusion, ClearOld
    <2>7. held' = held
      BY <1>5 DEF ClearOld
    <2> HIDE DEF n, holders
    <2> QED BY <2>1, <2>2, <2>3, <2>4, <2>5, <2>6, <2>7, OneMoves
  <1>6. ASSUME NEW t \in Clients, SetTarget(t)
        PROVE  Exclusion'
    <2> DEFINE n == [txs[t] EXCEPT !.pc = "commit"]
    <2>1. txs[t] \in Loads /\ txs[t].pc = "set" /\ txs' = [txs EXCEPT ![t] = n]
      BY <1>6, TxFields DEF SetTarget, Types
    <2>2. /\ n \in Loads /\ n \in Txs /\ n.spool = txs[t].spool
          /\ n.left = txs[t].left /\ n.to = txs[t].to /\ n.pc = "commit"
      BY <2>1 DEF Loads, Txs
    <2>3. LocksOf(n) = LocksOf(txs[t]) \cup {txs[t].to}
      <3>1. LocksOf(n) = n.left \cup {n.to}
        BY <2>2, LocksByKind
      <3>2. LocksOf(txs[t]) = txs[t].left
        BY <2>1, <1>0, LocksByKind
      <3> QED BY <2>2, <3>1, <3>2
    <2>4. held[txs[t].to] # NoSlot /\ \A u \in Clients \ {t} : txs[t].to \notin LocksOf(txs[u])
      BY <1>6, LocksAt DEF SetTarget, Free
    <2>5. \A u \in Clients \ {t} : txs[u].op = "load" => txs[u].spool # n.spool
      BY <1>6, <2>2 DEF Exclusion, SetTarget
    <2>6. held' = held
      BY <1>6 DEF SetTarget
    <2> HIDE DEF n
    <2> QED BY <2>1, <2>2, <2>3, <2>4, <2>5, <2>6, OneMoves
  <1>7. ASSUME NEW t \in Clients, txs' = [txs EXCEPT ![t] = Idle],
               \A u \in Clients \ {t} : \A r \in LocksOf(txs[u]) : held'[r] # NoSlot
        PROVE  Exclusion'
    <2>1. txs'[t] = Idle /\ \A u \in Clients \ {t} : txs'[u] = txs[u]
      BY <1>7 DEF Types
    <2>2. LocksOf(Idle) = {}
      BY IdleTx, LocksByKind
    <2> QED BY <1>7, <2>1, <2>2, IdleTx, OneMoves
  <1>8. ASSUME NEW t \in Clients, TargetMissing(t) \/ RefuseEdit(t) \/ BreakDeadlock(t) \/ Abort(t)
        PROVE  Exclusion'
    <2>1. txs' = [txs EXCEPT ![t] = Idle] /\ held' = held
      BY <1>8 DEF TargetMissing, RefuseEdit, BreakDeadlock, Abort, End
    <2> QED BY <1>7, <2>1 DEF Exclusion
  <1>9. ASSUME NEW t \in Clients, CommitLoad(t)
        PROVE  Exclusion'
    <2>1. txs[t].spool \in SpoolIds
      BY <1>9, TxFields DEF CommitLoad, Loads, Types
    <2>2. \A r \in SlotRows : held[r] # NoSlot => held'[r] # NoSlot
      BY <1>9, <2>1, SomeMarks, MarksAssumption DEF CommitLoad
    <2>3. txs' = [txs EXCEPT ![t] = Idle]
      BY <1>9 DEF CommitLoad, End
    <2> QED BY <1>0, <1>7, <2>2, <2>3 DEF Exclusion
  <1>10. ASSUME NEW t \in Clients, LockSlot(t)
         PROVE  Exclusion'
    <2> PICK r \in NextLocks(t) : Free(t, r) /\ txs' = [txs EXCEPT ![t].locked = @ \cup {r}]
      BY <1>10 DEF LockSlot
    <2> DEFINE n == [txs[t] EXCEPT !.locked = @ \cup {r}]
    <2>1. r \in SlotRows /\ held[r] # NoSlot
      BY DEF NextLocks, Unlocked, RowsOf
    <2>2. txs[t] \in Edits \cup Deletes /\ txs' = [txs EXCEPT ![t] = n]
      BY <1>10, TxFields DEF LockSlot, Types
    <2>3. n \in Edits \cup Deletes /\ n.locked = txs[t].locked \cup {r} /\ n.op # "load"
      BY <2>1, <2>2 DEF Edits, Deletes
    <2>4. n \in Txs
      BY <2>3 DEF Txs
    <2>5. LocksOf(n) = LocksOf(txs[t]) \cup {r}
      <3>1. LocksOf(n) = n.locked
        BY <2>3, <2>4, LocksByKind
      <3>2. LocksOf(txs[t]) = txs[t].locked
        BY <2>2, <1>0, LocksByKind
      <3> QED BY <2>3, <3>1, <3>2
    <2>6. \A u \in Clients \ {t} : r \notin LocksOf(txs[u])
      BY LocksAt DEF Free
    <2>7. held' = held
      BY <1>10 DEF LockSlot
    <2> HIDE DEF n
    <2>8. txs' = [txs EXCEPT ![t] = n] /\ n.op # "load"
      BY <2>2, <2>3
    <2>9. \A x \in LocksOf(n) \ LocksOf(txs[t]) :
             held[x] # NoSlot /\ \A u \in Clients \ {t} : x \notin LocksOf(txs[u])
      BY <2>1, <2>5, <2>6
    <2> QED BY <2>4, <2>7, <2>8, <2>9, OneMoves
  <1>11. ASSUME NEW t \in Clients, CommitEdit(t) \/ CommitDelete(t)
         PROVE  Exclusion'
    <2>1. \A r \in SlotRows : r[1] = txs[t].printer /\ held[r] # NoSlot => r \in LocksOf(txs[t])
      <3>1. txs[t] \in Edits \cup Deletes
        BY <1>11, TxFields DEF CommitEdit, CommitDelete, Types
      <3>2. LocksOf(txs[t]) = txs[t].locked
        BY <3>1, <1>0, LocksByKind
      <3> QED BY <1>11, <3>2 DEF CommitEdit, CommitDelete, Unlocked, RowsOf
    <2>2. \A r \in SlotRows : r[1] # txs[t].printer => held'[r] = held[r]
      BY <1>11 DEF CommitEdit, CommitDelete
    <2>3. \A u \in Clients \ {t} : \A r \in LocksOf(txs[u]) : held'[r] # NoSlot
      BY <1>0, <2>1, <2>2 DEF Exclusion
    <2>4. txs' = [txs EXCEPT ![t] = Idle]
      BY <1>11 DEF CommitEdit, CommitDelete, End
    <2> QED BY <1>7, <2>3, <2>4
  <1>12. ASSUME NEW r \in SlotRows, UnloadSlot(r)
         PROVE  Exclusion'
    BY <1>0, <1>12, MarksAssumption DEF UnloadSlot, Exclusion, Types
  <1>13. ASSUME NEW s \in SpoolIds, UnloadSpool(s)
         PROVE  Exclusion'
    BY <1>0, <1>13, MarksAssumption DEF UnloadSpool, Exclusion, Types
  <1>14. CASE UNCHANGED vars
    BY <1>14 DEF vars, Exclusion
  <1> QED BY <1>1, <1>2, <1>3, <1>4, <1>5, <1>6, <1>8, <1>9, <1>10, <1>11, <1>12, <1>13,
             <1>14 DEF Next, Step

-------------------------------------------------------------------------------
(* The slot rows follow the topology.                                      *)

LEMMA RowsDerivedInit == Init => RowsDerived
  BY DEF Init, RowsDerived, SlotRows

LEMMA RowParts == \A r \in SlotRows : r[1] \in PrinterIds /\ r[2] \in AllKeys
  BY DEF SlotRows

LEMMA ValidIsTopology == \A c \in ValidTopologies : c # NoPrinter
  BY MarksAssumption DEF ValidTopologies

(* Only a printer's own creation, edit or deletion changes which of its    *)
(* rows there are: a load writes to rows that are there.                   *)
LEMMA RowsDerivedStep == Types /\ RowsDerived /\ Exclusion /\ [Next]_vars => RowsDerived'
  <1> SUFFICES ASSUME Types, RowsDerived, Exclusion, [Next]_vars
               PROVE  RowsDerived'
    OBVIOUS
  <1>1. ASSUME printers' = printers, \A r \in SlotRows : held'[r] # NoSlot <=> held[r] # NoSlot
        PROVE  RowsDerived'
    BY <1>1 DEF RowsDerived
  <1>2. ASSUME NEW p \in PrinterIds, NEW c \in Topologies, NEW f \in LinkForms, Create(p, c, f)
        PROVE  RowsDerived'
    <2>1. c \in ValidTopologies /\ printers[p] = NoPrinter
      BY <1>2 DEF Create, ValidTopologies, Existing
    <2>2. ASSUME NEW r \in SlotRows, r[1] = p
          PROVE  held'[r] # NoSlot <=> printers'[p] # NoPrinter /\ r[2] \in Keys(printers'[p])
      <3>1. held[r] = NoSlot
        BY <2>1, <2>2 DEF RowsDerived
      <3>2. printers'[p] = c /\ c # NoPrinter
        BY <1>2, <2>1, ValidIsTopology DEF Create, Types
      <3>3. held'[r] = IF r[2] \in Keys(c) THEN NoSpool ELSE NoSlot
        BY <1>2, <2>2, <3>1 DEF Create
      <3> QED BY <3>2, <3>3, MarksAssumption
    <2>3. ASSUME NEW r \in SlotRows, r[1] # p
          PROVE  held'[r] = held[r] /\ printers'[r[1]] = printers[r[1]]
      BY <1>2, <2>3, RowParts DEF Create, Types
    <2> QED BY <2>2, <2>3 DEF RowsDerived
  <1>3. ASSUME NEW t \in Clients, CommitLoad(t)
        PROVE  RowsDerived'
    <2>1. txs[t] \in Loads /\ txs[t] \in Txs /\ txs[t].pc = "commit"
      BY <1>3, TxFields DEF CommitLoad, Types
    <2>2. \A r \in txs[t].left \cup {txs[t].to} : held[r] # NoSlot
      BY <2>1, LocksByKind DEF Exclusion
    <2>3. \A r \in SlotRows : held'[r] # NoSlot <=> held[r] # NoSlot
      BY <1>3, <2>1, <2>2, SomeMarks, MarksAssumption DEF CommitLoad, Loads
    <2> QED BY <1>1, <1>3, <2>3 DEF CommitLoad
  <1>4. ASSUME NEW t \in Clients, CommitEdit(t)
        PROVE  RowsDerived'
    <2> DEFINE p == txs[t].printer
               c == txs[t].top
    <2>1. p \in PrinterIds /\ c \in ValidTopologies
      BY <1>4, TxFields DEF CommitEdit, Types, Edits
    <2>2. ASSUME NEW r \in SlotRows, r[1] = p
          PROVE  held'[r] # NoSlot <=> printers'[p] # NoPrinter /\ r[2] \in Keys(printers'[p])
      <3>1. printers'[p] = c /\ c # NoPrinter
        BY <1>4, <2>1, ValidIsTopology DEF CommitEdit, Types
      <3>2. held'[r] = SlotAfter(r, c)
        BY <1>4, <2>2 DEF CommitEdit
      <3> QED BY <3>1, <3>2, MarksAssumption DEF SlotAfter
    <2>3. ASSUME NEW r \in SlotRows, r[1] # p
          PROVE  held'[r] = held[r] /\ printers'[r[1]] = printers[r[1]]
      BY <1>4, <2>3, RowParts DEF CommitEdit, Types
    <2> QED BY <2>2, <2>3 DEF RowsDerived
  <1>5. ASSUME NEW t \in Clients, CommitDelete(t)
        PROVE  RowsDerived'
    <2> DEFINE p == txs[t].printer
    <2>1. p \in PrinterIds
      BY <1>5, TxFields DEF CommitDelete, Types, Deletes
    <2>2. ASSUME NEW r \in SlotRows, r[1] = p
          PROVE  held'[r] = NoSlot /\ printers'[p] = NoPrinter
      BY <1>5, <2>1, <2>2 DEF CommitDelete, Types
    <2>3. ASSUME NEW r \in SlotRows, r[1] # p
          PROVE  held'[r] = held[r] /\ printers'[r[1]] = printers[r[1]]
      BY <1>5, <2>3, RowParts DEF CommitDelete, Types
    <2> QED BY <2>2, <2>3 DEF RowsDerived
  <1>6. ASSUME NEW r \in SlotRows, UnloadSlot(r)
        PROVE  RowsDerived'
    BY <1>1, <1>6, MarksAssumption DEF UnloadSlot, Types
  <1>7. ASSUME NEW s \in SpoolIds, UnloadSpool(s)
        PROVE  RowsDerived'
    BY <1>1, <1>7, SomeMarks, MarksAssumption DEF UnloadSpool, Types
  <1>8. CASE UNCHANGED <<printers, held>>
    BY <1>1, <1>8
  <1>9. ASSUME NEW t \in Clients, Step(t) \/ Abort(t)
        PROVE  RowsDerived'
    BY <1>3, <1>4, <1>5, <1>8, <1>9 DEF Step, ClearOld, SetTarget, TargetMissing, LockSlot,
       RefuseEdit, BreakDeadlock, Abort
  <1> QED BY <1>2, <1>6, <1>7, <1>8, <1>9
          DEF Next, BeginLoad, BeginEdit, BeginDelete, vars

LEMMA DerivedIsFollowed == Types /\ RowsDerived => SlotsFollowTopology
  <1> SUFFICES ASSUME Types, RowsDerived
               PROVE  SlotsFollowTopology
    OBVIOUS
  <1>1. ASSUME NEW p \in Existing
        PROVE  {r[2] : r \in RowsOf(p)} = Keys(printers[p]) /\ RowsOf(p) # {}
    <2>1. /\ p \in PrinterIds /\ printers[p] # NoPrinter
          /\ printers[p] \in Topologies /\ Valid(printers[p])
      BY DEF Existing, Types, ValidTopologies
    <2>2. ASSUME NEW k \in Keys(printers[p])
          PROVE  <<p, k>> \in RowsOf(p)
      <3>1. k \in AllKeys
        BY <2>1 DEF AllKeys
      <3>2. <<p, k>> \in SlotRows
        BY <2>1, <3>1 DEF SlotRows
      <3> QED BY <2>1, <2>2, <3>2 DEF RowsOf, RowsDerived
    <2>3. ASSUME NEW r \in RowsOf(p)
          PROVE  r[2] \in Keys(printers[p])
      BY DEF RowsOf, RowsDerived
    <2>4. Keys(printers[p]) # {}
      BY <2>1, TopologiesAssumption
    <2>5. {r[2] : r \in RowsOf(p)} = Keys(printers[p])
      <3>1. ASSUME NEW k \in Keys(printers[p])
            PROVE  k \in {r[2] : r \in RowsOf(p)}
        <4>1. <<p, k>>[2] = k
          OBVIOUS
        <4> QED BY <2>2, <4>1
      <3> QED BY <2>3, <3>1
    <2> QED BY <2>2, <2>4, <2>5
  <1>2. ASSUME NEW p \in PrinterIds \ Existing
        PROVE  RowsOf(p) = {}
    BY DEF Existing, RowsOf, RowsDerived
  <1> QED BY <1>1, <1>2 DEF SlotsFollowTopology

-------------------------------------------------------------------------------
(* A spool is in one slot.                                                 *)

(* IndexNeverRefuses, said with memberships.                               *)
InOneSlot ==
    /\ \A s \in SpoolIds : \A a, b \in SlotRows : held[a] = s /\ held[b] = s => a = b
    /\ \A t \in Clients : txs[t].op = "load" /\ txs[t].pc # "clear" =>
          \A r \in SlotRows : held[r] = txs[t].spool => r \in txs[t].left

LEMMA OneSlotIsIndex == InOneSlot => IndexNeverRefuses
  BY DEF InOneSlot, IndexNeverRefuses, HoldersOf

LEMMA InOneSlotInit == Init => InOneSlot
  BY SomeMarks DEF Init, InOneSlot, Idle

LEMMA InOneSlotStep == Types /\ Exclusion /\ InOneSlot /\ [Next]_vars => InOneSlot'
  <1> SUFFICES ASSUME Types, Exclusion, InOneSlot, [Next]_vars
               PROVE  InOneSlot'
    OBVIOUS
  <1>1. ASSUME \A r \in SlotRows : held'[r] \in SpoolIds => held'[r] = held[r],
               \A t \in Clients : txs'[t] = txs[t] \/ txs'[t].op # "load"
                                  \/ txs'[t].pc = "clear"
        PROVE  InOneSlot'
    <2>1. \A t \in Clients : txs[t].op = "load" => txs[t].spool \in SpoolIds
      BY TxFields DEF Types, Loads
    <2> QED BY <1>1, <2>1 DEF InOneSlot
  <1>2. ASSUME NEW p \in PrinterIds, NEW c \in Topologies, NEW f \in LinkForms, Create(p, c, f)
        PROVE  InOneSlot'
    BY <1>1, <1>2, SomeMarks DEF Create, Types
  <1>3. ASSUME NEW t \in Clients, NEW n, txs' = [txs EXCEPT ![t] = n],
               n.op # "load" \/ n.pc = "clear", held' = held
        PROVE  InOneSlot'
    BY <1>1, <1>3 DEF Types
  <1>4. ASSUME NEW t \in Clients,
               \/ \E s \in SpoolIds, r \in SlotRows : BeginLoad(t, s, r)
               \/ \E p \in PrinterIds, c \in Topologies, f \in LinkForms : BeginEdit(t, p, c, f)
               \/ \E p \in PrinterIds : BeginDelete(t, p)
               \/ TargetMissing(t) \/ RefuseEdit(t) \/ BreakDeadlock(t) \/ Abort(t)
        PROVE  InOneSlot'
    BY <1>3, <1>4, IdleTx DEF BeginLoad, BeginEdit, BeginDelete, TargetMissing, RefuseEdit,
       BreakDeadlock, Abort, End
  <1>5. ASSUME NEW t \in Clients, ClearOld(t)
        PROVE  InOneSlot'
    <2>1. txs'[t].spool = txs[t].spool /\ txs'[t].left = HoldersOf(txs[t].spool) /\ held' = held
      BY <1>5, TxFields DEF ClearOld, Types, Loads
    <2>2. \A u \in Clients \ {t} : txs'[u] = txs[u]
      BY <1>5 DEF ClearOld, Types
    <2> QED BY <2>1, <2>2 DEF InOneSlot, HoldersOf
  <1>6. ASSUME NEW t \in Clients, SetTarget(t)
        PROVE  InOneSlot'
    <2>1. /\ txs[t].op = "load" /\ txs[t].pc = "set" /\ held' = held
          /\ txs'[t].spool = txs[t].spool /\ txs'[t].left = txs[t].left
      BY <1>6, TxFields DEF SetTarget, Types, Loads
    <2>2. \A u \in Clients \ {t} : txs'[u] = txs[u]
      BY <1>6 DEF SetTarget, Types
    <2> QED BY <2>1, <2>2 DEF InOneSlot
  <1>7. ASSUME NEW t \in Clients, CommitLoad(t)
        PROVE  InOneSlot'
    <2> DEFINE s == txs[t].spool
    <2>1. txs[t] \in Loads /\ s \in SpoolIds
      BY <1>7, TxFields DEF CommitLoad, Types, Loads
    <2>2. \A r \in SlotRows : held[r] = s => r \in txs[t].left
      BY <1>7 DEF InOneSlot, CommitLoad
    <2>3. \A r \in SlotRows : held'[r] = s => r = txs[t].to
      BY <1>7, <2>1, <2>2, SomeMarks DEF CommitLoad
    <2>4. \A r \in SlotRows : held'[r] \in SpoolIds => held'[r] = s \/ held'[r] = held[r]
      BY <1>7, SomeMarks DEF CommitLoad
    <2>5. txs'[t] = Idle /\ \A u \in Clients \ {t} : txs'[u] = txs[u]
      BY <1>7 DEF CommitLoad, End, Types
    <2>6. ASSUME NEW q \in SpoolIds, NEW a \in SlotRows, NEW b \in SlotRows,
                 held'[a] = q, held'[b] = q
          PROVE  a = b
      <3>1. CASE q = s
        BY <2>3, <2>6, <3>1
      <3>2. CASE q # s
        <4>1. held[a] = q /\ held[b] = q
          BY <2>4, <2>6, <3>2
        <4> QED BY <4>1 DEF InOneSlot
      <3> QED BY <3>1, <3>2
    <2>7. ASSUME NEW u \in Clients, txs'[u].op = "load", txs'[u].pc # "clear",
                 NEW r \in SlotRows, held'[r] = txs'[u].spool
          PROVE  r \in txs'[u].left
      <3>1. u # t /\ txs'[u] = txs[u]
        BY <2>5, <2>7, IdleTx
      <3>2. txs[u].spool # s /\ txs[u].spool \in SpoolIds
        BY <1>7, <2>7, <3>1, TxFields DEF CommitLoad, Exclusion, Types, Loads
      <3>3. held[r] = txs[u].spool
        BY <2>4, <2>7, <3>1, <3>2
      <3> QED BY <2>7, <3>1, <3>3 DEF InOneSlot
    <2> QED BY <2>6, <2>7 DEF InOneSlot
  <1>8. ASSUME NEW t \in Clients, LockSlot(t)
        PROVE  InOneSlot'
    <2> PICK r \in NextLocks(t) : txs' = [txs EXCEPT ![t].locked = @ \cup {r}]
      BY <1>8 DEF LockSlot
    <2>1. txs'[t].op # "load" /\ \A u \in Clients \ {t} : txs'[u] = txs[u]
      BY <1>8, TxFields DEF LockSlot, Types, Edits, Deletes
    <2>2. held' = held
      BY <1>8 DEF LockSlot
    <2> QED BY <1>1, <2>1, <2>2
  <1>9. ASSUME NEW t \in Clients, CommitEdit(t) \/ CommitDelete(t)
        PROVE  InOneSlot'
    <2>1. \A r \in SlotRows : held'[r] \in SpoolIds => held'[r] = held[r]
      BY <1>9, SomeMarks DEF CommitEdit, CommitDelete, SlotAfter
    <2>2. \A u \in Clients : txs'[u] = txs[u] \/ txs'[u].op # "load"
      BY <1>9, IdleTx DEF CommitEdit, CommitDelete, End, Types
    <2> QED BY <1>1, <2>1, <2>2
  <1>10. ASSUME NEW r \in SlotRows, UnloadSlot(r)
         PROVE  InOneSlot'
    BY <1>1, <1>10, SomeMarks DEF UnloadSlot, Types
  <1>11. ASSUME NEW s \in SpoolIds, UnloadSpool(s)
         PROVE  InOneSlot'
    BY <1>1, <1>11, SomeMarks DEF UnloadSpool, Types
  <1>12. CASE UNCHANGED vars
    BY <1>12 DEF vars, InOneSlot
  <1> QED BY <1>2, <1>4, <1>5, <1>6, <1>7, <1>8, <1>9, <1>10, <1>11, <1>12 DEF Next, Step

(* The rows a load has emptied still hold its spool for everyone else,     *)
(* until it commits: it has them locked.                                   *)
LeftHolds ==
    \A t \in Clients : txs[t].op = "load" /\ txs[t].pc # "clear" =>
        \A r \in txs[t].left : held[r] = txs[t].spool

(* A load that has emptied its spool's row was there before, unless it has *)
(* just done so.                                                           *)
LEMMA ClearedBefore ==
    ASSUME Types, Next, NEW t \in Clients, ~ClearOld(t),
           txs'[t].op = "load", txs'[t].pc # "clear"
    PROVE  /\ txs[t].op = "load" /\ txs[t].pc # "clear"
           /\ txs'[t].left = txs[t].left /\ txs'[t].spool = txs[t].spool
  <1> DEFINE Kept == /\ txs[t].op = "load" /\ txs[t].pc # "clear"
                     /\ txs'[t].left = txs[t].left /\ txs'[t].spool = txs[t].spool
  <1>1. CASE txs'[t] = txs[t]
    BY <1>1
  <1>2. ASSUME NEW u \in Clients, NEW n, txs' = [txs EXCEPT ![u] = n],
               u # t \/ n.op # "load" \/ n.pc = "clear"
        PROVE  Kept
    BY <1>1, <1>2 DEF Types
  <1>3. ASSUME NEW u \in Clients, End(u)
        PROVE  Kept
    BY <1>2, <1>3, IdleTx DEF End
  <1>4. ASSUME NEW u \in Clients, ClearOld(u)
        PROVE  Kept
    BY <1>1, <1>4 DEF ClearOld, Types
  <1>5. ASSUME NEW u \in Clients, SetTarget(u)
        PROVE  Kept
    <2>1. CASE u = t
      BY <1>5, <2>1, TxFields DEF SetTarget, Types, Loads
    <2> QED BY <1>1, <1>5, <2>1 DEF SetTarget, Types
  <1>6. ASSUME NEW u \in Clients, LockSlot(u)
        PROVE  Kept
    <2>1. PICK r \in NextLocks(u) : txs' = [txs EXCEPT ![u].locked = @ \cup {r}]
      BY <1>6 DEF LockSlot
    <2>2. txs'[u].op # "load" /\ \A v \in Clients \ {u} : txs'[v] = txs[v]
      BY <1>6, <2>1, TxFields DEF LockSlot, Types, Edits, Deletes
    <2> QED BY <1>1, <2>2
  <1>7. ASSUME NEW u \in Clients, Step(u) \/ Abort(u)
        PROVE  Kept
    BY <1>3, <1>4, <1>5, <1>6, <1>7
       DEF Step, Abort, TargetMissing, CommitLoad, CommitEdit, RefuseEdit, CommitDelete,
           BreakDeadlock
  <1>8. ASSUME NEW u \in Clients,
               \/ \E s \in SpoolIds, r \in SlotRows : BeginLoad(u, s, r)
               \/ \E p \in PrinterIds, c \in Topologies, f \in LinkForms : BeginEdit(u, p, c, f)
               \/ \E p \in PrinterIds : BeginDelete(u, p)
        PROVE  Kept
    BY <1>2, <1>8 DEF BeginLoad, BeginEdit, BeginDelete
  <1>9. CASE txs' = txs
    BY <1>1, <1>9
  <1> QED BY <1>7, <1>8, <1>9 DEF Next, Create, UnloadSlot, UnloadSpool

(* A row a load has emptied is changed by nobody else: it is locked.       *)
LEMMA LeftHoldsStep ==
    Types /\ RowsDerived /\ Exclusion /\ Exclusion' /\ LeftHolds /\ [Next]_vars => LeftHolds'
  <1> SUFFICES ASSUME Types, RowsDerived, Exclusion, Exclusion', LeftHolds, [Next]_vars,
                      NEW t \in Clients, txs'[t].op = "load", txs'[t].pc # "clear",
                      NEW r \in txs'[t].left
               PROVE  held'[r] = txs'[t].spool
    BY DEF LeftHolds
  <1>1. CASE ClearOld(t)
    <2>1. txs'[t].spool = txs[t].spool /\ txs'[t].left = HoldersOf(txs[t].spool) /\ held' = held
      BY <1>1, TxFields DEF ClearOld, Types, Loads
    <2> QED BY <2>1 DEF HoldersOf
  <1>2. CASE UNCHANGED vars
    BY <1>2 DEF vars, LeftHolds
  <1>3. CASE Next /\ ~ClearOld(t)
    <2>1. /\ txs[t].op = "load" /\ txs[t].pc # "clear"
          /\ txs'[t].left = txs[t].left /\ txs'[t].spool = txs[t].spool
      BY <1>3, ClearedBefore
    <2>2. /\ held[r] = txs[t].spool /\ held[r] \in SpoolIds /\ r \in SlotRows
          /\ r \in LocksOf(txs[t])
      BY <2>1, TxFields, LocksByKind DEF LeftHolds, Types, Loads
    <2>3. held'[r] # NoSlot
      <3>1. r \in LocksOf(txs'[t])
        BY DEF LocksOf
      <3> QED BY <3>1 DEF Exclusion
    <2>4. held'[r] = held[r]
      <3>1. CASE held' = held
        BY <3>1
      <3>2. ASSUME NEW u \in Clients, CommitLoad(u)
            PROVE  held'[r] = held[r]
        <4>1. u # t
          BY <3>2, IdleTx DEF CommitLoad, End, Types
        <4>2. txs[u] \in Loads /\ LocksOf(txs[u]) = txs[u].left \cup {txs[u].to}
          BY <3>2, TxFields, LocksByKind DEF CommitLoad, Types
        <4>3. r # txs[u].to /\ r \notin txs[u].left
          BY <2>2, <4>1, <4>2 DEF Exclusion
        <4> QED BY <2>2, <3>2, <4>3 DEF CommitLoad
      <3>3. ASSUME NEW u \in Clients, CommitEdit(u) \/ CommitDelete(u)
            PROVE  held'[r] = held[r]
        BY <2>2, <2>3, <3>3, SomeMarks DEF CommitEdit, CommitDelete, SlotAfter
      <3>4. ASSUME NEW p \in PrinterIds, NEW c \in Topologies, NEW f \in LinkForms,
                   Create(p, c, f)
            PROVE  held'[r] = held[r]
        BY <2>2, <3>4, SomeMarks DEF Create, Existing, RowsDerived
      <3>5. ASSUME NEW q \in SlotRows, UnloadSlot(q)
            PROVE  held'[r] = held[r]
        BY <2>2, <3>5, LocksAt DEF UnloadSlot, Types
      <3>6. ASSUME NEW s \in SpoolIds, UnloadSpool(s)
            PROVE  held'[r] = held[r]
        BY <2>2, <3>6, LocksAt DEF UnloadSpool, HoldersOf
      <3> QED BY <1>3, <3>1, <3>2, <3>3, <3>4, <3>5, <3>6
              DEF Next, Step, BeginLoad, BeginEdit, BeginDelete, ClearOld, SetTarget,
                  TargetMissing, LockSlot, RefuseEdit, BreakDeadlock, Abort
    <2> QED BY <2>1, <2>2, <2>4
  <1> QED BY <1>1, <1>2, <1>3

-------------------------------------------------------------------------------
(* Machine links.                                                          *)

(* An edit in flight is one that PrinterForm::domain let through.          *)
EditsAccepted ==
    \A t \in Clients : txs[t].op = "edit" => LinkAccepted(txs[t].top.brand, txs[t].link)

(* What a link of this kind must have for a credential.                    *)
SecretFits(kind, secret) ==
    secret \in IF HasCredential(kind) THEN Secrets ELSE {NoSecret}

LEMMA EditsAcceptedStep == Types /\ EditsAccepted /\ [Next]_vars => EditsAccepted'
  <1> SUFFICES ASSUME Types, EditsAccepted, [Next]_vars
               PROVE  EditsAccepted'
    OBVIOUS
  <1>1. ASSUME NEW t \in Clients, NEW n, txs' = [txs EXCEPT ![t] = n], n.op # "edit"
        PROVE  EditsAccepted'
    BY <1>1 DEF EditsAccepted, Types
  <1>2. ASSUME NEW t \in Clients, NEW p \in PrinterIds, NEW c \in Topologies,
               NEW f \in LinkForms, BeginEdit(t, p, c, f)
        PROVE  EditsAccepted'
    BY <1>2 DEF BeginEdit, EditsAccepted, Types
  <1>3. ASSUME NEW t \in Clients, LockSlot(t)
        PROVE  EditsAccepted'
    <2> PICK r \in NextLocks(t) : txs' = [txs EXCEPT ![t].locked = @ \cup {r}]
      BY <1>3 DEF LockSlot
    <2>1. /\ txs'[t].op = txs[t].op
          /\ txs[t].op = "edit" => txs'[t].top = txs[t].top /\ txs'[t].link = txs[t].link
          /\ \A u \in Clients \ {t} : txs'[u] = txs[u]
      BY <1>3, TxFields DEF LockSlot, Types, Edits, Deletes
    <2> QED BY <2>1 DEF EditsAccepted
  <1>4. ASSUME NEW t \in Clients, ClearOld(t) \/ SetTarget(t)
        PROVE  EditsAccepted'
    <2>1. txs'[t].op = "load" /\ \A u \in Clients \ {t} : txs'[u] = txs[u]
      BY <1>4, TxFields DEF ClearOld, SetTarget, Types, Loads
    <2> QED BY <2>1 DEF EditsAccepted
  <1>5. ASSUME NEW t \in Clients, Step(t) \/ Abort(t)
        PROVE  EditsAccepted'
    BY <1>1, <1>3, <1>4, <1>5, IdleTx DEF Step, TargetMissing, CommitLoad, CommitEdit, RefuseEdit,
       CommitDelete, BreakDeadlock, Abort, End
  <1>6. CASE UNCHANGED txs
    BY <1>6 DEF EditsAccepted
  <1>7. ASSUME NEW t \in Clients, NEW s \in SpoolIds, NEW r \in SlotRows, BeginLoad(t, s, r)
        PROVE  EditsAccepted'
    <2> DEFINE n == [op |-> "load", pc |-> "clear", spool |-> s, to |-> r, left |-> {}]
    <2>1. txs' = [txs EXCEPT ![t] = n] /\ n.op # "edit"
      BY <1>7 DEF BeginLoad
    <2> QED BY <1>1, <2>1
  <1>8. ASSUME NEW t \in Clients, NEW p \in PrinterIds, BeginDelete(t, p)
        PROVE  EditsAccepted'
    <2> DEFINE n == [op |-> "delete", printer |-> p, locked |-> {}]
    <2>1. txs' = [txs EXCEPT ![t] = n] /\ n.op # "edit"
      BY <1>8 DEF BeginDelete
    <2> QED BY <1>1, <2>1
  <1>9. CASE \/ \E p \in PrinterIds, c \in Topologies, f \in LinkForms : Create(p, c, f)
             \/ \E r \in SlotRows : UnloadSlot(r)
             \/ \E s \in SpoolIds : UnloadSpool(s)
             \/ UNCHANGED vars
    BY <1>6, <1>9 DEF Create, UnloadSlot, UnloadSpool, vars
  <1> QED BY <1>2, <1>5, <1>7, <1>8, <1>9 DEF Next

(* A link that passed the form and write_link is of the brand's kind; its  *)
(* secret fits, or is the mark of a stored one of that kind.               *)
LEMMA FormLinkFits ==
    ASSUME NEW c \in Topologies, NEW f \in LinkForms, LinkAccepted(c.brand, f),
           FormLink(c.brand, f) # NoLink
    PROVE  /\ FormLink(c.brand, f).kind = KindFor[c.brand]
           /\ FormLink(c.brand, f).secret # Configured =>
                 SecretFits(KindFor[c.brand], FormLink(c.brand, f).secret)
           /\ FormLink(c.brand, f).secret = Configured => HasCredential(KindFor[c.brand])
  <1>1. f # NoLink /\ LinksEnabled
    BY DEF FormLink
  <1>2. f.key \in Secrets \cup {NoSecret}
    BY <1>1 DEF LinkForms
  <1> DEFINE secret == FormSecret(KindFor[c.brand], f)
  <1>3. FormLink(c.brand, f) = Link(KindFor[c.brand], f.endpoint, secret)
    BY <1>1 DEF FormLink
  <1>4. /\ ~HasCredential(KindFor[c.brand]) => secret = NoSecret
        /\ HasCredential(KindFor[c.brand]) => secret \in Secrets \cup {NoSecret, Configured}
    BY <1>2 DEF FormSecret
  <1>5. HasCredential(KindFor[c.brand]) => secret # NoSecret
    BY <1>1 DEF LinkAccepted
  <1> HIDE DEF secret
  <1>6. Configured # NoSecret
    BY MarksAssumption
  <1> QED BY <1>3, <1>4, <1>5, <1>6 DEF Link, SecretFits

LEMMA LinksFitStep == Types /\ EditsAccepted /\ LinksFit /\ [Next]_vars => LinksFit'
  <1> SUFFICES ASSUME Types, EditsAccepted, LinksFit, [Next]_vars
               PROVE  LinksFit'
    OBVIOUS
  <1>1. ASSUME NEW p \in PrinterIds, NEW c \in ValidTopologies, NEW new,
               printers' = [printers EXCEPT ![p] = c], links' = [links EXCEPT ![p] = new],
               new # NoLink => new.kind = KindFor[c.brand] /\ SecretFits(new.kind, new.secret)
        PROVE  LinksFit'
    BY <1>1, ValidIsTopology DEF LinksFit, SecretFits, Existing, Types
  <1>2. ASSUME NEW p \in PrinterIds, NEW c \in Topologies, NEW f \in LinkForms, Create(p, c, f)
        PROVE  LinksFit'
    <2> DEFINE new == FormLink(c.brand, f)
    <2>1. c \in ValidTopologies /\ LinkAccepted(c.brand, f)
      BY <1>2 DEF Create, ValidTopologies
    <2>2. new # NoLink => new.secret # Configured
      BY <1>2 DEF Create, Writable
    <2>3. new # NoLink => new.kind = KindFor[c.brand] /\ SecretFits(new.kind, new.secret)
      BY <2>1, <2>2, FormLinkFits
    <2>4. printers' = [printers EXCEPT ![p] = c] /\ links' = [links EXCEPT ![p] = new]
      BY <1>2 DEF Create
    <2> HIDE DEF new
    <2> QED BY <1>1, <2>1, <2>3, <2>4
  <1>3. ASSUME NEW t \in Clients, CommitEdit(t)
        PROVE  LinksFit'
    <2> DEFINE p == txs[t].printer
               c == txs[t].top
               new == FormLink(c.brand, txs[t].link)
    <2>1. /\ p \in PrinterIds /\ c \in ValidTopologies /\ c \in Topologies
          /\ txs[t].link \in LinkForms /\ LinkAccepted(c.brand, txs[t].link)
      BY <1>3, TxFields DEF CommitEdit, Types, Edits, ValidTopologies, EditsAccepted
    <2>2. /\ Writable(links[p], new)
          /\ printers' = [printers EXCEPT ![p] = c]
          /\ links' = [links EXCEPT ![p] = Written(links[p], new)]
      BY <1>3 DEF CommitEdit
    <2>3. new # NoLink =>
             /\ new.kind = KindFor[c.brand]
             /\ new.secret # Configured => SecretFits(KindFor[c.brand], new.secret)
      BY <2>1, FormLinkFits
    <2>4. links[p] \in {NoLink} \cup Links
      BY <2>1 DEF Types
    <2>5. links[p] # NoLink => SecretFits(links[p].kind, links[p].secret)
      BY <2>1 DEF LinksFit, SecretFits
    <2> HIDE DEF new
    <2>6. CASE new # NoLink /\ new.secret = Configured
      <3>1. links[p] \in Links /\ links[p].kind = KindFor[c.brand]
        BY <2>2, <2>3, <2>4, <2>6 DEF Writable
      <3>2. Written(links[p], new) = [links[p] EXCEPT !.endpoint = new.endpoint]
        BY <2>6 DEF Written
      <3>3. /\ Written(links[p], new).kind = links[p].kind
            /\ Written(links[p], new).secret = links[p].secret
        BY <3>1, <3>2 DEF Links
      <3>4. SecretFits(links[p].kind, links[p].secret)
        BY <2>2, <2>5, <2>6 DEF Writable
      <3> QED BY <1>1, <2>1, <2>2, <3>1, <3>3, <3>4
    <2>7. CASE ~(new # NoLink /\ new.secret = Configured)
      <3>1. Written(links[p], new) = new
        BY <2>7 DEF Written
      <3> QED BY <1>1, <2>1, <2>2, <2>3, <2>7, <3>1
    <2> QED BY <2>6, <2>7
  <1>4. ASSUME NEW t \in Clients, CommitDelete(t)
        PROVE  LinksFit'
    BY <1>4, TxFields DEF CommitDelete, LinksFit, Existing, Types, Deletes
  <1>5. CASE UNCHANGED <<printers, links>>
    BY <1>5 DEF LinksFit, Existing
  <1>6. ASSUME NEW t \in Clients, Step(t) \/ Abort(t)
        PROVE  LinksFit'
    BY <1>3, <1>4, <1>5, <1>6 DEF Step, ClearOld, SetTarget, TargetMissing, CommitLoad, LockSlot,
       RefuseEdit, BreakDeadlock, Abort
  <1> QED BY <1>2, <1>5, <1>6
          DEF Next, BeginLoad, BeginEdit, BeginDelete, UnloadSlot, UnloadSpool, vars

-------------------------------------------------------------------------------
(* The theorems.                                                           *)

IInv == Types /\ RowsDerived /\ Exclusion /\ InOneSlot /\ LeftHolds /\ EditsAccepted /\ LinksFit

LEMMA IInvAlways == Spec => []IInv
  <1>1. Init => IInv
    <2>1. Init => LeftHolds /\ EditsAccepted /\ LinksFit
      BY DEF Init, LeftHolds, EditsAccepted, LinksFit, Idle
    <2> QED BY <2>1, TypesInit, RowsDerivedInit, ExclusionInit, InOneSlotInit DEF IInv
  <1>2. IInv /\ [Next]_vars => IInv'
    BY TypesStep, RowsDerivedStep, ExclusionStep, InOneSlotStep, LeftHoldsStep,
       EditsAcceptedStep, LinksFitStep DEF IInv
  <1> QED BY <1>1, <1>2, PTL DEF Spec

(* Whatever edits, deletions and loads overlap, a printer's slot rows are  *)
(* the ones its topology derives, and there is at least one (update and    *)
(* delete, persistence/printers.rs).                                       *)
THEOREM TopologyFollowed == Spec => []SlotsFollowTopology
  <1>1. IInv => SlotsFollowTopology
    BY DerivedIsFollowed DEF IInv
  <1> QED BY <1>1, IInvAlways, PTL

(* The locks set_slot_spool takes keep a spool in one slot: the unique     *)
(* index behind them never has to refuse a load.                           *)
THEOREM IndexIdle == Spec => []IndexNeverRefuses
  <1>1. IInv => IndexNeverRefuses
    BY OneSlotIsIndex DEF IInv
  <1> QED BY <1>1, IInvAlways, PTL

(* A stored link is of its printer's kind, with the credential it needs,   *)
(* through every edit of the brand or of the link (write_link).            *)
THEOREM LinksAlwaysFit == Spec => []LinksFit
  <1>1. IInv => LinksFit
    BY DEF IInv
  <1> QED BY <1>1, IInvAlways, PTL

(* A load that ends, however it ends, has made the whole move, or left     *)
(* every slot of every printer as it was (set_slot_spool's transaction).   *)
THEOREM LoadMovesOrLeaves == Spec => LoadsMoveOrLeave
  <1>1. ASSUME IInv, Next, NEW t \in Clients, txs[t].op = "load", txs'[t] = Idle
        PROVE  held' = held \/ Moves(txs[t].spool, txs[t].to)
    <2> USE DEF IInv
    <2>1. txs[t] \in Loads /\ txs'[t] # txs[t]
      BY <1>1, TxFields, IdleTx DEF Types
    <2>2. CASE held' = held
      BY <2>2
    <2>3. CASE CommitLoad(t)
      <3>1. /\ txs[t].left \subseteq SlotRows
            /\ \A r \in SlotRows : r \in txs[t].left <=> held[r] = txs[t].spool
        <4>1. txs[t].left \subseteq SlotRows /\ txs[t].op = "load" /\ txs[t].pc = "commit"
          BY <2>1, <2>3 DEF CommitLoad, Loads
        <4> QED BY <1>1, <4>1 DEF InOneSlot, LeftHolds
      <3>2. held' = [r \in SlotRows |->
                        IF r = txs[t].to THEN txs[t].spool
                        ELSE IF r \in txs[t].left THEN NoSpool ELSE held[r]]
        BY <2>3 DEF CommitLoad
      <3> QED BY <3>1, <3>2 DEF Moves
    <2>4. ASSUME NEW u \in Clients, CommitLoad(u) \/ CommitEdit(u) \/ CommitDelete(u)
          PROVE  CommitLoad(t)
      <3>1. u = t
        BY <1>1, <2>1, <2>4 DEF CommitLoad, CommitEdit, CommitDelete, End, Types
      <3> QED BY <1>1, <2>4, <3>1 DEF CommitEdit, CommitDelete
    <2>5. txs' # txs
      BY <2>1
    <2> QED BY <1>1, <2>2, <2>3, <2>4, <2>5
            DEF Next, Step, Create, BeginLoad, BeginEdit, BeginDelete, ClearOld, SetTarget,
                TargetMissing, LockSlot, RefuseEdit, BreakDeadlock, Abort, UnloadSlot, UnloadSpool
  <1>2. IInv /\ [Next]_vars => [\A t \in Clients :
                                  txs[t].op = "load" /\ txs'[t] = Idle =>
                                     held' = held \/ Moves(txs[t].spool, txs[t].to)]_vars
    BY <1>1
  <1> QED BY <1>2, IInvAlways, PTL DEF Spec, LoadsMoveOrLeave

(* An edit that ends has taken no spool out of a slot it keeps, even one   *)
(* loaded after the edit began.                                            *)
THEOREM EditKeepsLoaded == Spec => EditsKeepLoaded
  <1>1. ASSUME IInv, Next, NEW t \in Clients, NEW r \in SlotRows, txs[t].op = "edit",
               txs'[t] = Idle, held[r] \in SpoolIds
        PROVE  held'[r] \in {held[r], NoSlot}
    <2> USE DEF IInv
    <2>1. txs'[t] # txs[t]
      BY <1>1, IdleTx
    <2>2. CASE held' = held
      BY <1>1, <2>2
    <2>3. CASE CommitEdit(t)
      BY <1>1, <2>3, SomeMarks DEF CommitEdit, SlotAfter
    <2>4. ASSUME NEW u \in Clients, CommitLoad(u) \/ CommitEdit(u) \/ CommitDelete(u)
          PROVE  CommitEdit(t)
      <3>1. u = t
        BY <1>1, <2>1, <2>4 DEF CommitLoad, CommitEdit, CommitDelete, End, Types
      <3> QED BY <1>1, <2>4, <3>1 DEF CommitLoad, CommitDelete
    <2>5. txs' # txs
      BY <2>1
    <2> QED BY <1>1, <2>2, <2>3, <2>4, <2>5
            DEF Next, Step, Create, BeginLoad, BeginEdit, BeginDelete, ClearOld, SetTarget,
                TargetMissing, LockSlot, RefuseEdit, BreakDeadlock, Abort, UnloadSlot, UnloadSpool
  <1>2. IInv /\ [Next]_vars =>
          [\A t \in Clients, r \in SlotRows :
              txs[t].op = "edit" /\ txs'[t] = Idle /\ held[r] \in SpoolIds =>
                 held'[r] \in {held[r], NoSlot}]_vars
    BY <1>1
  <1> QED BY <1>2, IInvAlways, PTL DEF Spec, EditsKeepLoaded
===============================================================================
