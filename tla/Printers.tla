------------------------------- MODULE Printers -------------------------------
(***************************************************************************)
(* Printers, their slots and their machine links as the database runs the  *)
(* requests of crates/app/src/persistence/printers.rs: transactions at     *)
(* READ COMMITTED whose statements take row locks and whose writes are     *)
(* seen by the others at the commit.  Loading a spool locks the spool row, *)
(* the slot row it leaves and the slot row it takes; editing a printer     *)
(* locks its row and then, one after another, all its slot rows; deleting  *)
(* it cascades to them.  A transaction holds its locks until it commits,   *)
(* is rolled back by an error, or is chosen to break a deadlock.           *)
(*                                                                         *)
(* A transaction is here from the moment it has its first lock: before, it *)
(* has done nothing and holds nothing.  The status of a spool, looked at   *)
(* under its lock, is the matter of SpoolRequests.                         *)
(***************************************************************************)
EXTENDS PrinterModel

CONSTANTS
    PrinterIds,    \* ids a printer may get (a fresh ULID each)
    Topologies,    \* what the form may send
    SpoolIds,      \* spools a load may name, Sealed or Open
    Clients,       \* transactions in flight at a time
    Endpoints,     \* hosts, with the serial of a Bambu machine
    Secrets,       \* API keys and access codes
    NoPrinter, NoSpool, NoSlot, NoLink, NoSecret,
    Configured,    \* the key "__configured__" of a form that leaves the stored one alone
    LinksEnabled,  \* FILATURE_DEMO is not set
    HasKey         \* FILATURE_CREDENTIALS_KEY is set

ASSUME TopologiesAssumption == \A c \in Topologies : Valid(c) => Keys(c) # {}
ASSUME MarksAssumption ==
    /\ NoPrinter \notin Topologies
    /\ NoSpool \notin SpoolIds /\ NoSlot \notin SpoolIds /\ NoSlot # NoSpool
    /\ Configured \notin Secrets /\ NoSecret \notin Secrets /\ Configured # NoSecret
ASSUME FlagsAssumption == LinksEnabled \in BOOLEAN /\ HasKey \in BOOLEAN

VARIABLES
    printers,   \* printers, printer_ams_units and printer_head_feed_modes
    held,       \* printer_slots: NoSlot where there is no row
    links,      \* machine_links
    txs         \* the transactions in flight

vars == <<printers, held, links, txs>>

AllKeys == UNION {Keys(c) : c \in {d \in Topologies : Valid(d)}}
SlotRows == PrinterIds \X AllKeys

Existing == {p \in PrinterIds : printers[p] # NoPrinter}
RowsOf(p) == {r \in SlotRows : r[1] = p /\ held[r] # NoSlot}
HoldersOf(s) == {r \in SlotRows : held[r] = s}

-------------------------------------------------------------------------------
(* The machine link of a form, and what write_link makes of it.            *)

LinkForms ==
    {NoLink} \cup [endpoint : Endpoints, key : Secrets \cup {NoSecret}, configured : BOOLEAN]

Link(kind, endpoint, secret) == [kind |-> kind, endpoint |-> endpoint, secret |-> secret]

(* The secret of a form: a blank key stands for the stored one when the    *)
(* page said there was one.                                                *)
FormSecret(kind, f) ==
    IF ~HasCredential(kind) THEN NoSecret
    ELSE IF f.key = NoSecret /\ f.configured THEN Configured ELSE f.key

FormLink(brand, f) ==
    IF f = NoLink \/ ~LinksEnabled THEN NoLink
    ELSE Link(KindFor[brand], f.endpoint, FormSecret(KindFor[brand], f))

(* A link that needs a credential has one, or says it is configured.       *)
LinkAccepted(brand, f) ==
    f # NoLink /\ HasCredential(KindFor[brand]) => FormSecret(KindFor[brand], f) # NoSecret

(* Variant: the stored kind is not looked at.                              *)
WritableAnyKind(old, new) ==
    new # NoLink => IF new.secret = Configured THEN old # NoLink
                    ELSE HasCredential(new.kind) => HasKey

(* The configured credential must be there, of the same kind; a new one    *)
(* needs the key to be encrypted with.                                     *)
Writable(old, new) ==
    new # NoLink => IF new.secret = Configured THEN old # NoLink /\ old.kind = new.kind
                    ELSE HasCredential(new.kind) => HasKey

Written(old, new) ==
    IF new # NoLink /\ new.secret = Configured THEN [old EXCEPT !.endpoint = new.endpoint]
    ELSE new

-------------------------------------------------------------------------------

Idle == [op |-> "none"]

(* The rows a transaction has locked.                                      *)
SlotLocks(t) ==
    CASE txs[t].op = "none" -> {}
      [] txs[t].op = "load" -> txs[t].left \cup IF txs[t].pc = "commit" THEN {txs[t].to} ELSE {}
      [] OTHER              -> txs[t].locked

Free(t, r) == \A u \in Clients \ {t} : r \notin SlotLocks(u)
SpoolFree(s) == \A u \in Clients : txs[u].op = "load" => txs[u].spool # s
PrinterFree(p) == \A u \in Clients : txs[u].op \in {"edit", "delete"} => txs[u].printer # p

End(t) == txs' = [txs EXCEPT ![t] = Idle]

Init ==
    /\ printers = [p \in PrinterIds |-> NoPrinter]
    /\ held = [r \in SlotRows |-> NoSlot]
    /\ links = [p \in PrinterIds |-> NoLink]
    /\ txs = [t \in Clients |-> Idle]

-------------------------------------------------------------------------------
(* POST /printers: one transaction over a fresh id, which nobody else can  *)
(* see or wait for.  Slots start empty.                                    *)
Create(p, c, f) ==
    LET link == FormLink(c.brand, f) IN
    /\ p \notin Existing
    /\ Valid(c) /\ LinkAccepted(c.brand, f) /\ Writable(NoLink, link)
    /\ printers' = [printers EXCEPT ![p] = c]
    /\ held' = [r \in SlotRows |-> IF r[1] = p /\ r[2] \in Keys(c) THEN NoSpool ELSE held[r]]
    /\ links' = [links EXCEPT ![p] = link]
    /\ UNCHANGED txs

(* Variant: the load begins without a lock on its spool.                   *)
BeginLoadUnlocked(t, s, r) ==
    /\ txs[t] = Idle
    /\ txs' = [txs EXCEPT ![t] =
                 [op |-> "load", pc |-> "clear", spool |-> s, to |-> r, left |-> {}]]
    /\ UNCHANGED <<printers, held, links>>

(* set_slot_spool: SELECT ... FOR UPDATE of the spool row.                 *)
BeginLoad(t, s, r) ==
    /\ txs[t] = Idle
    /\ SpoolFree(s)
    /\ txs' = [txs EXCEPT ![t] =
                 [op |-> "load", pc |-> "clear", spool |-> s, to |-> r, left |-> {}]]
    /\ UNCHANGED <<printers, held, links>>

(* UPDATE printer_slots SET spool_id=NULL WHERE spool_id=...               *)
ClearOld(t) ==
    LET q == txs[t] IN
    /\ q.op = "load" /\ q.pc = "clear"
    /\ \A r \in HoldersOf(q.spool) : Free(t, r)
    /\ txs' = [txs EXCEPT ![t].pc = "set", ![t].left = HoldersOf(q.spool)]
    /\ UNCHANGED <<printers, held, links>>

(* UPDATE printer_slots SET spool_id=... of the target row.                *)
SetTarget(t) ==
    LET q == txs[t] IN
    /\ q.op = "load" /\ q.pc = "set"
    /\ held[q.to] # NoSlot
    /\ Free(t, q.to)
    /\ txs' = [txs EXCEPT ![t].pc = "commit"]
    /\ UNCHANGED <<printers, held, links>>

(* Variant: an error keeps what the statements before it did.              *)
TargetMissingAutocommit(t) ==
    LET q == txs[t] IN
    /\ q.op = "load" /\ q.pc = "set"
    /\ held[q.to] = NoSlot
    /\ held' = [r \in SlotRows |-> IF r \in q.left THEN NoSpool ELSE held[r]]
    /\ End(t)
    /\ UNCHANGED <<printers, links>>

(* Variant: the transaction stays open after the error.                    *)
TargetMissingLeftOpen(t) ==
    /\ txs[t].op = "load" /\ txs[t].pc = "set"
    /\ held[txs[t].to] = NoSlot
    /\ UNCHANGED vars

(* No such row (any more): NotFound or SlotNotFound, and a rollback.       *)
TargetMissing(t) ==
    LET q == txs[t] IN
    /\ q.op = "load" /\ q.pc = "set"
    /\ held[q.to] = NoSlot
    /\ End(t)
    /\ UNCHANGED <<printers, held, links>>

CommitLoad(t) ==
    LET q == txs[t] IN
    /\ q.op = "load" /\ q.pc = "commit"
    /\ held' = [r \in SlotRows |->
                  IF r = q.to THEN q.spool ELSE IF r \in q.left THEN NoSpool ELSE held[r]]
    /\ End(t)
    /\ UNCHANGED <<printers, links>>

(* unload_slot and unload_spool: one UPDATE each, which waits for the rows.*)
UnloadSlot(r) ==
    /\ held[r] # NoSlot
    /\ \A t \in Clients : r \notin SlotLocks(t)
    /\ held' = [held EXCEPT ![r] = NoSpool]
    /\ UNCHANGED <<printers, links, txs>>

UnloadSpool(s) ==
    /\ \A r \in HoldersOf(s), t \in Clients : r \notin SlotLocks(t)
    /\ held' = [r \in SlotRows |-> IF held[r] = s THEN NoSpool ELSE held[r]]
    /\ UNCHANGED <<printers, links, txs>>

-------------------------------------------------------------------------------
(* POST /printers/{id}: UPDATE printers locks the row; a printer that is   *)
(* gone is not found.                                                      *)
BeginEdit(t, p, c, f) ==
    /\ txs[t] = Idle
    /\ p \in Existing /\ PrinterFree(p)
    /\ Valid(c) /\ LinkAccepted(c.brand, f)
    /\ txs' = [txs EXCEPT ![t] =
                 [op |-> "edit", printer |-> p, top |-> c, link |-> f, locked |-> {}]]
    /\ UNCHANGED <<printers, held, links>>

BeginDelete(t, p) ==
    /\ txs[t] = Idle
    /\ p \in Existing /\ PrinterFree(p)
    /\ txs' = [txs EXCEPT ![t] = [op |-> "delete", printer |-> p, locked |-> {}]]
    /\ UNCHANGED <<printers, held, links>>

(* The rows an edit or a deletion has yet to lock.                         *)
Unlocked(t) == RowsOf(txs[t].printer) \ txs[t].locked

(* The rows it may lock next: those it deletes in the order of the table,  *)
(* then those it keeps in the order of the derived slots.                  *)
NextLocks(t) ==
    LET q == txs[t]
        slots == IF q.op = "edit" THEN DeriveSlots(q.top) ELSE <<>>
        doomed == {r \in Unlocked(t) : \A i \in DOMAIN slots : slots[i] # r[2]}
    IN  IF doomed # {} THEN doomed
        ELSE {r \in Unlocked(t) : \E i \in DOMAIN slots :
                slots[i] = r[2] /\ \A j \in 1 .. i - 1 : <<r[1], slots[j]>> \notin Unlocked(t)}

(* DELETE or INSERT ... ON CONFLICT DO UPDATE of one slot row.             *)
LockSlot(t) ==
    /\ txs[t].op \in {"edit", "delete"}
    /\ \E r \in NextLocks(t) :
          /\ Free(t, r)
          /\ txs' = [txs EXCEPT ![t].locked = @ \cup {r}]
    /\ UNCHANGED <<printers, held, links>>

(* Variants of the rows an edit leaves: the ones it no longer derives stay,*)
(* or the ones it keeps are emptied.                                       *)
SlotAfterKeepAll(r, c) ==
    IF held[r] # NoSlot THEN held[r] ELSE IF r[2] \in Keys(c) THEN NoSpool ELSE NoSlot
SlotAfterReset(r, c) == IF r[2] \in Keys(c) THEN NoSpool ELSE NoSlot

(* A slot row of an edited printer: deleted unless derived, inserted empty,*)
(* kept with its spool.                                                    *)
SlotAfter(r, c) ==
    IF r[2] \notin Keys(c) THEN NoSlot ELSE IF held[r] = NoSlot THEN NoSpool ELSE held[r]

CommitEdit(t) ==
    LET q == txs[t]
        p == q.printer
        link == FormLink(q.top.brand, q.link)
    IN
    /\ q.op = "edit" /\ Unlocked(t) = {}
    /\ Writable(links[p], link)
    /\ printers' = [printers EXCEPT ![p] = q.top]
    /\ held' = [r \in SlotRows |-> IF r[1] = p THEN SlotAfter(r, q.top) ELSE held[r]]
    /\ links' = [links EXCEPT ![p] = Written(links[p], link)]
    /\ End(t)

(* write_link fails: the whole edit is rolled back.                        *)
RefuseEdit(t) ==
    LET q == txs[t] IN
    /\ q.op = "edit" /\ Unlocked(t) = {}
    /\ ~Writable(links[q.printer], FormLink(q.top.brand, q.link))
    /\ End(t)
    /\ UNCHANGED <<printers, held, links>>

CommitDelete(t) ==
    LET p == txs[t].printer IN
    /\ txs[t].op = "delete" /\ Unlocked(t) = {}
    /\ printers' = [printers EXCEPT ![p] = NoPrinter]
    /\ held' = [r \in SlotRows |-> IF r[1] = p THEN NoSlot ELSE held[r]]
    /\ links' = [links EXCEPT ![p] = NoLink]
    /\ End(t)

-------------------------------------------------------------------------------

(* The rows whose lock a transaction may be waiting for.                   *)
Wants(t) ==
    LET q == txs[t] IN
    CASE q.op = "none" -> {}
      [] q.op = "load" -> IF q.pc = "clear" THEN HoldersOf(q.spool)
                          ELSE IF q.pc = "set" THEN {q.to} ELSE {}
      [] OTHER -> NextLocks(t)

WaitsFor(t, u) == u # t /\ Wants(t) \cap SlotLocks(u) # {}

(* Postgres rolls back a transaction that waits in a circle.               *)
BreakDeadlock(t) ==
    /\ \E circle \in SUBSET Clients :
          /\ t \in circle
          /\ \A u \in circle : \E v \in circle : WaitsFor(u, v)
          /\ \A u \in circle : \E v \in circle : WaitsFor(v, u)
    /\ End(t)
    /\ UNCHANGED <<printers, held, links>>

(* The client hangs up or the connection is lost: a rollback.              *)
Abort(t) ==
    /\ txs[t] # Idle
    /\ End(t)
    /\ UNCHANGED <<printers, held, links>>

-------------------------------------------------------------------------------

Step(t) ==
    \/ ClearOld(t) \/ SetTarget(t) \/ TargetMissing(t) \/ CommitLoad(t)
    \/ LockSlot(t) \/ CommitEdit(t) \/ RefuseEdit(t) \/ CommitDelete(t)
    \/ BreakDeadlock(t)

Next ==
    \/ \E p \in PrinterIds, c \in Topologies, f \in LinkForms : Create(p, c, f)
    \/ \E t \in Clients, s \in SpoolIds, r \in SlotRows : BeginLoad(t, s, r)
    \/ \E t \in Clients, p \in PrinterIds, c \in Topologies, f \in LinkForms :
          BeginEdit(t, p, c, f)
    \/ \E t \in Clients, p \in PrinterIds : BeginDelete(t, p)
    \/ \E t \in Clients : Step(t) \/ Abort(t)
    \/ \E r \in SlotRows : UnloadSlot(r)
    \/ \E s \in SpoolIds : UnloadSpool(s)

Spec == Init /\ [][Next]_vars

(* Row locks are granted in the order they were asked for, so that one     *)
(* that is free again and again is got; users owe nothing.                 *)
FairSpec == Spec /\ \A t \in Clients : SF_vars(Step(t))

-------------------------------------------------------------------------------

(* Whatever edits, deletions and loads overlap, the slot rows of a printer *)
(* are the ones its topology derives, and there is at least one (update,   *)
(* persistence/printers.rs; derive_slots, printers/model.rs).              *)
SlotsFollowTopology ==
    /\ \A p \in Existing : {r[2] : r \in RowsOf(p)} = Keys(printers[p]) /\ RowsOf(p) # {}
    /\ \A p \in PrinterIds \ Existing : RowsOf(p) = {}

(* No spool is in two slots, and the unique index that says so never has   *)
(* to refuse a load: when a load comes to fill its slot, its spool is in   *)
(* no slot but the one it has just emptied (set_slot_spool).               *)
IndexNeverRefuses ==
    /\ \A s \in SpoolIds : \A a, b \in HoldersOf(s) : a = b
    /\ \A t \in Clients : txs[t].op = "load" /\ txs[t].pc # "clear" =>
          HoldersOf(txs[t].spool) \subseteq txs[t].left

(* A stored link is of the kind its printer's brand asks for, with a       *)
(* credential where one is needed, and never with the mark of a configured *)
(* one in its place (write_link, PrinterForm::domain).                     *)
LinksFit ==
    \A p \in PrinterIds : links[p] # NoLink =>
        /\ p \in Existing
        /\ links[p].kind = KindFor[printers[p].brand]
        /\ links[p].secret \in IF HasCredential(links[p].kind) THEN Secrets ELSE {NoSecret}

(* A load that ends has put its spool in its slot, out of the one it was in*)
(* and in the place of the one that was there; or else, for a slot deleted *)
(* under it, a deadlock or a client that hung up, it has left every slot   *)
(* as it was (load_slot, printers/usecases.rs; set_slot_spool).            *)
Moves(s, to) ==
    held' = [r \in SlotRows |-> IF r = to THEN s
                               ELSE IF held[r] = s THEN NoSpool ELSE held[r]]

LoadsMoveOrLeave ==
    [][\A t \in Clients :
          txs[t].op = "load" /\ txs'[t] = Idle =>
             held' = held \/ Moves(txs[t].spool, txs[t].to)]_vars

(* Editing a printer empties no slot it keeps, whenever the spool came     *)
(* there: only a slot that is deleted loses its spool.                     *)
EditsKeepLoaded ==
    [][\A t \in Clients, r \in SlotRows :
          txs[t].op = "edit" /\ txs'[t] = Idle /\ held[r] \in SpoolIds =>
             held'[r] \in {held[r], NoSlot}]_vars

(* Every transaction ends: a circle of loads and edits that wait for one   *)
(* another is broken and the others go on.                                 *)
EveryTransactionEnds == \A t \in Clients : txs[t] # Idle ~> txs[t] = Idle
===============================================================================
