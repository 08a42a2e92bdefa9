--------------------------- MODULE ReferentialsProofs ---------------------------
(***************************************************************************)
(* Theorems about Referentials, for any number of requests, processes that *)
(* seed, spools, names and rows.                                           *)
(***************************************************************************)
EXTENDS Referentials, FiniteSetTheorems, TLAPS

-------------------------------------------------------------------------------
(* What the variables hold.                                                *)

AllNames == MaterialNames \cup ManufacturerNames \cup LocationNames
Seeded == {"material", "manufacturer"}

SpoolRows == [material : Ids \cup {0}, manufacturer : Ids \cup {0}, location : Ids \cup {0}]

Writers == [pc : {"typed", "list", "write"}, spool : Spools \cup {NoSpool}, row : SpoolRows,
            typed : ManufacturerNames \cup {NoName}]

(* A writer with a name to resolve has one.                                *)
Writing(q) == q \in Writers /\ (q.pc # "write" => q.typed # NoName)

Deleters == [pc : {"delete"}, kind : Kinds, id : Ids]
Counting(q) == q.pc = "counts" /\ "pc" \in DOMAIN q
Seeders == [pc : {"exists", "insert", "seeded"}, kind : Seeded, todo : Seq(AllNames),
            disturbed : BOOLEAN]

(* The names in the tables, with their kind.                               *)
Present == {x \in Kinds \X AllNames : \E id \in DOMAIN rows[x[1]] : rows[x[1]][id] = x[2]}

(* Of a list that is being seeded, what is left to do is its end, and what *)
(* is done, with the list before, is there unless it was disturbed.        *)
Suffix(q) ==
    LET list == Builtin[q.kind] IN
    /\ Len(q.todo) \in 1 .. Len(list)
    /\ \A j \in 1 .. Len(q.todo) : q.todo[j] = list[Len(list) - Len(q.todo) + j]

Complete(kind, present) == \A i \in 1 .. Len(Builtin[kind]) : <<kind, Builtin[kind][i]>> \in present

SeedsWell(q, present) ==
    /\ q.pc # "seeded" => Suffix(q)
    /\ ~q.disturbed =>
          /\ q.pc = "seeded" => Complete("material", present) /\ Complete("manufacturer", present)
          /\ q.pc # "seeded" =>
                /\ q.kind = "manufacturer" => Complete("material", present)
                /\ \A i \in 1 .. Len(Builtin[q.kind]) - Len(q.todo) :
                      <<q.kind, Builtin[q.kind][i]>> \in present

Request(q, present) ==
    \/ q = Idle \/ Writing(q) \/ q \in Deleters \/ Counting(q)
    \/ q \in Seeders /\ SeedsWell(q, present)

(* A typed name leads to a row of that name in a table of manufacturers.   *)
NamesWell(q, table) ==
    q.pc = "write" /\ q.typed # NoName /\ q.row.manufacturer \in DOMAIN table =>
        table[q.row.manufacturer] = q.typed

IsFunction(table) == table = [id \in DOMAIN table |-> table[id]]

Table(kind, table) ==
    /\ IsFunction(table) /\ DOMAIN table \subseteq Ids
    /\ \A id \in DOMAIN table : table[id] \in NamesOf[kind]
    /\ kind # "location" => \A i, j \in DOMAIN table : table[i] = table[j] => i = j

Tables ==
    /\ rows = [kind \in Kinds |-> rows[kind]]
    /\ \A kind \in Kinds : Table(kind, rows[kind])

References ==
    /\ spools = [s \in Spools |-> spools[s]]
    /\ \A s \in Spools : spools[s] = NoSpool \/ (spools[s] \in SpoolRows /\ Fits(spools[s]))

InFlight ==
    /\ reqs = [r \in Requests |-> reqs[r]]
    /\ \A r \in Requests :
          Request(reqs[r], Present) /\ NamesWell(reqs[r], rows["manufacturer"])

IInv == Tables /\ References /\ InFlight

-------------------------------------------------------------------------------

LEMMA RowIsNoMark == NoSpool \notin SpoolRows
  BY ReferentialsAssumption DEF SpoolRows, Kinds

LEMMA RowFields ==
    ASSUME NEW x \in SpoolRows
    PROVE  /\ \A kind \in Kinds : x[kind] \in Ids \cup {0}
           /\ x["manufacturer"] = x.manufacturer
  BY DEF SpoolRows, Kinds

LEMMA RequestKinds ==
    ASSUME NEW q, NEW present, Request(q, present)
    PROVE  /\ q.pc \in {"typed", "list", "write"} => Writing(q)
           /\ q.pc = "delete" => q \in Deleters
           /\ q.pc = "counts" => Counting(q)
           /\ q.pc \in {"exists", "insert", "seeded"} => q \in Seeders /\ SeedsWell(q, present)
           /\ q = Idle => q.pc = "idle"
  BY DEF Request, Idle, Writing, Writers, Deleters, Counting, Seeders

(* More names in the tables do a seeding no harm.                          *)
LEMMA MoreIsWell ==
    ASSUME NEW q, NEW present, NEW more, present \subseteq more, Request(q, present)
    PROVE  Request(q, more)
  BY DEF Request, SeedsWell, Complete

LEMMA BuiltinLists ==
    \A kind \in Seeded :
        /\ kind \in Kinds
        /\ Builtin[kind] \in Seq(AllNames) /\ Len(Builtin[kind]) \in Nat \ {0}
        /\ \A i \in 1 .. Len(Builtin[kind]) : Builtin[kind][i] \in NamesOf[kind]
  <1> SUFFICES ASSUME NEW kind \in Seeded
               PROVE  /\ kind \in Kinds
                      /\ Builtin[kind] \in Seq(AllNames) /\ Len(Builtin[kind]) \in Nat \ {0}
                      /\ \A i \in 1 .. Len(Builtin[kind]) : Builtin[kind][i] \in NamesOf[kind]
    OBVIOUS
  <1>1. kind \in DOMAIN Builtin
    BY DEF Builtin, Seeded
  <1>2. Builtin[kind] \in Seq(NamesOf[kind]) /\ Builtin[kind] # <<>>
    BY <1>1, ReferentialsAssumption
  <1>3. NamesOf[kind] \subseteq AllNames
    BY DEF NamesOf, Seeded, AllNames
  <1>4. Len(Builtin[kind]) \in Nat \ {0} /\ \A i \in 1 .. Len(Builtin[kind]) : Builtin[kind][i] \in NamesOf[kind]
    BY <1>2
  <1>5. Builtin[kind] \in Seq(AllNames)
    BY <1>2, <1>3
  <1> QED BY <1>4, <1>5 DEF Seeded, Kinds

LEMMA OneLess == \A l, d, u \in Nat : l = d + (u + 1) => l - u = d + 1
  OBVIOUS

LEMMA Shifted == \A d, j \in Nat : d + (j + 1) = d + 1 + j
  OBVIOUS

LEMMA OneLeft == \A l, d, t \in Nat : l = d + t /\ t >= 1 /\ ~(t > 1) => d + 1 = l
  OBVIOUS

(* The seeding goes on to the next name, once the name it is at is there.  *)
LEMMA NextNameIsWell ==
    ASSUME NEW q \in Seeders, q.pc # "seeded", NEW present, SeedsWell(q, present),
           <<q.kind, Head(q.todo)>> \in present
    PROVE  Request(NextName(q), present) /\ NextName(q).pc # "write"
  <1> DEFINE list == Builtin[q.kind]
             done == Len(list) - Len(q.todo)
  <1>1. q.kind \in Seeded /\ q.todo \in Seq(AllNames)
    BY DEF Seeders
  <1>2. Len(list) \in Nat \ {0}
    BY <1>1, BuiltinLists
  <1>3. /\ Len(q.todo) \in 1 .. Len(list)
        /\ \A j \in 1 .. Len(q.todo) : q.todo[j] = list[done + j]
    BY DEF SeedsWell, Suffix
  <1>4. done \in Nat /\ Len(q.todo) \in Nat /\ Len(list) = done + Len(q.todo)
    BY <1>2, <1>3
  <1>5. Head(q.todo) = list[done + 1]
    <2>1. Head(q.todo) = q.todo[1] /\ 1 \in 1 .. Len(q.todo)
      BY <1>1, <1>3
    <2> QED BY <1>3, <2>1
  <1>6. ~q.disturbed => \A i \in 1 .. done + 1 : <<q.kind, list[i]>> \in present
    <2> SUFFICES ASSUME ~q.disturbed, NEW i \in 1 .. done + 1
                 PROVE  <<q.kind, list[i]>> \in present
      OBVIOUS
    <2>1. CASE i = done + 1
      BY <1>5, <2>1
    <2>2. CASE i # done + 1
      <3>1. i \in 1 .. done
        BY <1>4, <2>2
      <3> QED BY <3>1 DEF SeedsWell
    <2> QED BY <2>1, <2>2
  <1> HIDE DEF done
  <1>7. CASE Len(q.todo) > 1
    <2> DEFINE n == [q EXCEPT !.pc = "exists", !.todo = Tail(q.todo)]
    <2>1. /\ Tail(q.todo) \in Seq(AllNames) /\ Len(Tail(q.todo)) = Len(q.todo) - 1
          /\ \A j \in 1 .. Len(q.todo) - 1 : Tail(q.todo)[j] = q.todo[j + 1]
      BY <1>1, <1>7
    <2>2. /\ n \in Seeders /\ n.pc = "exists" /\ n.kind = q.kind /\ n.todo = Tail(q.todo)
          /\ n.disturbed = q.disturbed
      BY <2>1 DEF Seeders
    <2>3. NextName(q) = n
      BY <1>7 DEF NextName
    <2> HIDE DEF n
    <2>5. Len(n.todo) = Len(q.todo) - 1 /\ Len(n.todo) \in Nat /\ Len(list) \in Nat
      BY <1>2, <1>4, <1>7, <2>1, <2>2
    <2>6. Len(list) - Len(n.todo) = done + 1
      <3>1. Len(q.todo) = Len(n.todo) + 1
        BY <1>4, <2>5
      <3>2. Len(list) = done + (Len(n.todo) + 1)
        BY <1>4, <3>1
      <3> QED BY <1>4, <2>5, <3>2, OneLess
    <2>4. Suffix(n)
      <3>1. Len(n.todo) \in 1 .. Len(list)
        BY <1>2, <1>3, <1>4, <1>7, <2>1, <2>2
      <3>2. ASSUME NEW j \in 1 .. Len(n.todo)
            PROVE  n.todo[j] = list[Len(list) - Len(n.todo) + j]
        <4>1. j + 1 \in 1 .. Len(q.todo) /\ n.todo[j] = q.todo[j + 1]
          BY <1>4, <2>1, <2>2
        <4>2. n.todo[j] = list[done + (j + 1)]
          BY <1>3, <4>1
        <4>3. done + (j + 1) = Len(list) - Len(n.todo) + j
          <5>1. j \in Nat
            BY <2>5
          <5> QED BY <1>4, <2>6, <5>1, Shifted
        <4> QED BY <4>2, <4>3
      <3> QED BY <2>2, <3>1, <3>2 DEF Suffix
    <2>7. SeedsWell(n, present)
      BY <1>6, <2>2, <2>4, <2>6 DEF SeedsWell
    <2> QED BY <2>2, <2>3, <2>7 DEF Request
  <1>8. CASE ~(Len(q.todo) > 1)
    <2>1. done + 1 = Len(list)
      <3>1. Len(q.todo) >= 1
        BY <1>3
      <3> QED BY <1>2, <1>4, <1>8, <3>1, OneLeft
    <2>2. ~q.disturbed => Complete(q.kind, present)
      BY <1>6, <2>1 DEF Complete
    <2>3. NextName(q) = SkippedList(q)
      BY <1>8 DEF NextName
    <2>4. CASE q.kind = "material"
      <3> DEFINE n == [q EXCEPT !.pc = "exists", !.kind = "manufacturer",
                                !.todo = Builtin["manufacturer"]]
      <3>1. "manufacturer" \in Seeded
        BY DEF Seeded
      <3>2. Builtin["manufacturer"] \in Seq(AllNames) /\ Len(Builtin["manufacturer"]) \in Nat \ {0}
        BY <3>1, BuiltinLists
      <3>3. /\ n \in Seeders /\ n.pc = "exists" /\ n.kind = "manufacturer"
            /\ n.todo = Builtin["manufacturer"] /\ n.disturbed = q.disturbed
        BY <3>1, <3>2 DEF Seeders
      <3>4. NextName(q) = n
        BY <2>3, <2>4 DEF SkippedList
      <3> HIDE DEF n
      <3>5. Suffix(n)
        BY <3>2, <3>3 DEF Suffix
      <3>6. \A i \in 1 .. Len(Builtin["manufacturer"]) - Len(n.todo) : FALSE
        BY <3>2, <3>3
      <3>7. SeedsWell(n, present)
        BY <2>2, <2>4, <3>3, <3>5, <3>6 DEF SeedsWell
      <3> QED BY <3>3, <3>4, <3>7 DEF Request
    <2>5. CASE q.kind = "manufacturer"
      <3> DEFINE n == [q EXCEPT !.pc = "seeded", !.todo = <<>>]
      <3>0. <<>> \in Seq(AllNames)
        OBVIOUS
      <3>1. n \in Seeders /\ n.pc = "seeded" /\ n.disturbed = q.disturbed
        BY <3>0 DEF Seeders
      <3>2. NextName(q) = n
        BY <2>3, <2>5 DEF SkippedList
      <3>3. ~q.disturbed => Complete("material", present)
        BY <2>5 DEF SeedsWell
      <3> HIDE DEF n
      <3>4. SeedsWell(n, present)
        BY <2>2, <2>5, <3>1, <3>3 DEF SeedsWell
      <3> QED BY <3>1, <3>2, <3>4 DEF Request
    <2> QED BY <1>1, <2>4, <2>5 DEF Seeded
  <1> QED BY <1>7, <1>8

-------------------------------------------------------------------------------
(* What each statement does to the tables.                                 *)

(* An insertion adds one row, under an id nobody holds: every reference    *)
(* and every typed name still leads where it led.                          *)
LEMMA Insertion ==
    ASSUME IInv, NEW kind \in Kinds, NEW name \in NamesOf[kind], ~Taken(kind, name),
           FreshIds(kind) # {}, rows' = Inserted(kind, name)
    PROVE  /\ Tables'
           /\ \A k \in Kinds : DOMAIN rows[k] \subseteq DOMAIN rows'[k]
           /\ Present \subseteq Present' /\ <<kind, name>> \in Present'
           /\ NewId(kind) \in Ids /\ rows'[kind][NewId(kind)] = name
           /\ \A r \in Requests : NamesWell(reqs[r], rows'["manufacturer"])
  <1> DEFINE n == NewId(kind)
  <1>1. n \in FreshIds(kind)
    BY DEF NewId
  <1>2. n \in Ids /\ n \notin DOMAIN rows[kind] /\ n \notin HeldIds(kind)
    BY <1>1 DEF FreshIds
  <1> HIDE DEF n
  <1>3. rows' = [rows EXCEPT ![kind] = [id \in DOMAIN rows[kind] \cup {n} |->
                                          IF id = n THEN name ELSE rows[kind][id]]]
    BY DEF Inserted, n
  <1>4. /\ rows' = [k \in Kinds |-> rows'[k]]
        /\ \A k \in Kinds \ {kind} : rows'[k] = rows[k]
        /\ DOMAIN rows'[kind] = DOMAIN rows[kind] \cup {n} /\ rows'[kind][n] = name
        /\ \A id \in DOMAIN rows[kind] : rows'[kind][id] = rows[kind][id]
        /\ IsFunction(rows'[kind])
    BY <1>2, <1>3 DEF IInv, Tables, IsFunction
  <1>5. \A k \in Kinds : Table(k, rows[k])
    BY DEF IInv, Tables
  <1>6. Table(kind, rows'[kind])
    <2>1. kind # "location" => \A id \in DOMAIN rows[kind] : rows[kind][id] # name
      BY DEF Taken, Named
    <2> QED BY <1>2, <1>4, <1>5, <2>1 DEF Table
  <1>7. Tables'
    BY <1>4, <1>5, <1>6 DEF Tables
  <1>8. \A k \in Kinds : /\ DOMAIN rows[k] \subseteq DOMAIN rows'[k]
                        /\ \A id \in DOMAIN rows[k] : rows'[k][id] = rows[k][id]
    BY <1>4
  <1>9. Present \subseteq Present'
    BY <1>8 DEF Present
  <1>10. <<kind, name>> \in Present'
    <2>1. name \in AllNames
      BY DEF NamesOf, AllNames, Kinds
    <2>2. n \in DOMAIN rows'[kind]
      BY <1>4
    <2> QED BY <1>4, <2>1, <2>2 DEF Present
  <1>11. ASSUME NEW r \in Requests
         PROVE  NamesWell(reqs[r], rows'["manufacturer"])
    <2> SUFFICES ASSUME reqs[r].pc = "write", reqs[r].typed # NoName,
                        reqs[r].row.manufacturer \in DOMAIN rows'["manufacturer"]
                 PROVE  rows'["manufacturer"][reqs[r].row.manufacturer] = reqs[r].typed
      BY DEF NamesWell
    <2>1. "manufacturer" \in Kinds
      BY DEF Kinds
    <2>2. NamesWell(reqs[r], rows["manufacturer"])
      BY DEF IInv, InFlight
    <2>3. reqs[r] \in Writers
      BY RequestKinds DEF IInv, InFlight, Writing
    <2>4. kind = "manufacturer" => reqs[r].row.manufacturer # n
      <3>1. reqs[r].row["manufacturer"] \in HeldIds("manufacturer")
        BY DEF HeldIds
      <3>2. reqs[r].row["manufacturer"] = reqs[r].row.manufacturer
        BY <2>3, RowFields DEF Writers
      <3> QED BY <1>2, <3>1, <3>2
    <2>5. reqs[r].row.manufacturer \in DOMAIN rows["manufacturer"]
      BY <1>4, <2>1, <2>4
    <2> QED BY <1>8, <2>1, <2>2, <2>5 DEF NamesWell
  <1> QED BY <1>2, <1>4, <1>7, <1>8, <1>9, <1>10, <1>11 DEF n

(* A rename keeps every row, and manufacturers have none.                  *)
LEMMA Renaming ==
    ASSUME IInv, NEW kind \in Kinds, NEW id \in Ids, NEW name \in NamesOf[kind],
           Rename(kind, id, name)
    PROVE  /\ Tables' /\ rows'["manufacturer"] = rows["manufacturer"]
           /\ \A k \in Kinds : DOMAIN rows'[k] = DOMAIN rows[k]
  <1>1. /\ kind # "manufacturer" /\ id \in DOMAIN rows[kind] /\ ~Taken(kind, name)
        /\ rows' = [rows EXCEPT ![kind] = [rows[kind] EXCEPT ![id] = name]]
    BY DEF Rename
  <1>2. /\ rows' = [k \in Kinds |-> rows'[k]]
        /\ \A k \in Kinds \ {kind} : rows'[k] = rows[k]
        /\ rows'[kind] = [rows[kind] EXCEPT ![id] = name]
    BY <1>1 DEF IInv, Tables
  <1>3. /\ DOMAIN rows'[kind] = DOMAIN rows[kind] /\ rows'[kind][id] = name
        /\ \A i \in DOMAIN rows[kind] \ {id} : rows'[kind][i] = rows[kind][i]
        /\ IsFunction(rows'[kind])
    BY <1>1, <1>2 DEF IsFunction
  <1>4. \A k \in Kinds : Table(k, rows[k])
    BY DEF IInv, Tables
  <1>5. Table(kind, rows'[kind])
    <2>1. kind # "location" => \A i \in DOMAIN rows[kind] : rows[kind][i] # name
      BY <1>1 DEF Taken, Named
    <2> QED BY <1>3, <1>4, <2>1 DEF Table
  <1>6. Tables'
    BY <1>2, <1>4, <1>5 DEF Tables
  <1> QED BY <1>1, <1>2, <1>3, <1>6 DEF Kinds

(* A deletion takes no row a spool refers to, whatever was counted.        *)
LEMMA Removal ==
    ASSUME IInv, NEW kind \in Kinds, NEW id, rows' = Removed(kind, id)
    PROVE  /\ Tables'
           /\ \A s \in Stored, k \in Kinds :
                 spools[s][k] \in DOMAIN rows[k] => spools[s][k] \in DOMAIN rows'[k]
           /\ \A r \in Requests : NamesWell(reqs[r], rows'["manufacturer"])
  <1> DEFINE kept == {o \in DOMAIN rows[kind] : o # id \/ Referring(kind, o) # {}}
  <1>1. rows' = [rows EXCEPT ![kind] = [o \in kept |-> rows[kind][o]]]
    BY DEF Removed
  <1>2. \A s \in Stored : spools[s][kind] \in DOMAIN rows[kind] => spools[s][kind] \in kept
    BY DEF Referring
  <1>3. kept \subseteq DOMAIN rows[kind]
    OBVIOUS
  <1> HIDE DEF kept
  <1>4. /\ rows' = [k \in Kinds |-> rows'[k]]
        /\ \A k \in Kinds \ {kind} : rows'[k] = rows[k]
        /\ DOMAIN rows'[kind] = kept
        /\ \A o \in kept : rows'[kind][o] = rows[kind][o]
        /\ IsFunction(rows'[kind])
    BY <1>1 DEF IInv, Tables, IsFunction
  <1>5. \A k \in Kinds : Table(k, rows[k])
    BY DEF IInv, Tables
  <1>6. Table(kind, rows'[kind])
    BY <1>3, <1>4, <1>5 DEF Table
  <1>7. Tables'
    BY <1>4, <1>5, <1>6 DEF Tables
  <1>8. ASSUME NEW r \in Requests
        PROVE  NamesWell(reqs[r], rows'["manufacturer"])
    <2>1. "manufacturer" \in Kinds
      BY DEF Kinds
    <2>2. NamesWell(reqs[r], rows["manufacturer"])
      BY DEF IInv, InFlight
    <2> QED BY <1>3, <1>4, <2>1, <2>2 DEF NamesWell
  <1> QED BY <1>2, <1>4, <1>7, <1>8

-------------------------------------------------------------------------------
(* What follows for references and requests.                               *)

LEMMA ReferencesLead ==
    ASSUME IInv, spools' = spools,
           \A s \in Stored, k \in Kinds :
              spools[s][k] \in DOMAIN rows[k] => spools[s][k] \in DOMAIN rows'[k]
    PROVE  References'
  BY DEF IInv, References, Fits, Stored

LEMMA RequestsGoOn ==
    ASSUME IInv, reqs' = reqs, Present \subseteq Present',
           \A o \in Requests : NamesWell(reqs[o], rows'["manufacturer"])
    PROVE  InFlight'
  BY MoreIsWell DEF IInv, InFlight

(* One request moves to q.                                                 *)
LEMMA OneRequest ==
    ASSUME IInv, NEW r \in Requests, NEW q, reqs' = [reqs EXCEPT ![r] = q],
           Present \subseteq Present',
           \A o \in Requests : NamesWell(reqs[o], rows'["manufacturer"]),
           Request(q, Present'), NamesWell(q, rows'["manufacturer"])
    PROVE  InFlight'
  <1>1. /\ reqs' = [o \in Requests |-> reqs'[o]] /\ reqs'[r] = q
        /\ \A o \in Requests \ {r} : reqs'[o] = reqs[o]
    BY DEF IInv, InFlight
  <1>2. \A o \in Requests : Request(reqs[o], Present')
    BY MoreIsWell DEF IInv, InFlight
  <1> QED BY <1>1, <1>2 DEF InFlight

LEMMA IdleIsWell == \A present, table : Request(Idle, present) /\ NamesWell(Idle, table)
  BY DEF Request, NamesWell, Idle

(* A request that is no writer has no name to keep.                        *)
LEMMA OthersNameNone ==
    ASSUME NEW q, NEW table, q.pc # "write"
    PROVE  NamesWell(q, table)
  BY DEF NamesWell

(* One request moves to q, over tables that stay.                          *)
LEMMA OneRequestAlone ==
    ASSUME IInv, NEW r \in Requests, NEW q, reqs' = [reqs EXCEPT ![r] = q],
           UNCHANGED <<rows, spools>>, Request(q, Present), NamesWell(q, rows["manufacturer"])
    PROVE  IInv'
  <1>1. Present' = Present
    BY DEF Present
  <1>2. InFlight'
    BY <1>1, OneRequest DEF IInv, InFlight
  <1> QED BY <1>2 DEF IInv, Tables, References, Stored, Fits

LEMMA CountingOn ==
    ASSUME NEW q, Counting(q), NEW v, NEW w
    PROVE  Counting([q EXCEPT !.todo = v]) /\ Counting([q EXCEPT !.overlaps = v])
           /\ Counting([[q EXCEPT !.todo = v] EXCEPT !.sum = w])
           /\ [q EXCEPT !.todo = v].pc = "counts" /\ [q EXCEPT !.overlaps = v].pc = "counts"
  BY DEF Counting

(* A disturbed seeding promises nothing; other requests go on as they were.*)
LEMMA DisturbedIsWell ==
    ASSUME IInv, NEW r \in Requests
    PROVE  /\ \A present : Request(Disturbed[r], present)
           /\ \A table : NamesWell(reqs[r], table) => NamesWell(Disturbed[r], table)
  <1> DEFINE q == [reqs[r] EXCEPT !.disturbed = TRUE]
  <1>1. Request(reqs[r], Present)
    BY DEF IInv, InFlight
  <1>2. CASE reqs[r].pc \in {"exists", "insert", "seeded"}
    <2>1. Disturbed[r] = q
      BY <1>2 DEF Disturbed
    <2>2. reqs[r] \in Seeders /\ SeedsWell(reqs[r], Present)
      BY <1>1, <1>2, RequestKinds
    <2>3. /\ q \in Seeders /\ q.pc = reqs[r].pc /\ q.kind = reqs[r].kind
          /\ q.todo = reqs[r].todo /\ q.disturbed = TRUE
      BY <2>2 DEF Seeders
    <2> HIDE DEF q
    <2>4. \A present : SeedsWell(q, present)
      BY <2>2, <2>3 DEF SeedsWell, Suffix
    <2>5. q.pc # "write"
      BY <1>2, <2>3
    <2> QED BY <2>1, <2>3, <2>4, <2>5, OthersNameNone DEF Request
  <1>3. CASE reqs[r].pc \notin {"exists", "insert", "seeded"}
    <2>1. Disturbed[r] = reqs[r]
      BY <1>3 DEF Disturbed
    <2>2. reqs[r] \notin Seeders
      BY <1>3 DEF Seeders
    <2> QED BY <1>1, <2>1, <2>2 DEF Request
  <1> QED BY <1>2, <1>3

LEMMA DeprivedIsWell ==
    ASSUME IInv, NEW r \in Requests, NEW kind, NEW id
    PROVE  /\ \A present : Request(Deprived(kind, id)[r], present)
           /\ \A table : NamesWell(reqs[r], table) => NamesWell(Deprived(kind, id)[r], table)
  <1>1. CASE reqs[r].pc = "counts" /\ reqs[r].kind = kind
    <2> DEFINE q == [reqs[r] EXCEPT !.todo = reqs[r].todo \ {id}]
    <2>1. Deprived(kind, id)[r] = q
      BY <1>1 DEF Deprived
    <2>2. Counting(reqs[r])
      BY <1>1, RequestKinds DEF IInv, InFlight
    <2>3. Counting(q) /\ q.pc = "counts"
      BY <2>2, CountingOn
    <2> HIDE DEF q
    <2> QED BY <2>1, <2>3, OthersNameNone DEF Request
  <1>2. CASE ~(reqs[r].pc = "counts" /\ reqs[r].kind = kind)
    <2>1. Deprived(kind, id)[r] = Disturbed[r]
      BY <1>2 DEF Deprived
    <2> QED BY <2>1, DisturbedIsWell
  <1> QED BY <1>1, <1>2

LEMMA MovedIsWell ==
    ASSUME IInv, NEW r \in Requests, NEW s, NEW row
    PROVE  Request(Moved(s, row)[r], Present) /\ NamesWell(Moved(s, row)[r], rows["manufacturer"])
  <1>1. Request(reqs[r], Present) /\ NamesWell(reqs[r], rows["manufacturer"])
    BY DEF IInv, InFlight
  <1>2. CASE Moved(s, row)[r] = reqs[r]
    BY <1>1, <1>2
  <1>3. CASE Moved(s, row)[r] # reqs[r]
    <2> DEFINE v == Min({reqs[r].overlaps + 1, Cardinality(Spools) * Cardinality(Ids)})
               q == [reqs[r] EXCEPT !.overlaps = v]
    <2> HIDE DEF v
    <2>1. reqs[r].pc = "counts" /\ Moved(s, row)[r] = q
      BY <1>3 DEF Moved, v
    <2>2. Counting(reqs[r])
      BY <1>1, <2>1, RequestKinds
    <2>3. Counting(q) /\ q.pc = "counts"
      BY <2>2, CountingOn
    <2> HIDE DEF q
    <2> QED BY <2>1, <2>3, OthersNameNone DEF Request
  <1> QED BY <1>2, <1>3

-------------------------------------------------------------------------------
(* Steps.                                                                  *)

LEMMA AddStep ==
    ASSUME IInv, NEW kind \in Kinds, NEW name \in NamesOf[kind], Add(kind, name)
    PROVE  IInv'
  <1>1. /\ ~Taken(kind, name) /\ FreshIds(kind) # {} /\ rows' = Inserted(kind, name)
        /\ UNCHANGED <<spools, reqs>>
    BY DEF Add
  <1> QED BY <1>1, Insertion, ReferencesLead, RequestsGoOn DEF IInv

LEMMA RenameStep ==
    ASSUME IInv, NEW kind \in Kinds, NEW id \in Ids, NEW name \in NamesOf[kind],
           Rename(kind, id, name)
    PROVE  IInv'
  <1>1. reqs' = Disturbed /\ spools' = spools
    BY DEF Rename
  <1>2. /\ Tables' /\ rows'["manufacturer"] = rows["manufacturer"]
        /\ \A k \in Kinds : DOMAIN rows'[k] = DOMAIN rows[k]
    BY Renaming
  <1>3. References'
    BY <1>1, <1>2, ReferencesLead
  <1>4. \A r \in Requests : /\ reqs'[r] = Disturbed[r]
                            /\ NamesWell(reqs[r], rows'["manufacturer"])
    BY <1>1, <1>2 DEF IInv, InFlight
  <1>5. reqs' = [r \in Requests |-> reqs'[r]]
    BY <1>1 DEF Disturbed
  <1>6. InFlight'
    BY <1>4, <1>5, DisturbedIsWell DEF InFlight
  <1> QED BY <1>2, <1>3, <1>6 DEF IInv

LEMMA SubmitStep ==
    ASSUME IInv, NEW r \in Requests, NEW s \in Spools \cup {NoSpool}, NEW row \in Forms,
           NEW typed \in ManufacturerNames \cup {NoName}, Submit(r, s, row, typed)
    PROVE  IInv'
  <1> DEFINE q == [pc |-> IF typed = NoName THEN "write" ELSE "typed",
                   spool |-> s, row |-> row, typed |-> typed]
  <1>1. reqs' = [reqs EXCEPT ![r] = q] /\ UNCHANGED <<rows, spools>>
    BY DEF Submit
  <1>2. row \in SpoolRows
    <2>1. \A k \in Kinds : DOMAIN rows[k] \subseteq Ids
      BY DEF IInv, Tables, Table
    <2> QED BY <2>1 DEF Forms, SpoolRows, Kinds
  <1>3. q \in Writers /\ q.typed = typed /\ (q.pc = "write" <=> typed = NoName)
    BY <1>2 DEF Writers
  <1> HIDE DEF q
  <1>4. Request(q, Present) /\ NamesWell(q, rows["manufacturer"])
    BY <1>3 DEF Request, Writing, NamesWell
  <1> QED BY <1>1, <1>4, OneRequestAlone

(* Either the name is taken, and its row looked for, or the request goes on*)
(* with the row it has added.                                              *)
LEMMA ResolveAddStep == ASSUME IInv, NEW r \in Requests, ResolveAdd(r) PROVE IInv'
  <1> DEFINE name == reqs[r].typed
  <1>1. reqs[r].pc = "typed"
    BY DEF ResolveAdd
  <1>2. reqs[r] \in Writers /\ name # NoName /\ name \in ManufacturerNames
    BY <1>1, RequestKinds DEF IInv, InFlight, Writing, Writers
  <1>3. CASE Taken("manufacturer", name)
    <2> DEFINE q == [reqs[r] EXCEPT !.pc = "list"]
    <2>1. reqs' = [reqs EXCEPT ![r] = q] /\ UNCHANGED <<rows, spools>>
      BY <1>3 DEF ResolveAdd
    <2>2. q \in Writers /\ q.typed = name /\ q.pc = "list"
      BY <1>2 DEF Writers
    <2> HIDE DEF q
    <2>3. Request(q, Present) /\ NamesWell(q, rows["manufacturer"])
      BY <1>2, <2>2 DEF Request, Writing, NamesWell
    <2> QED BY <2>1, <2>3, OneRequestAlone
  <1>4. CASE ~Taken("manufacturer", name)
    <2> DEFINE n == NewId("manufacturer")
               q == [[reqs[r] EXCEPT !.pc = "write"] EXCEPT !.row.manufacturer = n]
    <2>1. /\ FreshIds("manufacturer") # {} /\ rows' = Inserted("manufacturer", name)
          /\ spools' = spools
      BY <1>4 DEF ResolveAdd
    <2>2. reqs' = [reqs EXCEPT ![r].pc = "write", ![r].row.manufacturer = n]
      BY <1>4 DEF ResolveAdd
    <2>3. reqs' = [reqs EXCEPT ![r] = q]
      BY <2>2 DEF IInv, InFlight
    <2>4. "manufacturer" \in Kinds /\ name \in NamesOf["manufacturer"]
      BY <1>2 DEF Kinds, NamesOf
    <2>5. /\ Tables' /\ \A k \in Kinds : DOMAIN rows[k] \subseteq DOMAIN rows'[k]
          /\ Present \subseteq Present' /\ n \in Ids /\ rows'["manufacturer"][n] = name
          /\ \A o \in Requests : NamesWell(reqs[o], rows'["manufacturer"])
      BY <1>4, <2>1, <2>4, Insertion
    <2>6. References'
      BY <2>1, <2>5, ReferencesLead
    <2> HIDE DEF n
    <2>7. reqs[r].row \in SpoolRows
      BY <1>2 DEF Writers
    <2>8. /\ [reqs[r].row EXCEPT !.manufacturer = n] \in SpoolRows
          /\ [reqs[r].row EXCEPT !.manufacturer = n].manufacturer = n
      BY <2>5, <2>7 DEF SpoolRows
    <2>9. /\ q \in Writers /\ q.typed = name /\ q.pc = "write"
          /\ q.row = [reqs[r].row EXCEPT !.manufacturer = n]
      BY <1>2, <2>8 DEF Writers
    <2> HIDE DEF q
    <2>10. Request(q, Present') /\ NamesWell(q, rows'["manufacturer"])
      BY <2>5, <2>8, <2>9 DEF Request, Writing, NamesWell
    <2>11. InFlight'
      BY <2>3, <2>5, <2>10, OneRequest
    <2> QED BY <2>5, <2>6, <2>11 DEF IInv
  <1> QED BY <1>3, <1>4

LEMMA ResolveListStep == ASSUME IInv, NEW r \in Requests, ResolveList(r) PROVE IInv'
  <1> DEFINE found == FoundByName(reqs[r].typed)
  <1>1. reqs[r].pc = "list" /\ UNCHANGED <<rows, spools>>
    BY DEF ResolveList
  <1>2. reqs[r] \in Writers
    BY <1>1, RequestKinds DEF IInv, InFlight, Writing
  <1>3. CASE found = {}
    <2>1. reqs' = [reqs EXCEPT ![r] = Idle]
      BY <1>3 DEF ResolveList
    <2> QED BY <1>1, <2>1, IdleIsWell, OneRequestAlone
  <1>4. CASE found # {}
    <2> DEFINE id == CHOOSE x \in found : TRUE
               q == [reqs[r] EXCEPT !.pc = "write", !.row.manufacturer = id]
    <2>1. reqs' = [reqs EXCEPT ![r] = q]
      BY <1>4 DEF ResolveList
    <2>2. id \in DOMAIN rows["manufacturer"] /\ rows["manufacturer"][id] = reqs[r].typed
      BY <1>4 DEF FoundByName, Named
    <2>3. id \in Ids
      BY <2>2 DEF IInv, Tables, Table, Kinds
    <2> HIDE DEF id
    <2>4. reqs[r].row \in SpoolRows
      BY <1>2 DEF Writers
    <2>5. /\ [reqs[r].row EXCEPT !.manufacturer = id] \in SpoolRows
          /\ [reqs[r].row EXCEPT !.manufacturer = id].manufacturer = id
      BY <2>3, <2>4 DEF SpoolRows
    <2>6. /\ q \in Writers /\ q.typed = reqs[r].typed /\ q.pc = "write"
          /\ q.row = [reqs[r].row EXCEPT !.manufacturer = id]
      BY <1>2, <2>5 DEF Writers
    <2> HIDE DEF q
    <2>7. Request(q, Present) /\ NamesWell(q, rows["manufacturer"])
      BY <2>2, <2>5, <2>6 DEF Request, Writing, NamesWell
    <2> QED BY <1>1, <2>1, <2>7, OneRequestAlone
  <1> QED BY <1>3, <1>4

LEMMA StoredRows == IInv => \A s \in Stored : spools[s] \in SpoolRows
  BY DEF IInv, References, Stored

LEMMA ReassignStep ==
    ASSUME IInv, NEW r \in Requests, NEW s \in Spools, NEW location \in Ids \cup {0},
           Reassign(r, s, location)
    PROVE  IInv'
  <1> DEFINE row == [spools[s] EXCEPT !.location = location]
             q == [pc |-> "write", spool |-> s, typed |-> NoName, row |-> row]
  <1>1. reqs' = [reqs EXCEPT ![r] = q] /\ UNCHANGED <<rows, spools>> /\ s \in Stored
    BY DEF Reassign
  <1>2. row \in SpoolRows
    BY <1>1, StoredRows DEF SpoolRows
  <1> HIDE DEF row
  <1>3. q \in Writers /\ q.typed = NoName /\ q.pc = "write"
    BY <1>2 DEF Writers
  <1> HIDE DEF q
  <1>4. Request(q, Present) /\ NamesWell(q, rows["manufacturer"])
    BY <1>3 DEF Request, Writing, NamesWell
  <1> QED BY <1>1, <1>4, OneRequestAlone

LEMMA WriteStep == ASSUME IInv, NEW r \in Requests, Write(r) PROVE IInv'
  <1> DEFINE row == reqs[r].row
  <1>1. reqs[r].pc = "write" /\ rows' = rows
    BY DEF Write
  <1>2. reqs[r] \in Writers /\ row \in SpoolRows
    BY <1>1, RequestKinds DEF IInv, InFlight, Writing, Writers
  <1>3. CASE ~Fits(row)
    <2>1. reqs' = [reqs EXCEPT ![r] = Idle] /\ UNCHANGED <<rows, spools>>
      BY <1>1, <1>3 DEF Write
    <2> QED BY <2>1, IdleIsWell, OneRequestAlone
  <1>4. CASE Fits(row)
    <2>1. PICK s \in IF reqs[r].spool = NoSpool THEN Spools \ Stored ELSE {reqs[r].spool} :
            /\ spools' = [spools EXCEPT ![s] = row]
            /\ reqs' = [Moved(s, row) EXCEPT ![r] = Idle]
      BY <1>4 DEF Write
    <2>2. s \in Spools
      BY <1>2 DEF Writers
    <2>3. References'
      BY <1>1, <1>2, <1>4, <2>1, <2>2 DEF IInv, References, Fits
    <2>4. Moved(s, row) = [o \in Requests |-> Moved(s, row)[o]]
      BY DEF Moved
    <2>5. /\ reqs' = [o \in Requests |-> reqs'[o]] /\ reqs'[r] = Idle
          /\ \A o \in Requests \ {r} : reqs'[o] = Moved(s, row)[o]
      BY <2>1, <2>4
    <2>6. Present' = Present
      BY <1>1 DEF Present
    <2>7. InFlight'
      BY <1>1, <2>5, <2>6, MovedIsWell, IdleIsWell DEF InFlight
    <2> QED BY <1>1, <2>3, <2>7 DEF IInv, Tables
  <1> QED BY <1>3, <1>4

LEMMA DeleteStep == ASSUME IInv, NEW r \in Requests, Delete(r) PROVE IInv'
  <1> DEFINE kind == reqs[r].kind
             id == reqs[r].id
  <1>1. /\ reqs[r].pc = "delete" /\ spools' = spools /\ rows' = Removed(kind, id)
        /\ reqs' = [(IF rows' = rows THEN reqs ELSE Deprived(kind, id)) EXCEPT ![r] = Idle]
    BY DEF Delete
  <1>2. kind \in Kinds
    BY <1>1, RequestKinds DEF IInv, InFlight, Deleters
  <1>3. /\ Tables'
        /\ \A s \in Stored, k \in Kinds :
              spools[s][k] \in DOMAIN rows[k] => spools[s][k] \in DOMAIN rows'[k]
        /\ \A o \in Requests : NamesWell(reqs[o], rows'["manufacturer"])
    BY <1>1, <1>2, Removal
  <1>4. References'
    BY <1>1, <1>3, ReferencesLead
  <1>5. CASE rows' = rows
    <2>1. reqs' = [reqs EXCEPT ![r] = Idle] /\ UNCHANGED <<rows, spools>>
      BY <1>1, <1>5
    <2> QED BY <2>1, IdleIsWell, OneRequestAlone
  <1>6. CASE rows' # rows
    <2>1. reqs' = [Deprived(kind, id) EXCEPT ![r] = Idle]
      BY <1>1, <1>6
    <2>2. Deprived(kind, id) = [o \in Requests |-> Deprived(kind, id)[o]]
      BY DEF Deprived
    <2>3. /\ reqs' = [o \in Requests |-> reqs'[o]] /\ reqs'[r] = Idle
          /\ \A o \in Requests \ {r} : reqs'[o] = Deprived(kind, id)[o]
      BY <2>1, <2>2
    <2>4. InFlight'
      BY <1>3, <2>3, DeprivedIsWell, IdleIsWell DEF InFlight
    <2> QED BY <1>3, <1>4, <2>4 DEF IInv
  <1> QED BY <1>5, <1>6

LEMMA CountsStep ==
    ASSUME IInv, NEW r \in Requests, NEW kind \in Kinds, NEW id \in Ids,
           BeginDelete(r, kind, id) \/ CountRow(r, id)
    PROVE  IInv'
  <1>1. CASE BeginDelete(r, kind, id)
    <2> DEFINE q == [pc |-> "delete", kind |-> kind, id |-> id]
    <2>1. reqs' = [reqs EXCEPT ![r] = q] /\ UNCHANGED <<rows, spools>>
      BY <1>1 DEF BeginDelete
    <2>2. q \in Deleters /\ q.pc # "write"
      BY DEF Deleters
    <2> HIDE DEF q
    <2> QED BY <2>1, <2>2, OthersNameNone, OneRequestAlone DEF Request
  <1>2. CASE CountRow(r, id)
    <2> DEFINE v == reqs[r].todo \ {id}
               w == reqs[r].sum + CountSpools(reqs[r].kind, id)
               q == [reqs[r] EXCEPT !.todo = v, !.sum = w]
    <2>1. /\ reqs[r].pc = "counts" /\ UNCHANGED <<rows, spools>>
          /\ reqs' = [reqs EXCEPT ![r].todo = @ \ {id},
                                  ![r].sum = @ + CountSpools(reqs[r].kind, id)]
      BY <1>2 DEF CountRow
    <2>2. Counting(reqs[r])
      BY <2>1, RequestKinds DEF IInv, InFlight
    <2>3. reqs' = [reqs EXCEPT ![r] = q]
      BY <2>1, <2>2 DEF IInv, InFlight, Counting
    <2> HIDE DEF v, w
    <2>4. Counting(q) /\ q.pc # "write"
      BY <2>2 DEF Counting
    <2> HIDE DEF q
    <2> QED BY <2>1, <2>3, <2>4, OthersNameNone, OneRequestAlone DEF Request
  <1> QED BY <1>1, <1>2

LEMMA CountsBegin ==
    ASSUME IInv, NEW r \in Requests, NEW kind \in Kinds, BeginCounts(r, kind)
    PROVE  IInv'
  <1> DEFINE q == [pc |-> "counts", kind |-> kind, sum |-> 0,
                   todo |-> DOMAIN rows[kind], overlaps |-> 0]
  <1>1. reqs' = [reqs EXCEPT ![r] = q] /\ UNCHANGED <<rows, spools>>
    BY DEF BeginCounts
  <1>2. Counting(q) /\ q.pc # "write"
    BY DEF Counting
  <1> HIDE DEF q
  <1> QED BY <1>1, <1>2, OthersNameNone, OneRequestAlone DEF Request

LEMMA EndStep ==
    ASSUME IInv, NEW r \in Requests, ShowCounts(r) \/ EndSeed(r) \/ Abort(r)
    PROVE  IInv'
  <1>1. reqs' = [reqs EXCEPT ![r] = Idle] /\ UNCHANGED <<rows, spools>>
    BY DEF ShowCounts, EndSeed, Abort
  <1> QED BY <1>1, IdleIsWell, OneRequestAlone

-------------------------------------------------------------------------------
(* Seeding.                                                                *)

LEMMA AtNext == \A l \in Nat : \A t \in 1 .. l : l - t + 1 \in 1 .. l
  OBVIOUS

(* The name a seeding is at is one of its list.                            *)
LEMMA HeadIs ==
    ASSUME NEW q \in Seeders, Suffix(q)
    PROVE  q.kind \in Kinds /\ Head(q.todo) \in NamesOf[q.kind] /\ Head(q.todo) \in AllNames
  <1> DEFINE list == Builtin[q.kind]
             at == Len(list) - Len(q.todo) + 1
  <1>1. q.kind \in Seeded /\ q.todo \in Seq(AllNames)
    BY DEF Seeders
  <1>2. /\ q.kind \in Kinds /\ Len(list) \in Nat \ {0}
        /\ \A i \in 1 .. Len(list) : list[i] \in NamesOf[q.kind]
    BY <1>1, BuiltinLists
  <1>3. Len(q.todo) \in 1 .. Len(list) /\ \A j \in 1 .. Len(q.todo) : q.todo[j] = list[Len(list) - Len(q.todo) + j]
    BY DEF Suffix
  <1>4. Head(q.todo) = q.todo[1] /\ 1 \in 1 .. Len(q.todo) /\ at \in 1 .. Len(list)
    <2>1. Head(q.todo) = q.todo[1] /\ 1 \in 1 .. Len(q.todo)
      BY <1>1, <1>3
    <2> QED BY <1>2, <1>3, <2>1, AtNext
  <1>5. Head(q.todo) = list[at]
    BY <1>3, <1>4
  <1>6. Head(q.todo) \in NamesOf[q.kind]
    BY <1>2, <1>4, <1>5
  <1>7. q.todo[1] \in AllNames
    BY <1>1, <1>4
  <1> QED BY <1>2, <1>4, <1>6, <1>7

LEMMA NamedIsPresent ==
    ASSUME NEW kind \in Kinds, NEW name \in AllNames
    PROVE  Named(kind, name) # {} <=> <<kind, name>> \in Present
  BY DEF Named, Present

LEMMA BeginSeedStep == ASSUME IInv, NEW r \in Requests, BeginSeed(r) PROVE IInv'
  <1> DEFINE q == [pc |-> "exists", kind |-> "material", todo |-> Builtin["material"],
                   disturbed |-> FALSE]
  <1>1. reqs' = [reqs EXCEPT ![r] = q] /\ UNCHANGED <<rows, spools>>
    BY DEF BeginSeed
  <1>2. "material" \in Seeded
    BY DEF Seeded
  <1>3. Builtin["material"] \in Seq(AllNames) /\ Len(Builtin["material"]) \in Nat \ {0}
    BY <1>2, BuiltinLists
  <1>4. /\ q \in Seeders /\ q.pc = "exists" /\ q.kind = "material"
        /\ q.todo = Builtin["material"]
    BY <1>2, <1>3 DEF Seeders
  <1> HIDE DEF q
  <1>5. Suffix(q)
    BY <1>3, <1>4 DEF Suffix
  <1>6. \A i \in 1 .. Len(Builtin["material"]) - Len(q.todo) : FALSE
    BY <1>3, <1>4
  <1>7. SeedsWell(q, Present)
    BY <1>4, <1>5, <1>6 DEF SeedsWell
  <1> QED BY <1>1, <1>4, <1>7, OthersNameNone, OneRequestAlone DEF Request

LEMMA SeedCheckStep == ASSUME IInv, NEW r \in Requests, SeedCheck(r) PROVE IInv'
  <1> DEFINE name == Head(reqs[r].todo)
  <1>1. reqs[r].pc = "exists" /\ UNCHANGED <<rows, spools>>
    BY DEF SeedCheck
  <1>2. reqs[r] \in Seeders /\ SeedsWell(reqs[r], Present)
    BY <1>1, RequestKinds DEF IInv, InFlight
  <1>3. reqs[r].kind \in Kinds /\ name \in AllNames
    BY <1>1, <1>2, HeadIs DEF SeedsWell
  <1>4. CASE Named(reqs[r].kind, name) # {}
    <2>1. reqs' = [reqs EXCEPT ![r] = NextName(reqs[r])]
      BY <1>4 DEF SeedCheck
    <2>2. <<reqs[r].kind, name>> \in Present
      BY <1>3, <1>4, NamedIsPresent
    <2>3. Request(NextName(reqs[r]), Present) /\ NextName(reqs[r]).pc # "write"
      BY <1>1, <1>2, <2>2, NextNameIsWell
    <2> QED BY <1>1, <2>1, <2>3, OthersNameNone, OneRequestAlone
  <1>5. CASE Named(reqs[r].kind, name) = {}
    <2> DEFINE q == [reqs[r] EXCEPT !.pc = "insert"]
    <2>1. reqs' = [reqs EXCEPT ![r] = q]
      BY <1>5 DEF SeedCheck
    <2>2. /\ q \in Seeders /\ q.pc = "insert" /\ q.kind = reqs[r].kind
          /\ q.todo = reqs[r].todo /\ q.disturbed = reqs[r].disturbed
      BY <1>2 DEF Seeders
    <2> HIDE DEF q
    <2>3. SeedsWell(q, Present)
      BY <1>1, <1>2, <2>2 DEF SeedsWell, Suffix
    <2> QED BY <1>1, <2>1, <2>2, <2>3, OthersNameNone, OneRequestAlone DEF Request
  <1> QED BY <1>4, <1>5

LEMMA SeedInsertStep == ASSUME IInv, NEW r \in Requests, SeedInsert(r) PROVE IInv'
  <1> DEFINE name == Head(reqs[r].todo)
             kind == reqs[r].kind
  <1>1. reqs[r].pc = "insert" /\ spools' = spools
    BY DEF SeedInsert
  <1>2. reqs[r] \in Seeders /\ SeedsWell(reqs[r], Present)
    BY <1>1, RequestKinds DEF IInv, InFlight
  <1>3. kind \in Kinds /\ name \in NamesOf[kind] /\ name \in AllNames
    BY <1>1, <1>2, HeadIs DEF SeedsWell
  <1>4. reqs' = [reqs EXCEPT ![r] = NextName(reqs[r])]
    BY DEF SeedInsert
  <1>5. CASE Taken(kind, name)
    <2>1. rows' = rows
      BY <1>5 DEF SeedInsert
    <2>2. <<kind, name>> \in Present
      BY <1>3, <1>5, NamedIsPresent DEF Taken
    <2>3. Request(NextName(reqs[r]), Present) /\ NextName(reqs[r]).pc # "write"
      BY <1>1, <1>2, <2>2, NextNameIsWell
    <2> QED BY <1>1, <1>4, <2>1, <2>3, OthersNameNone, OneRequestAlone
  <1>6. CASE ~Taken(kind, name)
    <2>1. FreshIds(kind) # {} /\ rows' = Inserted(kind, name)
      BY <1>6 DEF SeedInsert
    <2>2. /\ Tables' /\ \A k \in Kinds : DOMAIN rows[k] \subseteq DOMAIN rows'[k]
          /\ Present \subseteq Present' /\ <<kind, name>> \in Present'
          /\ \A o \in Requests : NamesWell(reqs[o], rows'["manufacturer"])
      BY <1>3, <1>6, <2>1, Insertion
    <2>3. References'
      BY <1>1, <2>2, ReferencesLead
    <2>4. SeedsWell(reqs[r], Present')
      BY <1>2, <2>2 DEF SeedsWell, Complete
    <2>5. Request(NextName(reqs[r]), Present') /\ NextName(reqs[r]).pc # "write"
      BY <1>1, <1>2, <2>2, <2>4, NextNameIsWell
    <2>6. InFlight'
      BY <1>4, <2>2, <2>5, OthersNameNone, OneRequest
    <2> QED BY <2>2, <2>3, <2>6 DEF IInv
  <1> QED BY <1>5, <1>6

-------------------------------------------------------------------------------
(* The invariant.                                                          *)

LEMMA InitIInv == Init => IInv
  <1> SUFFICES ASSUME Init PROVE IInv
    OBVIOUS
  <1>1. \A kind \in Kinds : Table(kind, <<>>)
    BY DEF Table, IsFunction
  <1>2. Tables
    BY <1>1 DEF Init, Tables
  <1>3. References
    BY DEF Init, References
  <1>4. InFlight
    BY IdleIsWell DEF Init, InFlight
  <1> QED BY <1>2, <1>3, <1>4 DEF IInv

LEMMA NextIInv == IInv /\ [Next]_vars => IInv'
  <1> SUFFICES ASSUME IInv, [Next]_vars PROVE IInv'
    OBVIOUS
  <1>1. ASSUME NEW kind \in Kinds, NEW name \in NamesOf[kind],
               Add(kind, name) \/ \E id \in Ids : Rename(kind, id, name)
        PROVE  IInv'
    BY <1>1, AddStep, RenameStep
  <1>2. ASSUME NEW r \in Requests, NEW s \in Spools \cup {NoSpool}, NEW row \in Forms,
               NEW typed \in ManufacturerNames \cup {NoName}, Submit(r, s, row, typed)
        PROVE  IInv'
    BY <1>2, SubmitStep
  <1>3. ASSUME NEW r \in Requests, NEW s \in Spools, NEW location \in Ids \cup {0},
               Reassign(r, s, location)
        PROVE  IInv'
    BY <1>3, ReassignStep
  <1>4. ASSUME NEW r \in Requests,
               ResolveAdd(r) \/ ResolveList(r) \/ Write(r) \/ Delete(r)
                  \/ BeginSeed(r) \/ SeedCheck(r) \/ SeedInsert(r)
        PROVE  IInv'
    BY <1>4, ResolveAddStep, ResolveListStep, WriteStep, DeleteStep, BeginSeedStep,
       SeedCheckStep, SeedInsertStep
  <1>5. ASSUME NEW r \in Requests, NEW kind \in Kinds, NEW id \in Ids,
               BeginDelete(r, kind, id)
        PROVE  IInv'
    BY <1>5, CountsStep
  <1>6. ASSUME NEW r \in Requests,
               (\E kind \in Kinds : BeginCounts(r, kind))
                  \/ ShowCounts(r) \/ EndSeed(r) \/ Abort(r)
        PROVE  IInv'
    <2>1. CASE \E kind \in Kinds : BeginCounts(r, kind)
      BY <2>1, CountsBegin
    <2>2. CASE ShowCounts(r) \/ EndSeed(r) \/ Abort(r)
      BY <2>2, EndStep
    <2> QED BY <1>6, <2>1, <2>2
  <1>7. CASE UNCHANGED vars
    <2>1. Present' = Present
      BY <1>7 DEF vars, Present
    <2> QED BY <1>7, <2>1 DEF vars, IInv, Tables, References, Stored, Fits, InFlight
  <1>8. ASSUME NEW r \in Requests, NEW id \in Ids, CountRow(r, id)
        PROVE  IInv'
    BY <1>8, CountsStep DEF Kinds
  <1> QED BY <1>1, <1>2, <1>3, <1>4, <1>5, <1>6, <1>7, <1>8 DEF Next

LEMMA IInvAlways == Spec => []IInv
  BY InitIInv, NextIInv, PTL DEF Spec

-------------------------------------------------------------------------------

(* Whatever spool forms, deletions, renames and seedings overlap or are cut*)
(* off: the tables hold rows, references lead to rows, and no two materials*)
(* or manufacturers share a name.                                          *)
THEOREM TypesAndKeys == Spec => []RefTypeOK
  <1>1. IInv => RefTypeOK
    <2> SUFFICES ASSUME IInv PROVE RefTypeOK
      OBVIOUS
    <2>1. \A kind \in Kinds : Table(kind, rows[kind])
      BY DEF IInv, Tables
    <2>2. \A s \in Stored : Fits(spools[s])
      BY DEF IInv, References, Stored
    <2>3. ASSUME NEW kind \in Kinds \ {"location"}, NEW name \in NamesOf[kind]
          PROVE  Cardinality(Named(kind, name)) <= 1
      <3>1. CASE Named(kind, name) = {}
        BY <3>1, FS_EmptySet
      <3>2. CASE Named(kind, name) # {}
        <4>1. PICK id \in Named(kind, name) : TRUE
          BY <3>2
        <4>2. Named(kind, name) = {id}
          BY <2>1, <4>1 DEF Named, Table
        <4> QED BY <4>2, FS_Singleton
      <3> QED BY <3>1, <3>2
    <2> QED BY <2>1, <2>2, <2>3 DEF RefTypeOK, Table
  <1> QED BY <1>1, IInvAlways, PTL

(* A spool form with a typed manufacturer ends on the row of that name,    *)
(* whoever added or deleted it between its three statements.               *)
THEOREM TypedNamesHold == Spec => []TypedNameAttributed
  <1>1. IInv => TypedNameAttributed
    BY DEF IInv, InFlight, NamesWell, TypedNameAttributed
  <1> QED BY <1>1, IInvAlways, PTL

(* A process that has seeded has every builtin name in the tables unless a *)
(* rename or a deletion disturbed it, however many seed at once or died.   *)
THEOREM SeedingsComplete == Spec => []SeededHasBuiltins
  <1>1. IInv => SeededHasBuiltins
    <2> SUFFICES ASSUME IInv, NEW r \in Requests, reqs[r].pc = "seeded", ~reqs[r].disturbed,
                        NEW kind \in DOMAIN Builtin, NEW i \in DOMAIN Builtin[kind]
                 PROVE  Named(kind, Builtin[kind][i]) # {}
      BY DEF SeededHasBuiltins
    <2>1. kind \in Seeded
      BY DEF Builtin, Seeded
    <2>2. SeedsWell(reqs[r], Present)
      BY RequestKinds DEF IInv, InFlight
    <2>3. Complete(kind, Present)
      BY <2>1, <2>2 DEF SeedsWell, Seeded
    <2>4. i \in 1 .. Len(Builtin[kind])
      <3>1. Builtin[kind] \in Seq(AllNames)
        BY <2>1, BuiltinLists
      <3> QED BY <3>1
    <2>5. <<kind, Builtin[kind][i]>> \in Present
      BY <2>3, <2>4 DEF Complete
    <2> QED BY <2>5 DEF Present, Named
  <1> QED BY <1>1, IInvAlways, PTL
-------------------------------------------------------------------------------
(* What the counts of a settings page add up to, over IInv: the sum differs*)
(* from the number of assigned spools whose row has been counted, or is    *)
(* gone, by at most the writes overlapped.  The bound on the overlaps never*)
(* tells: neither number exceeds it.                                       *)

Counters == [pc : {"counts"}, kind : Kinds, sum : Nat, todo : SUBSET Ids, overlaps : Nat]

Counted(q, at) == {s \in Spools : at[s] # NoSpool /\ at[s][q.kind] \notin q.todo \cup {0}}

Off(sum, n, overlaps) == sum - n \in -overlaps..overlaps

SumWell(q, at) ==
    q.pc = "counts" =>
        /\ q \in Counters
        /\ q.sum <= Cardinality(Spools) * Cardinality(Ids \ q.todo)
        /\ Off(q.sum, Cardinality(Counted(q, at)), q.overlaps)

Sums == \A r \in Requests : SumWell(reqs[r], spools)

LEMMA TimesOneMore == \A m, n \in Nat : m * (n + 1) = m * n + m /\ m * n \in Nat
  OBVIOUS

LEMMA TimesMonotonic == \A m, n, l \in Nat : n <= l => m * n <= m * l
  <1> SUFFICES ASSUME NEW m \in Nat, NEW n \in Nat, NEW l \in Nat, n <= l
               PROVE  m * n <= m * l
    OBVIOUS
  <1>1. PICK d \in Nat : l = n + d
    <2>1. l - n \in Nat /\ l = n + (l - n)
      OBVIOUS
    <2> QED BY <2>1
  <1>2. m * (n + d) = m * n + m * d /\ m * d \in Nat /\ m * n \in Nat
    OBVIOUS
  <1> QED BY <1>1, <1>2

LEMMA MinOfTwo == \A a, b \in Nat : Min({a, b}) = IF a <= b THEN a ELSE b
  <1> SUFFICES ASSUME NEW a \in Nat, NEW b \in Nat
               PROVE  Min({a, b}) = IF a <= b THEN a ELSE b
    OBVIOUS
  <1>1. Min({a, b}) = CHOOSE x \in {a, b} : \A y \in {a, b} : x <= y
    BY DEF Min
  <1>2. CASE a <= b
    BY <1>1, <1>2
  <1>3. CASE ~(a <= b)
    BY <1>1, <1>3
  <1> QED BY <1>2, <1>3

(* Sets that differ in one element have sizes that differ by at most one.  *)
LEMMA OneApart ==
    ASSUME NEW A, NEW B, NEW x, IsFiniteSet(A), IsFiniteSet(B), A \ {x} = B \ {x}
    PROVE  /\ Cardinality(A) \in Nat /\ Cardinality(B) \in Nat
           /\ Cardinality(A) - Cardinality(B) \in -1 .. 1
  <1>1. /\ Cardinality(A) \in Nat /\ Cardinality(B) \in Nat
        /\ Cardinality(A \ {x}) = IF x \in A THEN Cardinality(A) - 1 ELSE Cardinality(A)
        /\ Cardinality(B \ {x}) = IF x \in B THEN Cardinality(B) - 1 ELSE Cardinality(B)
    BY FS_RemoveElement, FS_CardinalityType
  <1>2. Cardinality(A \ {x}) = Cardinality(B \ {x})
    OBVIOUS
  <1> QED BY <1>1, <1>2

LEMMA SpoolSets ==
    ASSUME NEW T, T \subseteq Spools
    PROVE  IsFiniteSet(T) /\ Cardinality(T) \in Nat /\ Cardinality(Spools) \in Nat
           /\ Cardinality(T) <= Cardinality(Spools)
  BY ReferentialsAssumption, FS_Subset, FS_CardinalityType

LEMMA IdSets ==
    ASSUME NEW T, T \subseteq Ids
    PROVE  /\ IsFiniteSet(T) /\ Cardinality(T) \in Nat /\ Cardinality(Ids) \in Nat
           /\ Cardinality(T) <= Cardinality(Ids)
  BY ReferentialsAssumption, FS_Subset, FS_CardinalityType

(* Requests that count nothing, and counts that stay, over spools that stay*)
LEMMA SumsGoOn ==
    ASSUME Sums, spools' = spools,
           \A o \in Requests : reqs'[o] = reqs[o] \/ reqs'[o].pc # "counts"
    PROVE  Sums'
  <1>1. ASSUME NEW o \in Requests, reqs'[o] = reqs[o]
        PROVE  SumWell(reqs'[o], spools')
    BY <1>1 DEF Sums
  <1>2. ASSUME NEW o \in Requests, reqs'[o].pc # "counts"
        PROVE  SumWell(reqs'[o], spools')
    BY <1>2 DEF SumWell
  <1> QED BY <1>1, <1>2 DEF Sums

LEMMA OneMoves ==
    ASSUME IInv, NEW r \in Requests, NEW q, reqs' = [reqs EXCEPT ![r] = q]
    PROVE  reqs'[r] = q /\ \A o \in Requests \ {r} : reqs'[o] = reqs[o]
  BY DEF IInv, InFlight

LEMMA DisturbedCounts ==
    ASSUME IInv, NEW o \in Requests
    PROVE  Disturbed[o] = reqs[o] \/ Disturbed[o].pc # "counts"
  <1>1. CASE reqs[o].pc \in {"exists", "insert", "seeded"}
    <2>1. reqs[o] \in Seeders
      BY <1>1, RequestKinds DEF IInv, InFlight
    <2> QED BY <1>1, <2>1 DEF Disturbed, Seeders
  <1> QED BY <1>1 DEF Disturbed

-------------------------------------------------------------------------------

LEMMA SumsOfForms ==
    ASSUME IInv, Sums, NEW r \in Requests, UNCHANGED spools,
           NEW q, q.pc # "counts", reqs' = [reqs EXCEPT ![r] = q]
    PROVE  Sums'
  BY OneMoves, SumsGoOn

LEMMA SumsOfRename ==
    ASSUME IInv, Sums, UNCHANGED spools, reqs' = Disturbed
    PROVE  Sums'
  BY DisturbedCounts, SumsGoOn

(* At first no assigned spool is counted: every reference leads to a row.  *)
LEMMA SumsOfBegin ==
    ASSUME IInv, Sums, NEW r \in Requests, NEW kind \in Kinds, BeginCounts(r, kind)
    PROVE  Sums'
  <1> DEFINE q == [pc |-> "counts", kind |-> kind, sum |-> 0,
                   todo |-> DOMAIN rows[kind], overlaps |-> 0]
  <1>1. reqs' = [reqs EXCEPT ![r] = q] /\ spools' = spools
    BY DEF BeginCounts
  <1>2. reqs'[r] = q /\ \A o \in Requests \ {r} : reqs'[o] = reqs[o]
    BY <1>1, OneMoves
  <1>3. DOMAIN rows[kind] \in SUBSET Ids
    BY DEF IInv, Tables, Table
  <1>4. q \in Counters
    BY <1>3 DEF Counters
  <1>5. Counted(q, spools) = {}
    BY RowFields DEF Counted, IInv, References, Fits
  <1>6. q.sum = 0 /\ q.overlaps = 0
    OBVIOUS
  <1> HIDE DEF q
  <1>7. Counted(q, spools') = {}
    BY <1>1, <1>5
  <1>8. 0 <= Cardinality(Spools) * Cardinality(Ids \ q.todo)
    <2>1. Cardinality(Spools) \in Nat /\ Cardinality(Ids \ q.todo) \in Nat
      BY SpoolSets, IdSets
    <2> QED BY <2>1, TimesOneMore
  <1>9. SumWell(q, spools')
    <2>1. Off(q.sum, Cardinality(Counted(q, spools')), q.overlaps)
      BY <1>6, <1>7, FS_EmptySet DEF Off
    <2> QED BY <1>4, <1>6, <1>8, <2>1 DEF SumWell
  <1>10. \A o \in Requests \ {r} : SumWell(reqs'[o], spools')
    BY <1>1, <1>2 DEF Sums
  <1> QED BY <1>2, <1>9, <1>10 DEF Sums

(* A row's spools join the counted ones, and none was among them.          *)
LEMMA SumsOfRow ==
    ASSUME IInv, Sums, NEW r \in Requests, NEW id \in Ids, CountRow(r, id)
    PROVE  Sums'
  <1> DEFINE kind == reqs[r].kind
             n == CountSpools(kind, id)
             q == [reqs[r] EXCEPT !.todo = reqs[r].todo \ {id}, !.sum = reqs[r].sum + n]
  <1>1. /\ reqs[r].pc = "counts" /\ id \in reqs[r].todo /\ spools' = spools
        /\ reqs' = [reqs EXCEPT ![r].todo = @ \ {id}, ![r].sum = @ + n]
    BY DEF CountRow
  <1>2. SumWell(reqs[r], spools) /\ reqs[r] \in Counters
    BY <1>1 DEF Sums, SumWell
  <1>3. n \in Nat /\ n <= Cardinality(Spools) /\ Cardinality(Spools) \in Nat
        /\ n = Cardinality(Referring(kind, id)) /\ IsFiniteSet(Referring(kind, id))
    <2>1. Referring(kind, id) \subseteq Spools
      BY DEF Referring, Stored
    <2> QED BY <2>1, SpoolSets DEF CountSpools
  <1>4. /\ reqs'[r] = q /\ \A o \in Requests \ {r} : reqs'[o] = reqs[o]
    <2>1. reqs' = [reqs EXCEPT ![r] = q]
      BY <1>1, <1>2 DEF IInv, InFlight, Counters
    <2> QED BY <2>1, OneMoves
  <1> HIDE DEF n
  <1>5. /\ q \in Counters /\ q.todo = reqs[r].todo \ {id} /\ q.sum = reqs[r].sum + n
        /\ q.kind = kind /\ q.overlaps = reqs[r].overlaps
    <2> DEFINE v == reqs[r].todo \ {id}
               w == reqs[r].sum + n
    <2>1. v \in SUBSET Ids /\ w \in Nat
      BY <1>2, <1>3 DEF Counters
    <2> HIDE DEF v, w
    <2>2. q = [reqs[r] EXCEPT !.todo = v, !.sum = w]
      BY DEF v, w
    <2>3. q \in Counters /\ q.todo = v /\ q.sum = w /\ q.kind = kind
          /\ q.overlaps = reqs[r].overlaps
      BY <1>2, <2>1, <2>2 DEF Counters
    <2> QED BY <2>3 DEF v, w
  <1> HIDE DEF q
  <1>6. Counted(q, spools') = Counted(reqs[r], spools) \cup Referring(kind, id)
    BY <1>1, <1>5, ReferentialsAssumption DEF Counted, Referring, Stored
  <1>7. Counted(reqs[r], spools) \cap Referring(kind, id) = {}
    BY <1>1 DEF Counted, Referring
  <1>8. IsFiniteSet(Counted(reqs[r], spools)) /\ Cardinality(Counted(reqs[r], spools)) \in Nat
    <2>1. Counted(reqs[r], spools) \subseteq Spools
      BY DEF Counted
    <2> QED BY <2>1, SpoolSets
  <1>9. Cardinality(Counted(q, spools')) = Cardinality(Counted(reqs[r], spools)) + n
    <2> DEFINE A == Counted(reqs[r], spools)
               B == Referring(kind, id)
    <2>1. Cardinality(A \cup B) = Cardinality(A) + Cardinality(B) - Cardinality(A \cap B)
      BY <1>3, <1>8, FS_Union
    <2>2. Cardinality(A \cap B) = 0
      BY <1>7, FS_EmptySet
    <2> QED BY <1>3, <1>6, <1>8, <2>1, <2>2
  <1>10. /\ Cardinality(Ids \ q.todo) = Cardinality(Ids \ reqs[r].todo) + 1
         /\ Cardinality(Ids \ reqs[r].todo) \in Nat
    <2>1. Ids \ q.todo = (Ids \ reqs[r].todo) \cup {id} /\ id \notin Ids \ reqs[r].todo
      BY <1>1, <1>5
    <2>2. IsFiniteSet(Ids \ reqs[r].todo) /\ Cardinality(Ids \ reqs[r].todo) \in Nat
      BY IdSets
    <2> QED BY <2>1, <2>2, FS_AddElement
  <1>11. /\ reqs[r].sum \in Nat /\ reqs[r].overlaps \in Nat
         /\ reqs[r].sum <= Cardinality(Spools) * Cardinality(Ids \ reqs[r].todo)
         /\ Off(reqs[r].sum, Cardinality(Counted(reqs[r], spools)), reqs[r].overlaps)
    BY <1>1, <1>2 DEF SumWell, Counters
  <1>12. q.sum <= Cardinality(Spools) * Cardinality(Ids \ q.todo)
    <2> DEFINE m == Cardinality(Spools)
               k == Cardinality(Ids \ reqs[r].todo)
    <2>1. m * (k + 1) = m * k + m /\ m * k \in Nat
      BY <1>3, <1>10, TimesOneMore
    <2> QED BY <1>3, <1>5, <1>10, <1>11, <2>1
  <1>13. Off(q.sum, Cardinality(Counted(q, spools')), q.overlaps)
    BY <1>3, <1>5, <1>8, <1>9, <1>11 DEF Off
  <1>14. SumWell(q, spools')
    BY <1>5, <1>12, <1>13 DEF SumWell
  <1>15. \A o \in Requests \ {r} : SumWell(reqs'[o], spools')
    BY <1>1, <1>4 DEF Sums
  <1> QED BY <1>4, <1>14, <1>15 DEF Sums
(* A row that is gone was nobody's: its spools, none, are counted.         *)
LEMMA SumsOfDelete ==
    ASSUME IInv, Sums, NEW r \in Requests, Delete(r)
    PROVE  Sums'
  <1> DEFINE kind == reqs[r].kind
             id == reqs[r].id
  <1>1. /\ spools' = spools /\ rows' = Removed(kind, id)
        /\ reqs' = [(IF rows' = rows THEN reqs ELSE Deprived(kind, id)) EXCEPT ![r] = Idle]
    BY DEF Delete
  <1>2. Idle.pc # "counts"
    BY DEF Idle
  <1>3. kind \in Kinds
    BY RequestKinds DEF IInv, InFlight, Deleters, Delete
  <1>4. CASE rows' = rows
    BY <1>1, <1>2, <1>4, SumsOfForms
  <1>5. CASE rows' # rows
    <2>1. Referring(kind, id) = {}
      <3>1. ASSUME Referring(kind, id) # {}
            PROVE  Removed(kind, id) = rows
        <4>1. {o \in DOMAIN rows[kind] : o # id \/ Referring(kind, o) # {}} = DOMAIN rows[kind]
          BY <3>1
        <4>2. rows[kind] = [o \in DOMAIN rows[kind] |-> rows[kind][o]]
          BY <1>3 DEF IInv, Tables, Table, IsFunction
        <4> QED BY <4>1, <4>2 DEF IInv, Tables, Removed
      <3> QED BY <1>1, <1>5, <3>1
    <2>2. /\ reqs'[r] = Idle
          /\ \A o \in Requests \ {r} : reqs'[o] = Deprived(kind, id)[o]
      <3>1. Deprived(kind, id) = [o \in Requests |-> Deprived(kind, id)[o]]
        BY DEF Deprived
      <3> QED BY <1>1, <1>5, <3>1
    <2>3. ASSUME NEW o \in Requests \ {r}, reqs[o].pc = "counts", reqs[o].kind = kind
          PROVE  SumWell(reqs'[o], spools')
      <3> DEFINE q == reqs[o]
                 t == q.todo \ {id}
                 p == [q EXCEPT !.todo = t]
      <3>1. reqs'[o] = p
        BY <2>2, <2>3 DEF Deprived
      <3>2. q \in Counters /\ SumWell(q, spools)
        BY <2>3 DEF Sums, SumWell
      <3>3. t \in SUBSET Ids
        BY <3>2 DEF Counters
      <3>4. Counted(p, spools) = Counted(q, spools)
        <4>1. p.todo = t /\ p.kind = q.kind
          BY <3>2 DEF Counters
        <4>2. \A s \in Spools : spools[s] # NoSpool => spools[s][q.kind] # id
          BY <2>1, <2>3 DEF Referring, Stored
        <4> QED BY <4>1, <4>2 DEF Counted
      <3> HIDE DEF t
      <3>5. p \in Counters /\ p.todo = t /\ p.sum = q.sum /\ p.overlaps = q.overlaps
        BY <3>2, <3>3 DEF Counters
      <3> HIDE DEF p
      <3>6. q.sum <= Cardinality(Spools) * Cardinality(Ids \ t)
        <4> DEFINE m == Cardinality(Spools)
                   k == Cardinality(Ids \ q.todo)
                   l == Cardinality(Ids \ t)
        <4>1. m \in Nat /\ k \in Nat /\ l \in Nat
          BY SpoolSets, IdSets
        <4>2. k <= l
          <5>1. Ids \ q.todo \subseteq Ids \ t /\ IsFiniteSet(Ids \ t)
            BY IdSets DEF t
          <5> QED BY <5>1, FS_Subset
        <4>3. m * k <= m * l /\ m * k \in Nat /\ m * l \in Nat
          BY <4>1, <4>2, TimesMonotonic, TimesOneMore
        <4>4. q.sum <= m * k /\ q.sum \in Nat
          BY <2>3, <3>2 DEF SumWell, Counters
        <4> QED BY <4>3, <4>4
      <3> QED BY <1>1, <2>3, <3>1, <3>2, <3>4, <3>5, <3>6 DEF SumWell
    <2>4. ASSUME NEW o \in Requests \ {r}, ~(reqs[o].pc = "counts" /\ reqs[o].kind = kind)
          PROVE  SumWell(reqs'[o], spools')
      <3>1. reqs'[o] = Disturbed[o]
        BY <2>2, <2>4 DEF Deprived
      <3> QED BY <1>1, <3>1, DisturbedCounts DEF Sums, SumWell
    <2>5. SumWell(reqs'[r], spools')
      BY <1>2, <2>2 DEF SumWell
    <2> QED BY <2>3, <2>4, <2>5 DEF Sums
  <1> QED BY <1>4, <1>5

(* A form moves one spool: at most one of the counted comes or goes, and   *)
(* the count notes it unless the spool stays where it is.                  *)
LEMMA SumsOfMoved ==
    ASSUME IInv, Sums, NEW o \in Requests, reqs[o].pc = "counts",
           NEW s \in Spools, NEW row \in SpoolRows, Ids # {},
           spools' = [spools EXCEPT ![s] = row]
    PROVE  SumWell(Moved(s, row)[o], spools')
  <1> DEFINE q == reqs[o]
             A == Counted(q, spools)
             B == Counted(q, spools')
             cap == Cardinality(Spools) * Cardinality(Ids)
             was == IF s \in Stored THEN spools[s][q.kind] ELSE 0
  <1>1. /\ q \in Counters /\ Off(q.sum, Cardinality(A), q.overlaps)
        /\ q.sum <= Cardinality(Spools) * Cardinality(Ids \ q.todo)
    BY DEF Sums, SumWell
  <1>2. spools'[s] = row /\ \A other \in Spools \ {s} : spools'[other] = spools[other]
    BY DEF IInv, References
  <1>3. /\ IsFiniteSet(A) /\ IsFiniteSet(B) /\ A \ {s} = B \ {s}
        /\ Cardinality(A) \in Nat /\ Cardinality(B) \in Nat
        /\ Cardinality(B) <= Cardinality(Spools)
    <2>1. A \subseteq Spools /\ B \subseteq Spools
      BY DEF Counted
    <2>2. A \ {s} = B \ {s}
      BY <1>2 DEF Counted
    <2> QED BY <2>1, <2>2, SpoolSets
  <1>4. Cardinality(A) - Cardinality(B) \in -1 .. 1
    BY <1>3, OneApart
  <1>5. CASE was = row[q.kind]
    <2>1. A = B
      BY <1>2, <1>5, RowIsNoMark DEF Counted, Stored
    <2>2. Moved(s, row)[o] = q
      BY <1>5 DEF Moved
    <2> QED BY <1>1, <2>1, <2>2 DEF SumWell
  <1>6. CASE was # row[q.kind]
    <2> DEFINE v == Min({q.overlaps + 1, cap})
               p == [q EXCEPT !.overlaps = v]
    <2>1. Moved(s, row)[o] = p
      BY <1>6 DEF Moved
    <2>2. /\ Cardinality(Spools) \in Nat /\ Cardinality(Ids \ q.todo) \in Nat
          /\ Cardinality(Ids) \in Nat /\ Cardinality(Ids \ q.todo) <= Cardinality(Ids)
          /\ 1 <= Cardinality(Ids)
      <3>1. Cardinality(Ids) # 0
        BY ReferentialsAssumption, FS_EmptySet
      <3> QED BY <3>1, SpoolSets, IdSets
    <2>3. /\ cap \in Nat /\ Cardinality(Spools) <= cap
          /\ Cardinality(Spools) * Cardinality(Ids \ q.todo) <= cap
          /\ Cardinality(Spools) * Cardinality(Ids \ q.todo) \in Nat
      <3>1. /\ Cardinality(Spools) * Cardinality(Ids \ q.todo) <= cap
            /\ Cardinality(Spools) * 1 <= cap
        BY <2>2, TimesMonotonic
      <3>2. cap \in Nat /\ Cardinality(Spools) * Cardinality(Ids \ q.todo) \in Nat
        BY <2>2, TimesOneMore
      <3>3. Cardinality(Spools) * 1 = Cardinality(Spools)
        BY <2>2
      <3> QED BY <3>1, <3>2, <3>3
    <2>4. q.sum \in Nat /\ q.overlaps \in Nat
      BY <1>1 DEF Counters
    <2> HIDE DEF cap
    <2>5. v = IF q.overlaps + 1 <= cap THEN q.overlaps + 1 ELSE cap
      BY <2>3, <2>4, MinOfTwo
    <2>6. v \in Nat
      BY <2>3, <2>4, <2>5
    <2> HIDE DEF A, B, v
    <2>7. Off(q.sum, Cardinality(B), v)
      BY <1>1, <1>3, <1>4, <2>2, <2>3, <2>4, <2>5 DEF Off
    <2>8. /\ p \in Counters /\ p.todo = q.todo /\ p.sum = q.sum /\ p.overlaps = v
          /\ p.kind = q.kind
      BY <1>1, <2>6 DEF Counters
    <2> HIDE DEF p
    <2>9. Counted(p, spools') = B
      BY <2>8 DEF Counted, B
    <2> QED BY <1>1, <2>1, <2>7, <2>8, <2>9 DEF SumWell
  <1> QED BY <1>5, <1>6

LEMMA SumsOfWrite ==
    ASSUME IInv, Sums, NEW r \in Requests, Write(r)
    PROVE  Sums'
  <1> DEFINE row == reqs[r].row
  <1>1. reqs[r].pc = "write" /\ rows' = rows
    BY DEF Write
  <1>2. reqs[r] \in Writers /\ row \in SpoolRows
    BY <1>1, RequestKinds DEF IInv, InFlight, Writing, Writers
  <1>3. Idle.pc # "counts"
    BY DEF Idle
  <1>4. CASE ~Fits(row)
    <2>1. reqs' = [reqs EXCEPT ![r] = Idle] /\ UNCHANGED spools
      BY <1>4 DEF Write
    <2> QED BY <1>3, <2>1, SumsOfForms
  <1>5. CASE Fits(row)
    <2>1. PICK s \in IF reqs[r].spool = NoSpool THEN Spools \ Stored ELSE {reqs[r].spool} :
            /\ spools' = [spools EXCEPT ![s] = row]
            /\ reqs' = [Moved(s, row) EXCEPT ![r] = Idle]
      BY <1>5 DEF Write
    <2>2. s \in Spools
      BY <1>2 DEF Writers
    <2>3. Ids # {}
      BY <1>5 DEF Fits, Kinds, IInv, Tables, Table
    <2>4. reqs'[r] = Idle /\ \A o \in Requests \ {r} : reqs'[o] = Moved(s, row)[o]
      <3>1. Moved(s, row) = [o \in Requests |-> Moved(s, row)[o]]
        BY DEF Moved
      <3> QED BY <2>1, <3>1
    <2>5. ASSUME NEW o \in Requests \ {r}
          PROVE  SumWell(reqs'[o], spools')
      <3>1. CASE reqs[o].pc = "counts"
        BY <1>2, <2>1, <2>2, <2>3, <2>4, <3>1, SumsOfMoved
      <3>2. CASE reqs[o].pc # "counts"
        BY <2>4, <3>2 DEF Moved, SumWell
      <3> QED BY <3>1, <3>2
    <2> QED BY <1>3, <2>4, <2>5 DEF Sums, SumWell
  <1> QED BY <1>4, <1>5

(* A step of any other request leaves the counts alone.                    *)
LEMMA SumsOfOthers ==
    ASSUME IInv, Sums, NEW r \in Requests,
           \/ \E s \in Spools \cup {NoSpool}, row \in Forms,
                 typed \in ManufacturerNames \cup {NoName} : Submit(r, s, row, typed)
           \/ \E s \in Spools, location \in Ids \cup {0} : Reassign(r, s, location)
           \/ ResolveAdd(r) \/ ResolveList(r)
           \/ \E kind \in Kinds, id \in Ids : BeginDelete(r, kind, id)
           \/ ShowCounts(r) \/ BeginSeed(r) \/ SeedCheck(r) \/ SeedInsert(r)
           \/ EndSeed(r) \/ Abort(r)
    PROVE  Sums'
  <1>1. spools' = spools /\ \A o \in Requests \ {r} : reqs'[o] = reqs[o]
    BY DEF IInv, InFlight, Submit, Reassign, ResolveAdd, ResolveList, BeginDelete,
           ShowCounts, BeginSeed, SeedCheck, SeedInsert, EndSeed, Abort
  <1>2. reqs'[r] # reqs[r] => reqs'[r].pc # "counts"
    <2>1. CASE \/ \E s \in Spools \cup {NoSpool}, row \in Forms,
                     typed \in ManufacturerNames \cup {NoName} : Submit(r, s, row, typed)
               \/ \E s \in Spools, location \in Ids \cup {0} : Reassign(r, s, location)
               \/ \E kind \in Kinds, id \in Ids : BeginDelete(r, kind, id)
               \/ ShowCounts(r) \/ BeginSeed(r) \/ EndSeed(r) \/ Abort(r)
      BY <2>1 DEF IInv, InFlight, Submit, Reassign, BeginDelete, ShowCounts, BeginSeed,
                  EndSeed, Abort, Idle
    <2>2. CASE ResolveAdd(r) \/ ResolveList(r)
      <3>1. reqs[r] \in Writers
        BY <2>2, RequestKinds DEF IInv, InFlight, Writing, ResolveAdd, ResolveList
      <3>2. ResolveAdd(r) => reqs'[r].pc \in {"list", "write"}
        BY <3>1 DEF IInv, InFlight, Writers, ResolveAdd
      <3>3. ResolveList(r) => reqs'[r].pc \in {"idle", "write"}
        BY <3>1 DEF IInv, InFlight, Writers, ResolveList, Idle
      <3> QED BY <2>2, <3>2, <3>3
    <2>3. CASE SeedCheck(r) \/ SeedInsert(r)
      <3>1. reqs[r] \in Seeders
        BY <2>3, RequestKinds DEF IInv, InFlight, SeedCheck, SeedInsert
      <3>2. NextName(reqs[r]).pc # "counts"
        BY <3>1 DEF NextName, SkippedList, Seeders
      <3> QED BY <2>3, <3>1, <3>2 DEF IInv, InFlight, Seeders, SeedCheck, SeedInsert
    <2> QED BY <2>1, <2>2, <2>3
  <1>3. \A o \in Requests : reqs'[o] = reqs[o] \/ reqs'[o].pc # "counts"
    BY <1>1, <1>2
  <1> QED BY <1>1, <1>3, SumsGoOn

LEMMA NextSums == IInv /\ Sums /\ [Next]_vars => Sums'
  <1> SUFFICES ASSUME IInv, Sums, [Next]_vars PROVE Sums'
    OBVIOUS
  <1>1. CASE \E kind \in Kinds : \E name \in NamesOf[kind] :
                \/ Add(kind, name)
                \/ \E id \in Ids : Rename(kind, id, name)
    <2>1. UNCHANGED <<spools, reqs>> \/ (spools' = spools /\ reqs' = Disturbed)
      BY <1>1 DEF Add, Rename
    <2> QED BY <2>1, SumsGoOn, SumsOfRename
  <1>2. CASE \E r \in Requests : Write(r)
    BY <1>2, SumsOfWrite
  <1>3. CASE \E r \in Requests : Delete(r)
    BY <1>3, SumsOfDelete
  <1>4. CASE \E r \in Requests : \E kind \in Kinds : BeginCounts(r, kind)
    BY <1>4, SumsOfBegin
  <1>5. CASE \E r \in Requests : \E id \in Ids : CountRow(r, id)
    BY <1>5, SumsOfRow
  <1>6. CASE UNCHANGED vars
    BY <1>6, SumsGoOn DEF vars
  <1> QED BY <1>1, <1>2, <1>3, <1>4, <1>5, <1>6, SumsOfOthers DEF Next

(* The counts of a settings page, added up, differ from the number of      *)
(* assigned spools by at most the number of assignments it overlapped,     *)
(* whatever rows were deleted between the queries.                         *)
THEOREM CountsHold == Spec => []CountsOffByWrites
  <1>1. Init => Sums
    BY DEF Init, Idle, Sums, SumWell
  <1>2. IInv /\ Sums => CountsOffByWrites
    <2> SUFFICES ASSUME IInv, Sums, NEW r \in Requests,
                        reqs[r].pc = "counts", reqs[r].todo = {}
                 PROVE  reqs[r].sum - Cardinality({s \in Stored : spools[s][reqs[r].kind] # 0})
                           \in -reqs[r].overlaps..reqs[r].overlaps
      BY DEF CountsOffByWrites
    <2>1. Counted(reqs[r], spools) = {s \in Stored : spools[s][reqs[r].kind] # 0}
      BY DEF Counted, Stored
    <2> QED BY <2>1 DEF Sums, SumWell, Off
  <1> QED BY <1>1, <1>2, IInvAlways, NextSums, PTL DEF Spec
===============================================================================
