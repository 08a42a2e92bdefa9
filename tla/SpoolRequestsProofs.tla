-------------------------- MODULE SpoolRequestsProofs --------------------------
(***************************************************************************)
(* Theorems about SpoolRequests for every number of spools, slots, requests*)
(* and grams.  All but the last two, AutoUnloading and OneWriterIsAtomic,  *)
(* allow requests to be cut off at any await.                              *)
(***************************************************************************)
EXTENDS SpoolRequests, StockProofs

-------------------------------------------------------------------------------
(* Type correctness, also when requests are cut off between two statements.*)

(* What a request holds, read off its pc.                                  *)
LEMMA RequestFields ==
    ASSUME NEW q \in Request
    PROVE  /\ q.pc = "update" => q \in [pc : {"update"}, id : SpoolIds,
                                        cmd : Commands, row : Spool]
           /\ q.pc = "unload" => q \in [pc : {"unload"}, id : SpoolIds]
           /\ q.pc = "set_slot" => q \in [pc : {"set_slot"}, id : SpoolIds, slot : SlotIds]
           /\ q.pc = "idle" => q = Idle
  BY DEF Request, Idle

LEMMA IdleRequest == Idle \in Request /\ Idle.pc = "idle"
  BY DEF Request, Idle

LEMMA AfterSaveType ==
    ASSUME NEW q \in Request, q.pc = "update"
    PROVE  AfterSave(q) \in Request
  BY RequestFields DEF AfterSave, Request

(* The invariant of the rows: types, and weights that agree with statuses  *)
(* both in the table and in the copies that requests hold; a copy that was *)
(* consistent when it was computed is so when it is saved.                 *)
RowsInv ==
    /\ TypeOK
    /\ RowsConsistent
    /\ \A r \in Requests : reqs[r].pc = "update" => Consistent(reqs[r].row)

LEMMA RowsInvInit == Init => RowsInv
  BY IdleRequest DEF Init, RowsInv, TypeOK, RowsConsistent, Rows

LEMMA RowsInvStep == RowsInv /\ [NextOrAbort]_vars => RowsInv'
  <1> SUFFICES ASSUME RowsInv, [NextOrAbort]_vars
               PROVE  RowsInv'
    OBVIOUS
  <1> USE DEF RowsInv, TypeOK, RowsConsistent, Rows
  <1>1. ASSUME NEW s \in SpoolIds, Create(s)
        PROVE  RowsInv'
    <2> PICK condition \in Conditions, net \in NetWeights, entered \in Grams,
             location \in Locations \cup {NoLocation} :
             spools' = [spools EXCEPT ![s] = NewSpool(condition, net, entered, location)]
      BY <1>1 DEF Create
    <2> QED BY <1>1, NewSpoolOK DEF Create
  <1>2. ASSUME NEW r \in Requests, NEW s \in SpoolIds, NEW cmd \in Commands, Find(r, s, cmd)
        PROVE  RowsInv'
    <2> DEFINE row == Apply(cmd, spools[s])
               q == [pc |-> "update", id |-> s, cmd |-> cmd, row |-> row]
    <2>1. row \in Spool /\ Consistent(row)
      BY <1>2, ApplyOK DEF Find
    <2> HIDE DEF row
    <2>2. q \in Request /\ q.row = row
      BY <2>1 DEF Request
    <2>3. reqs' = [reqs EXCEPT ![r] = q] /\ UNCHANGED <<spools, slots>>
      BY <1>2 DEF Find, row
    <2> HIDE DEF q
    <2> QED BY <2>1, <2>2, <2>3
  <1>3. ASSUME NEW r \in Requests, Update(r)
        PROVE  RowsInv'
    <2>1. reqs[r].id \in SpoolIds /\ reqs[r].row \in Spool /\ Consistent(reqs[r].row)
      BY <1>3, RequestFields DEF Update
    <2>2. AfterSave(reqs[r]) \in Request /\ AfterSave(reqs[r]).pc # "update"
      BY <1>3, AfterSaveType, IdleRequest DEF Update, AfterSave
    <2> QED BY <1>3, <2>1, <2>2 DEF Update
  <1>4. ASSUME NEW r \in Requests, UnloadSpool(r)
        PROVE  RowsInv'
    <2>1. reqs[r].id \in SpoolIds
      BY <1>4, RequestFields DEF UnloadSpool
    <2> QED BY <1>4, <2>1, WithoutType, IdleRequest DEF UnloadSpool
  <1>5. ASSUME NEW r \in Requests, NEW s \in SpoolIds, NEW sl \in SlotIds,
               CheckLoadable(r, s, sl)
        PROVE  RowsInv'
    <2>1. [pc |-> "set_slot", id |-> s, slot |-> sl] \in Request
      BY DEF Request
    <2> QED BY <1>5, <2>1 DEF CheckLoadable
  <1>6. ASSUME NEW r \in Requests, SetSlot(r)
        PROVE  RowsInv'
    <2>1. reqs[r].id \in SpoolIds /\ reqs[r].slot \in SlotIds
      BY <1>6, RequestFields DEF SetSlot
    <2> QED BY <1>6, <2>1, MovedType, IdleRequest DEF SetSlot
  <1>7. ASSUME NEW r \in Requests, RefuseLoad(r) \/ Abort(r)
        PROVE  RowsInv'
    BY <1>7, IdleRequest DEF RefuseLoad, Abort
  <1>8. ASSUME NEW sl \in SlotIds, UnloadSlot(sl)
        PROVE  RowsInv'
    BY <1>8 DEF UnloadSlot
  <1>9. CASE UNCHANGED vars
    BY <1>9 DEF vars
  <1> QED BY <1>1, <1>2, <1>3, <1>4, <1>5, <1>6, <1>7, <1>8, <1>9
          DEF NextOrAbort, Next, Continue

(* The tables and the requests keep their types.                           *)
THEOREM TypeCorrect == FaultySpec => []TypeOK
  <1>1. RowsInv => TypeOK
    BY DEF RowsInv
  <1> QED BY <1>1, RowsInvInit, RowsInvStep, PTL DEF FaultySpec

(* Whatever finds and updates race, and wherever requests are cut off, each*)
(* stored spool has a status that agrees with its weight.                  *)
THEOREM RowsStayConsistent == FaultySpec => []RowsConsistent
  <1>1. RowsInv => RowsConsistent
    BY DEF RowsInv
  <1> QED BY <1>1, RowsInvInit, RowsInvStep, PTL DEF FaultySpec

-------------------------------------------------------------------------------
(* Slots.                                                                  *)

(* A slot and a request refer to rows that exist.                          *)
RefsInv ==
    /\ RowsInv
    /\ \A sl \in SlotIds : slots[sl] # NoSpool => slots[sl] \in Rows
    /\ \A r \in Requests : reqs[r].pc # "idle" => reqs[r].id \in Rows

LEMMA RefsInvInit == Init => RefsInv
  BY RowsInvInit, IdleRequest DEF Init, RefsInv

(* Rows are never removed.                                                 *)
LEMMA RowsKept ==
    ASSUME RowsInv, [NextOrAbort]_vars
    PROVE  Rows \subseteq Rows'
  <1>1. ASSUME NEW s \in SpoolIds, Create(s)
        PROVE  Rows \subseteq Rows'
    BY <1>1 DEF Create, Rows, RowsInv, TypeOK
  <1>2. ASSUME NEW r \in Requests, Update(r)
        PROVE  Rows \subseteq Rows'
    <2>1. reqs[r].row \in Spool
      BY <1>2, RequestFields DEF Update, RowsInv, TypeOK
    <2>2. reqs[r].row # NoRow
      BY <2>1, StockAssumption
    <2> QED BY <1>2, <2>2 DEF Update, Rows, RowsInv, TypeOK
  <1>3. CASE UNCHANGED spools
    BY <1>3 DEF Rows
  <1> QED BY <1>1, <1>2, <1>3
          DEF NextOrAbort, Next, Continue, vars, Find, UnloadSpool, CheckLoadable,
              SetSlot, RefuseLoad, UnloadSlot, Abort

LEMMA RefsInvStep == RefsInv /\ [NextOrAbort]_vars => RefsInv'
  <1> SUFFICES ASSUME RefsInv, [NextOrAbort]_vars
               PROVE  RefsInv'
    OBVIOUS
  <1>1. RowsInv' /\ Rows \subseteq Rows'
    BY RowsInvStep, RowsKept DEF RefsInv
  <1> DEFINE Held == \A sl \in SlotIds : slots[sl] # NoSpool => slots[sl] \in Rows
             Asked == \A r \in Requests : reqs[r].pc # "idle" => reqs[r].id \in Rows
  <1>2. CASE UNCHANGED <<slots, reqs>>
    BY <1>1, <1>2 DEF RefsInv
  <1>3. ASSUME NEW r \in Requests, NEW s \in SpoolIds, NEW cmd \in Commands, Find(r, s, cmd)
        PROVE  Held' /\ Asked'
    <2> DEFINE row == Apply(cmd, spools[s])
    <2>1. /\ s \in Rows
          /\ reqs' = [reqs EXCEPT ![r] =
                        [pc |-> "update", id |-> s, cmd |-> cmd, row |-> row]]
      BY <1>3 DEF Find
    <2> HIDE DEF row
    <2>2. Held'
      BY <1>1, <1>3 DEF Find, RefsInv
    <2>3. Asked'
      BY <1>1, <2>1 DEF RefsInv, RowsInv, TypeOK
    <2> QED BY <2>2, <2>3
  <1>4. ASSUME NEW r \in Requests, Update(r)
        PROVE  Held' /\ Asked'
    <2>1. AfterSave(reqs[r]).pc # "idle" => AfterSave(reqs[r]).id = reqs[r].id
      BY IdleRequest DEF AfterSave
    <2>2. Held' /\ reqs' = [reqs EXCEPT ![r] = AfterSave(reqs[r])]
      BY <1>1, <1>4 DEF Update, RefsInv
    <2>3. reqs[r].id \in Rows
      BY <1>4 DEF Update, RefsInv
    <2> QED BY <1>1, <2>1, <2>2, <2>3 DEF RefsInv, RowsInv, TypeOK
  <1>5. ASSUME NEW r \in Requests, UnloadSpool(r)
        PROVE  Held' /\ Asked'
    <2>1. reqs[r].id \in SpoolIds
      BY <1>5, RequestFields DEF UnloadSpool, RefsInv, RowsInv, TypeOK
    <2>2. Held'
      BY <1>1, <1>5, <2>1, WithoutSlots DEF UnloadSpool, RefsInv, RowsInv, TypeOK
    <2>3. Asked'
      BY <1>1, <1>5, IdleRequest DEF UnloadSpool, RefsInv, RowsInv, TypeOK
    <2> QED BY <2>2, <2>3
  <1>6. ASSUME NEW r \in Requests, NEW s \in SpoolIds, NEW sl \in SlotIds,
               CheckLoadable(r, s, sl)
        PROVE  Held' /\ Asked'
    BY <1>1, <1>6 DEF CheckLoadable, RefsInv, RowsInv, TypeOK
  <1>7. ASSUME NEW r \in Requests, SetSlot(r)
        PROVE  Held' /\ Asked'
    <2>1. reqs[r].id \in Rows /\ reqs[r].id \in SpoolIds /\ reqs[r].slot \in SlotIds
      BY <1>7, RequestFields DEF SetSlot, RefsInv, RowsInv, TypeOK
    <2>2. ASSUME NEW sl \in SlotIds
          PROVE  slots'[sl] \in {slots[sl], reqs[r].id, NoSpool}
      BY <1>7, <2>1, MovedSlots DEF SetSlot, RefsInv, RowsInv, TypeOK
    <2>3. Held'
      BY <1>1, <2>1, <2>2 DEF RefsInv
    <2>4. Asked'
      BY <1>1, <1>7, IdleRequest DEF SetSlot, RefsInv, RowsInv, TypeOK
    <2> QED BY <2>3, <2>4
  <1>8. ASSUME NEW r \in Requests, RefuseLoad(r) \/ Abort(r)
        PROVE  Held' /\ Asked'
    BY <1>1, <1>8, IdleRequest DEF RefuseLoad, Abort, RefsInv, RowsInv, TypeOK
  <1>9. ASSUME NEW sl \in SlotIds, UnloadSlot(sl)
        PROVE  Held' /\ Asked'
    BY <1>1, <1>9 DEF UnloadSlot, RefsInv, RowsInv, TypeOK
  <1>10. (Held' /\ Asked') \/ UNCHANGED <<slots, reqs>>
    BY <1>3, <1>4, <1>5, <1>6, <1>7, <1>8, <1>9
    DEF NextOrAbort, Next, Continue, vars, Create
  <1> QED BY <1>1, <1>2, <1>10 DEF RefsInv

(* No spool is in two slots, whatever loads, unloads and failures race.    *)
THEOREM Exclusivity == FaultySpec => []Exclusive
  <1>1. Init => Exclusive
    BY DEF Init, Exclusive, HeldOnce
  <1>2. RowsInv /\ Exclusive /\ [NextOrAbort]_vars => Exclusive'
    <2> SUFFICES ASSUME RowsInv, Exclusive, [NextOrAbort]_vars
                 PROVE  Exclusive'
      OBVIOUS
    <2> USE DEF Exclusive, HeldOnce
    <2>1. ASSUME NEW r \in Requests, UnloadSpool(r)
          PROVE  Exclusive'
      <3>1. reqs[r].id \in SpoolIds
        BY <2>1, RequestFields DEF UnloadSpool, RowsInv, TypeOK
      <3> QED BY <2>1, <3>1, WithoutSlots DEF UnloadSpool, RowsInv, TypeOK
    <2>2. ASSUME NEW r \in Requests, SetSlot(r)
          PROVE  Exclusive'
      <3>1. reqs[r].id \in SpoolIds /\ reqs[r].slot \in SlotIds
        BY <2>2, RequestFields DEF SetSlot, RowsInv, TypeOK
      <3> QED BY <2>2, <3>1, MovedSlots DEF SetSlot, RowsInv, TypeOK
    <2>3. ASSUME NEW sl \in SlotIds, UnloadSlot(sl)
          PROVE  Exclusive'
      BY <2>3 DEF UnloadSlot, RowsInv, TypeOK
    <2>4. CASE UNCHANGED slots
      BY <2>4
    <2> QED BY <2>1, <2>2, <2>3, <2>4
            DEF NextOrAbort, Next, Continue, vars, Create, Find, Update, CheckLoadable,
                RefuseLoad, Abort
  <1> QED BY <1>1, <1>2, RowsInvInit, RowsInvStep, PTL DEF FaultySpec

(* A slot takes a spool only while the spool is Sealed or Open.            *)
THEOREM LoadingIsGuarded == FaultySpec => LoadsOnlyLoadable
  <1> DEFINE Taken(sl) == slots'[sl] \notin {slots[sl], NoSpool} =>
                            slots'[sl] \in Rows /\ Loadable(spools[slots'[sl]])
  <1>1. RefsInv /\ [NextOrAbort]_vars => [\A sl \in SlotIds : Taken(sl)]_vars
    <2> SUFFICES ASSUME RefsInv, [NextOrAbort]_vars, NEW sl \in SlotIds
                 PROVE  Taken(sl)
      OBVIOUS
    <2>1. ASSUME NEW r \in Requests, UnloadSpool(r)
          PROVE  Taken(sl)
      <3>1. reqs[r].id \in SpoolIds
        BY <2>1, RequestFields DEF UnloadSpool, RefsInv, RowsInv, TypeOK
      <3> QED BY <2>1, <3>1, WithoutSlots DEF UnloadSpool, RefsInv, RowsInv, TypeOK
    <2>2. ASSUME NEW r \in Requests, SetSlot(r)
          PROVE  Taken(sl)
      <3>1. reqs[r].id \in Rows /\ reqs[r].id \in SpoolIds /\ reqs[r].slot \in SlotIds
        BY <2>2, RequestFields DEF SetSlot, RefsInv, RowsInv, TypeOK
      <3> QED BY <2>2, <3>1, MovedSlots DEF SetSlot, RefsInv, RowsInv, TypeOK
    <2>3. ASSUME NEW target \in SlotIds, UnloadSlot(target)
          PROVE  Taken(sl)
      BY <2>3 DEF UnloadSlot, RefsInv, RowsInv, TypeOK
    <2>4. CASE UNCHANGED slots
      BY <2>4
    <2> QED BY <2>1, <2>2, <2>3, <2>4
            DEF NextOrAbort, Next, Continue, vars, Create, Find, Update, CheckLoadable,
                RefuseLoad, Abort
  <1> QED BY <1>1, RefsInvInit, RefsInvStep, PTL DEF FaultySpec, LoadsOnlyLoadable

-------------------------------------------------------------------------------
(* Automatic unloading, when every handler finishes.                       *)

(* A request that will not unload the spool it saves saves it loadable.    *)
UnloadInv ==
    /\ RefsInv
    /\ AutoUnload
    /\ \A r \in Requests : reqs[r].pc = "update" =>
          Loadable(reqs[r].row) \/ Unloads(reqs[r].cmd, reqs[r].row)

LEMMA UnloadInvStep ==
    ASSUME NoStatusCarrier, UnloadInv, [Next]_vars
    PROVE  UnloadInv'
  <1> DEFINE Owes(q) == q.pc = "update" => Loadable(q.row) \/ Unloads(q.cmd, q.row)
             Owed == \A r \in Requests : Owes(reqs[r])
             Safe(sl) == slots[sl] # NoSpool =>
                           Loadable(spools[slots[sl]]) \/ Unloading(slots[sl])
             AllSafe == \A sl \in SlotIds : Safe(sl)
  <1>1. RefsInv'
    BY RefsInvStep DEF UnloadInv, NextOrAbort
  <1>2. TypeOK /\ TypeOK'
    BY <1>1 DEF UnloadInv, RefsInv, RowsInv
  <1>3. Owed /\ AllSafe
    BY DEF UnloadInv, AutoUnload
  <1>4. ASSUME NEW s \in SpoolIds, Create(s)
        PROVE  AllSafe' /\ Owed'
    <2>1. \A sl \in SlotIds : slots[sl] # NoSpool => slots[sl] # s
      BY <1>4 DEF Create, UnloadInv, RefsInv
    <2>2. \A sl \in SlotIds :
             spools'[slots[sl]] = spools[slots[sl]] \/ slots[sl] \in {s, NoSpool}
      BY <1>4, <1>2 DEF Create, TypeOK
    <2>3. UNCHANGED <<slots, reqs>>
      BY <1>4 DEF Create
    <2> QED BY <1>3, <2>1, <2>2, <2>3 DEF Unloading
  <1>5. ASSUME NEW r \in Requests, NEW s \in SpoolIds, NEW cmd \in Commands,
               Find(r, s, cmd)
        PROVE  AllSafe' /\ Owed'
    <2> DEFINE row == Apply(cmd, spools[s])
               q == [pc |-> "update", id |-> s, cmd |-> cmd, row |-> row]
    <2>1. cmd.op \notin {"assign_location", "memorize_ams_tag"}
      BY <1>5 DEF Find, NoStatusCarrier
    <2>2. spools[s] \in Spool
      BY <1>2, <1>5 DEF Find, Rows, TypeOK
    <2>3. Loadable(row) \/ Unloads(cmd, row)
      BY <2>1, <2>2, ApplyUnloads
    <2>4. /\ reqs' = [reqs EXCEPT ![r] = q]
          /\ reqs[r].pc = "idle"
          /\ UNCHANGED <<spools, slots>>
      BY <1>5, IdleRequest DEF Find
    <2> HIDE DEF row
    <2>5. q.pc = "update" /\ Owes(q)
      BY <2>3
    <2> HIDE DEF q
    <2>6. Owed'
      BY <1>2, <1>3, <2>4, <2>5 DEF TypeOK
    <2>7. ASSUME NEW t \in SpoolIds, Unloading(t)
          PROVE  Unloading(t)'
      BY <1>2, <2>4, <2>7 DEF Unloading, TypeOK
    <2> QED BY <1>2, <1>3, <2>4, <2>6, <2>7 DEF TypeOK
  <1>6. ASSUME NEW r \in Requests, Update(r)
        PROVE  AllSafe' /\ Owed'
    <2>1. PICK q \in Request : q = reqs[r]
      BY <1>2 DEF TypeOK
    <2>2. q.pc = "update" /\ q.id \in SpoolIds /\ q.row \in Spool /\ Owes(q)
      BY <1>2, <1>3, <1>6, <2>1, RequestFields DEF Update, TypeOK
    <2>3. PICK after \in Request : after = AfterSave(q)
      BY <2>2, AfterSaveType
    <2>4. /\ spools' = [spools EXCEPT ![q.id] = q.row]
          /\ reqs' = [reqs EXCEPT ![r] = after]
          /\ UNCHANGED slots
      BY <1>6, <2>1, <2>3 DEF Update
    <2>5. after.pc # "update"
      BY <2>3, IdleRequest DEF AfterSave
    <2>6. Unloads(q.cmd, q.row) => after.pc = "unload" /\ after.id = q.id
      BY <2>3 DEF AfterSave
    <2>7. Owed'
      BY <1>2, <1>3, <2>4, <2>5 DEF TypeOK
    <2>8. Loadable(spools'[q.id]) \/ Unloading(q.id)'
      BY <1>2, <2>2, <2>4, <2>6 DEF TypeOK, Unloading
    <2>9. ASSUME NEW t \in SpoolIds, Unloading(t)
          PROVE  Unloading(t)'
      BY <1>2, <2>1, <2>2, <2>4, <2>9 DEF Unloading, TypeOK
    <2>10. ASSUME NEW sl \in SlotIds
           PROVE  Safe(sl)'
      <3>1. slots'[sl] = slots[sl] /\ slots[sl] \in SpoolIds \cup {NoSpool}
        BY <1>2, <2>4 DEF TypeOK
      <3>2. CASE slots[sl] = q.id
        BY <2>8, <3>1, <3>2
      <3>3. CASE slots[sl] # q.id /\ slots[sl] # NoSpool
        <4>1. spools'[slots[sl]] = spools[slots[sl]]
          BY <1>2, <2>4, <3>1, <3>3 DEF TypeOK
        <4> QED BY <1>3, <2>9, <3>1, <3>3, <4>1
      <3> QED BY <3>1, <3>2, <3>3
    <2> QED BY <2>7, <2>10
  <1>7. ASSUME NEW r \in Requests, UnloadSpool(r)
        PROVE  AllSafe' /\ Owed'
    <2>1. reqs[r].id \in SpoolIds
      BY <1>2, <1>7, RequestFields DEF UnloadSpool, TypeOK
    <2>2. \A sl \in SlotIds :
             slots'[sl] = IF slots[sl] = reqs[r].id THEN NoSpool ELSE slots[sl]
      BY <1>2, <1>7, <2>1, WithoutSlots DEF UnloadSpool, TypeOK
    <2>3. reqs' = [reqs EXCEPT ![r] = Idle] /\ UNCHANGED spools
      BY <1>7 DEF UnloadSpool
    <2>4. Owed'
      BY <1>2, <1>3, <2>3, IdleRequest DEF TypeOK
    <2>5. ASSUME NEW t \in SpoolIds, t # reqs[r].id, Unloading(t)
          PROVE  Unloading(t)'
      BY <1>2, <2>3, <2>5 DEF Unloading, TypeOK
    <2> QED BY <1>2, <1>3, <2>2, <2>3, <2>4, <2>5 DEF TypeOK
  <1>8. ASSUME NEW r \in Requests, NEW q \in Request, q.pc \in {"idle", "set_slot"},
               reqs' = [reqs EXCEPT ![r] = q], reqs[r].pc \in {"idle", "set_slot"}
        PROVE  Owed' /\ \A t \in SpoolIds : Unloading(t) => Unloading(t)'
    BY <1>2, <1>3, <1>8 DEF Unloading, TypeOK
  <1>9. ASSUME NEW r \in Requests, NEW s \in SpoolIds, NEW target \in SlotIds,
               CheckLoadable(r, s, target)
        PROVE  AllSafe' /\ Owed'
    <2> DEFINE q == [pc |-> "set_slot", id |-> s, slot |-> target]
    <2>1. q \in Request /\ q.pc = "set_slot"
      BY DEF Request
    <2>2. reqs' = [reqs EXCEPT ![r] = q] /\ reqs[r].pc = "idle" /\ UNCHANGED <<spools, slots>>
      BY <1>9, IdleRequest DEF CheckLoadable
    <2> HIDE DEF q
    <2> QED BY <1>2, <1>3, <1>8, <2>1, <2>2 DEF TypeOK
  <1>10. ASSUME NEW r \in Requests, SetSlot(r)
         PROVE  AllSafe' /\ Owed'
    <2>1. reqs[r].id \in SpoolIds /\ reqs[r].slot \in SlotIds
      BY <1>2, <1>10, RequestFields DEF SetSlot, TypeOK
    <2>2. /\ reqs' = [reqs EXCEPT ![r] = Idle] /\ reqs[r].pc = "set_slot"
          /\ UNCHANGED spools /\ Loadable(spools[reqs[r].id])
      BY <1>10 DEF SetSlot
    <2>3. \A sl \in SlotIds : slots'[sl] \in {slots[sl], reqs[r].id, NoSpool}
      BY <1>2, <1>10, <2>1, MovedSlots DEF SetSlot, TypeOK
    <2>4. Owed' /\ \A t \in SpoolIds : Unloading(t) => Unloading(t)'
      BY <1>8, <2>2, IdleRequest
    <2> QED BY <1>2, <1>3, <2>2, <2>3, <2>4 DEF TypeOK
  <1>11. ASSUME NEW r \in Requests, RefuseLoad(r)
         PROVE  AllSafe' /\ Owed'
    <2>1. /\ reqs' = [reqs EXCEPT ![r] = Idle] /\ reqs[r].pc = "set_slot"
          /\ UNCHANGED <<spools, slots>>
      BY <1>11 DEF RefuseLoad
    <2>2. Owed' /\ \A t \in SpoolIds : Unloading(t) => Unloading(t)'
      BY <1>8, <2>1, IdleRequest
    <2> QED BY <1>2, <1>3, <2>1, <2>2 DEF TypeOK
  <1>12. ASSUME NEW target \in SlotIds, UnloadSlot(target)
         PROVE  AllSafe' /\ Owed'
    BY <1>2, <1>3, <1>12 DEF UnloadSlot, TypeOK, Unloading
  <1>13. ASSUME UNCHANGED vars
         PROVE  AllSafe' /\ Owed'
    BY <1>3, <1>13 DEF vars, Unloading
  <1>14. AllSafe' /\ Owed'
    BY <1>4, <1>5, <1>6, <1>7, <1>9, <1>10, <1>11, <1>12, <1>13 DEF Next, Continue
  <1> QED BY <1>1, <1>14 DEF UnloadInv, AutoUnload

(* When no request reassigns locations or memorizes tags and no request is *)
(* cut off, a spool that becomes Empty or Archived while loaded always has *)
(* a request about to unload it.                                           *)
THEOREM AutoUnloading == ASSUME NoStatusCarrier PROVE Spec => []AutoUnload
  <1>1. Init => UnloadInv
    BY RefsInvInit, IdleRequest DEF Init, UnloadInv, AutoUnload
  <1>2. UnloadInv /\ [Next]_vars => UnloadInv'
    BY UnloadInvStep
  <1>3. UnloadInv => AutoUnload
    BY DEF UnloadInv
  <1> QED BY <1>1, <1>2, <1>3, PTL DEF Spec

-------------------------------------------------------------------------------
(* One writer at a time: the statements implement the promise.             *)

(* Any number of requests load, but all that save spools are the same one. *)
OneWriterAtATime ==
    \A r1, r2 \in Requests : Can[r1] \cap RowOps # {} /\ Can[r2] \cap RowOps # {} => r1 = r2

Writes(r) == Can[r] \cap RowOps # {}

(* What the writer is about to save is still what its command makes of the *)
(* stored row, and what it is about to unload cannot be loaded meanwhile.  *)
WriterInv ==
    /\ RefsInv
    /\ \A r \in Requests :
          /\ reqs[r].pc \in {"update", "unload"} => Writes(r)
          /\ reqs[r].pc = "update" =>
                /\ Accepts(reqs[r].cmd, spools[reqs[r].id])
                /\ reqs[r].row = Apply(reqs[r].cmd, spools[reqs[r].id])
          /\ reqs[r].pc = "unload" => ~Loadable(spools[reqs[r].id])

LEMMA CommandOps == \A cmd \in Commands : cmd.op \in RowOps
  BY DEF Commands, SetRemaining, Consume, Archive, Restore, AssignLocation, MemorizeTag, Edit,
         RowOps

LEMMA UnloadsUnloadable == \A cmd, sp : Unloads(cmd, sp) => ~Loadable(sp)
  BY DEF Unloads, Loadable

LEMMA WriterInvInit == Init => WriterInv
  BY RefsInvInit, IdleRequest DEF Init, WriterInv

LEMMA WriterInvStep ==
    ASSUME OneWriterAtATime, WriterInv, [Next]_vars
    PROVE  WriterInv'
  <1> DEFINE Well(q, r, rows) ==
                /\ q.pc \in {"update", "unload"} => Writes(r)
                /\ q.pc = "update" => /\ Accepts(q.cmd, rows[q.id])
                                      /\ q.row = Apply(q.cmd, rows[q.id])
                /\ q.pc = "unload" => ~Loadable(rows[q.id])
             AllWell == \A r \in Requests : Well(reqs[r], r, spools)
  <1>1. RefsInv'
    BY RefsInvStep DEF WriterInv, NextOrAbort
  <1>2. TypeOK
    BY DEF WriterInv, RefsInv, RowsInv
  <1>3. AllWell
    BY DEF WriterInv
  <1> SUFFICES AllWell'
    BY <1>1 DEF WriterInv
  <1>4. \A r, rows : Well(Idle, r, rows)
    BY IdleRequest
  <1>5. ASSUME NEW s \in SpoolIds, Create(s)
        PROVE  AllWell'
    <2>1. /\ reqs' = reqs /\ s \notin Rows
          /\ \A t \in SpoolIds \ {s} : spools'[t] = spools[t]
      BY <1>2, <1>5 DEF Create, TypeOK
    <2>2. ASSUME NEW r \in Requests, reqs[r].pc \in {"update", "unload"}
          PROVE  spools'[reqs[r].id] = spools[reqs[r].id]
      <3>1. reqs[r].id \in Rows
        BY <2>2 DEF WriterInv, RefsInv
      <3> QED BY <2>1, <3>1 DEF Rows
    <2> QED BY <1>3, <2>1, <2>2
  <1>6. ASSUME NEW r \in Requests, NEW s \in SpoolIds, NEW cmd \in Commands, Find(r, s, cmd)
        PROVE  AllWell'
    <2> DEFINE row == Apply(cmd, spools[s])
               q == [pc |-> "update", id |-> s, cmd |-> cmd, row |-> row]
    <2>1. /\ Accepts(cmd, spools[s]) /\ Writes(r)
          /\ reqs' = [reqs EXCEPT ![r] = q] /\ spools' = spools
      BY <1>6, CommandOps DEF Find, Writes
    <2> HIDE DEF row
    <2>2. q.pc = "update" /\ q.id = s /\ q.cmd = cmd /\ q.row = row
      OBVIOUS
    <2> HIDE DEF q
    <2>3. Well(q, r, spools)
      BY <2>1, <2>2 DEF row
    <2> HIDE DEF Well
    <2> QED BY <1>2, <1>3, <2>1, <2>3 DEF TypeOK
  <1>7. ASSUME NEW r \in Requests, Update(r)
        PROVE  AllWell'
    <2> DEFINE q == reqs[r]
    <2>1. /\ q.pc = "update" /\ spools' = [spools EXCEPT ![q.id] = q.row]
          /\ reqs' = [reqs EXCEPT ![r] = AfterSave(q)]
      BY <1>7 DEF Update
    <2>2. Writes(r) /\ q.id \in SpoolIds
      BY <1>2, <1>3, <2>1, RequestFields DEF TypeOK
    <2>3. \A o \in Requests \ {r} : reqs[o].pc \notin {"update", "unload"} /\ reqs'[o] = reqs[o]
      BY <1>2, <1>3, <2>1, <2>2 DEF OneWriterAtATime, Writes, TypeOK
    <2>4. Well(AfterSave(q), r, spools')
      <3>1. CASE Unloads(q.cmd, q.row)
        <4>1. AfterSave(q).pc = "unload" /\ AfterSave(q).id = q.id
          BY <3>1 DEF AfterSave
        <4>2. spools'[q.id] = q.row
          BY <1>2, <2>1, <2>2 DEF TypeOK
        <4> QED BY <2>2, <3>1, <4>1, <4>2, UnloadsUnloadable
      <3>2. CASE ~Unloads(q.cmd, q.row)
        BY <3>2, <1>4 DEF AfterSave
      <3> QED BY <3>1, <3>2
    <2>5. reqs'[r] = AfterSave(q)
      BY <1>2, <2>1 DEF TypeOK
    <2> QED BY <2>3, <2>4, <2>5
  <1>8. ASSUME NEW r \in Requests, UnloadSpool(r) \/ SetSlot(r) \/ RefuseLoad(r)
        PROVE  AllWell'
    <2>1. reqs' = [reqs EXCEPT ![r] = Idle] /\ spools' = spools
      BY <1>8 DEF UnloadSpool, SetSlot, RefuseLoad
    <2> HIDE DEF Well
    <2> QED BY <1>2, <1>3, <1>4, <2>1 DEF TypeOK
  <1>9. ASSUME NEW r \in Requests, NEW s \in SpoolIds, NEW sl \in SlotIds,
               CheckLoadable(r, s, sl)
        PROVE  AllWell'
    <2> DEFINE q == [pc |-> "set_slot", id |-> s, slot |-> sl]
    <2>1. reqs' = [reqs EXCEPT ![r] = q] /\ spools' = spools
      BY <1>9 DEF CheckLoadable
    <2>2. Well(q, r, spools)
      OBVIOUS
    <2> HIDE DEF q, Well
    <2> QED BY <1>2, <1>3, <2>1, <2>2 DEF TypeOK
  <1>10. CASE UNCHANGED <<spools, reqs>>
    BY <1>3, <1>10
  <1> QED BY <1>5, <1>6, <1>7, <1>8, <1>9, <1>10 DEF Next, Continue, vars, UnloadSlot

(* The instance computes what this module computes.                        *)
LEMMA SameRows ==
    \A cmd, sp : /\ Atomic!Apply(cmd, sp) = Apply(cmd, sp)
                 /\ Atomic!Accepts(cmd, sp) = Accepts(cmd, sp)
                 /\ Atomic!Unloads(cmd, sp) = Unloads(cmd, sp)
                 /\ Atomic!Loadable(sp) = Loadable(sp)
  <1>1. \A sp, grams : Atomic!WithRemaining(sp, grams) = WithRemaining(sp, grams)
    BY DEF Atomic!WithRemaining, WithRemaining, Atomic!StatusFor, StatusFor
  <1>2. \A remaining, amount : Atomic!Drawn(remaining, amount) = Drawn(remaining, amount)
    BY DEF Atomic!Drawn, Drawn
  <1>3. \A sp, cmd : Atomic!Edited(sp, cmd) = Edited(sp, cmd)
    BY DEF Atomic!Edited, Edited, Atomic!ConditionRemaining, ConditionRemaining,
           Atomic!ConditionStatus, ConditionStatus
  <1>4. \A cmd, sp : Atomic!Apply(cmd, sp) = Apply(cmd, sp)
    BY <1>1, <1>2, <1>3 DEF Atomic!Apply, Apply
  <1>5. \A cmd, sp : Atomic!Accepts(cmd, sp) = Accepts(cmd, sp)
    BY DEF Atomic!Accepts, Accepts, Atomic!WeightOps, WeightOps
  <1>6. \A cmd, sp : Atomic!Unloads(cmd, sp) = Unloads(cmd, sp)
    BY DEF Atomic!Unloads, Unloads, Atomic!FinishedOps, FinishedOps
  <1>7. \A sp : Atomic!Loadable(sp) = Loadable(sp)
    BY DEF Atomic!Loadable, Loadable
  <1> QED BY <1>4, <1>5, <1>6, <1>7

LEMMA SameSpools ==
    /\ Atomic!Commands = Commands /\ Atomic!Rows = Rows
    /\ Atomic!Conditions = Conditions /\ Atomic!NetWeights = NetWeights /\ Atomic!Grams = Grams
    /\ \A condition, net, entered, location :
          Atomic!NewSpool(condition, net, entered, location) =
             NewSpool(condition, net, entered, location)
  BY DEF Atomic!Commands, Commands, Atomic!Rows, Rows, Atomic!Conditions, Conditions,
         Atomic!NetWeights, NetWeights, Atomic!Grams, Grams, Atomic!NewSpool, NewSpool,
         Atomic!ConditionRemaining, ConditionRemaining, Atomic!ConditionStatus, ConditionStatus,
         Atomic!SetRemaining, SetRemaining, Atomic!Consume, Consume, Atomic!Archive, Archive,
         Atomic!Restore, Restore, Atomic!AssignLocation, AssignLocation,
         Atomic!MemorizeTag, MemorizeTag, Atomic!Edit, Edit

LEMMA SameSlots ==
    \A held, s, sl : /\ Atomic!Without(held, s) = Without(held, s)
                     /\ Atomic!Moved(held, s, sl) = Moved(held, s, sl)
  BY DEF Atomic!Without, Without, Atomic!Moved, Moved

(* A step that changes neither the slots nor who is about to unload leaves *)
(* the visible slots.                                                      *)
LEMMA VisibleStays ==
    ASSUME slots' = slots, \A s \in SpoolIds : Unloading(s)' <=> Unloading(s), TypeOK
    PROVE  VisibleSlots' = VisibleSlots
  BY DEF VisibleSlots, TypeOK

LEMMA VisibleInit == Init => Atomic!Init
  BY DEF Init, Atomic!Init, VisibleSlots

LEMMA StepImplements ==
    ASSUME WriterInv, [Next]_vars
    PROVE  [Atomic!Next]_(Atomic!vars)
  <1>1. TypeOK
    BY DEF WriterInv, RefsInv, RowsInv
  <1>2. \A s \in SpoolIds : Unloading(s) => ~Loadable(spools[s])
    BY DEF Unloading, WriterInv
  <1>3. VisibleSlots \in [SlotIds -> SpoolIds \cup {NoSpool}]
    BY <1>1 DEF VisibleSlots, TypeOK
  <1>4. ASSUME NEW s \in SpoolIds, Create(s)
        PROVE  Atomic!Next
    <2>1. VisibleSlots' = VisibleSlots
      BY <1>1, <1>4, VisibleStays DEF Create, Unloading
    <2>2. Atomic!Create(s)
      BY <1>4, <2>1, SameSpools DEF Create, Atomic!Create
    <2> QED BY <2>2 DEF Atomic!Next
  <1>5. ASSUME NEW r \in Requests, NEW s \in SpoolIds, NEW cmd \in Commands, Find(r, s, cmd)
        PROVE  UNCHANGED <<spools, VisibleSlots>>
    <2> DEFINE q == [pc |-> "update", id |-> s, cmd |-> cmd, row |-> Apply(cmd, spools[s])]
    <2>1. reqs[r].pc = "idle" /\ reqs' = [reqs EXCEPT ![r] = q] /\ UNCHANGED <<spools, slots>>
      BY <1>5, IdleRequest DEF Find
    <2>2. q.pc = "update"
      OBVIOUS
    <2> HIDE DEF q
    <2>3. \A t \in SpoolIds : Unloading(t)' <=> Unloading(t)
      BY <1>1, <2>1, <2>2 DEF Unloading, TypeOK
    <2> QED BY <1>1, <2>1, <2>3, VisibleStays
  <1>6. ASSUME NEW r \in Requests, Update(r)
        PROVE  Atomic!Next
    <2> DEFINE q == reqs[r]
               out == Unloads(q.cmd, q.row)
    <2>1. /\ q.pc = "update" /\ spools' = [spools EXCEPT ![q.id] = q.row]
          /\ reqs' = [reqs EXCEPT ![r] = AfterSave(q)] /\ slots' = slots
      BY <1>6 DEF Update
    <2>2. /\ q.id \in SpoolIds /\ q.cmd \in Commands /\ q.id \in Rows
          /\ Accepts(q.cmd, spools[q.id]) /\ q.row = Apply(q.cmd, spools[q.id])
      BY <1>1, <2>1, RequestFields DEF WriterInv, RefsInv, TypeOK
    <2>3. \A t \in SpoolIds : Unloading(t)' <=> Unloading(t) \/ (out /\ t = q.id)
      <3>1. reqs'[r] = AfterSave(q) /\ \A o \in Requests \ {r} : reqs'[o] = reqs[o]
        BY <1>1, <2>1 DEF TypeOK
      <3>2. out => AfterSave(q).pc = "unload" /\ AfterSave(q).id = q.id
        BY DEF AfterSave
      <3>3. ~out => AfterSave(q).pc = "idle"
        BY IdleRequest DEF AfterSave
      <3> HIDE DEF out
      <3> QED BY <2>1, <3>1, <3>2, <3>3 DEF Unloading
    <2>4. VisibleSlots' = IF out THEN Without(VisibleSlots, q.id) ELSE VisibleSlots
      <3> HIDE DEF out
      <3>1. CASE out
        BY <1>1, <2>1, <2>2, <2>3, <3>1, SlotsAssumption DEF VisibleSlots, Without, TypeOK
      <3>2. CASE ~out
        BY <1>1, <2>1, <2>3, <3>2, VisibleStays
      <3> QED BY <3>1, <3>2
    <2>5. Atomic!Operate(q.id, q.cmd)
      BY <2>1, <2>2, <2>4, SameRows, SameSlots, SameSpools DEF Atomic!Operate
    <2> QED BY <2>2, <2>5, SameSpools DEF Atomic!Next
  <1>7. ASSUME NEW r \in Requests, UnloadSpool(r)
        PROVE  UNCHANGED <<spools, VisibleSlots>>
    <2>1. /\ reqs[r].pc = "unload" /\ slots' = Without(slots, reqs[r].id) /\ spools' = spools
          /\ reqs' = [reqs EXCEPT ![r] = Idle]
      BY <1>7 DEF UnloadSpool
    <2>2. \A t \in SpoolIds : t # reqs[r].id => (Unloading(t)' <=> Unloading(t))
      BY <1>1, <2>1, IdleRequest DEF Unloading, TypeOK
    <2>3. Unloading(reqs[r].id)
      BY <2>1 DEF Unloading
    <2>4. VisibleSlots' = VisibleSlots
      BY <1>1, <2>1, <2>2, <2>3 DEF VisibleSlots, Without, TypeOK
    <2> QED BY <2>1, <2>4
  <1>8. ASSUME NEW r \in Requests, NEW s \in SpoolIds, NEW sl \in SlotIds,
               CheckLoadable(r, s, sl)
        PROVE  UNCHANGED <<spools, VisibleSlots>>
    <2>1. \A t \in SpoolIds : Unloading(t)' <=> Unloading(t)
      BY <1>1, <1>8, IdleRequest DEF CheckLoadable, Unloading, TypeOK
    <2> QED BY <1>1, <1>8, <2>1, VisibleStays DEF CheckLoadable
  <1>9. ASSUME NEW r \in Requests, SetSlot(r)
        PROVE  Atomic!Next
    <2> DEFINE q == reqs[r]
    <2>1. /\ q.pc = "set_slot" /\ Loadable(spools[q.id]) /\ slots' = Moved(slots, q.id, q.slot)
          /\ reqs' = [reqs EXCEPT ![r] = Idle] /\ spools' = spools
      BY <1>9 DEF SetSlot
    <2>2. q.id \in SpoolIds /\ q.slot \in SlotIds /\ q.id \in Rows
      BY <1>1, <2>1, RequestFields DEF WriterInv, RefsInv, TypeOK
    <2>3. \A t \in SpoolIds : Unloading(t)' <=> Unloading(t)
      BY <1>1, <2>1, IdleRequest DEF Unloading, TypeOK
    <2>4. ~Unloading(q.id)
      BY <1>2, <2>1, <2>2
    <2>5. ASSUME NEW sl \in SlotIds
          PROVE  VisibleSlots'[sl] = Moved(VisibleSlots, q.id, q.slot)[sl]
      <3>1. slots'[sl] = IF sl = q.slot THEN q.id
                         ELSE IF slots[sl] = q.id THEN NoSpool ELSE slots[sl]
        BY <1>1, <2>1, <2>2, MovedSlots DEF TypeOK
      <3>2. Moved(VisibleSlots, q.id, q.slot)[sl] =
               IF sl = q.slot THEN q.id
               ELSE IF VisibleSlots[sl] = q.id THEN NoSpool ELSE VisibleSlots[sl]
        BY <1>3, <2>2, MovedSlots
      <3> QED BY <1>1, <2>2, <2>3, <2>4, <3>1, <3>2 DEF VisibleSlots, TypeOK
    <2>6. Moved(VisibleSlots, q.id, q.slot) \in [SlotIds -> SpoolIds \cup {NoSpool}]
      BY <1>3, <2>2, MovedType
    <2>7. VisibleSlots' = Moved(VisibleSlots, q.id, q.slot)
      BY <2>5, <2>6 DEF VisibleSlots
    <2>8. Atomic!Load(q.id, q.slot)
      BY <2>1, <2>2, <2>7, SameRows, SameSlots, SameSpools DEF Atomic!Load
    <2> QED BY <2>2, <2>8 DEF Atomic!Next
  <1>10. ASSUME NEW r \in Requests, RefuseLoad(r)
         PROVE  UNCHANGED <<spools, VisibleSlots>>
    <2>1. \A t \in SpoolIds : Unloading(t)' <=> Unloading(t)
      BY <1>1, <1>10, IdleRequest DEF RefuseLoad, Unloading, TypeOK
    <2> QED BY <1>1, <1>10, <2>1, VisibleStays DEF RefuseLoad
  <1>11. ASSUME NEW sl \in SlotIds, UnloadSlot(sl)
         PROVE  Atomic!Next
    <2>1. VisibleSlots' = [VisibleSlots EXCEPT ![sl] = NoSpool]
      BY <1>1, <1>11 DEF UnloadSlot, VisibleSlots, Unloading, TypeOK
    <2>2. Atomic!Unload(sl)
      BY <1>11, <2>1 DEF UnloadSlot, Atomic!Unload
    <2> QED BY <2>2 DEF Atomic!Next
  <1>12. CASE UNCHANGED vars
    <2>1. VisibleSlots' = VisibleSlots
      BY <1>12 DEF vars, VisibleSlots, Unloading
    <2> QED BY <1>12, <2>1 DEF vars, Atomic!vars
  <1> QED BY <1>4, <1>5, <1>6, <1>7, <1>8, <1>9, <1>10, <1>11, <1>12
          DEF Next, Continue, Atomic!vars

(* With one client saving spools and any number loading them, the find,    *)
(* save, unload and the check, move sequences do what the atomic promise   *)
(* allows and nothing else.                                                *)
THEOREM OneWriterIsAtomic ==
    ASSUME OneWriterAtATime
    PROVE  Spec => ImplementsInventory
  <1>1. WriterInv /\ [Next]_vars => WriterInv'
    BY WriterInvStep
  <1>2. WriterInv /\ [Next]_vars => [Atomic!Next]_(Atomic!vars)
    BY StepImplements
  <1> QED BY <1>1, <1>2, WriterInvInit, VisibleInit, PTL
          DEF Spec, ImplementsInventory, Atomic!Spec
===============================================================================
