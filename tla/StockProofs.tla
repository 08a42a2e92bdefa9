------------------------------ MODULE StockProofs ------------------------------
(***************************************************************************)
(* Lemmas about the operators of SpoolModel and Slots: what a command      *)
(* makes of a spool, and a move or an unload of the slots.                 *)
(***************************************************************************)
EXTENDS Stock, TLAPS

-------------------------------------------------------------------------------
(* The domain operators.                                                   *)

LEMMA DrawnType ==
    ASSUME NEW remaining \in Grams, NEW amount \in Grams
    PROVE  Drawn(remaining, amount) \in Grams
  BY MaxNetAssumption DEF Drawn, Grams

(* A weight of at most the net weight gives a consistent spool again.      *)
LEMMA WithRemainingOK ==
    ASSUME NEW sp \in Spool, NEW grams \in Grams, grams <= sp.net
    PROVE  /\ WithRemaining(sp, grams) \in Spool
           /\ Consistent(WithRemaining(sp, grams))
           /\ WithRemaining(sp, grams).status # "Archived"
  <1> DEFINE status == StatusFor(grams, sp.net)
             new == [sp EXCEPT !.remaining = grams, !.status = status]
  <1>1. /\ status \in {"Sealed", "Open", "Empty"}
        /\ status = "Sealed" => grams = sp.net
        /\ status = "Empty" => grams = 0
    BY MaxNetAssumption DEF StatusFor, Spool, Grams, NetWeights
  <1> HIDE DEF status
  <1>2. new \in Spool
    BY <1>1 DEF Spool, Statuses
  <1>3. new.remaining = grams /\ new.status = status /\ new.net = sp.net
    BY DEF Spool
  <1>4. WithRemaining(sp, grams) = new
    BY DEF WithRemaining, status
  <1> HIDE DEF new
  <1> QED BY <1>1, <1>2, <1>3, <1>4 DEF Consistent

LEMMA ConditionOK ==
    ASSUME NEW condition \in Conditions, NEW net \in NetWeights, NEW entered \in Grams
    PROVE  /\ ConditionRemaining(condition, net, entered) \in Grams
           /\ ConditionRemaining(condition, net, entered) <= net
           /\ ConditionStatus(condition) \in {"Sealed", "Open"}
           /\ ConditionStatus(condition) = "Sealed"
                => ConditionRemaining(condition, net, entered) = net
  BY MaxNetAssumption
  DEF ConditionRemaining, ConditionStatus, Conditions, Grams, NetWeights

LEMMA NewSpoolOK ==
    ASSUME NEW condition \in Conditions, NEW net \in NetWeights, NEW entered \in Grams,
           NEW location \in Locations \cup {NoLocation}
    PROVE  /\ NewSpool(condition, net, entered, location) \in Spool
           /\ Consistent(NewSpool(condition, net, entered, location))
  BY ConditionOK DEF NewSpool, Spool, Statuses, Consistent

(* What a request holds in memory after a command the domain accepted.     *)
LEMMA ApplyOK ==
    ASSUME NEW cmd \in Commands, NEW sp \in Spool, Accepts(cmd, sp), Consistent(sp)
    PROVE  Apply(cmd, sp) \in Spool /\ Consistent(Apply(cmd, sp))
  <1>1. CASE cmd \in SetRemaining
    <2>1. Apply(cmd, sp) = WithRemaining(sp, cmd.grams)
      BY <1>1 DEF SetRemaining, Apply
    <2>2. cmd.grams \in Grams /\ cmd.grams <= sp.net
      BY <1>1 DEF SetRemaining, Accepts
    <2> QED BY <2>1, <2>2, WithRemainingOK
  <1>2. CASE cmd \in Consume
    <2>1. Apply(cmd, sp) = WithRemaining(sp, Drawn(sp.remaining, cmd.grams))
      BY <1>2 DEF Consume, Apply
    <2>2. cmd.grams \in Grams /\ sp.remaining \in Grams
      BY <1>2 DEF Consume, Spool
    <2>3. Drawn(sp.remaining, cmd.grams) \in Grams
      BY <2>2, DrawnType
    <2>4. Drawn(sp.remaining, cmd.grams) <= sp.net
      BY <2>2, MaxNetAssumption DEF Drawn, Grams, Consistent, Spool, NetWeights
    <2> QED BY <2>1, <2>3, <2>4, WithRemainingOK
  <1>3. CASE cmd \in Archive
    <2>1. Apply(cmd, sp) = [sp EXCEPT !.status = "Archived"]
      BY <1>3 DEF Archive, Apply
    <2> QED BY <2>1 DEF Spool, Statuses, Consistent
  <1>4. CASE cmd \in Restore
    <2>1. Apply(cmd, sp) = WithRemaining(sp, sp.remaining)
      BY <1>4 DEF Restore, Apply
    <2>2. sp.remaining \in Grams /\ sp.remaining <= sp.net
      BY DEF Spool, Consistent
    <2> QED BY <2>1, <2>2, WithRemainingOK
  <1>5. CASE cmd \in AssignLocation
    <2>1. Apply(cmd, sp) = [sp EXCEPT !.location = cmd.location]
      BY <1>5 DEF AssignLocation, Apply
    <2> QED BY <1>5, <2>1 DEF AssignLocation, Spool, Consistent
  <1>6. CASE cmd \in MemorizeTag
    <2>1. Apply(cmd, sp) = [sp EXCEPT !.tag = cmd.tag]
      BY <1>6 DEF MemorizeTag, Apply
    <2> QED BY <1>6, <2>1 DEF MemorizeTag, Spool, Consistent
  <1>7. CASE cmd \in Edit
    <2>1. Apply(cmd, sp) = Edited(sp, cmd)
      BY <1>7 DEF Edit, Apply
    <2>2. /\ cmd.condition \in Conditions
          /\ cmd.net \in NetWeights
          /\ cmd.entered \in Grams
          /\ cmd.location \in Locations \cup {NoLocation}
      BY <1>7 DEF Edit
    <2> DEFINE left == ConditionRemaining(cmd.condition, cmd.net, cmd.entered)
               status == ConditionStatus(cmd.condition)
    <2>3. /\ left \in Grams /\ left <= cmd.net
          /\ status \in {"Sealed", "Open"}
          /\ status = "Sealed" => left = cmd.net
      BY <2>2, ConditionOK
    <2>4. Edited(sp, cmd) =
            [sp EXCEPT !.net = cmd.net, !.remaining = left, !.status = status,
                       !.location = cmd.location]
      BY DEF Edited
    <2> HIDE DEF left, status
    <2> QED BY <2>1, <2>2, <2>3, <2>4 DEF Spool, Statuses, Consistent
  <1> QED BY <1>1, <1>2, <1>3, <1>4, <1>5, <1>6, <1>7 DEF Commands

(* Only reassigning the location and memorizing a tag keep a status other  *)
(* than Sealed or Open without unloading: every other command either makes *)
(* the spool loadable or has its handler unload it.                        *)
LEMMA ApplyUnloads ==
    ASSUME NEW cmd \in Commands, NEW sp \in Spool,
           cmd.op \notin {"assign_location", "memorize_ams_tag"}
    PROVE  Loadable(Apply(cmd, sp)) \/ Unloads(cmd, Apply(cmd, sp))
  <1>1. ASSUME NEW grams \in Grams
        PROVE  WithRemaining(sp, grams).status \in {"Sealed", "Open", "Empty"}
    BY DEF WithRemaining, StatusFor, Spool
  <1>2. CASE cmd \in SetRemaining
    BY <1>1, <1>2 DEF SetRemaining, Apply, Loadable, Unloads, FinishedOps
  <1>3. CASE cmd \in Consume
    <2>1. Drawn(sp.remaining, cmd.grams) \in Grams
      BY <1>3, DrawnType DEF Consume, Spool
    <2>2. Apply(cmd, sp) = WithRemaining(sp, Drawn(sp.remaining, cmd.grams))
      BY <1>3 DEF Consume, Apply
    <2> QED BY <1>1, <1>3, <2>1, <2>2 DEF Consume, Loadable, Unloads, FinishedOps
  <1>4. CASE cmd \in Archive
    BY <1>4 DEF Archive, Apply, Unloads, FinishedOps, Spool
  <1>5. CASE cmd \in Restore
    <2>1. sp.remaining \in Grams
      BY DEF Spool
    <2>2. Apply(cmd, sp) = WithRemaining(sp, sp.remaining)
      BY <1>5 DEF Restore, Apply
    <2> QED BY <1>1, <1>5, <2>1, <2>2 DEF Restore, Loadable, Unloads, FinishedOps
  <1>6. CASE cmd \in AssignLocation \cup MemorizeTag
    BY <1>6 DEF AssignLocation, MemorizeTag
  <1>7. CASE cmd \in Edit
    <2>1. Apply(cmd, sp) = Edited(sp, cmd)
      BY <1>7 DEF Edit, Apply
    <2> QED BY <2>1 DEF Edited, ConditionStatus, Loadable, Spool
  <1> QED BY <1>2, <1>3, <1>4, <1>5, <1>6, <1>7 DEF Commands

-------------------------------------------------------------------------------
(* The slots.                                                              *)

LEMMA WithoutType ==
    ASSUME NEW held \in [SlotIds -> SpoolIds \cup {NoSpool}], NEW s \in SpoolIds
    PROVE  Without(held, s) \in [SlotIds -> SpoolIds \cup {NoSpool}]
  BY DEF Without

LEMMA MovedType ==
    ASSUME NEW held \in [SlotIds -> SpoolIds \cup {NoSpool}], NEW s \in SpoolIds,
           NEW sl \in SlotIds
    PROVE  Moved(held, s, sl) \in [SlotIds -> SpoolIds \cup {NoSpool}]
  BY WithoutType DEF Moved

(* Moving or removing a spool leaves the other slots as they are.          *)
LEMMA WithoutSlots ==
    ASSUME NEW held \in [SlotIds -> SpoolIds \cup {NoSpool}], NEW s \in SpoolIds,
           NEW sl \in SlotIds
    PROVE  Without(held, s)[sl] = IF held[sl] = s THEN NoSpool ELSE held[sl]
  BY DEF Without

LEMMA MovedSlots ==
    ASSUME NEW held \in [SlotIds -> SpoolIds \cup {NoSpool}], NEW s \in SpoolIds,
           NEW target \in SlotIds, NEW sl \in SlotIds
    PROVE  Moved(held, s, target)[sl] =
             IF sl = target THEN s ELSE IF held[sl] = s THEN NoSpool ELSE held[sl]
  BY DEF Moved, Without
===============================================================================
