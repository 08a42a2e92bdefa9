------------------------------ MODULE ProbesProofs ------------------------------
(***************************************************************************)
(* Theorems about Probes, for any number of requests and sessions and any  *)
(* length of what a session may leave unread.  That a probe ends is        *)
(* liveness, and TLC's.                                                    *)
(***************************************************************************)
EXTENDS Probes, TLAPS

-------------------------------------------------------------------------------
(* What the requests are doing.                                            *)

(* The events that reach a session; being cut off is not one of them.      *)
Full == {"state", "ams"}
ConnAck == {"ConnAck"}
SubAck == {"SubAck"}
Events == Changes \cup {ConnAck, SubAck, Full}

Has(inbox, event) == \E i \in 1 .. Len(inbox) : inbox[i] = event

MqttProbes ==
    [pc : {"mqtt"}, want : Wants, id : BOOLEAN \X Nat, open : BOOLEAN, subscribed : BOOLEAN,
     requested : BOOLEAN, wire : SUBSET {"subscribe", "pushall"}, topic : BOOLEAN,
     inbox : Seq(Events)]

(* Where a session is: what it waits for next is on its way to the broker  *)
(* or has come back, and it has asked for nothing before it listens.       *)
Stages(p) ==
    /\ p.open /\ ~p.subscribed => Has(p.inbox, ConnAck)
    /\ p.subscribed /\ ~p.requested => "subscribe" \in p.wire \/ Has(p.inbox, SubAck)
    /\ p.requested => "pushall" \in p.wire \/ Has(p.inbox, Full)
    /\ p.requested \/ Has(p.inbox, SubAck) => p.topic

InSession(p) == p \in MqttProbes /\ Stages(p)

HttpProbes ==
    [pc : {"http"}, want : Wants, pending : SUBSET {"status", "job"},
     lost : SUBSET {"status", "job", "state"}, struck : BOOLEAN]

Calling(p) == p \in HttpProbes /\ ("status" \in p.lost \/ "state" \in p.lost => p.struck)

Answers == [pc : {"shown"}, result : Wants \cup {"offline", "failed"}, struck : BOOLEAN]

Answered(p) == p \in Answers /\ (p.result \in {"offline", "failed"} => p.struck)

Probe(p) == p = Idle \/ InSession(p) \/ Calling(p) \/ Answered(p)

(* The client ids of the sessions, all drawn from CLIENT_SEQUENCE.         *)
IdsDiffer ==
    /\ \A r \in Mqtt : probes[r].id[2] < sequence
    /\ \A r, o \in Mqtt : probes[r].id = probes[o].id => r = o

IInv ==
    /\ sequence \in Nat
    /\ probes = [r \in Requests |-> probes[r]]
    /\ \A r \in Requests : Probe(probes[r])
    /\ IdsDiffer

-------------------------------------------------------------------------------
(* Inboxes.                                                                *)

LEMMA EventsDiffer ==
    /\ ConnAck # SubAck /\ ConnAck # Full /\ SubAck # Full
    /\ \A e \in Changes \cup {Full} : e # ConnAck /\ e # SubAck /\ e # {"closed"}
    /\ ConnAck # {"closed"} /\ SubAck # {"closed"}
  BY DEF Changes, Full, ConnAck, SubAck

LEMMA HasAppend ==
    ASSUME NEW S, NEW s \in Seq(S), NEW e \in S, NEW x
    PROVE  Has(Append(s, e), x) <=> Has(s, x) \/ x = e
  <1>1. Len(Append(s, e)) = Len(s) + 1 /\ Len(s) \in Nat
    OBVIOUS
  <1>2. \A i \in 1 .. Len(s) : Append(s, e)[i] = s[i]
    OBVIOUS
  <1>3. Append(s, e)[Len(s) + 1] = e
    OBVIOUS
  <1>4. \A i \in 1 .. Len(s) + 1 : i \in 1 .. Len(s) \/ i = Len(s) + 1
    BY <1>1
  <1>5. 1 .. Len(s) \subseteq 1 .. Len(s) + 1 /\ Len(s) + 1 \in 1 .. Len(s) + 1
    BY <1>1
  <1> QED BY <1>1, <1>2, <1>3, <1>4, <1>5 DEF Has

(* Reading the head keeps every other event, and brings none.              *)
LEMMA HasTail ==
    ASSUME NEW S, NEW s \in Seq(S), s # <<>>, NEW x
    PROVE  /\ Has(Tail(s), x) => Has(s, x)
           /\ Has(s, x) => Head(s) = x \/ Has(Tail(s), x)
           /\ Head(s) \in S /\ Tail(s) \in Seq(S) /\ Has(s, Head(s))
  <1>1. /\ Len(s) \in Nat \ {0} /\ Len(Tail(s)) = Len(s) - 1 /\ Head(s) = s[1]
        /\ Head(s) \in S /\ Tail(s) \in Seq(S)
    OBVIOUS
  <1>2. \A i \in 1 .. Len(s) - 1 : Tail(s)[i] = s[i + 1]
    OBVIOUS
  <1>3. ASSUME Has(Tail(s), x)
        PROVE  Has(s, x)
    <2> PICK i \in 1 .. Len(s) - 1 : Tail(s)[i] = x
      BY <1>1, <1>3 DEF Has
    <2>1. i + 1 \in 1 .. Len(s) /\ s[i + 1] = x
      BY <1>1, <1>2
    <2> QED BY <2>1 DEF Has
  <1>4. ASSUME Has(s, x), Head(s) # x
        PROVE  Has(Tail(s), x)
    <2> PICK i \in 1 .. Len(s) : s[i] = x
      BY <1>4 DEF Has
    <2>1. i - 1 \in 1 .. Len(s) - 1
      BY <1>1, <1>4
    <2>2. Tail(s)[i - 1] = x
      BY <1>2, <2>1
    <2> QED BY <1>1, <2>1, <2>2 DEF Has
  <1>5. Has(s, Head(s))
    <2>1. 1 \in 1 .. Len(s)
      BY <1>1
    <2> QED BY <1>1, <2>1 DEF Has
  <1> QED BY <1>1, <1>3, <1>4, <1>5

LEMMA EmptyHasNone == \A x : ~Has(<<>>, x)
  BY DEF Has

LEMMA ProbeKinds ==
    ASSUME NEW p, Probe(p)
    PROVE  /\ p.pc \in {"idle", "mqtt", "http", "shown"}
           /\ p.pc = "idle" => p = Idle
           /\ p.pc = "mqtt" => InSession(p)
           /\ p.pc = "http" => Calling(p)
           /\ p.pc = "shown" => Answered(p)
  BY DEF Probe, Idle, InSession, MqttProbes, Calling, HttpProbes, Answered, Answers

LEMMA FailureIsAnswer ==
    ASSUME NEW want
    PROVE  Probe(Shown(Failure(want), TRUE)) /\ Shown(Failure(want), TRUE).pc = "shown"
  BY DEF Probe, Answered, Answers, Shown, Failure

-------------------------------------------------------------------------------
(* One event in a session.                                                 *)

LEMMA Delivered ==
    ASSUME NEW p, InSession(p), NEW e \in Events, e = SubAck => p.topic
    PROVE  /\ InSession([p EXCEPT !.inbox = Append(@, e)])
           /\ [p EXCEPT !.inbox = Append(@, e)].id = p.id
           /\ [p EXCEPT !.inbox = Append(@, e)].pc = "mqtt"
  <1> DEFINE q == [p EXCEPT !.inbox = Append(p.inbox, e)]
  <1>1. p \in MqttProbes /\ p.inbox \in Seq(Events)
    BY DEF InSession, MqttProbes
  <1>2. Append(p.inbox, e) \in Seq(Events)
    BY <1>1
  <1>3. /\ q \in MqttProbes /\ q.inbox = Append(p.inbox, e) /\ q.id = p.id /\ q.pc = "mqtt"
        /\ q.open = p.open /\ q.subscribed = p.subscribed /\ q.requested = p.requested
        /\ q.wire = p.wire /\ q.topic = p.topic
    BY <1>1, <1>2 DEF MqttProbes
  <1>4. \A x : Has(q.inbox, x) <=> Has(p.inbox, x) \/ x = e
    BY <1>1, <1>3, HasAppend
  <1> HIDE DEF q
  <1>5. Stages(q)
    BY <1>3, <1>4 DEF Stages, InSession
  <1>6. InSession(q) /\ q.id = p.id /\ q.pc = "mqtt"
    BY <1>3, <1>5 DEF InSession
  <1> QED BY <1>6 DEF q

LEMMA Connected ==
    ASSUME NEW p, InSession(p)
    PROVE  LET q == [[p EXCEPT !.inbox = Append(@, ConnAck)] EXCEPT !.open = TRUE] IN
           InSession(q) /\ q.id = p.id /\ q.pc = "mqtt"
  <1> DEFINE d == [p EXCEPT !.inbox = Append(p.inbox, ConnAck)]
             q == [d EXCEPT !.open = TRUE]
  <1>1. ConnAck \in Events /\ ConnAck # SubAck
    BY EventsDiffer DEF Events
  <1>2. InSession(d) /\ d.id = p.id /\ d.pc = "mqtt"
    BY <1>1, Delivered
  <1>3. p.inbox \in Seq(Events) /\ d.inbox = Append(p.inbox, ConnAck)
    BY DEF InSession, MqttProbes
  <1>4. Has(d.inbox, ConnAck)
    BY <1>1, <1>3, HasAppend
  <1> HIDE DEF d
  <1>5. /\ q \in MqttProbes /\ q.inbox = d.inbox /\ q.id = d.id /\ q.pc = "mqtt"
        /\ q.subscribed = d.subscribed /\ q.requested = d.requested
        /\ q.wire = d.wire /\ q.topic = d.topic
    BY <1>2 DEF InSession, MqttProbes
  <1> HIDE DEF q
  <1>6. Stages(q)
    BY <1>2, <1>4, <1>5 DEF Stages, InSession
  <1>7. InSession(q) /\ q.id = p.id /\ q.pc = "mqtt"
    BY <1>2, <1>5, <1>6 DEF InSession
  <1> QED BY <1>7 DEF q, d

LEMMA Subscribed ==
    ASSUME NEW p, InSession(p)
    PROVE  LET q == [[p EXCEPT !.inbox = Append(@, SubAck)]
                        EXCEPT !.topic = TRUE, !.wire = @ \ {"subscribe"}] IN
           InSession(q) /\ q.id = p.id /\ q.pc = "mqtt"
  <1> DEFINE d == [p EXCEPT !.inbox = Append(p.inbox, SubAck)]
             q == [d EXCEPT !.topic = TRUE, !.wire = d.wire \ {"subscribe"}]
  <1>1. p \in MqttProbes /\ p.inbox \in Seq(Events) /\ SubAck \in Events
    BY DEF InSession, MqttProbes, Events
  <1>2. Append(p.inbox, SubAck) \in Seq(Events)
    BY <1>1
  <1>3. d \in MqttProbes
    BY <1>1, <1>2 DEF MqttProbes
  <1>4. /\ d.inbox = Append(p.inbox, SubAck) /\ d.id = p.id /\ d.pc = "mqtt"
        /\ d.open = p.open /\ d.subscribed = p.subscribed /\ d.requested = p.requested
        /\ d.wire = p.wire
    BY <1>1 DEF MqttProbes
  <1>5. /\ q \in MqttProbes /\ q.inbox = Append(p.inbox, SubAck) /\ q.id = p.id
        /\ q.pc = "mqtt" /\ q.open = p.open /\ q.subscribed = p.subscribed
        /\ q.requested = p.requested /\ q.wire = p.wire \ {"subscribe"} /\ q.topic = TRUE
    BY <1>3, <1>4 DEF MqttProbes
  <1>6. \A x : Has(q.inbox, x) <=> Has(p.inbox, x) \/ x = SubAck
    BY <1>1, <1>5, HasAppend
  <1> HIDE DEF q, d
  <1>7. Stages(q)
    BY <1>5, <1>6 DEF Stages, InSession
  <1>8. InSession(q) /\ q.id = p.id /\ q.pc = "mqtt"
    BY <1>5, <1>7 DEF InSession
  <1> QED BY <1>8 DEF q, d

(* The answer to pushall, which is taken off the wire.                     *)
LEMMA AnsweredInFull ==
    ASSUME NEW p, InSession(p), NEW d,
           d = IF p.topic THEN [p EXCEPT !.inbox = Append(@, Full)] ELSE p
    PROVE  LET q == [d EXCEPT !.wire = @ \ {"pushall"}] IN
           InSession(q) /\ q.id = p.id /\ q.pc = "mqtt"
  <1> DEFINE q == [d EXCEPT !.wire = d.wire \ {"pushall"}]
  <1>1. p \in MqttProbes /\ p.inbox \in Seq(Events) /\ Full \in Events
    BY DEF InSession, MqttProbes, Events
  <1>2. InSession(d) /\ d.id = p.id /\ d.pc = "mqtt"
    <2>1. CASE p.topic
      <3>1. d = [p EXCEPT !.inbox = Append(@, Full)]
        BY <2>1
      <3> QED BY <1>1, <3>1, Delivered, EventsDiffer
    <2>2. CASE ~p.topic
      BY <1>1, <2>2 DEF MqttProbes
    <2> QED BY <2>1, <2>2
  <1>3. p.topic => Has(d.inbox, Full)
    <2>1. p.topic => d.inbox = Append(p.inbox, Full)
      BY <1>1 DEF MqttProbes
    <2> QED BY <1>1, <2>1, HasAppend
  <1>4. d.topic = p.topic /\ d.requested = p.requested
    BY <1>1 DEF MqttProbes
  <1>5. /\ q \in MqttProbes /\ q.inbox = d.inbox /\ q.id = d.id /\ q.pc = "mqtt"
        /\ q.open = d.open /\ q.subscribed = d.subscribed /\ q.requested = d.requested
        /\ q.wire = d.wire \ {"pushall"} /\ q.topic = d.topic
    BY <1>2 DEF InSession, MqttProbes
  <1> HIDE DEF q
  <1>6. Stages(q)
    BY <1>2, <1>3, <1>4, <1>5 DEF Stages, InSession
  <1>7. InSession(q) /\ q.id = p.id /\ q.pc = "mqtt"
    BY <1>2, <1>5, <1>6 DEF InSession
  <1> QED BY <1>7 DEF q

-------------------------------------------------------------------------------
(* A session reads an event.                                               *)

(* What poll makes of a session b, p once the event is off its inbox.      *)
LEMMA PollKeeps ==
    ASSUME NEW b, InSession(b), b.inbox # <<>>, NEW p, p = [b EXCEPT !.inbox = Tail(@)],
           NEW event, event = Head(b.inbox), NEW q,
           event = ConnAck => q = OnConnAck(p),
           event = SubAck => q = OnSubAck(p),
           event \notin {ConnAck, SubAck, {"closed"}} => q = OnReport(p, event)
    PROVE  Probe(q) /\ (q.pc = "mqtt" => q.id = b.id)
  <1>1. b \in MqttProbes /\ b.inbox \in Seq(Events) /\ b.inbox # <<>> /\ Stages(b)
    BY DEF InSession, MqttProbes
  <1>2. event \in Events /\ Tail(b.inbox) \in Seq(Events) /\ Has(b.inbox, event)
    BY <1>1, HasTail
  <1>4. /\ p \in MqttProbes /\ p.inbox = Tail(b.inbox) /\ p.id = b.id /\ p.pc = "mqtt"
        /\ p.want = b.want /\ p.open = b.open /\ p.subscribed = b.subscribed
        /\ p.requested = b.requested /\ p.wire = b.wire /\ p.topic = b.topic
    BY <1>1, <1>2 DEF MqttProbes
  <1>3. /\ Has(p.inbox, SubAck) => Has(b.inbox, SubAck)
        /\ Has(b.inbox, ConnAck) => event = ConnAck \/ Has(p.inbox, ConnAck)
        /\ Has(b.inbox, SubAck) => event = SubAck \/ Has(p.inbox, SubAck)
        /\ Has(b.inbox, Full) => event = Full \/ Has(p.inbox, Full)
    BY <1>1, <1>4, HasTail
  <1>5. event # {"closed"}
    BY <1>2, EventsDiffer DEF Events
  <1>9. /\ p.open /\ ~p.subscribed => event = ConnAck \/ Has(p.inbox, ConnAck)
        /\ p.subscribed /\ ~p.requested =>
              "subscribe" \in p.wire \/ event = SubAck \/ Has(p.inbox, SubAck)
        /\ p.requested => "pushall" \in p.wire \/ event = Full \/ Has(p.inbox, Full)
        /\ p.requested \/ event = SubAck \/ Has(p.inbox, SubAck) => p.topic
    BY <1>1, <1>2, <1>3, <1>4, Zenon DEF Stages
  <1>10. "subscribe" # "pushall"
    OBVIOUS
  <1>6. CASE event = ConnAck
    <2>1. q = OnConnAck(p) /\ event # SubAck /\ event # Full
      BY <1>6, EventsDiffer
    <2>2. CASE p.subscribed
      <3>1. q = p
        BY <2>1, <2>2 DEF OnConnAck
      <3>2. Stages(p)
        BY <1>9, <2>1, <2>2, Zenon DEF Stages
      <3> QED BY <1>4, <3>1, <3>2 DEF Probe, InSession
    <2>3. CASE ~p.subscribed
      <3>1. q = [p EXCEPT !.subscribed = TRUE, !.wire = p.wire \cup {"subscribe"}]
        BY <2>1, <2>3 DEF OnConnAck
      <3>2. p.wire \cup {"subscribe"} \in SUBSET {"subscribe", "pushall"}
        BY <1>4 DEF MqttProbes
      <3>3. q \in MqttProbes
        BY <1>4, <3>1, <3>2 DEF MqttProbes
      <3>4. /\ q.inbox = p.inbox /\ q.id = p.id /\ q.subscribed = TRUE
            /\ q.requested = p.requested /\ q.topic = p.topic
            /\ q.wire = p.wire \cup {"subscribe"}
        BY <1>4, <3>1 DEF MqttProbes
      <3>5. /\ "subscribe" \in q.wire
            /\ "pushall" \in p.wire => "pushall" \in q.wire
        BY <3>4
      <3>6. Stages(q)
        BY <1>9, <2>1, <3>4, <3>5, Zenon DEF Stages
      <3> QED BY <1>4, <3>3, <3>4, <3>6 DEF Probe, InSession
    <2> QED BY <2>2, <2>3
  <1>7. CASE event = SubAck
    <2>1. q = OnSubAck(p) /\ event # ConnAck /\ event # Full /\ p.topic
      BY <1>7, <1>9, EventsDiffer
    <2>2. CASE p.requested
      <3>1. q = p
        BY <2>1, <2>2 DEF OnSubAck
      <3>2. Stages(p)
        BY <1>9, <2>1, <2>2, Zenon DEF Stages
      <3> QED BY <1>4, <3>1, <3>2 DEF Probe, InSession
    <2>3. CASE ~p.requested
      <3>1. q = [p EXCEPT !.requested = TRUE, !.wire = p.wire \cup {"pushall"}]
        BY <2>1, <2>3 DEF OnSubAck
      <3>2. p.wire \cup {"pushall"} \in SUBSET {"subscribe", "pushall"}
        BY <1>4 DEF MqttProbes
      <3>3. q \in MqttProbes
        BY <1>4, <3>1, <3>2 DEF MqttProbes
      <3>4. /\ q.inbox = p.inbox /\ q.id = p.id /\ q.requested = TRUE /\ q.open = p.open
            /\ q.subscribed = p.subscribed /\ q.topic = p.topic
            /\ q.wire = p.wire \cup {"pushall"}
        BY <1>4, <3>1 DEF MqttProbes
      <3>5. "pushall" \in q.wire
        BY <3>4
      <3>6. Stages(q)
        BY <1>9, <2>1, <3>4, <3>5, Zenon DEF Stages
      <3> QED BY <1>4, <3>3, <3>4, <3>6 DEF Probe, InSession
    <2> QED BY <2>2, <2>3
  <1>8. CASE event # ConnAck /\ event # SubAck
    <2>0. q = OnReport(p, event)
      BY <1>5, <1>8
    <2>1. CASE Wanted(p.want) \in event
      <3>1. q = [pc |-> "shown", result |-> p.want, struck |-> FALSE]
        BY <2>0, <2>1 DEF OnReport, Shown
      <3>2. p.want \in Wants /\ p.want # "offline" /\ p.want # "failed"
        BY <1>4 DEF MqttProbes, Wants
      <3>3. q \in Answers /\ q.result = p.want /\ q.pc = "shown"
        BY <3>1, <3>2 DEF Answers
      <3>4. Answered(q)
        BY <3>2, <3>3 DEF Answered
      <3> QED BY <3>3, <3>4 DEF Probe
    <2>2. CASE Wanted(p.want) \notin event
      <3>1. q = p
        BY <2>0, <2>2 DEF OnReport
      <3>2. event # Full
        BY <2>2 DEF Wanted, Full
      <3>3. Stages(p)
        BY <1>9, <1>8, <3>2, Zenon DEF Stages
      <3> QED BY <1>4, <3>1, <3>3 DEF Probe, InSession
    <2> QED BY <2>1, <2>2
  <1> QED BY <1>6, <1>7, <1>8

-------------------------------------------------------------------------------
(* Steps.                                                                  *)

LEMMA MqttIs == IInv => \A r \in Mqtt : r \in Requests /\ InSession(probes[r])
  BY ProbeKinds DEF IInv, Mqtt

(* Probes go on, and none begins: ids stay apart.                          *)
LEMMA ProbesGoOn ==
    ASSUME IInv, sequence' = sequence, probes' = [r \in Requests |-> probes'[r]],
           \A r \in Requests :
              /\ Probe(probes'[r])
              /\ probes'[r].pc = "mqtt" => r \in Mqtt /\ probes'[r].id = probes[r].id
    PROVE  IInv'
  BY DEF IInv, IdsDiffer, Mqtt

(* One probe goes on.                                                      *)
LEMMA ProbeGoesOn ==
    ASSUME IInv, sequence' = sequence, NEW r \in Requests, NEW q, Probe(q),
           probes' = [probes EXCEPT ![r] = q],
           q.pc = "mqtt" => r \in Mqtt /\ q.id = probes[r].id
    PROVE  IInv'
  <1>1. probes' = [o \in Requests |-> probes'[o]] /\ probes'[r] = q
        /\ \A o \in Requests \ {r} : probes'[o] = probes[o]
    BY DEF IInv
  <1>2. \A o \in Requests : Probe(probes[o])
    BY DEF IInv
  <1> QED BY <1>1, <1>2, ProbesGoOn DEF Mqtt

LEMMA BeginStep ==
    ASSUME IInv, NEW r \in Requests, NEW want \in Wants, NEW kind, Begin(r, want, kind)
    PROVE  IInv'
  <1>1. CASE kind # "bambu"
    <2> DEFINE q == [pc |-> "http", want |-> want, pending |-> Calls(kind),
                     lost |-> {}, struck |-> FALSE]
    <2>1. probes' = [probes EXCEPT ![r] = q] /\ sequence' = sequence
      BY <1>1 DEF Begin
    <2>2. Calls(kind) \in SUBSET {"status", "job"}
      BY DEF Calls
    <2>3. Calling(q) /\ q.pc # "mqtt"
      BY <2>2 DEF Calling, HttpProbes
    <2> HIDE DEF q
    <2> QED BY <2>1, <2>3, ProbeGoesOn DEF Probe
  <1>2. CASE kind = "bambu"
    <2> DEFINE q == Session(want)
    <2>1. probes' = [probes EXCEPT ![r] = q] /\ sequence' = sequence + 1 /\ probes[r] = Idle
      BY <1>2 DEF Begin
    <2>2. sequence \in Nat
      BY DEF IInv
    <2> DEFINE trays == (want = "trays")
    <2>10. trays \in BOOLEAN /\ q.id = <<trays, sequence>>
      BY DEF Session, ClientId
    <2>11. q = [pc |-> "mqtt", want |-> want, id |-> q.id, open |-> FALSE, subscribed |-> FALSE,
               requested |-> FALSE, wire |-> {}, topic |-> FALSE, inbox |-> <<>>]
      BY DEF Session
    <2> HIDE DEF q, trays
    <2>12. q.id \in BOOLEAN \X Nat /\ q.id[2] = sequence
      BY <2>2, <2>10
    <2>13. <<>> \in Seq(Events)
      OBVIOUS
    <2>14. q \in MqttProbes
      <3>1. ASSUME NEW id \in BOOLEAN \X Nat
            PROVE  [pc |-> "mqtt", want |-> want, id |-> id, open |-> FALSE, subscribed |-> FALSE,
                    requested |-> FALSE, wire |-> {}, topic |-> FALSE, inbox |-> <<>>]
                     \in MqttProbes
        BY <2>13 DEF MqttProbes
      <3> QED BY <2>11, <2>12, <3>1, Zenon
    <2>3. /\ ~q.open /\ ~q.subscribed /\ ~q.requested /\ q.inbox = <<>>
          /\ q.id[2] = sequence /\ q.pc = "mqtt"
      <3>1. q.open = FALSE /\ q.subscribed = FALSE /\ q.requested = FALSE
        BY <2>11
      <3>2. q.inbox = <<>> /\ q.pc = "mqtt"
        BY <2>11
      <3> QED BY <2>12, <3>1, <3>2
    <2>4. Probe(q)
      BY <2>14, <2>3, EmptyHasNone DEF Probe, InSession, Stages
    <2>5. probes' = [o \in Requests |-> probes'[o]] /\ probes'[r] = q
          /\ \A o \in Requests \ {r} : probes'[o] = probes[o]
      BY <2>1 DEF IInv
    <2>6. \A o \in Mqtt : probes[o].id[2] \in Nat
      BY MqttIs DEF InSession, MqttProbes
    <2>7. IdsDiffer'
      BY <2>1, <2>2, <2>3, <2>5, <2>6 DEF IInv, IdsDiffer, Mqtt
    <2>8. \A o \in Requests : Probe(probes'[o])
      BY <2>4, <2>5 DEF IInv
    <2> QED BY <2>1, <2>2, <2>5, <2>7, <2>8 DEF IInv
  <1> QED BY <1>1, <1>2

(* No other session has this one's id: nobody is cut off.                  *)
LEMMA ConnectStep == ASSUME IInv, NEW r \in Requests, Connect(r) PROVE IInv'
  <1> DEFINE q == [[probes[r] EXCEPT !.inbox = Append(@, ConnAck)] EXCEPT !.open = TRUE]
  <1>1. r \in Mqtt /\ sequence' = sequence
    BY DEF Connect
  <1>2. {o \in Mqtt \ {r} : probes[o].open /\ probes[o].id = probes[r].id} = {}
    BY <1>1 DEF IInv, IdsDiffer
  <1>3. probes' = [o \in Requests |-> IF o = r THEN q ELSE probes[o]]
    BY <1>2 DEF Connect, Deliver, ConnAck
  <1>4. probes' = [probes EXCEPT ![r] = q]
    BY <1>3 DEF IInv
  <1>5. InSession(q) /\ q.id = probes[r].id
    BY <1>1, MqttIs, Connected
  <1> HIDE DEF q
  <1> QED BY <1>1, <1>4, <1>5, ProbeGoesOn DEF Probe

LEMMA SubscribeStep == ASSUME IInv, NEW r \in Requests, Subscribe(r) PROVE IInv'
  <1> DEFINE q == [[probes[r] EXCEPT !.inbox = Append(@, SubAck)]
                      EXCEPT !.topic = TRUE, !.wire = @ \ {"subscribe"}]
  <1>1. r \in Mqtt /\ sequence' = sequence /\ probes' = [probes EXCEPT ![r] = q]
    BY DEF Subscribe, Deliver, SubAck
  <1>2. InSession(q) /\ q.id = probes[r].id
    BY <1>1, MqttIs, Subscribed
  <1> HIDE DEF q
  <1> QED BY <1>1, <1>2, ProbeGoesOn DEF Probe

(* A report reaches every session that listens, and no other probe.        *)
LEMMA PublishedTo ==
    ASSUME IInv, NEW report \in Changes \cup {Full}, NEW o \in Requests
    PROVE  /\ Probe(Published(report)[o])
           /\ Published(report)[o].pc = "mqtt" =>
                 o \in Mqtt /\ Published(report)[o].id = probes[o].id
           /\ o \in Mqtt => Published(report)[o] =
                 IF probes[o].topic THEN [probes[o] EXCEPT !.inbox = Append(@, report)]
                 ELSE probes[o]
  <1>1. report \in Events /\ report # SubAck
    BY EventsDiffer DEF Events
  <1>2. CASE o \in Subscribers
    <2>1. Published(report)[o] = [probes[o] EXCEPT !.inbox = Append(@, report)]
      BY <1>2 DEF Published, Deliver
    <2>2. o \in Mqtt /\ InSession(probes[o]) /\ probes[o].topic
      BY <1>2, MqttIs DEF Subscribers
    <2>3. /\ InSession([probes[o] EXCEPT !.inbox = Append(@, report)])
          /\ [probes[o] EXCEPT !.inbox = Append(@, report)].id = probes[o].id
      BY <1>1, <2>2, Delivered
    <2> QED BY <2>1, <2>2, <2>3 DEF Probe
  <1>3. CASE o \notin Subscribers
    <2>1. Published(report)[o] = probes[o]
      BY <1>3 DEF Published
    <2> QED BY <1>3, <2>1 DEF IInv, Subscribers, Mqtt
  <1> QED BY <1>2, <1>3

LEMMA PushAllStep == ASSUME IInv, NEW r \in Requests, PushAll(r) PROVE IInv'
  <1> DEFINE d == Published(Full)[r]
             q == [d EXCEPT !.wire = @ \ {"pushall"}]
  <1>1. /\ r \in Mqtt /\ sequence' = sequence
        /\ probes' = [Published(Full) EXCEPT ![r] = q]
    BY DEF PushAll, Full
  <1>2. \A o \in Requests :
           /\ Probe(Published(Full)[o])
           /\ Published(Full)[o].pc = "mqtt" =>
                 o \in Mqtt /\ Published(Full)[o].id = probes[o].id
    BY PublishedTo
  <1>3. d = IF probes[r].topic THEN [probes[r] EXCEPT !.inbox = Append(@, Full)] ELSE probes[r]
    BY <1>1, PublishedTo
  <1>4. InSession(q) /\ q.id = probes[r].id
    BY <1>1, <1>3, MqttIs, AnsweredInFull
  <1> HIDE DEF q, d
  <1>5. /\ probes' = [o \in Requests |-> probes'[o]] /\ probes'[r] = q
        /\ \A o \in Requests \ {r} : probes'[o] = Published(Full)[o]
    BY <1>1 DEF Published
  <1> QED BY <1>1, <1>2, <1>4, <1>5, ProbesGoOn DEF Probe

LEMMA PushChangeStep ==
    ASSUME IInv, NEW sections \in Changes, PushChange(sections)
    PROVE  IInv'
  <1>1. probes' = Published(sections) /\ sequence' = sequence
    BY DEF PushChange
  <1>2. \A o \in Requests :
           /\ Probe(Published(sections)[o])
           /\ Published(sections)[o].pc = "mqtt" =>
                 o \in Mqtt /\ Published(sections)[o].id = probes[o].id
    BY PublishedTo
  <1>3. probes' = [o \in Requests |-> probes'[o]]
    BY <1>1 DEF Published
  <1> QED BY <1>1, <1>2, <1>3, ProbesGoOn

LEMMA PollStep == ASSUME IInv, NEW r \in Requests, Poll(r) PROVE IInv'
  <1> DEFINE p == [probes[r] EXCEPT !.inbox = Tail(@)]
             event == Head(probes[r].inbox)
             q == CASE event = ConnAck    -> OnConnAck(p)
                    [] event = SubAck     -> OnSubAck(p)
                    [] event = {"closed"} -> Failed(r, FALSE)
                    [] OTHER              -> OnReport(p, event)
  <1>1. /\ r \in Mqtt /\ probes[r].inbox # <<>> /\ sequence' = sequence
        /\ probes' = [probes EXCEPT ![r] = q]
    BY DEF Poll, ConnAck, SubAck
  <1>2. InSession(probes[r])
    BY <1>1, MqttIs
  <1>3. p = [probes[r] EXCEPT !.inbox = Tail(@)] /\ event = Head(probes[r].inbox)
    OBVIOUS
  <1> HIDE DEF p, event
  <1>4. /\ event = ConnAck => q = OnConnAck(p)
        /\ event = SubAck => q = OnSubAck(p)
        /\ event \notin {ConnAck, SubAck, {"closed"}} => q = OnReport(p, event)
    BY EventsDiffer
  <1> HIDE DEF q
  <1>5. Probe(q) /\ (q.pc = "mqtt" => q.id = probes[r].id)
    <2>1. probes[r].inbox # <<>>
      BY <1>1
    <2> DEFINE b == probes[r]
    <2>2. InSession(b) /\ b.inbox # <<>> /\ p = [b EXCEPT !.inbox = Tail(@)] /\ event = Head(b.inbox)
      BY <1>2, <1>3, <2>1
    <2> HIDE DEF b
    <2>3. Probe(q) /\ (q.pc = "mqtt" => q.id = b.id)
      BY <1>4, <2>2, PollKeeps
    <2> QED BY <2>3 DEF b
  <1> QED BY <1>1, <1>5, ProbeGoesOn

(* The answers of HTTP, each once, the deadline's among them.              *)
LEMMA SettleStep ==
    ASSUME IInv, NEW r \in Requests, NEW call \in {"status", "job"},
           NEW missing \in SUBSET {"status", "job", "state"}, NEW struck \in BOOLEAN,
           Settle(r, call, missing, struck),
           "status" \in missing \/ "state" \in missing => struck
    PROVE  IInv'
  <1> DEFINE b == probes[r]
             q == [b EXCEPT !.pending = b.pending \ {call},
                            !.lost = b.lost \cup missing,
                            !.struck = b.struck \/ struck]
  <1>1. r \in Http /\ sequence' = sequence
    BY DEF Settle
  <1>2. Calling(b)
    BY <1>1, ProbeKinds DEF IInv, Http
  <1>3. probes' = [probes EXCEPT ![r] = q]
    BY <1>1, <1>2 DEF Settle, IInv, Calling, HttpProbes
  <1>4. /\ q \in HttpProbes /\ q.pc = "http"
        /\ q.lost = b.lost \cup missing
        /\ q.struck = (b.struck \/ struck)
    BY <1>2 DEF Calling, HttpProbes
  <1>5. "status" \in q.lost \/ "state" \in q.lost => q.struck
    BY <1>2, <1>4 DEF Calling
  <1> HIDE DEF q
  <1> QED BY <1>1, <1>3, <1>4, <1>5, ProbeGoesOn DEF Probe, Calling

LEMMA JoinStep == ASSUME IInv, NEW r \in Requests, Join(r) PROVE IInv'
  <1> DEFINE b == probes[r]
             q == IF ~Decided(b.lost) THEN Failed(r, b.struck)
                  ELSE Shown(IF "state" \in b.lost THEN "offline" ELSE b.want, b.struck)
  <1>1. r \in Http /\ sequence' = sequence /\ probes' = [probes EXCEPT ![r] = q]
    BY DEF Join
  <1>2. Calling(b)
    BY <1>1, ProbeKinds DEF IInv, Http
  <1>3. b.want \in {"status", "trays", "test"} /\ b.struck \in BOOLEAN
    BY <1>2 DEF Calling, HttpProbes, Wants
  <1>4. Answered(q) /\ q.pc = "shown"
    <2>1. CASE Decided(b.lost)
      BY <1>2, <1>3, <2>1 DEF Calling, Answered, Answers, Shown, Wants
    <2>2. CASE ~Decided(b.lost)
      <3>1. b.struck
        BY <1>2, <2>2 DEF Decided, Calling
      <3> QED BY <1>3, <2>2, <3>1 DEF Answered, Answers, Shown, Failed, Failure, Wants
    <2> QED BY <2>1, <2>2
  <1> HIDE DEF q
  <1> QED BY <1>1, <1>4, ProbeGoesOn DEF Probe

-------------------------------------------------------------------------------

LEMMA IInvAlways == Spec => []IInv
  <1>1. Init => IInv
    BY DEF Init, IInv, IdsDiffer, Mqtt, Probe, Idle
  <1>2. IInv /\ [Next]_vars => IInv'
    <2> SUFFICES ASSUME IInv, [Next]_vars
                 PROVE  IInv'
      OBVIOUS
    <2>1. ASSUME NEW r \in Requests, Break(r) \/ Deadline(r)
          PROVE  IInv'
      <3> DEFINE q == Shown(Failure(probes[r].want), TRUE)
      <3>1. probes' = [probes EXCEPT ![r] = q] /\ sequence' = sequence
        BY <2>1 DEF Break, Deadline, Failed
      <3>2. Probe(q) /\ q.pc = "shown"
        BY FailureIsAnswer
      <3> HIDE DEF q
      <3> QED BY <3>1, <3>2, ProbeGoesOn
    <2>2. ASSUME NEW r \in Requests, NEW call \in {"status", "job"},
                 Respond(r, call) \/ TimeOut(r, call) \/ NoJob(r) \/ RespondUnknown(r)
          PROVE  IInv'
      BY <2>2, SettleStep DEF Respond, TimeOut, NoJob, RespondUnknown
    <2>3. ASSUME NEW r \in Requests, Leave(r)
          PROVE  IInv'
      <3>1. probes' = [probes EXCEPT ![r] = Idle] /\ sequence' = sequence
        BY <2>3 DEF Leave
      <3>2. Probe(Idle) /\ Idle.pc = "idle"
        BY DEF Probe, Idle
      <3> QED BY <3>1, <3>2, ProbeGoesOn
    <2>4. CASE UNCHANGED <<sequence, probes>>
      BY <2>4 DEF IInv, IdsDiffer, Mqtt
    <2> QED BY <2>1, <2>2, <2>3, <2>4, BeginStep, ConnectStep, SubscribeStep, PushAllStep,
               PollStep, JoinStep, PushChangeStep DEF Next, SaveLink, vars
  <1> QED BY <1>1, <1>2, PTL DEF Spec

(* Cards, tests and synchronizations of one printer at once never cut each *)
(* other off, for each session has an id of its own; and the absence of a  *)
(* job is not taken for a fault (probe, machine_bambu.rs; machine_http.rs).*)
THEOREM OnlyTheStruckFail == Spec => []FailsOnlyWhenStruck
  <1>1. IInv => FailsOnlyWhenStruck
    BY ProbeKinds DEF IInv, FailsOnlyWhenStruck, Answered
  <1> QED BY <1>1, IInvAlways, PTL

(* An open session has always something on its way: it asks for the report *)
(* after it has been acknowledged as listening, and so it cannot miss the  *)
(* answer (session and ams_session, machine_bambu.rs).                     *)
THEOREM SessionsGoOn == Spec => []NeverStuck
  <1>1. IInv => NeverStuck
    <2> SUFFICES ASSUME IInv, NEW r \in Mqtt, probes[r].open, probes[r].inbox = <<>>,
                        probes[r].wire = {}
                 PROVE  FALSE
      BY DEF NeverStuck
    <2>1. InSession(probes[r])
      BY MqttIs
    <2>2. \A x : ~Has(probes[r].inbox, x)
      BY EmptyHasNone
    <2>3. ~probes[r].requested /\ ~(probes[r].subscribed /\ ~probes[r].requested)
      BY <2>1, <2>2 DEF InSession, Stages
    <2>4. probes[r].subscribed \in BOOLEAN /\ probes[r].requested \in BOOLEAN
      BY <2>1 DEF InSession, MqttProbes
    <2> QED BY <2>1, <2>2, <2>3, <2>4 DEF InSession, Stages
  <1> QED BY <1>1, IInvAlways, PTL
===============================================================================
