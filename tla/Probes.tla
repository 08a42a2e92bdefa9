--------------------------------- MODULE Probes ---------------------------------
(***************************************************************************)
(* Asking a machine how it is: the status card polled every ten seconds,   *)
(* the AMS synchronization and the connection test                         *)
(* (crates/domain/src/printers/machine.rs), over MQTT                      *)
(* (crates/app/src/machine_bambu.rs) or HTTP (machine_http.rs).            *)
(*                                                                         *)
(* An MQTT probe is a short session of its own with the broker inside the  *)
(* printer: connect, subscribe to the report topic, ask for a full report  *)
(* once the subscription is acknowledged, take the first report that names *)
(* what is wanted.  The topic is shared: every session subscribed to it    *)
(* gets the reports any of them asked for, and the changes the printer     *)
(* pushes by itself.  The broker and the machine are external: packets     *)
(* reach them when they reach them, and a client id connected twice leaves *)
(* the first connection closed.  The sessions are those of one server      *)
(* process; the ids of another begin with its process id.                  *)
(***************************************************************************)
EXTENDS Naturals, Sequences

CONSTANTS
    Requests,      \* requests being handled at a time
    NoLink,        \* the printer has no machine link
    MaxSessions,   \* bound: MQTT sessions in all
    MaxInbox       \* bound: events a session may have left unread

Kinds == {"bambu", "prusalink", "moonraker"}
Wants == {"status", "trays", "test"}

VARIABLES
    link,       \* kind of the stored machine link
    sequence,   \* CLIENT_SEQUENCE
    probes      \* what each request is doing

vars == <<link, sequence, probes>>

Idle == [pc |-> "idle"]

Mqtt == {r \in Requests : probes[r].pc = "mqtt"}
Http == {r \in Requests : probes[r].pc = "http"}

Init ==
    /\ link \in Kinds \cup {NoLink}
    /\ sequence = 1
    /\ probes = [r \in Requests |-> Idle]

-------------------------------------------------------------------------------
(* The end of a probe: what the page shows, and whether a fault, the       *)
(* deadline or an answer nobody understands struck (history).  A status    *)
(* card hides a failure behind Offline; the test and the synchronization   *)
(* report it.                                                              *)

Failure(want) == IF want = "status" THEN "offline" ELSE "failed"

Shown(result, struck) == [pc |-> "shown", result |-> result, struck |-> struck]
Failed(r, struck) == Shown(Failure(probes[r].want), struck)

-------------------------------------------------------------------------------
(* The use cases.  A card or a synchronization finds the stored link; a    *)
(* test takes the link of the form, or the stored one when the form says   *)
(* its key is configured, whatever the brand of the form.                  *)
Targets(want) == IF want = "test" THEN Kinds ELSE {link}

(* Variant: one client id for the process.                                 *)
ClientIdOfProcess(want) == <<want = "trays", 0>>

ClientId(want) == <<want = "trays", sequence>>

Session(want) ==
    [pc |-> "mqtt", want |-> want, id |-> ClientId(want), open |-> FALSE,
     subscribed |-> FALSE, requested |-> FALSE, wire |-> {}, topic |-> FALSE, inbox |-> <<>>]

(* PrusaLink is asked two things at once, Moonraker one.                   *)
Calls(kind) == IF kind = "prusalink" THEN {"status", "job"} ELSE {"status"}

(* Without a link there is nothing to ask, and trays are a Bambu's only.   *)
Begin(r, want, kind) ==
    /\ probes[r] = Idle
    /\ kind \in Targets(want) \ {NoLink}
    /\ want = "trays" => kind = "bambu"
    /\ IF kind = "bambu"
       THEN /\ sequence <= MaxSessions
            /\ sequence' = sequence + 1
            /\ probes' = [probes EXCEPT ![r] = Session(want)]
       ELSE /\ UNCHANGED sequence
            /\ probes' = [probes EXCEPT ![r] =
                   [pc |-> "http", want |-> want, pending |-> Calls(kind),
                    lost |-> {}, struck |-> FALSE]]
    /\ UNCHANGED link

(* The printer's form is saved meanwhile: the probe goes on with the link  *)
(* it has read.                                                            *)
SaveLink(kind) ==
    /\ kind # link
    /\ link' = kind
    /\ UNCHANGED <<sequence, probes>>

-------------------------------------------------------------------------------
(* MQTT: what the broker and the machine do.  An event is the set of the   *)
(* sections a report names, or of the one word of an acknowledgement.      *)

Deliver(r, event) == [probes[r] EXCEPT !.inbox = Append(@, event)]

Room(r) == Len(probes[r].inbox) < MaxInbox

(* CONNECT: whoever had this client id is cut off.                         *)
Connect(r) ==
    LET rivals == {o \in Mqtt \ {r} : probes[o].open /\ probes[o].id = probes[r].id} IN
    /\ r \in Mqtt /\ ~probes[r].open /\ probes[r].inbox = <<>>
    /\ probes' = [o \in Requests |->
           IF o = r THEN [Deliver(r, {"ConnAck"}) EXCEPT !.open = TRUE]
           ELSE IF o \in rivals THEN [probes[o] EXCEPT !.open = FALSE, !.topic = FALSE,
                                                       !.inbox = <<{"closed"}>>]
           ELSE probes[o]]
    /\ UNCHANGED <<link, sequence>>

Subscribe(r) ==
    /\ r \in Mqtt /\ "subscribe" \in probes[r].wire /\ Room(r)
    /\ probes' = [probes EXCEPT ![r] = [Deliver(r, {"SubAck"}) EXCEPT
                      !.topic = TRUE, !.wire = @ \ {"subscribe"}]]
    /\ UNCHANGED <<link, sequence>>

Subscribers == {r \in Mqtt : probes[r].topic}

Published(report) ==
    [r \in Requests |-> IF r \in Subscribers THEN Deliver(r, report) ELSE probes[r]]

(* pushall is answered with everything, to all who listen.                 *)
PushAll(r) ==
    /\ r \in Mqtt /\ "pushall" \in probes[r].wire
    /\ \A s \in Subscribers : Room(s)
    /\ probes' = [Published({"state", "ams"}) EXCEPT ![r].wire = @ \ {"pushall"}]
    /\ UNCHANGED <<link, sequence>>

(* A push of what changed.                                                 *)
PushChange(sections) ==
    /\ Subscribers # {} /\ \A s \in Subscribers : Room(s)
    /\ probes' = Published(sections)
    /\ UNCHANGED <<link, sequence>>

-------------------------------------------------------------------------------
(* MQTT: the session's loop, one event at a time.                          *)

(* The section parse_complete_report or parse_ams_report looks for.        *)
Wanted(want) == IF want = "trays" THEN "ams" ELSE "state"

(* Variant: the request goes out with the subscription.                    *)
OnConnAckAtOnce(p) ==
    IF p.subscribed THEN p
    ELSE [p EXCEPT !.subscribed = TRUE, !.requested = TRUE,
                   !.wire = @ \cup {"subscribe", "pushall"}]

OnConnAck(p) ==
    IF p.subscribed THEN p
    ELSE [p EXCEPT !.subscribed = TRUE, !.wire = @ \cup {"subscribe"}]

OnSubAck(p) ==
    IF p.requested THEN p
    ELSE [p EXCEPT !.requested = TRUE, !.wire = @ \cup {"pushall"}]

(* A report that names what is wanted ends the session, others are passed  *)
(* over.                                                                   *)
OnReport(p, sections) ==
    IF Wanted(p.want) \in sections THEN Shown(p.want, FALSE) ELSE p

Poll(r) ==
    LET p == [probes[r] EXCEPT !.inbox = Tail(@)]
        event == Head(probes[r].inbox) IN
    /\ r \in Mqtt /\ probes[r].inbox # <<>>
    /\ probes' = [probes EXCEPT ![r] =
           CASE event = {"ConnAck"} -> OnConnAck(p)
             [] event = {"SubAck"}  -> OnSubAck(p)
             [] event = {"closed"}  -> Failed(r, FALSE)
             [] OTHER               -> OnReport(p, event)]
    /\ UNCHANGED <<link, sequence>>

(* Unplugged, a wrong access code, a report that is no JSON: poll or the   *)
(* parser returns an error.                                                *)
Break(r) ==
    /\ r \in Mqtt
    /\ probes' = [probes EXCEPT ![r] = Failed(r, TRUE)]
    /\ UNCHANGED <<link, sequence>>

(* Variant: the deadline covers the connection only.                       *)
DeadlineOfConnect(r) ==
    /\ r \in Mqtt /\ ~probes[r].open
    /\ probes' = [probes EXCEPT ![r] = Failed(r, TRUE)]
    /\ UNCHANGED <<link, sequence>>

(* PROBE_TIMEOUT, over the whole session.                                  *)
Deadline(r) ==
    /\ r \in Mqtt
    /\ probes' = [probes EXCEPT ![r] = Failed(r, TRUE)]
    /\ UNCHANGED <<link, sequence>>

-------------------------------------------------------------------------------
(* HTTP: each call is answered, fails or meets the client's timeout; when  *)
(* all have, the status decides and a missing job is no matter (PrusaLink  *)
(* has none to show when nothing is printed).                              *)

Settle(r, call, missing, struck) ==
    /\ r \in Http /\ call \in probes[r].pending
    /\ probes' = [probes EXCEPT ![r].pending = @ \ {call},
                                ![r].lost = @ \cup missing,
                                ![r].struck = @ \/ struck]
    /\ UNCHANGED <<link, sequence>>

Respond(r, call) == Settle(r, call, {}, FALSE)
NoJob(r) == Settle(r, "job", {"job"}, FALSE)
TimeOut(r, call) == Settle(r, call, {call}, TRUE)

(* parse_state: an answer that names no state, or none that is known.      *)
RespondUnknown(r) == Settle(r, "status", {"state"}, TRUE)

Decided(lost) == "status" \notin lost

(* Without a known state the machine is Offline, to a test as well: it is  *)
(* answered and does not fail.                                             *)
Join(r) ==
    LET p == probes[r] IN
    /\ r \in Http /\ p.pending = {}
    /\ probes' = [probes EXCEPT ![r] =
           IF ~Decided(p.lost) THEN Failed(r, p.struck)
           ELSE Shown(IF "state" \in p.lost THEN "offline" ELSE p.want, p.struck)]
    /\ UNCHANGED <<link, sequence>>

-------------------------------------------------------------------------------
(* The page is left, before or after the answer: the probe goes with it.   *)
Leave(r) ==
    /\ probes[r] # Idle
    /\ probes' = [probes EXCEPT ![r] = Idle]
    /\ UNCHANGED <<link, sequence>>

Changes == {{"state"}, {"ams"}}

Next ==
    \/ \E r \in Requests :
          \/ \E want \in Wants, kind \in Kinds \cup {NoLink} : Begin(r, want, kind)
          \/ Connect(r) \/ Subscribe(r) \/ PushAll(r)
          \/ Poll(r) \/ Break(r) \/ Deadline(r)
          \/ \E call \in {"status", "job"} : Respond(r, call) \/ TimeOut(r, call)
          \/ RespondUnknown(r) \/ NoJob(r) \/ Join(r) \/ Leave(r)
    \/ \E sections \in Changes : PushChange(sections)
    \/ \E kind \in Kinds \cup {NoLink} : SaveLink(kind)

Spec == Init /\ [][Next]_vars

(* The runtime polls what it can and fires its timers; the machine, the    *)
(* broker and the network owe nothing.                                     *)
FairSpec ==
    Spec /\ \A r \in Requests :
        /\ WF_vars(Poll(r)) /\ WF_vars(Deadline(r)) /\ WF_vars(Join(r))
        /\ \A call \in {"status", "job"} : WF_vars(TimeOut(r, call))

-------------------------------------------------------------------------------

(* Every probe comes to an end, whatever the machine does or stops doing   *)
(* (docs/specs/22a: the page never blocks on a machine that is off).       *)
ProbesEnd == \A r \in Requests : probes[r].pc \in {"mqtt", "http"} ~> probes[r].pc \in {"shown", "idle"}

(* A card shows Offline, a test or a synchronization fails, only when the  *)
(* machine, the network or the clock struck this very probe, be it by an   *)
(* answer without a known state: cards, tests and synchronizations of one  *)
(* printer at once do not cut each other off, and a printer with nothing to*)
(* print is not offline.                                                   *)
FailsOnlyWhenStruck ==
    \A r \in Requests :
        probes[r].pc = "shown" /\ probes[r].result \in {"offline", "failed"} => probes[r].struck

(* The deadline is for faults only: a session always has something on its  *)
(* way, to the machine or back.  The request is never answered before its  *)
(* session listens.                                                        *)
NeverStuck ==
    \A r \in Mqtt :
        ~probes[r].open \/ probes[r].inbox # <<>> \/ probes[r].wire # {}
===============================================================================
