-------------------------------- MODULE Service --------------------------------
(***************************************************************************)
(* The life of the server process: its boot (crates/app/src/main.rs), the  *)
(* credentials key it boots with and the machine links it meets in the     *)
(* database (credentials.rs, persistence/machine_links.rs,                 *)
(* persistence/printers.rs write_link), and the gate every request goes    *)
(* through while it serves (web/auth.rs).  A boot draws a session token of *)
(* its own; a browser keeps one cookie and may have several requests in    *)
(* flight.  Processes crash and are restarted, two may share the database; *)
(* the operator changes the environment only while none runs.              *)
(***************************************************************************)
EXTENDS Naturals, Sequences

CONSTANTS
    Instances,    \* server processes over one database
    Keys,         \* values of FILATURE_CREDENTIALS_KEY that decode to 32 bytes
    NoKey,        \* the variable is not set
    Malformed,    \* the variable is set to something else
    Printers,     \* printers that may have a machine link
    NoLink,       \* no machine_links row
    Plain,        \* a Moonraker link: an endpoint, no credential
    Requests,     \* the browser's requests in flight
    LoginVerifyConcurrency,   \* password verifications at a time (4)
    MaxBoots      \* bound: processes started

ASSUME ServiceAssumption ==
    /\ LoginVerifyConcurrency \in Nat \ {0} /\ MaxBoots \in Nat
    /\ {NoKey, Malformed} \cap Keys = {} /\ {NoLink, Plain} \cap Keys = {}

VARIABLES
    env,       \* what the next process finds in its environment
    inst,      \* the processes
    links,     \* machine_links: NoLink, Plain, or the key a secret is sealed with
    boots,     \* processes started so far: the token of the latest
    cookie,    \* the browser's session cookie, 0 when it has none
    granted,   \* history: tokens handed out after a right password
    reqs       \* the requests

vars == <<env, inst, links, boots, cookie, granted, reqs>>

Down == [pc |-> "down"]
Idle == [pc |-> "idle"]

Environment == [key : Keys \cup {NoKey, Malformed}, demo : BOOLEAN]

Up(i) == inst[i].pc # "down"
Serving(i) == inst[i].pc = "serving"
Linked == {p \in Printers : links[p] # NoLink}
Secrets == {p \in Linked : links[p] # Plain}

Init ==
    /\ env \in {e \in Environment : ~e.demo}
    /\ inst = [i \in Instances |-> Down]
    /\ links = [p \in Printers |-> NoLink]
    /\ boots = 0
    /\ cookie = 0
    /\ granted = {}
    /\ reqs = [r \in Requests |-> Idle]

-------------------------------------------------------------------------------
(* Boot.  Any step that fails ends the process.                            *)

(* Configuration, pool and migrations, then the key: a malformed one stops *)
(* here.                                                                   *)
Start(i) ==
    /\ ~Up(i) /\ boots < MaxBoots
    /\ boots' = boots + 1
    /\ inst' = [inst EXCEPT ![i] = IF env.key = Malformed THEN Down
                   ELSE [pc |-> "starting", key |-> env.key, demo |-> env.demo,
                         token |-> boots + 1]]
    /\ UNCHANGED <<env, links, cookie, granted, reqs>>

(* Variant: nothing is read back before serving.                           *)
DecryptsUntried(key) == Linked = {} \/ key # NoKey

(* validate_credentials_at_boot: with any link there must be a key, and it *)
(* must open every stored credential.                                      *)
DecryptsStored(key) ==
    Linked = {} \/ (key # NoKey /\ \A p \in Secrets : links[p] = key)

Validate(i) ==
    /\ inst[i].pc = "starting"
    /\ inst' = [inst EXCEPT ![i] = IF DecryptsStored(inst[i].key)
                                   THEN [@ EXCEPT !.pc = "seeding"] ELSE Down]
    /\ UNCHANGED <<env, links, boots, cookie, granted, reqs>>

(* Seeds, the stored configuration and the [auth] table; then the gate with*)
(* its fresh token and its verification permits.                           *)
Protect(i) ==
    /\ inst[i].pc = "seeding"
    /\ inst' = [inst EXCEPT ![i] = [pc |-> "serving", key |-> inst[i].key,
                   demo |-> inst[i].demo, token |-> inst[i].token,
                   permits |-> LoginVerifyConcurrency, waiting |-> <<>>]]
    /\ UNCHANGED <<env, links, boots, cookie, granted, reqs>>

(* A failed boot step, a crash or a stop: the connections go with it.      *)
Stop(i) ==
    /\ Up(i)
    /\ inst' = [inst EXCEPT ![i] = Down]
    /\ reqs' = [r \in Requests |-> IF reqs[r] # Idle /\ reqs[r].to = i THEN Idle
                                   ELSE reqs[r]]
    /\ UNCHANGED <<env, links, boots, cookie, granted>>

Reconfigure(e) ==
    /\ \A i \in Instances : ~Up(i)
    /\ e # env
    /\ env' = e
    /\ UNCHANGED <<inst, links, boots, cookie, granted, reqs>>

-------------------------------------------------------------------------------
(* The gate.                                                               *)

Paths == {"login", "logout", "app"}

Send(r, i, path) ==
    /\ reqs[r] = Idle /\ Serving(i)
    /\ reqs' = [reqs EXCEPT ![r] = [pc |-> "gate", to |-> i, path |-> path,
                                    cookie |-> cookie]]
    /\ UNCHANGED <<env, inst, links, boots, cookie, granted>>

(* Variant: any session cookie will do.                                    *)
AllowedWithCookie(i, request) == request.path = "login" \/ request.cookie # 0

(* enforce: /login and whoever shows this process's token.                 *)
Allowed(i, request) == request.path = "login" \/ request.cookie = inst[i].token

To(r) == reqs[r].to

(* The gate lets the request through, in the order of arrival for logins,  *)
(* or redirects it to the login page.                                      *)
Enforce(r) ==
    LET i == To(r)  allowed == Allowed(i, reqs[r]) IN
    /\ reqs[r].pc = "gate"
    /\ reqs' = [reqs EXCEPT ![r] = IF ~allowed THEN Idle
                   ELSE [@ EXCEPT !.pc = IF reqs[r].path = "login"
                                         THEN "waiting" ELSE "handling"]]
    /\ inst' = IF allowed /\ reqs[r].path = "login"
               THEN [inst EXCEPT ![i].waiting = Append(@, r)] ELSE inst
    /\ UNCHANGED <<env, links, boots, cookie, granted>>

(* login_guard.acquire: permits are given in the order they were asked for.*)
Acquire(r) ==
    LET i == To(r) IN
    /\ reqs[r].pc = "waiting"
    /\ inst[i].permits > 0 /\ Head(inst[i].waiting) = r
    /\ inst' = [inst EXCEPT ![i].permits = @ - 1, ![i].waiting = Tail(@)]
    /\ reqs' = [reqs EXCEPT ![r].pc = "verifying"]
    /\ UNCHANGED <<env, links, boots, cookie, granted>>

(* Variant: a wrong password keeps its permit.                             *)
ReleasedIfRight(i, right) ==
    [inst EXCEPT ![i].permits = IF right THEN @ + 1 ELSE @]

(* The permit goes out of scope with the handler, whatever it answered.    *)
Released(i, right) == [inst EXCEPT ![i].permits = @ + 1]

Verify(r) ==
    LET i == To(r) IN
    /\ reqs[r].pc = "verifying"
    /\ \E right \in BOOLEAN :
          /\ inst' = Released(i, right)
          /\ cookie' = IF right THEN inst[i].token ELSE cookie
          /\ granted' = IF right THEN granted \cup {inst[i].token} ELSE granted
    /\ reqs' = [reqs EXCEPT ![r] = Idle]
    /\ UNCHANGED <<env, links, boots>>

Logout(r) ==
    /\ reqs[r].pc = "handling" /\ reqs[r].path = "logout"
    /\ cookie' = 0
    /\ reqs' = [reqs EXCEPT ![r] = Idle]
    /\ UNCHANGED <<env, inst, links, boots, granted>>

-------------------------------------------------------------------------------
(* The printer forms, as far as machine links go.                          *)

LinkForms == {"none", "moonraker", "secret", "configured"}

(* What write_link leaves, nothing when it refuses: a secret is sealed with*)
(* the process's key and needs one, a Moonraker link needs none, and       *)
(* "configured" keeps the stored secret.                                   *)
LinkAfter(p, key, form) ==
    CASE form = "none"       -> {NoLink}
      [] form = "moonraker"  -> {Plain}
      [] form = "secret"     -> {key} \ {NoKey}
      [] form = "configured" -> {links[p]} \ {NoLink, Plain}

(* A demo instance shows no link section and saves none: editing a printer *)
(* erases the link it had.                                                 *)
SavePrinter(r) ==
    LET i == To(r) IN
    /\ reqs[r].pc = "handling" /\ reqs[r].path = "app"
    /\ \E p \in Printers, form \in LinkForms :
          LET after == LinkAfter(p, inst[i].key, IF inst[i].demo THEN "none" ELSE form) IN
          links' = IF after = {} THEN links
                   ELSE [links EXCEPT ![p] = CHOOSE link \in after : TRUE]
    /\ reqs' = [reqs EXCEPT ![r] = Idle]
    /\ UNCHANGED <<env, inst, boots, cookie, granted>>

-------------------------------------------------------------------------------

Next ==
    \/ \E i \in Instances : Start(i) \/ Validate(i) \/ Protect(i) \/ Stop(i)
    \/ \E e \in Environment : Reconfigure(e)
    \/ \E r \in Requests, i \in Instances, path \in Paths : Send(r, i, path)
    \/ \E r \in Requests :
          Enforce(r) \/ Acquire(r) \/ Verify(r) \/ Logout(r) \/ SavePrinter(r)

Spec == Init /\ [][Next]_vars

(* A task the runtime holds is polled until it ends; processes, users and  *)
(* the operator owe nothing.                                               *)
FairSpec ==
    Spec /\ \A r \in Requests :
        WF_vars(Enforce(r)) /\ WF_vars(Acquire(r)) /\ WF_vars(Verify(r))

-------------------------------------------------------------------------------

(* A process that serves can open every credential in the database,        *)
(* whatever was saved by itself or by another, before it or since, and     *)
(* however the key was changed between runs.                               *)
ServingReadsLinks ==
    \A i \in Instances : Serving(i) => \A p \in Secrets : links[p] = inst[i].key

(* Nothing but the login page is handled for a browser that was not given  *)
(* this very process's token against the right password: a cookie of an    *)
(* earlier boot, or of the other process, opens nothing.                   *)
HandledAfterLogin ==
    \A r \in Requests : reqs[r].pc = "handling" =>
        /\ reqs[r].cookie = inst[reqs[r].to].token
        /\ reqs[r].cookie \in granted

(* Every login attempt is answered, however many come: attempts wait in    *)
(* line for a permit that each verification gives back.                    *)
LoginsAnswered ==
    \A r \in Requests : (reqs[r].pc \in {"waiting", "verifying"}) ~> (reqs[r] = Idle)
===============================================================================
