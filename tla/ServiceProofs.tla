----------------------------- MODULE ServiceProofs -----------------------------
(***************************************************************************)
(* Theorems about Service, for any number of processes over a database,    *)
(* keys, printers, requests, verification permits and boots.  That an      *)
(* attempt to log in is answered is liveness, and TLC's.                   *)
(***************************************************************************)
EXTENDS Service, TLAPS

-------------------------------------------------------------------------------
(* What the variables hold.  What a process keeps for its login attempts   *)
(* may be anything: no theorem here depends on it.                         *)

Boots(x, phase) == \E key, demo, token : x = [pc |-> phase, key |-> key, demo |-> demo, token |-> token]
Serves(x) ==
    \E key, demo, token, permits, waiting :
        x = [pc |-> "serving", key |-> key, demo |-> demo, token |-> token,
             permits |-> permits, waiting |-> waiting]

Process(x) == x = Down \/ Boots(x, "starting") \/ Boots(x, "seeding") \/ Serves(x)

InFlight == [pc : {"gate", "waiting", "verifying", "handling"}, to : Instances,
             path : Paths, cookie : Nat]

Types ==
    /\ inst = [i \in Instances |-> inst[i]]
    /\ \A i \in Instances : Process(inst[i])
    /\ links = [p \in Printers |-> links[p]]
    /\ boots \in Nat /\ cookie \in Nat
    /\ reqs \in [Requests -> {Idle} \cup InFlight]

(* A process has the key of the environment it was started in, which has   *)
(* not changed since, and once it has validated the links they can be      *)
(* opened with it.                                                         *)
KeyHeld ==
    \A i \in Instances :
        /\ Up(i) => inst[i].key = env.key
        /\ inst[i].pc \in {"seeding", "serving"} => \A p \in Secrets : links[p] = env.key

(* A request is one of a process that serves, and a cookie a granted token *)
(* or none; a request past the gate has shown its process's token.         *)
CookiesGranted ==
    /\ cookie \in granted \cup {0}
    /\ \A i \in Instances : Up(i) => inst[i].token \in Nat \ {0}
    /\ \A r \in Requests : reqs[r] # Idle =>
          /\ Serving(reqs[r].to)
          /\ reqs[r].cookie \in granted \cup {0}
          /\ reqs[r].pc = "handling" => reqs[r].cookie = inst[reqs[r].to].token

IInv == Types /\ KeyHeld /\ CookiesGranted

-------------------------------------------------------------------------------

LEMMA Phases ==
    ASSUME NEW x, Process(x)
    PROVE  /\ x.pc \in {"down", "starting", "seeding", "serving"}
           /\ x.pc = "down" => x = Down
           /\ x.pc = "starting" => Boots(x, "starting")
           /\ x.pc = "seeding" => Boots(x, "seeding")
           /\ x.pc = "serving" => Serves(x)
  BY DEF Process, Down, Boots, Serves

(* Validation moves a booting process on.                                  *)
LEMMA BootsOn ==
    ASSUME NEW x, Boots(x, "starting")
    PROVE  /\ Boots([x EXCEPT !.pc = "seeding"], "seeding")
           /\ [x EXCEPT !.pc = "seeding"].pc = "seeding"
           /\ [x EXCEPT !.pc = "seeding"].key = x.key
           /\ [x EXCEPT !.pc = "seeding"].token = x.token
  <1> PICK key, demo, token : x = [pc |-> "starting", key |-> key, demo |-> demo, token |-> token]
    BY DEF Boots
  <1>1. [x EXCEPT !.pc = "seeding"] = [pc |-> "seeding", key |-> key, demo |-> demo, token |-> token]
    OBVIOUS
  <1>2. Boots([x EXCEPT !.pc = "seeding"], "seeding")
    BY <1>1, Zenon DEF Boots
  <1>3. x.key = key /\ x.token = token
    OBVIOUS
  <1> QED BY <1>1, <1>2, <1>3

(* The permits and the line may change under everything else.              *)
LEMMA ServesOn ==
    ASSUME NEW x, Serves(x), NEW v
    PROVE  /\ Serves([x EXCEPT !.waiting = v]) /\ Serves([x EXCEPT !.permits = v])
           /\ [x EXCEPT !.waiting = v].pc = x.pc /\ [x EXCEPT !.permits = v].pc = x.pc
           /\ [x EXCEPT !.waiting = v].key = x.key /\ [x EXCEPT !.permits = v].key = x.key
           /\ [x EXCEPT !.waiting = v].token = x.token /\ [x EXCEPT !.permits = v].token = x.token
  <1> PICK key, demo, token, permits, waiting :
        x = [pc |-> "serving", key |-> key, demo |-> demo, token |-> token,
             permits |-> permits, waiting |-> waiting]
    BY DEF Serves
  <1>1. [x EXCEPT !.waiting = v] =
          [pc |-> "serving", key |-> key, demo |-> demo, token |-> token,
           permits |-> permits, waiting |-> v]
    OBVIOUS
  <1>2. [x EXCEPT !.permits = v] =
          [pc |-> "serving", key |-> key, demo |-> demo, token |-> token,
           permits |-> v, waiting |-> waiting]
    OBVIOUS
  <1>3. Serves([x EXCEPT !.waiting = v]) /\ Serves([x EXCEPT !.permits = v])
    <2> DEFINE R(m, w) == [pc |-> "serving", key |-> key, demo |-> demo, token |-> token,
                           permits |-> m, waiting |-> w]
    <2>1. \A m, w : Serves(R(m, w))
      BY DEF Serves
    <2>2. [x EXCEPT !.waiting = v] = R(permits, v) /\ [x EXCEPT !.permits = v] = R(v, waiting)
      BY <1>1, <1>2
    <2> HIDE DEF R
    <2> QED BY <2>1, <2>2
  <1>4. x.pc = "serving" /\ x.key = key /\ x.token = token
    OBVIOUS
  <1>5. /\ [x EXCEPT !.waiting = v].pc = "serving" /\ [x EXCEPT !.permits = v].pc = "serving"
        /\ [x EXCEPT !.waiting = v].key = key /\ [x EXCEPT !.permits = v].key = key
        /\ [x EXCEPT !.waiting = v].token = token /\ [x EXCEPT !.permits = v].token = token
    BY <1>1, <1>2
  <1> QED BY <1>3, <1>4, <1>5

LEMMA InFlightFields ==
    ASSUME NEW q \in {Idle} \cup InFlight
    PROVE  (q = Idle <=> q.pc = "idle") /\ (q # Idle => q \in InFlight)
  BY DEF Idle, InFlight

LEMMA IInvInit == Init => IInv
  <1> SUFFICES ASSUME Init
               PROVE  IInv
    OBVIOUS
  <1>1. Types
    BY DEF Init, Types, Process
  <1>2. \A i \in Instances : inst[i].pc = "down"
    BY DEF Init, Down
  <1>3. KeyHeld
    BY <1>2 DEF KeyHeld, Up
  <1>4. CookiesGranted
    BY <1>2 DEF Init, CookiesGranted, Up
  <1> QED BY <1>1, <1>3, <1>4 DEF IInv

-------------------------------------------------------------------------------
(* A process moves to x.                                                   *)

(* A process goes on, with what theorems look at as it was: whatever held  *)
(* of it and of its requests holds.                                        *)
LEMMA ProcessGoesOn ==
    ASSUME IInv, NEW i \in Instances, NEW x, Process(x), inst' = [inst EXCEPT ![i] = x],
           x.pc = inst[i].pc, x.key = inst[i].key, x.token = inst[i].token
    PROVE  /\ inst' = [j \in Instances |-> inst'[j]]
           /\ \A j \in Instances :
                /\ Process(inst'[j]) /\ inst'[j].pc = inst[j].pc
                /\ inst'[j].key = inst[j].key /\ inst'[j].token = inst[j].token
  BY DEF IInv, Types

LEMMA BootStep ==
    ASSUME IInv, NEW i \in Instances, Start(i) \/ Validate(i) \/ Protect(i)
    PROVE  IInv'
  <1> USE DEF IInv
  <1>1. /\ UNCHANGED <<env, links, cookie, granted, reqs>>
        /\ boots' \in Nat
    BY DEF Start, Validate, Protect, Types
  <1>2. \A r \in Requests : reqs[r] # Idle => reqs[r].to # i
    <2>1. ~Serving(i)
      BY DEF Start, Validate, Protect, Up, Serving
    <2> QED BY <2>1 DEF CookiesGranted
  <1>3. /\ inst' = [inst EXCEPT ![i] = inst'[i]] /\ Process(inst'[i])
        /\ inst'[i].pc # "down" =>
             /\ inst'[i].key = env.key /\ inst'[i].token \in Nat \ {0}
             /\ inst'[i].pc \in {"seeding", "serving"} => \A p \in Secrets : links[p] = env.key
    <2>0. Process(Down) /\ Down.pc = "down"
      BY DEF Process, Down
    <2>1. CASE Start(i)
      <3> DEFINE x == [pc |-> "starting", key |-> env.key, demo |-> env.demo, token |-> boots + 1]
      <3>1. Process(x) /\ x.pc = "starting" /\ x.key = env.key /\ x.token = boots + 1
        BY DEF Process, Boots
      <3>2. inst' = [inst EXCEPT ![i] = IF env.key = Malformed THEN Down ELSE x]
        BY <2>1 DEF Start
      <3> HIDE DEF x
      <3>3. inst'[i] = Down \/ inst'[i] = x
        BY <3>2 DEF Types
      <3>4. boots + 1 \in Nat \ {0}
        BY DEF Types
      <3>5. inst' = [inst EXCEPT ![i] = inst'[i]]
        BY <3>2 DEF Types
      <3> QED BY <2>0, <3>1, <3>3, <3>4, <3>5
    <2>2. CASE Validate(i)
      <3> DEFINE x == [inst[i] EXCEPT !.pc = "seeding"]
      <3>1. Boots(inst[i], "starting")
        BY <2>2, Phases DEF Validate, Types
      <3>2. Boots(x, "seeding") /\ x.pc = "seeding" /\ x.key = inst[i].key /\ x.token = inst[i].token
        BY <3>1, BootsOn
      <3>3. inst[i].key = env.key /\ inst[i].token \in Nat \ {0}
        BY <2>2 DEF Validate, KeyHeld, CookiesGranted, Up
      <3>4. inst' = [inst EXCEPT ![i] = IF DecryptsStored(inst[i].key) THEN x ELSE Down]
        BY <2>2 DEF Validate
      <3> HIDE DEF x
      <3>5. inst' = [inst EXCEPT ![i] = inst'[i]]
        BY <3>4 DEF Types
      <3>6. DecryptsStored(inst[i].key) => \A p \in Secrets : links[p] = env.key
        BY <3>3 DEF DecryptsStored, Secrets
      <3>7. inst'[i] = IF DecryptsStored(inst[i].key) THEN x ELSE Down
        BY <3>4 DEF Types
      <3> QED BY <2>0, <3>2, <3>3, <3>5, <3>6, <3>7 DEF Process
    <2>3. CASE Protect(i)
      <3> DEFINE x == [pc |-> "serving", key |-> inst[i].key, demo |-> inst[i].demo,
                       token |-> inst[i].token, permits |-> LoginVerifyConcurrency,
                       waiting |-> <<>>]
      <3>1. Serves(x) /\ x.pc = "serving" /\ x.key = inst[i].key /\ x.token = inst[i].token
        BY DEF Serves
      <3>2. inst' = [inst EXCEPT ![i] = x]
        BY <2>3 DEF Protect
      <3>3. inst[i].pc = "seeding"
        BY <2>3 DEF Protect
      <3>4. /\ inst[i].key = env.key /\ inst[i].token \in Nat \ {0}
            /\ \A p \in Secrets : links[p] = env.key
        BY <3>3 DEF KeyHeld, CookiesGranted, Up
      <3> HIDE DEF x
      <3>5. inst'[i] = x
        BY <3>2 DEF Types
      <3> QED BY <3>1, <3>2, <3>4, <3>5 DEF Process
    <2> QED BY <2>1, <2>2, <2>3
  <1>4. inst' = [j \in Instances |-> inst'[j]] /\ \A j \in Instances \ {i} : inst'[j] = inst[j]
    BY <1>3 DEF Types
  <1>5. Types'
    BY <1>1, <1>3, <1>4 DEF Types
  <1>6. KeyHeld'
    BY <1>1, <1>3, <1>4 DEF KeyHeld, Up, Secrets, Linked
  <1>7. CookiesGranted'
    <2>1. \A r \in Requests : reqs[r] # Idle => reqs[r].to \in Instances
      BY InFlightFields DEF Types, InFlight
    <2> QED BY <1>1, <1>2, <1>3, <1>4, <2>1 DEF CookiesGranted, Up, Serving
  <1> QED BY <1>5, <1>6, <1>7

LEMMA StopStep == \A i \in Instances : IInv /\ Stop(i) => IInv'
  <1> SUFFICES ASSUME IInv, NEW i \in Instances, Stop(i)
               PROVE  IInv'
    OBVIOUS
  <1> USE DEF IInv
  <1>1. /\ UNCHANGED <<env, links, boots, cookie, granted>>
        /\ inst' = [inst EXCEPT ![i] = Down]
        /\ reqs' = [r \in Requests |-> IF reqs[r] # Idle /\ reqs[r].to = i THEN Idle ELSE reqs[r]]
    BY DEF Stop
  <1>2. /\ inst'[i] = Down /\ Down.pc = "down" /\ Process(Down)
        /\ \A j \in Instances \ {i} : inst'[j] = inst[j]
    BY <1>1 DEF Types, Down, Process
  <1>3. Types'
    BY <1>1, <1>2 DEF Types
  <1>4. KeyHeld'
    BY <1>1, <1>2 DEF KeyHeld, Up, Secrets, Linked
  <1>5. ASSUME NEW r \in Requests, reqs'[r] # Idle
        PROVE  reqs'[r] = reqs[r] /\ reqs[r].to \in Instances \ {i}
    BY <1>1, <1>5, InFlightFields DEF Types, InFlight
  <1>6. CookiesGranted'
    BY <1>1, <1>2, <1>5 DEF CookiesGranted, Up, Serving
  <1> QED BY <1>3, <1>4, <1>6

-------------------------------------------------------------------------------
(* A request moves to q, and its process keeps its phase, key and token.   *)
LEMMA RequestMoves ==
    ASSUME IInv, NEW r \in Requests, NEW q \in {Idle} \cup InFlight,
           reqs' = [reqs EXCEPT ![r] = q],
           inst' = [i \in Instances |-> inst'[i]],
           \A i \in Instances :
              /\ Process(inst'[i]) /\ inst'[i].pc = inst[i].pc
              /\ inst'[i].key = inst[i].key /\ inst'[i].token = inst[i].token,
           UNCHANGED <<env, boots>>, cookie' \in Nat, cookie' \in granted' \cup {0},
           granted \subseteq granted',
           links' = [p \in Printers |-> links'[p]],
           \A p \in Printers : links'[p] \in {NoLink, Plain, env.key, links[p]},
           q # Idle => /\ Serving(q.to) /\ q.cookie \in granted \cup {0}
                       /\ q.pc = "handling" => q.cookie = inst[q.to].token
    PROVE  IInv'
  <1> USE DEF IInv
  <1>1. reqs'[r] = q /\ \A s \in Requests \ {r} : reqs'[s] = reqs[s]
    BY DEF Types
  <1>2. \A s \in Requests : reqs'[s] # Idle => reqs'[s] \in InFlight /\ reqs'[s].to \in Instances
    BY <1>1, InFlightFields DEF Types, InFlight
  <1>3. Types'
    BY DEF Types
  <1>4. KeyHeld'
    BY DEF KeyHeld, Up, Secrets, Linked
  <1>5. CookiesGranted'
    BY <1>1, <1>2 DEF CookiesGranted, Up, Serving
  <1> QED BY <1>3, <1>4, <1>5

LEMMA SameProcesses ==
    IInv /\ inst' = inst =>
        /\ inst' = [i \in Instances |-> inst'[i]]
        /\ \A i \in Instances :
              /\ Process(inst'[i]) /\ inst'[i].pc = inst[i].pc
              /\ inst'[i].key = inst[i].key /\ inst'[i].token = inst[i].token
  BY DEF IInv, Types

LEMMA SameLinks ==
    IInv /\ links' = links =>
        /\ links' = [p \in Printers |-> links'[p]]
        /\ \A p \in Printers : links'[p] \in {NoLink, Plain, env.key, links[p]}
  BY DEF IInv, Types

LEMMA SendStep ==
    ASSUME IInv, NEW r \in Requests, NEW i \in Instances, NEW path \in Paths, Send(r, i, path)
    PROVE  IInv'
  <1> DEFINE q == [pc |-> "gate", to |-> i, path |-> path, cookie |-> cookie]
  <1>1. q \in InFlight
    BY DEF InFlight, IInv, Types
  <1>2. Serving(i) /\ cookie \in granted \cup {0} /\ cookie \in Nat
    BY DEF Send, IInv, CookiesGranted, Types
  <1>3. reqs' = [reqs EXCEPT ![r] = q] /\ UNCHANGED <<env, inst, links, boots, cookie, granted>>
    BY DEF Send
  <1>4. q.to = i /\ q.cookie = cookie /\ q.pc # "handling"
    OBVIOUS
  <1> HIDE DEF q
  <1> QED BY <1>1, <1>2, <1>3, <1>4, SameProcesses, SameLinks, RequestMoves

(* The request of a step of the gate or of a handler.                      *)
LEMMA RequestAt ==
    ASSUME IInv, NEW r \in Requests, reqs[r].pc # "idle"
    PROVE  /\ reqs[r] \in InFlight /\ reqs[r].to \in Instances
           /\ Serving(reqs[r].to) /\ Serves(inst[reqs[r].to])
           /\ reqs[r].cookie \in granted \cup {0}
  <1>1. reqs[r] \in InFlight /\ reqs[r] # Idle
    BY InFlightFields DEF IInv, Types
  <1>2. reqs[r].to \in Instances /\ Serving(reqs[r].to)
    BY <1>1 DEF InFlight, IInv, CookiesGranted
  <1>3. Serves(inst[reqs[r].to])
    BY <1>2, Phases DEF IInv, Types, Serving
  <1> QED BY <1>1, <1>2, <1>3 DEF IInv, CookiesGranted

(* A request that ends, in a process that may only have taken back a       *)
(* permit or moved its line.                                               *)
LEMMA RequestEnds ==
    ASSUME IInv, NEW r \in Requests, reqs' = [reqs EXCEPT ![r] = Idle],
           inst' = [i \in Instances |-> inst'[i]],
           \A i \in Instances :
              /\ Process(inst'[i]) /\ inst'[i].pc = inst[i].pc
              /\ inst'[i].key = inst[i].key /\ inst'[i].token = inst[i].token,
           UNCHANGED <<env, boots>>, cookie' \in Nat, cookie' \in granted' \cup {0},
           granted \subseteq granted',
           links' = [p \in Printers |-> links'[p]],
           \A p \in Printers : links'[p] \in {NoLink, Plain, env.key, links[p]}
    PROVE  IInv'
  BY RequestMoves

LEMMA EnforceStep == ASSUME IInv, NEW r \in Requests, Enforce(r) PROVE IInv'
  <1> DEFINE i == reqs[r].to
             allowed == Allowed(i, reqs[r])
  <1>0. reqs[r].pc = "gate" /\ UNCHANGED <<env, links, boots, cookie, granted>>
    BY DEF Enforce
  <1>1. /\ reqs[r] \in InFlight /\ i \in Instances /\ Serving(i) /\ Serves(inst[i])
        /\ reqs[r].cookie \in granted \cup {0}
    BY <1>0, RequestAt
  <1>2. cookie \in Nat /\ cookie \in granted \cup {0}
    BY DEF IInv, Types, CookiesGranted
  <1>3. CASE ~allowed
    <2>1. reqs' = [reqs EXCEPT ![r] = Idle] /\ inst' = inst
      BY <1>3 DEF Enforce, To
    <2> QED BY <1>0, <1>2, <2>1, SameProcesses, SameLinks, RequestEnds
  <1>4. CASE allowed /\ reqs[r].path = "login"
    <2> DEFINE q == [reqs[r] EXCEPT !.pc = "waiting"]
               x == [inst[i] EXCEPT !.waiting = Append(@, r)]
    <2>1. q \in InFlight /\ q.to = i /\ q.cookie = reqs[r].cookie /\ q.pc = "waiting"
      BY <1>1 DEF InFlight
    <2>2. reqs' = [reqs EXCEPT ![r] = q] /\ inst' = [inst EXCEPT ![i] = x]
      BY <1>4 DEF Enforce, To
    <2>3. Process(x) /\ x.pc = inst[i].pc /\ x.key = inst[i].key /\ x.token = inst[i].token
      BY <1>1, ServesOn DEF Process
    <2> HIDE DEF q, x
    <2>4. /\ inst' = [j \in Instances |-> inst'[j]]
          /\ \A j \in Instances :
               /\ Process(inst'[j]) /\ inst'[j].pc = inst[j].pc
               /\ inst'[j].key = inst[j].key /\ inst'[j].token = inst[j].token
      BY <1>1, <2>2, <2>3, ProcessGoesOn
    <2> QED BY <1>0, <1>1, <1>2, <2>1, <2>2, <2>4, SameLinks, RequestMoves
  <1>5. CASE allowed /\ reqs[r].path # "login"
    <2> DEFINE q == [reqs[r] EXCEPT !.pc = "handling"]
    <2>1. q \in InFlight /\ q.to = i /\ q.cookie = reqs[r].cookie
      BY <1>1 DEF InFlight
    <2>2. reqs' = [reqs EXCEPT ![r] = q] /\ inst' = inst
      BY <1>5 DEF Enforce, To
    <2>3. reqs[r].cookie = inst[i].token
      BY <1>5 DEF Allowed
    <2> HIDE DEF q
    <2> QED BY <1>0, <1>1, <1>2, <2>1, <2>2, <2>3, SameProcesses, SameLinks, RequestMoves
  <1> QED BY <1>3, <1>4, <1>5

LEMMA AcquireStep == ASSUME IInv, NEW r \in Requests, Acquire(r) PROVE IInv'
  <1> DEFINE i == reqs[r].to
             q == [reqs[r] EXCEPT !.pc = "verifying"]
             y == [inst[i] EXCEPT !.permits = inst[i].permits - 1]
             x == [y EXCEPT !.waiting = Tail(inst[i].waiting)]
  <1>0. reqs[r].pc = "waiting" /\ UNCHANGED <<env, links, boots, cookie, granted>>
    BY DEF Acquire
  <1>1. /\ reqs[r] \in InFlight /\ i \in Instances /\ Serving(i) /\ Serves(inst[i])
        /\ reqs[r].cookie \in granted \cup {0}
    BY <1>0, RequestAt
  <1>2. cookie \in Nat /\ cookie \in granted \cup {0}
    BY DEF IInv, Types, CookiesGranted
  <1>3. q \in InFlight /\ q.to = i /\ q.cookie = reqs[r].cookie /\ q.pc = "verifying"
    BY <1>1 DEF InFlight
  <1>4. Serves(y) /\ y.pc = inst[i].pc /\ y.key = inst[i].key /\ y.token = inst[i].token
    BY <1>1, ServesOn
  <1>5. Process(x) /\ x.pc = inst[i].pc /\ x.key = inst[i].key /\ x.token = inst[i].token
    BY <1>4, ServesOn DEF Process
  <1>6. reqs' = [reqs EXCEPT ![r] = q]
    BY DEF Acquire
  <1>7. inst' = [inst EXCEPT ![i] = x]
    BY <1>1 DEF Acquire, To, Serves, IInv, Types
  <1> HIDE DEF q, x, y
  <1>8. /\ inst' = [j \in Instances |-> inst'[j]]
        /\ \A j \in Instances :
             /\ Process(inst'[j]) /\ inst'[j].pc = inst[j].pc
             /\ inst'[j].key = inst[j].key /\ inst'[j].token = inst[j].token
    BY <1>1, <1>5, <1>7, ProcessGoesOn
  <1> QED BY <1>0, <1>1, <1>2, <1>3, <1>6, <1>8, SameLinks, RequestMoves

LEMMA VerifyStep == ASSUME IInv, NEW r \in Requests, Verify(r) PROVE IInv'
  <1> DEFINE i == reqs[r].to
             x == [inst[i] EXCEPT !.permits = @ + 1]
  <1>0. /\ reqs[r].pc = "verifying" /\ UNCHANGED <<env, links, boots>>
        /\ reqs' = [reqs EXCEPT ![r] = Idle] /\ inst' = [inst EXCEPT ![i] = x]
        /\ \/ cookie' = cookie /\ granted' = granted
           \/ cookie' = inst[i].token /\ granted' = granted \cup {inst[i].token}
    BY DEF Verify, Released, To
  <1>1. i \in Instances /\ Serving(i) /\ Serves(inst[i])
    BY <1>0, RequestAt
  <1>2. cookie \in Nat /\ cookie \in granted \cup {0} /\ inst[i].token \in Nat
    BY <1>1 DEF IInv, Types, CookiesGranted, Up, Serving
  <1>3. Process(x) /\ x.pc = inst[i].pc /\ x.key = inst[i].key /\ x.token = inst[i].token
    BY <1>1, ServesOn DEF Process
  <1> HIDE DEF x
  <1>4. /\ inst' = [j \in Instances |-> inst'[j]]
        /\ \A j \in Instances :
             /\ Process(inst'[j]) /\ inst'[j].pc = inst[j].pc
             /\ inst'[j].key = inst[j].key /\ inst'[j].token = inst[j].token
    BY <1>0, <1>1, <1>3, ProcessGoesOn
  <1>5. cookie' \in Nat /\ cookie' \in granted' \cup {0} /\ granted \subseteq granted'
    BY <1>0, <1>2
  <1> QED BY <1>0, <1>4, <1>5, SameLinks, RequestEnds

LEMMA LogoutStep == ASSUME IInv, NEW r \in Requests, Logout(r) PROVE IInv'
  <1>1. /\ cookie' = 0 /\ reqs' = [reqs EXCEPT ![r] = Idle]
        /\ UNCHANGED <<env, inst, links, boots, granted>>
    BY DEF Logout
  <1> QED BY <1>1, SameProcesses, SameLinks, RequestEnds

(* A form leaves no link, a plain one, the stored one, or one sealed with  *)
(* the process's key, which is the environment's.                          *)
LEMMA SavePrinterStep == ASSUME IInv, NEW r \in Requests, SavePrinter(r) PROVE IInv'
  <1> DEFINE i == reqs[r].to
  <1>0. /\ reqs[r].pc = "handling" /\ reqs' = [reqs EXCEPT ![r] = Idle]
        /\ UNCHANGED <<env, inst, boots, cookie, granted>>
    BY DEF SavePrinter
  <1>1. i \in Instances /\ Serving(i)
    BY <1>0, RequestAt
  <1>2. inst[i].key = env.key
    BY <1>1 DEF IInv, KeyHeld, Up, Serving
  <1>3. PICK p \in Printers, form \in LinkForms :
          LET after == LinkAfter(p, inst[i].key, IF inst[i].demo THEN "none" ELSE form) IN
          links' = IF after = {} THEN links
                   ELSE [links EXCEPT ![p] = CHOOSE link \in after : TRUE]
    BY DEF SavePrinter, To
  <1> DEFINE after == LinkAfter(p, inst[i].key, IF inst[i].demo THEN "none" ELSE form)
  <1>4. after \subseteq {NoLink, Plain, env.key, links[p]}
    BY <1>2 DEF LinkAfter, LinkForms
  <1> HIDE DEF after
  <1>5. CASE after = {}
    <2>1. links' = links
      BY <1>3, <1>5 DEF after
    <2> QED BY <1>0, <2>1, SameProcesses, SameLinks, RequestEnds DEF IInv, Types, CookiesGranted
  <1>6. CASE after # {}
    <2> DEFINE link == CHOOSE x \in after : TRUE
    <2>1. link \in {NoLink, Plain, env.key, links[p]}
      BY <1>4, <1>6
    <2>2. links' = [links EXCEPT ![p] = link]
      BY <1>3, <1>6 DEF after
    <2> HIDE DEF link
    <2>3. /\ links' = [x \in Printers |-> links'[x]]
          /\ \A x \in Printers : links'[x] \in {NoLink, Plain, env.key, links[x]}
      BY <2>1, <2>2 DEF IInv, Types
    <2> QED BY <1>0, <2>3, SameProcesses, RequestEnds DEF IInv, Types, CookiesGranted
  <1> QED BY <1>5, <1>6

-------------------------------------------------------------------------------

LEMMA IInvAlways == Spec => []IInv
  <1>1. IInv /\ [Next]_vars => IInv'
    <2> SUFFICES ASSUME IInv, [Next]_vars
                 PROVE  IInv'
      OBVIOUS
    <2>1. ASSUME NEW e \in Environment, Reconfigure(e)
          PROVE  IInv'
      <3>1. \A i \in Instances : ~Up(i)
        BY <2>1 DEF Reconfigure
      <3>2. UNCHANGED <<inst, links, boots, cookie, granted, reqs>>
        BY <2>1 DEF Reconfigure
      <3>3. \A i \in Instances : inst[i].pc = "down"
        BY <3>1 DEF Up
      <3>4. Types' /\ CookiesGranted'
        BY <3>2 DEF IInv, Types, CookiesGranted, Up, Serving
      <3>5. KeyHeld'
        BY <3>2, <3>3 DEF KeyHeld, Up
      <3> QED BY <3>4, <3>5 DEF IInv
    <2>2. CASE UNCHANGED vars
      BY <2>2 DEF vars, IInv, Types, KeyHeld, CookiesGranted, Up, Serving, Secrets, Linked
    <2> QED BY <2>1, <2>2, BootStep, StopStep, SendStep, EnforceStep, AcquireStep, VerifyStep,
               LogoutStep, SavePrinterStep DEF Next
  <1> QED BY <1>1, IInvInit, PTL DEF Spec

(* Whoever serves opens every credential stored: the boot tried them all   *)
(* with the key (validate_credentials_at_boot), and every other process    *)
(* that has sealed one since was started with the same key.                *)
THEOREM CredentialsOpen == Spec => []ServingReadsLinks
  <1>1. IInv => ServingReadsLinks
    BY DEF IInv, KeyHeld, ServingReadsLinks, Serving, Up
  <1> QED BY <1>1, IInvAlways, PTL

(* Nothing behind the gate is handled without the token of the very        *)
(* process, granted against the password (enforce, web/auth.rs): the       *)
(* cookie a browser has without one is no token.                           *)
THEOREM GateHolds == Spec => []HandledAfterLogin
  <1>1. IInv => HandledAfterLogin
    <2> SUFFICES ASSUME IInv, NEW r \in Requests, reqs[r].pc = "handling"
                 PROVE  /\ reqs[r].cookie = inst[reqs[r].to].token
                        /\ reqs[r].cookie \in granted
      BY DEF HandledAfterLogin
    <2>1. reqs[r] # Idle /\ reqs[r].to \in Instances /\ Serving(reqs[r].to)
      BY RequestAt DEF Idle
    <2>2. reqs[r].cookie = inst[reqs[r].to].token /\ reqs[r].cookie \in granted \cup {0}
      BY <2>1 DEF IInv, CookiesGranted
    <2>3. inst[reqs[r].to].token # 0
      BY <2>1 DEF IInv, CookiesGranted, Up, Serving
    <2> QED BY <2>2, <2>3
  <1> QED BY <1>1, IInvAlways, PTL
===============================================================================
