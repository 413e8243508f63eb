------------------------------- MODULE Realm -------------------------------
(***************************************************************************)
(* NAT traversal through a rendezvous service: the server's registration   *)
(* and its supervisor (crates/hysteria/src/realm_runtime.rs), the punch    *)
(* controller that shares Quinn's socket (obfs_socket.rs) and the client's *)
(* side of a punch (runtime.rs and hysteria-realm/src/engine.rs).  The     *)
(* gateway mapping of the socket is in PortMapping.                        *)
(*                                                                         *)
(* Time is counted in heartbeat intervals, half the lifetime of a session. *)
(* The rendezvous and the STUN servers are external: they answer or fail.  *)
(***************************************************************************)
EXTENDS Integers, Sequences, FiniteSets

CONSTANTS
  Sessions,   \* session ids, reused when the rendezvous has forgotten them
  Nonces,     \* punch attempts of clients
  Tasks,      \* response tasks
  None        \* no session

ASSUME RealmAssumption == "supervisor" \notin Tasks   \* stun tells them apart

Lifetime == 2 \* heartbeat intervals a session lives without a heartbeat

VARIABLES
  runtime,    \* RealmServerRuntime: "starting", "running", "dropped", "failed"
  sup,        \* supervise: "open", "session", "pause", "refresh", "register",
              \* "backoff", "ended"
  stored,     \* session_id behind its lock
  left,       \* rendezvous: intervals until a session expires; 0: unknown
  due,        \* the heartbeat ticker has fired
  bye,        \* the session the deregistration task names, an option
  events,     \* the event stream of the session: nonces
  task,       \* response tasks: [stage, nonce]; stage: "none", "discover",
              \* "answer", "respond", "punching", "ok", "failed"
  stun,       \* StunTransactions: who waits for an answer
  attempts,   \* RealmAttempts: nonces
  client,     \* per nonce: "idle", "asked", "punching", "ok", "failed"
  net,        \* punch packets in flight
  lost        \* nonces of which a packet was lost

vars == <<runtime, sup, stored, left, due, bye, events, task, stun, attempts, client, net, lost>>
supVars == <<runtime, sup, stored, left, due, bye>>
punchVars == <<task, attempts, client, net, lost>>

NoTask == [stage |-> "none", nonce |-> CHOOSE n \in Nonces : TRUE]
Packet(n, to, kind) == [nonce |-> n, to |-> to, kind |-> kind]
Alive == {s \in Sessions : left[s] > 0}

Init ==
  /\ runtime = "starting" /\ sup = "ended" /\ stored = None
  /\ left = [s \in Sessions |-> 0] /\ due = FALSE /\ bye = {} /\ events = <<>>
  /\ task = [t \in Tasks |-> NoTask] /\ stun = {} /\ attempts = {}
  /\ client = [n \in Nonces |-> "idle"] /\ net = {} /\ lost = {}

-----------------------------------------------------------------------------
(* Registration.                                                           *)

(* A session id nobody uses any more. *)
Fresh(s) == left[s] = 0 /\ s # stored /\ s \notin bye

(* start: the last steps may fail after the registration has succeeded. *)
Start ==
  /\ runtime = "starting"
  /\ \/ \E s \in Sessions :
          /\ Fresh(s) /\ left' = [left EXCEPT ![s] = Lifetime]
          /\ \/ runtime' = "running" /\ sup' = "open" /\ stored' = s
             \/ runtime' = "failed" /\ UNCHANGED <<sup, stored>>
     \/ runtime' = "failed" /\ UNCHANGED <<sup, stored, left>>
  /\ UNCHANGED <<due, bye, events, stun, punchVars>>

(* The events request of run_session; a forgotten session is refused. *)
OpenEvents ==
  /\ sup = "open"
  /\ \/ stored \in Alive /\ sup' = "session" /\ due' = FALSE
     \/ sup' = "pause" /\ UNCHANGED due
  /\ UNCHANGED <<runtime, stored, left, bye, events, stun, punchVars>>

(* The ticker is set once, from the lifetime the registration returned. *)
Heartbeat ==
  /\ sup = "session" /\ due /\ due' = FALSE
  /\ \/ stored \in Alive /\ left' = [left EXCEPT ![stored] = Lifetime] /\ UNCHANGED sup
     \/ sup' = "pause" /\ UNCHANGED left
  /\ UNCHANGED <<runtime, stored, bye, events, stun, punchVars>>

(* The event stream breaks or ends; what it held is gone. *)
StreamEnds ==
  /\ sup = "session" /\ sup' = "pause" /\ events' = <<>>
  /\ UNCHANGED <<runtime, stored, left, due, bye, stun, punchVars>>

(* One second after a lost session, five after a failed registration. *)
Wake ==
  /\ sup \in {"pause", "backoff"}
  /\ sup' = "refresh" /\ stun' = stun \cup {"supervisor"}
  /\ UNCHANGED <<runtime, stored, left, due, bye, events, punchVars>>

(* refresh_addresses ends with addresses or without: both are registered.  *)
Refreshed ==
  /\ sup = "refresh" /\ sup' = "register" /\ stun' = stun \ {"supervisor"}
  /\ UNCHANGED <<runtime, stored, left, due, bye, events, punchVars>>

(* Mutant: the new session is not stored. *)
RegisterForgets ==
  /\ sup = "register" /\ events' = <<>>
  /\ \/ \E s \in Sessions : /\ Fresh(s) /\ left' = [left EXCEPT ![s] = Lifetime]
                            /\ sup' = "open" /\ UNCHANGED stored
     \/ sup' = "backoff" /\ UNCHANGED <<stored, left>>
  /\ UNCHANGED <<runtime, due, bye, stun, punchVars>>

(* The session before it is not deregistered: it is left to expire. *)
Register ==
  /\ sup = "register" /\ events' = <<>>
  /\ \/ \E s \in Sessions : /\ Fresh(s) /\ left' = [left EXCEPT ![s] = Lifetime]
                            /\ sup' = "open" /\ stored' = s
     \/ sup' = "backoff" /\ UNCHANGED <<stored, left>>
  /\ UNCHANGED <<runtime, due, bye, stun, punchVars>>

(* Time passes: sessions without a heartbeat expire. *)
Tick ==
  /\ left' = [s \in Sessions |-> IF left[s] = 0 THEN 0 ELSE left[s] - 1]
  /\ due' = (due \/ sup = "session")
  /\ UNCHANGED <<runtime, sup, stored, bye, events, stun, punchVars>>

(* Dropping the runtime: the supervisor is aborted, and the session stored *)
(* at this moment deregistered.  A registration in flight may still reach  *)
(* the rendezvous.                                                         *)
Drop ==
  /\ runtime = "running" /\ runtime' = "dropped"
  /\ sup' = "ended" /\ stun' = stun \ {"supervisor"}
  /\ bye' = {stored}
  /\ \/ UNCHANGED left
     \/ sup = "register" /\ \E s \in Sessions : Fresh(s) /\ left' = [left EXCEPT ![s] = Lifetime]
  /\ UNCHANGED <<stored, due, events, punchVars>>

(* The detached request, if the process lasts long enough for it. *)
Deregister ==
  /\ \E s \in bye : left' = [left EXCEPT ![s] = 0] \/ UNCHANGED left
  /\ bye' = {}
  /\ UNCHANGED <<runtime, sup, stored, due, events, stun, punchVars>>

-----------------------------------------------------------------------------
(* Punching.                                                               *)

(* A client's connect request becomes an event of a live session with an   *)
(* open stream; the rendezvous may deliver it twice.                       *)
Ask(n) ==
  /\ client[n] = "idle" /\ client' = [client EXCEPT ![n] = "asked"]
  /\ sup = "session" /\ stored \in Alive
  /\ events' \in {Append(events, n), events \o <<n, n>>}
  /\ UNCHANGED <<supVars, task, stun, attempts, net, lost>>

(* spawn_response: detached.  An event without an address that parses is   *)
(* let go; otherwise discovery comes first.                                *)
TakeEvent(t) ==
  /\ sup = "session" /\ events # <<>> /\ task[t].stage = "none"
  /\ events' = Tail(events)
  /\ \/ /\ task' = [task EXCEPT ![t] = [stage |-> "discover", nonce |-> Head(events)]]
        /\ stun' = stun \cup {t}
     \/ UNCHANGED <<task, stun>>
  /\ UNCHANGED <<supVars, attempts, client, net, lost>>

(* discover ends, by its answers or its timeout, and its guard removes the *)
(* transactions.                                                           *)
Discovered(t) ==
  /\ task[t].stage = "discover"
  /\ task' = [task EXCEPT ![t].stage = "answer"] /\ stun' = stun \ {t}
  /\ UNCHANGED <<supVars, events, attempts, client, net, lost>>

(* connect_response lets the client start, unless the request fails; its   *)
(* result is not looked at.                                                *)
ConnectResponse(t) ==
  /\ task[t].stage = "answer"
  /\ task' = [task EXCEPT ![t].stage = "respond"]
  /\ client' \in {[client EXCEPT ![task[t].nonce] = IF @ = "asked" THEN "punching" ELSE @], client}
  /\ UNCHANGED <<supVars, events, stun, attempts, net, lost>>

(* Mutant: an attempt that is already registered is replaced. *)
RespondAgain(t) ==
  /\ task[t].stage = "respond"
  /\ \/ /\ task' = [task EXCEPT ![t].stage = "punching"]
        /\ attempts' = attempts \cup {task[t].nonce}
     \/ task' = [task EXCEPT ![t].stage = "failed"] /\ UNCHANGED attempts
  /\ UNCHANGED <<supVars, events, stun, client, net, lost>>

(* respond registers the attempt.  It fails when the nonce is registered   *)
(* already, or when no address of the peer is of a usable family.          *)
Respond(t) ==
  /\ task[t].stage = "respond"
  /\ \/ /\ task[t].nonce \notin attempts
        /\ task' = [task EXCEPT ![t].stage = "punching"]
        /\ attempts' = attempts \cup {task[t].nonce}
     \/ task' = [task EXCEPT ![t].stage = "failed"] /\ UNCHANGED attempts
  /\ UNCHANGED <<supVars, events, stun, client, net, lost>>

(* The interval of either side: another round of hellos. *)
Hello(n) ==
  /\ \/ client[n] = "punching" /\ net' = net \cup {Packet(n, "server", "hello")}
     \/ n \in attempts /\ net' = net \cup {Packet(n, "client", "hello")}
  /\ UNCHANGED <<supVars, events, task, stun, attempts, client, lost>>

(* Mutant: the client returns without answering a hello. *)
ClientReturns(p) ==
  /\ p \in net /\ p.to = "client" /\ client[p.nonce] = "punching"
  /\ client' = [client EXCEPT ![p.nonce] = "ok"]
  /\ net' = net \ {p}
  /\ UNCHANGED <<supVars, events, task, stun, attempts, lost>>

(* punch returns on the first packet; it acknowledges a hello. *)
ClientGets(p) ==
  /\ p \in net /\ p.to = "client" /\ client[p.nonce] = "punching"
  /\ client' = [client EXCEPT ![p.nonce] = "ok"]
  /\ net' = (net \ {p}) \cup (IF p.kind = "hello" THEN {Packet(p.nonce, "server", "ack")} ELSE {})
  /\ UNCHANGED <<supVars, events, task, stun, attempts, lost>>

(* RealmUdpSocket hands a packet of a registered attempt to respond, which *)
(* acknowledges a hello and drops its guard.                               *)
ServerGets(p, t) ==
  /\ p \in net /\ p.to = "server" /\ p.nonce \in attempts
  /\ task[t].stage = "punching" /\ task[t].nonce = p.nonce
  /\ task' = [task EXCEPT ![t].stage = "ok"]
  /\ attempts' = attempts \ {p.nonce}
  /\ net' = (net \ {p}) \cup (IF p.kind = "hello" THEN {Packet(p.nonce, "client", "ack")} ELSE {})
  /\ UNCHANGED <<supVars, events, stun, client, lost>>

(* A packet is lost, or reaches a socket that no longer punches. *)
Lose(p) ==
  /\ p \in net /\ net' = net \ {p} /\ lost' = lost \cup {p.nonce}
  /\ UNCHANGED <<supVars, events, task, stun, attempts, client>>

PunchTimeout ==
  /\ \/ \E t \in Tasks : /\ task[t].stage = "punching"
                         /\ task' = [task EXCEPT ![t].stage = "failed"]
                         /\ attempts' = attempts \ {task[t].nonce}
                         /\ UNCHANGED client
     \/ \E n \in Nonces : /\ client[n] \in {"asked", "punching"}
                          /\ client' = [client EXCEPT ![n] = "failed"]
                          /\ UNCHANGED <<task, attempts>>
  /\ UNCHANGED <<supVars, events, stun, net, lost>>

Supervise == OpenEvents \/ Heartbeat \/ Wake \/ Refreshed \/ Register

Next ==
  \/ Start \/ Supervise \/ StreamEnds \/ Tick \/ Drop \/ Deregister
  \/ \E n \in Nonces : Ask(n) \/ Hello(n)
  \/ \E t \in Tasks : TakeEvent(t) \/ Discovered(t) \/ ConnectResponse(t) \/ Respond(t)
  \/ \E p \in net : ClientGets(p) \/ Lose(p) \/ \E t \in Tasks : ServerGets(p, t)
  \/ PunchTimeout

(* The supervisor's requests end, its timers fire, and the rendezvous does *)
(* not refuse every registration.  Nothing makes packets arrive, and       *)
(* nothing is assumed of the detached tasks.                               *)
Fairness ==
  /\ WF_vars(Supervise) /\ WF_vars(Tick) /\ SF_vars(Register /\ sup' = "open")

Spec == Init /\ [][Next]_vars /\ Fairness

-----------------------------------------------------------------------------
(* A server whose session the rendezvous has lost, or whose event stream   *)
(* broke, is registered again under a session it knows.                    *)
ReRegisters == (runtime = "running") ~> (runtime = "dropped" \/ stored \in Alive)

(* The tables that share Quinn's socket hold exactly the transactions of   *)
(* running discoveries and the nonce of exactly one running response each, *)
(* also when an event is delivered twice or the supervisor is aborted.     *)
TablesMatchTasks ==
  /\ stun = {t \in Tasks : task[t].stage = "discover"}
            \cup (IF sup = "refresh" THEN {"supervisor"} ELSE {})
  /\ \A n \in Nonces :
       LET punchers == {t \in Tasks : task[t].stage = "punching" /\ task[t].nonce = n}
       IN IF n \in attempts THEN \E t \in Tasks : punchers = {t} ELSE punchers = {}

(* An end that stops punching because it heard the other one has answered: *)
(* the other end is not left to time out unless a packet was lost.         *)
FinishReachesPeer ==
  \A n \in Nonces : n \notin lost =>
    LET answered == \E t \in Tasks : task[t].stage = "ok" /\ task[t].nonce = n IN
    /\ client[n] = "ok" /\ n \in attempts /\ ~answered => Packet(n, "server", "ack") \in net
    /\ client[n] = "punching" /\ answered => Packet(n, "client", "ack") \in net
=============================================================================
