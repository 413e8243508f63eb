---------------------------- MODULE ClientHandle ----------------------------
(***************************************************************************)
(* The connection that all local proxies of a client share                 *)
(* (crates/hysteria/src/runtime.rs, ClientHandle): connected on first use, *)
(* replaced after it closed, and given up for good by close().             *)
(*                                                                         *)
(* The state is behind a tokio Mutex, which is handed over in the order of *)
(* the requests and is held across the dialing.  A connection is known by  *)
(* its address (Arc::ptr_eq): an address is used again once nobody holds a *)
(* reference to it.  An Option is a set of at most one element.            *)
(***************************************************************************)
EXTENDS Integers, Sequences, FiniteSets

CONSTANTS
  Workers,   \* the tasks of the local proxies that open tunnels
  Closer,    \* serve_client
  Conns      \* addresses of ProxyClients

ASSUME ClientHandleAssumption ==
  /\ IsFiniteSet(Workers) /\ IsFiniteSet(Conns)
  /\ Closer \notin Workers
  /\ Cardinality(Conns) >= Cardinality(Workers) + 3   \* a fresh one always exists

VARIABLES
  status,     \* per connection: "dialing", "live", "lost" or "closed"
  connected, closed, updater,   \* ClientState; updater: the update task's client
  waiting,    \* the Mutex: its holder, then those waiting for it
  worker,     \* per worker: pc and the client it works with
  closer      \* "running", "closing" or "done"

vars == <<status, connected, closed, updater, waiting, worker, closer>>

Idle == [pc |-> "idle", client |-> {}]

Init ==
  /\ status = [c \in Conns |-> "closed"]
  /\ connected = {} /\ closed = FALSE /\ updater = {}
  /\ waiting = <<>>
  /\ worker = [w \in Workers |-> Idle]
  /\ closer = "running"

Set(w, pc, client) == worker' = [worker EXCEPT ![w] = [pc |-> pc, client |-> client]]
Holds(x) == waiting # <<>> /\ Head(waiting) = x
Unlock == waiting' = Tail(waiting)

(* A task that is dropped gives up the lock, or its place in the queue. *)
Without(seq, x) ==
  IF \A i \in DOMAIN seq : seq[i] # x THEN seq
  ELSE LET at == CHOOSE i \in DOMAIN seq : seq[i] = x
       IN  [i \in 1..Len(seq) - 1 |-> IF i < at THEN seq[i] ELSE seq[i + 1]]

(* close_connected. *)
Closed(S) == [c \in Conns |-> IF c \in S THEN "closed" ELSE status[c]]

Unreferenced ==
  {c \in Conns : c \notin connected \cup updater /\ \A w \in Workers : c \notin worker[w].client}

-----------------------------------------------------------------------------
(* A proxy asks for a tunnel: client() waits for the lock. *)
Request(w) ==
  /\ worker[w].pc = "idle"
  /\ Set(w, "client", {})
  /\ waiting' = Append(waiting, w)
  /\ UNCHANGED <<status, connected, closed, updater, closer>>

(* client() with the lock: refuse, share the connection, or start dialing, *)
(* with the lock kept.                                                     *)
Refuse(w) ==
  /\ Holds(w) /\ worker[w].pc = "client" /\ closed
  /\ Set(w, "idle", {}) /\ Unlock
  /\ UNCHANGED <<status, connected, closed, updater, closer>>

Share(w) ==
  /\ Holds(w) /\ worker[w].pc = "client" /\ ~closed
  /\ connected # {} /\ \A c \in connected : status[c] = "live"
  /\ Set(w, "use", connected) /\ Unlock
  /\ UNCHANGED <<status, connected, closed, updater, closer>>

(* Mutant: the lock is released while dialing. *)
DialUnlocked(w, n) ==
  /\ Holds(w) /\ worker[w].pc = "client" /\ ~closed
  /\ \A c \in connected : status[c] # "live"
  /\ n \in Unreferenced
  /\ connected' = {}
  /\ status' = [Closed(connected) EXCEPT ![n] = "dialing"]
  /\ Set(w, "dialing", {n}) /\ Unlock
  /\ UNCHANGED <<closed, updater, closer>>

(* Mutant: client() does not look at closed. *)
DialWhenClosed(w, n) ==
  /\ Holds(w) /\ worker[w].pc = "client"
  /\ \A c \in connected : status[c] # "live"
  /\ n \in Unreferenced
  /\ connected' = {}
  /\ status' = [Closed(connected) EXCEPT ![n] = "dialing"]
  /\ Set(w, "dialing", {n})
  /\ UNCHANGED <<closed, updater, waiting, closer>>

Dial(w, n) ==
  /\ Holds(w) /\ worker[w].pc = "client" /\ ~closed
  /\ \A c \in connected : status[c] # "live"
  /\ n \in Unreferenced
  /\ connected' = {}
  /\ status' = [Closed(connected) EXCEPT ![n] = "dialing"]
  /\ Set(w, "dialing", {n})
  /\ UNCHANGED <<closed, updater, waiting, closer>>

(* connect_client returns; the first success starts the update task. *)
DialSucceeds(w) ==
  /\ worker[w].pc = "dialing"
  /\ status' = [c \in Conns |-> IF c \in worker[w].client THEN "live" ELSE status[c]]
  /\ connected' = worker[w].client
  /\ updater' = IF updater = {} THEN worker[w].client ELSE updater
  /\ Set(w, "use", worker[w].client)
  /\ waiting' = Without(waiting, w)
  /\ UNCHANGED <<closed, closer>>

(* Mutant: an error of connect_client leaves the lock taken. *)
DialFailsLocked(w) ==
  /\ worker[w].pc = "dialing"
  /\ status' = Closed(worker[w].client)
  /\ Set(w, "idle", {})
  /\ UNCHANGED <<connected, closed, updater, waiting, closer>>

DialFails(w) ==
  /\ worker[w].pc = "dialing"
  /\ status' = Closed(worker[w].client)
  /\ Set(w, "idle", {})
  /\ waiting' = Without(waiting, w)
  /\ UNCHANGED <<connected, closed, updater, closer>>

(* tcp() and udp(): the tunnel is opened or fails; when it failed and the  *)
(* connection is closed, the worker asks for the lock to invalidate it.    *)
Opened(w) ==
  /\ worker[w].pc = "use"
  /\ Set(w, "idle", {})
  /\ UNCHANGED <<status, connected, closed, updater, waiting, closer>>

Failed(w) ==
  /\ worker[w].pc = "use" /\ \A c \in worker[w].client : status[c] # "live"
  /\ Set(w, "invalidate", worker[w].client)
  /\ waiting' = Append(waiting, w)
  /\ UNCHANGED <<status, connected, closed, updater, closer>>

(* Mutant: whatever is connected is invalidated. *)
InvalidateAny(w) ==
  /\ Holds(w) /\ worker[w].pc = "invalidate"
  /\ status' = Closed(connected) /\ connected' = {}
  /\ Set(w, "idle", {}) /\ Unlock
  /\ UNCHANGED <<closed, updater, closer>>

Invalidate(w) ==
  /\ Holds(w) /\ worker[w].pc = "invalidate"
  /\ IF connected = worker[w].client
     THEN status' = Closed(connected) /\ connected' = {}
     ELSE UNCHANGED <<status, connected>>
  /\ Set(w, "idle", {}) /\ Unlock
  /\ UNCHANGED <<closed, updater, closer>>

-----------------------------------------------------------------------------
(* The peer or the network ends a connection. *)
Lose(c) ==
  /\ status[c] = "live"
  /\ status' = [status EXCEPT ![c] = "lost"]
  /\ UNCHANGED <<connected, closed, updater, waiting, worker, closer>>

(* serve_client stops: it aborts the tasks of the proxies and waits for    *)
(* the lock.  An aborted task is dropped where it awaits, and what it was  *)
(* dialing and its place at the lock with it; the tasks it had spawned     *)
(* itself go on.                                                           *)
Stop ==
  /\ closer = "running"
  /\ closer' = "closing"
  /\ waiting' = Append(waiting, Closer)
  /\ UNCHANGED <<status, connected, closed, updater, worker>>

Abort(w) ==
  /\ closer # "running" /\ worker[w].pc # "gone"
  /\ status' = IF worker[w].pc = "dialing" THEN Closed(worker[w].client) ELSE status
  /\ Set(w, "gone", {})
  /\ waiting' = Without(waiting, w)
  /\ UNCHANGED <<connected, closed, updater, closer>>

Close ==
  /\ closer = "closing" /\ Holds(Closer)
  /\ closed' = TRUE
  /\ status' = Closed(connected) /\ connected' = {}
  /\ Unlock /\ closer' = "done"
  /\ UNCHANGED <<updater, worker>>

-----------------------------------------------------------------------------
(* What a worker does once it has asked for a tunnel. *)
Work(w) ==
  \/ Refuse(w) \/ Share(w) \/ (\E n \in Conns : Dial(w, n))
  \/ DialSucceeds(w) \/ DialFails(w)
  \/ Opened(w) \/ Failed(w) \/ Invalidate(w)

Next ==
  \/ \E w \in Workers : Request(w) \/ Work(w) \/ Abort(w)
  \/ \E c \in Conns : Lose(c)
  \/ Stop \/ Close

(* Tasks that can run are polled, and dialing ends: with a connection, an  *)
(* error, or its timeout.                                                  *)
Fairness == WF_vars(Close) /\ \A w \in Workers : WF_vars(Work(w))

Spec == Init /\ [][Next]_vars /\ Fairness

-----------------------------------------------------------------------------
TypeOK ==
  /\ status \in [Conns -> {"dialing", "live", "lost", "closed"}]
  /\ connected \subseteq Conns /\ updater \subseteq Conns /\ closed \in BOOLEAN
  /\ waiting \in Seq(Workers \cup {Closer})
  /\ \A i, j \in DOMAIN waiting : waiting[i] = waiting[j] => i = j
  /\ worker \in [Workers -> [pc : {"idle", "client", "dialing", "use", "invalidate", "gone"},
                             client : SUBSET Conns]]
  /\ closer \in {"running", "closing", "done"}

(* Concurrent requests never dial twice, and no connection is left open    *)
(* without its handle: at most one is being dialed or live, a live one is  *)
(* the one in connected, whoever was aborted, failed or invalidated.       *)
OneConnection ==
  LET busy == {c \in Conns : status[c] \in {"dialing", "live"}} IN
    /\ \A c, d \in busy : c = d
    /\ \A c \in busy : status[c] = "live" => connected = {c}

(* close() is final: nothing is dialed or live once it returned, though    *)
(* workers that were not aborted go on asking for tunnels.                 *)
ClosedForGood ==
  closed => connected = {} /\ \A c \in Conns : status[c] \in {"lost", "closed"}

(* There is one connection at a time, and none after close(). *)
ConnectionRules == TypeOK /\ OneConnection /\ ClosedForGood

(* Whoever asks for a tunnel gets an answer: the lock is not lost by an    *)
(* error, an abort or a connection that dies while others wait.            *)
RequestsAnswered == \A w \in Workers : worker[w].pc = "client" ~> worker[w].pc # "client"

(* The shutdown completes, behind whatever was dialing. *)
CloseCompletes == closer = "closing" ~> closed

(* Neither requests nor the shutdown wait for ever. *)
HandleAnswers == RequestsAnswered /\ CloseCompletes

(* The handle is a reconnecting client as ReconnectingClient describes it. *)
ConnState ==
  IF \E c \in Conns : status[c] = "dialing" THEN "dialing"
  ELSE IF connected = {} THEN "none"
  ELSE IF \E c \in connected : status[c] = "live" THEN "live" ELSE "lost"

Abstract == INSTANCE ReconnectingClient WITH conn <- ConnState, open <- ~closed

(* Every step of the handle is one of the promised lifecycle or changes    *)
(* nothing in it.  In particular a worker that comes late to invalidate    *)
(* its own dead connection does not take down the one that replaced it.    *)
ImplementsReconnecting == Abstract!Spec
=============================================================================
