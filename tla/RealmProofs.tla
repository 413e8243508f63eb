----------------------------- MODULE RealmProofs -----------------------------
(***************************************************************************)
(* Proofs about Realm, for any number of sessions, punch attempts and      *)
(* response tasks: the tables that share Quinn's socket agree with the     *)
(* tasks, and an end that stops punching has told the other one.  And      *)
(* about the DNS records by which a server proves its name (AcmeDns).      *)
(***************************************************************************)
EXTENDS Realm, AcmeDns, TLAPS

Stages == {"none", "discover", "answer", "respond", "punching", "ok", "failed"}
ClientStates == {"idle", "asked", "punching", "ok", "failed"}
AnyNonce == Nonces \cup {NoTask.nonce}
Packets == [nonce : Nonces, to : {"server", "client"}, kind : {"hello", "ack"}]

Types ==
  /\ task \in [Tasks -> [stage : Stages, nonce : AnyNonce]]
  /\ \A t \in Tasks : task[t].stage # "none" => task[t].nonce \in Nonces
  /\ client \in [Nonces -> ClientStates]
  /\ net \subseteq Packets
  /\ events \in Seq(Nonces)

(* The guard of a discovery removes what it inserted, and only the         *)
(* supervisor of a started runtime refreshes.                              *)
StunInv ==
  /\ stun = {t \in Tasks : task[t].stage = "discover"}
            \cup (IF sup = "refresh" THEN {"supervisor"} ELSE {})
  /\ runtime = "starting" => sup = "ended"

(* A nonce is registered by the one task that punches for it. *)
AttemptInv ==
  /\ \A t \in Tasks : task[t].stage = "punching" => task[t].nonce \in attempts
  /\ \A n \in attempts : \E t \in Tasks : task[t].stage = "punching" /\ task[t].nonce = n
  /\ \A t, u \in Tasks : task[t].stage = "punching" /\ task[u].stage = "punching"
                        /\ task[t].nonce = task[u].nonce => t = u

Answered(n) == \E t \in Tasks : task[t].stage = "ok" /\ task[t].nonce = n

(* Events and tasks are for clients that have asked.  Only a client that   *)
(* was let to start sends, so a task that heard from its client knows that *)
(* it was.                                                                 *)
AskedInv ==
  /\ \A i \in DOMAIN events : client[events[i]] # "idle"
  /\ \A t \in Tasks : task[t].stage # "none" => client[task[t].nonce] # "idle"
  /\ \A p \in net : p.to = "server" => client[p.nonce] \notin {"idle", "asked"}
  /\ \A t \in Tasks : task[t].stage = "ok" => client[task[t].nonce] # "asked"

(* An acknowledgement on its way is of an end that has finished, and one   *)
(* that was not lost is there until it has been heard.                     *)
AckInv ==
  /\ \A n \in Nonces : Packet(n, "server", "ack") \in net => client[n] = "ok"
  /\ \A n \in Nonces : Packet(n, "client", "ack") \in net => Answered(n)
  /\ \A n \in Nonces \ lost : client[n] = "ok" /\ ~Answered(n) => Packet(n, "server", "ack") \in net
  /\ \A n \in Nonces \ lost : client[n] = "punching" /\ Answered(n) => Packet(n, "client", "ack") \in net

IInv == Types /\ StunInv /\ AttemptInv /\ AskedInv /\ AckInv

LEMMA InitIInv == Init => IInv
<1> SUFFICES ASSUME Init PROVE IInv
  OBVIOUS
<1>1. /\ task \in [Tasks -> [stage : Stages, nonce : AnyNonce]]
      /\ \A t \in Tasks : task[t].stage = "none"
  BY DEF Init, NoTask, Stages, AnyNonce
<1>2. Types
  BY <1>1 DEF Init, Types, ClientStates
<1>3. StunInv
  BY <1>1 DEF Init, StunInv
<1>4. AttemptInv
  BY <1>1 DEF Init, AttemptInv
<1>5. AskedInv /\ AckInv
  BY <1>1 DEF Init, AskedInv, AckInv
<1> QED BY <1>2, <1>3, <1>4, <1>5 DEF IInv

-----------------------------------------------------------------------------
(* The supervisor and the rendezvous touch no response task.               *)

LEMMA PunchersStay ==
  ASSUME IInv, UNCHANGED punchVars, events' = events \/ events' = <<>>
  PROVE  Types' /\ AttemptInv' /\ AskedInv' /\ AckInv'
<1> USE DEF IInv, punchVars
<1>1. Types'
  <2>1. CASE events' = events
    BY <2>1 DEF Types
  <2>2. CASE events' = <<>>
    <3>1. <<>> \in Seq(Nonces)
      OBVIOUS
    <3> QED BY <2>2, <3>1 DEF Types
  <2> QED BY <2>1, <2>2
<1>2. AttemptInv'
  BY DEF AttemptInv
<1>3. AskedInv'
  BY DEF AskedInv
<1>4. AckInv'
  BY DEF AckInv, Answered
<1> QED BY <1>1, <1>2, <1>3, <1>4

LEMMA SupervisorKeepsIInv ==
  ASSUME IInv, Start \/ Supervise \/ StreamEnds \/ Tick \/ Drop \/ Deregister
  PROVE  IInv'
<1>1. UNCHANGED punchVars /\ (events' = events \/ events' = <<>>)
  BY DEF Start, Supervise, OpenEvents, Heartbeat, Wake, Refreshed, Register, StreamEnds, Tick,
         Drop, Deregister
<1>2. UNCHANGED task
  BY <1>1 DEF punchVars
<1>3. StunInv'
  <2> USE <1>2, RealmAssumption DEF IInv, StunInv
  <2>1. CASE Start
    BY <2>1 DEF Start
  <2>2. CASE OpenEvents
    BY <2>2 DEF OpenEvents
  <2>3. CASE Heartbeat
    BY <2>3 DEF Heartbeat
  <2>4. CASE Wake
    BY <2>4 DEF Wake
  <2>5. CASE Refreshed
    BY <2>5 DEF Refreshed
  <2>6. CASE Register
    BY <2>6 DEF Register
  <2>7. CASE StreamEnds \/ Tick \/ Deregister
    BY <2>7 DEF StreamEnds, Tick, Deregister
  <2>8. CASE Drop
    BY <2>8 DEF Drop
  <2> QED BY <2>1, <2>2, <2>3, <2>4, <2>5, <2>6, <2>7, <2>8 DEF Supervise
<1> QED BY <1>1, <1>3, PunchersStay, ZenonT(30), SMTT(60) DEF IInv

-----------------------------------------------------------------------------
(* Punching.                                                               *)

(* What moving a task changes. *)
LEMMA StageFacts ==
  ASSUME Types, NEW t \in Tasks, NEW s \in Stages, task' = [task EXCEPT ![t].stage = s]
  PROVE  /\ task' \in [Tasks -> [stage : Stages, nonce : AnyNonce]]
         /\ task'[t].stage = s /\ task'[t].nonce = task[t].nonce
         /\ \A u \in Tasks \ {t} : task'[u] = task[u]
BY DEF Types

(* A move that starts no discovery leaves stun alone. *)
LEMMA AskKeepsIInv ==
  ASSUME IInv, NEW n \in Nonces, Ask(n)
  PROVE  IInv'
<1> USE DEF IInv
<1>1. /\ UNCHANGED <<runtime, sup, task, stun, attempts, net, lost>>
      /\ client' \in [Nonces -> ClientStates] /\ client[n] = "idle" /\ client'[n] = "asked"
      /\ \A m \in Nonces \ {n} : client'[m] = client[m]
  BY DEF Ask, Types, ClientStates, supVars
<1>2. /\ events' \in Seq(Nonces)
      /\ \A i \in DOMAIN events' : events'[i] = n \/ \E j \in DOMAIN events : events'[i] = events[j]
  <2>1. CASE events' = Append(events, n)
    BY <2>1 DEF Types
  <2>2. CASE events' = events \o <<n, n>>
    BY <2>2 DEF Types
  <2> QED BY <2>1, <2>2, Zenon DEF Ask
<1>3. Types'
  BY <1>1, <1>2 DEF Types
<1>4. StunInv' /\ AttemptInv'
  BY <1>1 DEF StunInv, AttemptInv
<1>5. AskedInv'
  <2>1. \A i \in DOMAIN events' : client'[events'[i]] # "idle"
    BY <1>1, <1>2 DEF AskedInv, Types
  <2>2. \A t \in Tasks : task[t].stage # "none" =>
          task[t].nonce # n /\ client'[task[t].nonce] = client[task[t].nonce]
    BY <1>1 DEF AskedInv, Types
  <2>3. \A p \in net : p.to = "server" => client'[p.nonce] \notin {"idle", "asked"}
    <3>1. \A p \in net : p.nonce \in Nonces
      BY ZenonT(30), SMTT(60) DEF Types, Packets
    <3> QED BY <3>1, <1>1 DEF AskedInv
  <2> QED BY <2>1, <2>2, <2>3, <1>1 DEF AskedInv
<1>6. AckInv'
  BY <1>1 DEF AckInv, Answered
<1> QED BY <1>3, <1>4, <1>5, <1>6

LEMMA TakeEventKeepsIInv ==
  ASSUME IInv, NEW t \in Tasks, TakeEvent(t)
  PROVE  IInv'
<1> USE DEF IInv
<1> DEFINE n == Head(events)
<1>1. n \in Nonces /\ client[n] # "idle"
  BY DEF TakeEvent, Types, AskedInv
<1>2. /\ events' \in Seq(Nonces)
      /\ \A i \in DOMAIN events' : \E j \in DOMAIN events : events'[i] = events[j]
  BY DEF TakeEvent, Types
<1>3. UNCHANGED <<runtime, sup, attempts, client, net, lost>>
  BY DEF TakeEvent, supVars
<1>4. CASE UNCHANGED <<task, stun>>
  <2>1. Types'
    BY <1>2, <1>3, <1>4, ZenonT(30), SMTT(60) DEF Types
  <2>2. StunInv' /\ AttemptInv'
    BY <1>3, <1>4, ZenonT(30), SMTT(60) DEF StunInv, AttemptInv
  <2>3. AskedInv'
    BY <1>2, <1>3, <1>4 DEF AskedInv
  <2>4. AckInv'
    BY <1>3, <1>4 DEF AckInv, Answered
  <2> QED BY <2>1, <2>2, <2>3, <2>4
<1>5. CASE task' = [task EXCEPT ![t] = [stage |-> "discover", nonce |-> n]] /\ stun' = stun \cup {t}
  <2>1. /\ task' \in [Tasks -> [stage : Stages, nonce : AnyNonce]]
        /\ task'[t].stage = "discover" /\ task'[t].nonce = n /\ task[t].stage = "none"
        /\ \A u \in Tasks \ {t} : task'[u] = task[u]
    BY <1>1, <1>5, ZenonT(30), SMTT(60) DEF TakeEvent, Types, Stages, AnyNonce
  <2> HIDE DEF n
  <2>2. Types'
    BY <1>1, <1>2, <1>3, <2>1, ZenonT(30), SMTT(60) DEF Types
  <2>3. StunInv'
    BY <1>3, <1>5, <2>1, RealmAssumption DEF StunInv
  <2>4. AttemptInv'
    BY <1>3, <2>1 DEF AttemptInv
  <2>5. AskedInv'
    BY <1>1, <1>2, <1>3, <2>1, ZenonT(30), SMTT(60) DEF AskedInv
  <2>6. AckInv'
    <3>1. \A m \in Nonces : Answered(m)' <=> Answered(m)
      BY <2>1 DEF Answered
    <3> QED BY <3>1, <1>3 DEF AckInv
  <2> QED BY <2>2, <2>3, <2>4, <2>5, <2>6, ZenonT(30), SMTT(60)
<1> QED BY <1>4, <1>5, Zenon DEF TakeEvent

LEMMA DiscoveredKeepsIInv ==
  ASSUME IInv, NEW t \in Tasks, Discovered(t)
  PROVE  IInv'
<1> USE DEF IInv
<1>1. UNCHANGED <<runtime, sup, events, attempts, client, net, lost>> /\ stun' = stun \ {t}
  BY DEF Discovered, supVars
<1>2. /\ task' \in [Tasks -> [stage : Stages, nonce : AnyNonce]]
      /\ task'[t].stage = "answer" /\ task'[t].nonce = task[t].nonce /\ task[t].stage = "discover"
      /\ \A u \in Tasks \ {t} : task'[u] = task[u]
  BY StageFacts, Zenon DEF Discovered, Stages
<1>3. Types'
  BY <1>1, <1>2, Zenon DEF Types
<1>4. StunInv'
  BY <1>1, <1>2, RealmAssumption, ZenonT(30), SMTT(60) DEF StunInv
<1>5. AttemptInv' /\ AskedInv'
  BY <1>1, <1>2, SMTT(60) DEF AttemptInv, AskedInv
<1>6. AckInv'
  <2>1. \A m \in Nonces : Answered(m)' <=> Answered(m)
    BY <1>2 DEF Answered
  <2> QED BY <2>1, <1>1 DEF AckInv
<1> QED BY <1>3, <1>4, <1>5, <1>6

(* A client that is let to start has been answered by nobody yet. *)
LEMMA ConnectKeepsIInv ==
  ASSUME IInv, NEW t \in Tasks, ConnectResponse(t)
  PROVE  IInv'
<1> USE DEF IInv
<1> DEFINE n == task[t].nonce
<1>1. UNCHANGED <<runtime, sup, events, stun, attempts, net, lost>>
  BY DEF ConnectResponse, supVars
<1>2. n \in Nonces /\ task[t].stage = "answer"
  BY DEF ConnectResponse, Types
<1>3. /\ task' \in [Tasks -> [stage : Stages, nonce : AnyNonce]]
      /\ task'[t].stage = "respond" /\ task'[t].nonce = n
      /\ \A u \in Tasks \ {t} : task'[u] = task[u]
  BY StageFacts, Zenon DEF ConnectResponse, Stages
<1>4. /\ client' \in [Nonces -> ClientStates]
      /\ client'[n] = client[n] \/ (client[n] = "asked" /\ client'[n] = "punching")
      /\ \A m \in Nonces \ {n} : client'[m] = client[m]
  BY <1>2 DEF ConnectResponse, Types, ClientStates
<1> HIDE DEF n
<1>5. Types'
  BY <1>1, <1>2, <1>3, <1>4, ZenonT(30), SMTT(60) DEF Types
<1>6. StunInv' /\ AttemptInv'
  BY <1>1, <1>2, <1>3, SMTT(60) DEF StunInv, AttemptInv
<1>7. AskedInv'
  <2>1. \A m \in Nonces : (client[m] # "idle" => client'[m] # "idle")
                          /\ (client[m] # "asked" => client'[m] # "asked")
    BY <1>2, <1>4
  <2>2. /\ \A i \in DOMAIN events : events[i] \in Nonces
        /\ \A u \in Tasks : task[u].stage # "none" => task[u].nonce \in Nonces
        /\ \A p \in net : p.nonce \in Nonces
    BY SMTT(60) DEF Types, Packets
  <2>3. \A i \in DOMAIN events' : client'[events'[i]] # "idle"
    BY <2>1, <2>2, <1>1, ZenonT(30), SMTT(60) DEF AskedInv
  <2>4. \A u \in Tasks : task'[u].stage # "none" => client'[task'[u].nonce] # "idle"
    <3>1. client'[n] # "idle"
      BY <2>1, <1>2, ZenonT(30), SMTT(60) DEF AskedInv, n
    <3>2. ASSUME NEW u \in Tasks \ {t}, task[u].stage # "none"
          PROVE  client'[task[u].nonce] # "idle"
      BY <3>2, <2>1, <2>2 DEF AskedInv
    <3> QED BY <3>1, <3>2, <1>3
  <2>5. \A p \in net' : p.to = "server" => client'[p.nonce] \notin {"idle", "asked"}
    BY <2>1, <2>2, <1>1, ZenonT(30), SMTT(60) DEF AskedInv
  <2>6. \A u \in Tasks : task'[u].stage = "ok" => client'[task'[u].nonce] # "asked"
    BY <2>1, <2>2, <1>2, <1>3, ZenonT(30), SMTT(60) DEF AskedInv
  <2> QED BY <2>3, <2>4, <2>5, <2>6 DEF AskedInv
<1>8. AckInv'
  <2>1. \A m \in Nonces : Answered(m)' <=> Answered(m)
    BY <1>2, <1>3 DEF Answered
  <2>2. Answered(n) => client[n] # "asked"
    BY <1>2 DEF Answered, AskedInv
  <2>3. \A m \in Nonces : (client'[m] = "ok" <=> client[m] = "ok")
                          /\ (client'[m] = "punching" /\ Answered(m) => client[m] = "punching")
    BY <1>2, <1>4, <2>2
  <2> QED BY <2>1, <2>3, <1>1 DEF AckInv
<1> QED BY <1>5, <1>6, <1>7, <1>8

LEMMA RespondKeepsIInv ==
  ASSUME IInv, NEW t \in Tasks, Respond(t)
  PROVE  IInv'
<1> USE DEF IInv
<1> DEFINE n == task[t].nonce
<1>1. UNCHANGED <<runtime, sup, events, stun, client, net, lost>>
  BY DEF Respond, supVars
<1>2. n \in Nonces /\ task[t].stage = "respond"
  BY DEF Respond, Types
<1>3. PICK s \in {"punching", "failed"} :
        /\ task' = [task EXCEPT ![t].stage = s]
        /\ \/ s = "punching" /\ n \notin attempts /\ attempts' = attempts \cup {n}
           \/ s = "failed" /\ UNCHANGED attempts
  BY Zenon DEF Respond
<1>4. /\ task' \in [Tasks -> [stage : Stages, nonce : AnyNonce]]
      /\ task'[t].stage = s /\ task'[t].nonce = n
      /\ \A u \in Tasks \ {t} : task'[u] = task[u]
  BY <1>3, StageFacts, Zenon DEF Stages
<1> HIDE DEF n
<1>5. Types'
  BY <1>1, <1>2, <1>4 DEF Types
<1>6. StunInv'
  BY <1>1, <1>2, <1>3, <1>4 DEF StunInv
<1>7. AttemptInv'
  <2>1. CASE s = "failed"
    BY <2>1, <1>2, <1>3, <1>4 DEF AttemptInv
  <2>2. CASE s = "punching"
    BY <2>2, <1>2, <1>3, <1>4 DEF AttemptInv
  <2> QED BY <2>1, <2>2, <1>3
<1>8. AskedInv'
  BY <1>1, <1>2, <1>3, <1>4 DEF AskedInv
<1>9. AckInv'
  <2>1. \A m \in Nonces : Answered(m)' <=> Answered(m)
    BY <1>2, <1>3, <1>4 DEF Answered
  <2> QED BY <2>1, <1>1 DEF AckInv
<1> QED BY <1>5, <1>6, <1>7, <1>8, <1>9

(* A packet tells its destination, its kind and its attempt. *)
LEMMA PacketFacts ==
  ASSUME NEW n, NEW m, NEW to, NEW dest, NEW k, NEW kind
  PROVE  /\ Packet(n, to, k).nonce = n /\ Packet(n, to, k).to = to /\ Packet(n, to, k).kind = k
         /\ Packet(n, to, k) = Packet(m, dest, kind) => n = m /\ to = dest /\ k = kind
BY DEF Packet

LEMMA PacketTypes ==
  \A n \in Nonces : \A to \in {"server", "client"} : \A k \in {"hello", "ack"} :
    Packet(n, to, k) \in Packets
BY DEF Packet, Packets

LEMMA PacketIs ==
  ASSUME NEW p \in Packets
  PROVE  /\ p.nonce \in Nonces /\ p.to \in {"server", "client"} /\ p.kind \in {"hello", "ack"}
         /\ p = Packet(p.nonce, p.to, p.kind)
BY DEF Packet, Packets

LEMMA HelloKeepsIInv ==
  ASSUME IInv, NEW n \in Nonces, Hello(n)
  PROVE  IInv'
<1> USE DEF IInv
<1>1. UNCHANGED <<runtime, sup, events, stun, task, attempts, client, lost>>
  BY ZenonT(30), SMTT(60) DEF Hello, supVars
<1>2. /\ net' \subseteq Packets
      /\ \A m \in Nonces, to \in {"server", "client"} :
           Packet(m, to, "ack") \in net' <=> Packet(m, to, "ack") \in net
  <2>1. PICK to \in {"server", "client"} : net' = net \cup {Packet(n, to, "hello")}
    BY DEF Hello
  <2>2. \A m \in Nonces, dest \in {"server", "client"} :
          Packet(m, dest, "ack") # Packet(n, to, "hello")
    BY PacketFacts, SMTT(60)
  <2> QED BY <2>1, <2>2, PacketTypes DEF Types
<1>3. Types' /\ StunInv' /\ AttemptInv'
  BY <1>1, <1>2, ZenonT(30), SMTT(60) DEF Types, StunInv, AttemptInv
<1>4. AckInv'
  BY <1>1, <1>2, ZenonT(30), SMTT(60) DEF AckInv, Answered
<1>5. AskedInv'
  <2>1. \A p \in net' \ net : p.nonce = n /\ (p.to = "server" => client[n] = "punching")
    BY PacketFacts DEF Hello
  <2> QED BY <1>1, <2>1, ZenonT(30), SMTT(60) DEF AskedInv
<1> QED BY <1>3, <1>4, <1>5, ZenonT(30), SMTT(60)

LEMMA LoseKeepsIInv ==
  ASSUME IInv, NEW p \in net, Lose(p)
  PROVE  IInv'
<1> USE DEF IInv
<1>1. /\ UNCHANGED <<runtime, sup, events, stun, task, attempts, client>>
      /\ net' = net \ {p} /\ lost' = lost \cup {p.nonce}
  BY ZenonT(30), SMTT(60) DEF Lose, supVars
<1>2. Types' /\ StunInv' /\ AttemptInv' /\ AskedInv'
  BY <1>1, ZenonT(30), SMTT(60) DEF Types, StunInv, AttemptInv, AskedInv
<1>3. AckInv'
  <2>1. \A m \in Nonces, to \in {"server", "client"} :
          m # p.nonce => Packet(m, to, "ack") # p
    BY PacketFacts
  <2> QED BY <1>1, <2>1 DEF AckInv, Answered
<1> QED BY <1>2, <1>3

LEMMA ClientGetsKeepsIInv ==
  ASSUME IInv, NEW p \in net, ClientGets(p)
  PROVE  IInv'
<1> USE DEF IInv
<1> DEFINE n == p.nonce
<1>1. UNCHANGED <<runtime, sup, events, stun, task, attempts, lost>>
  BY ZenonT(30), SMTT(60) DEF ClientGets, supVars
<1>2. /\ p \in Packets /\ n \in Nonces /\ p.to = "client" /\ client[n] = "punching"
      /\ p.kind = "hello" \/ p = Packet(n, "client", "ack")
  BY PacketIs, ZenonT(30), SMTT(60) DEF ClientGets, Types
<1>3. /\ client' \in [Nonces -> ClientStates] /\ client'[n] = "ok"
      /\ \A m \in Nonces \ {n} : client'[m] = client[m]
  BY <1>2, ZenonT(30), SMTT(60) DEF ClientGets, Types, ClientStates
<1>4. /\ net' \subseteq Packets
      /\ \A m \in Nonces : Packet(m, "client", "ack") \in net' => Packet(m, "client", "ack") \in net
      /\ \A m \in Nonces \ {n} : Packet(m, "client", "ack") \in net => Packet(m, "client", "ack") \in net'
      /\ \A m \in Nonces \ {n} : Packet(m, "server", "ack") \in net <=> Packet(m, "server", "ack") \in net'
      /\ p.kind = "hello" => Packet(n, "server", "ack") \in net'
  <2>1. \A m \in Nonces : /\ Packet(m, "client", "ack") # Packet(n, "server", "ack")
                          /\ Packet(m, "server", "ack") # p
                          /\ m # n => /\ Packet(m, "client", "ack") # p
                                     /\ Packet(m, "server", "ack") # Packet(n, "server", "ack")
    BY <1>2, PacketFacts
  <2>2. Packet(n, "server", "ack") \in Packets
    BY <1>2, PacketTypes
  <2>3. net' = (net \ {p}) \cup (IF p.kind = "hello" THEN {Packet(n, "server", "ack")} ELSE {})
    BY DEF ClientGets
  <2>4. net \subseteq Packets
    BY ZenonT(30), SMTT(60) DEF Types
  <2>5. CASE p.kind = "hello"
    BY <2>1, <2>2, <2>3, <2>4, <2>5, ZenonT(30), SMTT(60)
  <2>6. CASE p.kind # "hello"
    BY <2>1, <2>3, <2>4, <2>6, ZenonT(30), SMTT(60)
  <2> QED BY <2>5, <2>6, ZenonT(30), SMTT(60)
<1> HIDE DEF n
<1>5. Types' /\ StunInv' /\ AttemptInv'
  BY <1>1, <1>3, <1>4, ZenonT(30), SMTT(60) DEF Types, StunInv, AttemptInv
<1>6. AskedInv'
  <2>1. \A i \in DOMAIN events : events[i] \in Nonces
    BY DEF Types
  <2>2. \A u \in Tasks : task[u].stage # "none" => task[u].nonce \in Nonces
    BY DEF Types
  <2>3. \A q \in net' : q.nonce \in Nonces /\ (q \in net \/ q.nonce = n)
    <3>1. \A q \in net' : q \in net \/ q = Packet(n, "server", "ack")
      BY DEF ClientGets, n
    <3>2. \A q \in net' : q.nonce \in Nonces
      BY <1>4, ZenonT(30), SMTT(60) DEF Packets
    <3> QED BY <3>1, <3>2, PacketFacts
  <2> QED BY <2>1, <2>2, <2>3, <1>1, <1>3 DEF AskedInv
<1>7. AckInv'
  <2>1. \A m \in Nonces : Answered(m)' <=> Answered(m)
    BY <1>1 DEF Answered
  <2>2. p.kind # "hello" => Answered(n)
    BY <1>2, ZenonT(30), SMTT(60) DEF AckInv
  <2>3. \A m \in Nonces : Packet(m, "server", "ack") \in net' => client'[m] = "ok"
    BY <1>3, <1>4, ZenonT(30), SMTT(60) DEF AckInv
  <2>4. \A m \in Nonces : Packet(m, "client", "ack") \in net' => Answered(m)'
    BY <2>1, <1>4 DEF AckInv
  <2>5. \A m \in Nonces \ lost : client'[m] = "ok" /\ ~Answered(m)' => Packet(m, "server", "ack") \in net'
    <3> SUFFICES ASSUME NEW m \in Nonces \ lost, client'[m] = "ok", ~Answered(m)'
                 PROVE  Packet(m, "server", "ack") \in net'
      OBVIOUS
    <3>1. CASE m = n
      BY <3>1, <2>1, <2>2, <1>4, ZenonT(30), SMTT(60)
    <3>2. CASE m # n
      BY <3>2, <2>1, <1>3, <1>4, ZenonT(30), SMTT(60) DEF AckInv
    <3> QED BY <3>1, <3>2
  <2>6. \A m \in Nonces \ lost : client'[m] = "punching" /\ Answered(m)' => Packet(m, "client", "ack") \in net'
    BY <2>1, <1>3, <1>4, ZenonT(30), SMTT(60) DEF AckInv
  <2> QED BY <2>3, <2>4, <2>5, <2>6, <1>1 DEF AckInv
<1> QED BY <1>5, <1>6, <1>7

LEMMA ServerGetsKeepsIInv ==
  ASSUME IInv, NEW p \in net, NEW t \in Tasks, ServerGets(p, t)
  PROVE  IInv'
<1> USE DEF IInv
<1> DEFINE n == p.nonce
<1>1. UNCHANGED <<runtime, sup, events, stun, client, lost>> /\ attempts' = attempts \ {n}
  BY DEF ServerGets, supVars
<1>2. /\ p \in Packets /\ n \in Nonces /\ p.to = "server"
      /\ p.kind = "hello" \/ p = Packet(n, "server", "ack")
      /\ task[t].stage = "punching" /\ task[t].nonce = n
  BY PacketIs DEF ServerGets, Types
<1>3. /\ task' \in [Tasks -> [stage : Stages, nonce : AnyNonce]]
      /\ task'[t].stage = "ok" /\ task'[t].nonce = n
      /\ \A u \in Tasks \ {t} : task'[u] = task[u]
  BY <1>2, StageFacts, ZenonT(60) DEF ServerGets, Stages
<1>4. /\ net' \subseteq Packets
      /\ \A m \in Nonces : Packet(m, "server", "ack") \in net' => Packet(m, "server", "ack") \in net
      /\ \A m \in Nonces \ {n} : Packet(m, "server", "ack") \in net => Packet(m, "server", "ack") \in net'
      /\ \A m \in Nonces \ {n} : Packet(m, "client", "ack") \in net <=> Packet(m, "client", "ack") \in net'
      /\ p.kind = "hello" => Packet(n, "client", "ack") \in net'
  <2>1. \A m \in Nonces : /\ Packet(m, "server", "ack") # Packet(n, "client", "ack")
                          /\ Packet(m, "client", "ack") # p
                          /\ m # n => /\ Packet(m, "server", "ack") # p
                                     /\ Packet(m, "client", "ack") # Packet(n, "client", "ack")
    BY <1>2, PacketFacts, SMTT(60)
  <2>2. Packet(n, "client", "ack") \in Packets
    BY <1>2, PacketTypes
  <2>3. net' = (net \ {p}) \cup (IF p.kind = "hello" THEN {Packet(n, "client", "ack")} ELSE {})
    BY DEF ServerGets
  <2>4. net \subseteq Packets
    BY ZenonT(30), SMTT(60) DEF Types
  <2>5. CASE p.kind = "hello"
    BY <2>1, <2>2, <2>3, <2>4, <2>5, ZenonT(30), SMTT(60)
  <2>6. CASE p.kind # "hello"
    BY <2>1, <2>3, <2>4, <2>6, ZenonT(30), SMTT(60)
  <2> QED BY <2>5, <2>6, ZenonT(30), SMTT(60)
<1> HIDE DEF n
<1>5. Types'
  BY <1>1, <1>2, <1>3, <1>4, ZenonT(30), SMTT(60) DEF Types
<1>6. StunInv'
  BY <1>1, <1>2, <1>3, ZenonT(30), SMTT(60) DEF StunInv
<1>7. AttemptInv'
  BY <1>1, <1>2, <1>3, SMTT(60) DEF AttemptInv
<1>8. AskedInv'
  <2>1. \A q \in net' : q \in net \/ q.to = "client"
    <3>1. \A q \in net' : q \in net \/ q = Packet(n, "client", "ack")
      BY DEF ServerGets, n
    <3> QED BY <3>1, PacketFacts
  <2>2. client[n] # "asked"
    BY <1>2 DEF AskedInv, n
  <2> QED BY <2>1, <2>2, <1>1, <1>2, <1>3, ZenonT(60) DEF AskedInv
<1>9. AckInv'
  <2>1. Answered(n)' /\ \A m \in Nonces \ {n} : Answered(m)' <=> Answered(m)
    BY <1>2, <1>3, ZenonT(30), SMTT(60) DEF Answered
  <2>2. p.kind # "hello" => client[n] = "ok"
    BY <1>2, ZenonT(30), SMTT(60) DEF AckInv
  <2>3. \A m \in Nonces : Packet(m, "server", "ack") \in net' => client[m] = "ok"
    BY <1>4, ZenonT(30), SMTT(60) DEF AckInv
  <2>4. \A m \in Nonces : Packet(m, "client", "ack") \in net' => Answered(m)'
    BY <2>1, <1>4, ZenonT(30), SMTT(60) DEF AckInv
  <2>5. \A m \in Nonces \ lost : client[m] = "ok" /\ ~Answered(m)' => Packet(m, "server", "ack") \in net'
    BY <2>1, <1>4 DEF AckInv
  <2>6. \A m \in Nonces \ lost : client[m] = "punching" /\ Answered(m)' => Packet(m, "client", "ack") \in net'
    <3> SUFFICES ASSUME NEW m \in Nonces \ lost, client[m] = "punching", Answered(m)'
                 PROVE  Packet(m, "client", "ack") \in net'
      OBVIOUS
    <3>1. CASE m = n
      BY <3>1, <2>2, <1>4, ZenonT(30), SMTT(60)
    <3>2. CASE m # n
      BY <3>2, <2>1, <1>4 DEF AckInv
    <3> QED BY <3>1, <3>2
  <2> QED BY <2>3, <2>4, <2>5, <2>6, <1>1, ZenonT(30), SMTT(60) DEF AckInv
<1> QED BY <1>5, <1>6, <1>7, <1>8, <1>9

LEMMA PunchTimeoutKeepsIInv ==
  ASSUME IInv, PunchTimeout
  PROVE  IInv'
<1> USE DEF IInv
<1>1. UNCHANGED <<runtime, sup, events, stun, net, lost>>
  BY DEF PunchTimeout, supVars
<1>2. CASE \E t \in Tasks : /\ task[t].stage = "punching"
                           /\ task' = [task EXCEPT ![t].stage = "failed"]
                           /\ attempts' = attempts \ {task[t].nonce}
                           /\ UNCHANGED client
  <2>1. PICK t \in Tasks : /\ task[t].stage = "punching"
                          /\ task' = [task EXCEPT ![t].stage = "failed"]
                          /\ attempts' = attempts \ {task[t].nonce}
                          /\ UNCHANGED client
    BY <1>2, Zenon
  <2>2. /\ task' \in [Tasks -> [stage : Stages, nonce : AnyNonce]]
        /\ task'[t].stage = "failed" /\ task'[t].nonce = task[t].nonce
        /\ \A u \in Tasks \ {t} : task'[u] = task[u]
    BY <2>1, StageFacts, Zenon DEF Stages
  <2>3. Types'
    BY <1>1, <2>1, <2>2 DEF Types
  <2>4. StunInv' /\ AttemptInv'
    BY <1>1, <2>1, <2>2 DEF StunInv, AttemptInv
  <2>5. AskedInv'
    BY <1>1, <2>1, <2>2 DEF AskedInv
  <2>6. AckInv'
    <3>1. \A m \in Nonces : Answered(m)' <=> Answered(m)
      BY <2>1, <2>2 DEF Answered
    <3> QED BY <3>1, <1>1, <2>1 DEF AckInv
  <2> QED BY <2>3, <2>4, <2>5, <2>6
<1>3. CASE \E n \in Nonces : /\ client[n] \in {"asked", "punching"}
                            /\ client' = [client EXCEPT ![n] = "failed"]
                            /\ UNCHANGED <<task, attempts>>
  <2>1. PICK n \in Nonces : /\ client[n] \in {"asked", "punching"}
                           /\ client' = [client EXCEPT ![n] = "failed"]
                           /\ UNCHANGED <<task, attempts>>
    BY <1>3, Zenon
  <2>2. /\ client' \in [Nonces -> ClientStates] /\ client'[n] = "failed"
        /\ \A m \in Nonces \ {n} : client'[m] = client[m]
    BY <2>1, ZenonT(30), SMTT(60) DEF Types, ClientStates
  <2>3. Types' /\ StunInv' /\ AttemptInv'
    BY <1>1, <2>1, <2>2, ZenonT(30), SMTT(60) DEF Types, StunInv, AttemptInv
  <2>4. AskedInv'
    <3>1. \A i \in DOMAIN events : events[i] \in Nonces
      BY DEF Types
    <3>2. \A u \in Tasks : task[u].stage # "none" => task[u].nonce \in Nonces
      BY ZenonT(30), SMTT(60) DEF Types
    <3>3. \A p \in net : p.nonce \in Nonces
      BY ZenonT(30), SMTT(60) DEF Types, Packets
    <3> QED BY <3>1, <3>2, <3>3, <1>1, <2>1, <2>2 DEF AskedInv
  <2>5. AckInv'
    BY <1>1, <2>1, <2>2, ZenonT(30), SMTT(60) DEF AckInv, Answered
  <2> QED BY <2>3, <2>4, <2>5
<1> QED BY <1>2, <1>3 DEF PunchTimeout

-----------------------------------------------------------------------------

LEMMA NextKeepsIInv == IInv /\ [Next]_vars => IInv'
<1> SUFFICES ASSUME IInv, [Next]_vars PROVE IInv'
  OBVIOUS
<1>1. CASE Start \/ Supervise \/ StreamEnds \/ Tick \/ Drop \/ Deregister
  BY <1>1, SupervisorKeepsIInv, ZenonT(30), SMTT(60)
<1>3. CASE \E n \in Nonces : Ask(n) \/ Hello(n)
  BY <1>3, AskKeepsIInv, HelloKeepsIInv, ZenonT(30), SMTT(60)
<1>4. CASE \E t \in Tasks : TakeEvent(t) \/ Discovered(t) \/ ConnectResponse(t) \/ Respond(t)
  BY <1>4, TakeEventKeepsIInv, DiscoveredKeepsIInv, ConnectKeepsIInv, RespondKeepsIInv
<1>5. CASE \E p \in net : ClientGets(p) \/ Lose(p) \/ \E t \in Tasks : ServerGets(p, t)
  BY <1>5, ClientGetsKeepsIInv, LoseKeepsIInv, ServerGetsKeepsIInv
<1>6. CASE PunchTimeout
  BY <1>6, PunchTimeoutKeepsIInv
<1>7. CASE UNCHANGED vars
  <2>1. UNCHANGED <<runtime, sup, stun, events, task>> /\ UNCHANGED punchVars
    BY <1>7, ZenonT(30), SMTT(60) DEF vars, punchVars
  <2>2. StunInv'
    BY <2>1, ZenonT(30), SMTT(60) DEF IInv, StunInv
  <2> QED BY <2>1, <2>2, PunchersStay DEF IInv
<1> QED BY <1>1, <1>3, <1>4, <1>5, <1>6, <1>7 DEF Next

LEMMA IInvImpliesTables == IInv => TablesMatchTasks
<1> SUFFICES ASSUME IInv, NEW n \in Nonces
             PROVE  LET punchers == {t \in Tasks : task[t].stage = "punching" /\ task[t].nonce = n}
                    IN IF n \in attempts THEN \E t \in Tasks : punchers = {t} ELSE punchers = {}
  BY DEF IInv, StunInv, TablesMatchTasks
<1> DEFINE P == {t \in Tasks : task[t].stage = "punching" /\ task[t].nonce = n}
<1>1. CASE n \in attempts
  <2>1. PICK t \in Tasks : task[t].stage = "punching" /\ task[t].nonce = n
    BY <1>1, ZenonT(30), SMTT(60) DEF IInv, AttemptInv
  <2>2. P = {t}
    BY <2>1 DEF IInv, AttemptInv
  <2> QED BY <1>1, <2>2, ZenonT(60)
<1>2. CASE n \notin attempts
  <2>1. P = {}
    BY <1>2, ZenonT(30), SMTT(60) DEF IInv, AttemptInv
  <2> QED BY <1>2, <2>1, ZenonT(60)
<1> QED BY <1>1, <1>2, ZenonT(30), SMTT(60)

LEMMA IInvImpliesFinish == IInv => FinishReachesPeer
BY DEF IInv, AckInv, Answered, FinishReachesPeer

(* The STUN table and the attempt table of the socket agree with the       *)
(* running discoveries and responses: every guard removes its own entries, *)
(* and a duplicate event never makes two tasks punch under one nonce.      *)
THEOREM TablesAgree == Spec => []TablesMatchTasks
<1>1. Spec => []IInv
  BY InitIInv, NextKeepsIInv, PTL DEF Spec
<1> QED BY <1>1, IInvImpliesTables, PTL

(* An end that stops punching because it heard the other has answered it:  *)
(* unless a packet is lost, neither punch is left to its timeout.          *)
THEOREM FinishIsHeard == Spec => []FinishReachesPeer
<1>1. Spec => []IInv
  BY InitIInv, NextKeepsIInv, PTL DEF Spec
<1> QED BY <1>1, IInvImpliesFinish, PTL

-----------------------------------------------------------------------------
(* AcmeDns.                                                                *)

DnsKinds == {"id", "rrset", "zone", "single"}
Before == {"idle", "read", "create"}
After == {"propagate", "challenge", "readAgain", "remove"}
Made(b) == [value |-> value, id |-> nextId, created |-> b]

DnsTypes ==
  /\ provider \in DnsKinds /\ state \in Before \union After
  /\ expected \subseteq Values \union {Foreign} /\ value \in Values
  /\ nextId \in Nat \ {0}

(* The one handle that the solver has is for the authorization in progress. *)
HandleInv ==
  /\ state \in Before => records = {} /\ handle = {}
  /\ state \in {"propagate", "challenge"} => handle = {} /\ \E b \in BOOLEAN : records = {Made(b)}
  /\ state \in {"readAgain", "remove"} =>
       (\E b \in BOOLEAN : handle = {Made(b)}) /\ records \subseteq handle

(* What is there beside the values of others is the authorization's value; *)
(* what was read last is what is there.                                    *)
Extra == IF state \in Before THEN {} ELSE {value}
IdInv ==
  provider = "id" =>
    txt = Plain(expected) \union {[value |-> v, id |-> nextId] : v \in Extra}
RrsetInv ==
  provider = "rrset" =>
    /\ TxtValues \ Values = expected \ Values /\ TxtValues \subseteq expected \union Extra
    /\ state \in {"create", "remove"} => snapshot = TxtValues
ZoneInv ==
  provider = "zone" =>
    /\ TxtValues = expected \union Extra
    /\ state \in {"create", "remove"} => snapshot = TxtValues
    /\ \A h \in records \union handle : h.created = (value \notin expected)
    /\ \A h \in handle : h.created
SingleInv == provider = "single" /\ state \in Before => TxtValues \subseteq expected

DnsInv ==
  /\ DnsTypes
  /\ ~answerLost /\ ~raced => HandleInv /\ IdInv /\ RrsetInv /\ ZoneInv /\ SingleInv

LEMMA HeldPlain ==
  ASSUME NEW X
  PROVE  {r.value : r \in Plain(X)} = X
<1>1. \A v \in X : [value |-> v, id |-> 0] \in Plain(X) /\ [value |-> v, id |-> 0].value = v
  BY Zenon DEF Plain
<1>2. \A r \in Plain(X) : r.value \in X
  BY DEF Plain
<1> QED BY <1>1, <1>2, ZenonT(30)

LEMMA DnsImplies == DnsInv => ZoneRestored
<1> SUFFICES ASSUME DnsInv, state = "idle", ~answerLost, ~raced
             PROVE  CASE provider \in {"id", "zone"} -> TxtValues = expected
                      [] provider = "rrset" -> TxtValues \ Values = expected \ Values /\ TxtValues \subseteq expected
                      [] provider = "single" -> TxtValues \subseteq expected
  BY Zenon DEF ZoneRestored
<1>1. provider \in DnsKinds /\ Extra = {} /\ IdInv /\ RrsetInv /\ ZoneInv /\ SingleInv
  BY DEF DnsInv, DnsTypes, Extra, Before
<1>2. CASE provider = "id"
  <2>1. txt = Plain(expected)
    BY <1>1, <1>2 DEF IdInv
  <2>2. TxtValues = expected
    BY <2>1, HeldPlain DEF TxtValues
  <2> QED BY <1>2, <2>2, ZenonT(30), SMTT(60)
<1>3. CASE provider = "rrset"
  BY <1>1, <1>3 DEF RrsetInv
<1>4. CASE provider = "zone"
  BY <1>1, <1>4 DEF ZoneInv
<1>5. CASE provider = "single"
  BY <1>1, <1>5 DEF SingleInv, Before
<1> QED BY <1>1, <1>2, <1>3, <1>4, <1>5, Zenon DEF DnsKinds

LEMMA DnsStart == DnsInit => DnsInv
<1> SUFFICES ASSUME DnsInit PROVE DnsInv
  OBVIOUS
<1>1. DnsTypes
  BY DEF DnsInit, DnsTypes, DnsKinds, Before
<1>2. HandleInv /\ Extra = {} /\ state \notin {"create", "remove"} /\ records \union handle = {}
  BY ZenonT(30), SMTT(60) DEF DnsInit, HandleInv, Before, Extra
<1>3. TxtValues = expected
  BY HeldPlain, ZenonT(30), SMTT(60) DEF DnsInit, TxtValues
<1>4. IdInv /\ RrsetInv /\ SingleInv
  BY <1>2, <1>3, ZenonT(30), SMTT(60) DEF DnsInit, IdInv, RrsetInv, SingleInv
<1>5. ZoneInv
  BY <1>2, <1>3 DEF DnsInit, ZoneInv
<1> QED BY <1>1, <1>2, <1>4, <1>5, ZenonT(30), SMTT(60) DEF DnsInv

LEMMA DnsTypesKept == DnsTypes /\ [DnsNext]_dnsVars => DnsTypes'
<1> SUFFICES ASSUME DnsTypes, [DnsNext]_dnsVars PROVE DnsTypes'
  OBVIOUS
<1> USE DEF DnsTypes, Before, After
<1>1. CASE Authorize
  BY <1>1, SMTT(60) DEF Authorize
<1>2. CASE ReadRecords("read", "create", FALSE) \/ ReadRecords("readAgain", "remove", TRUE)
  BY <1>2 DEF ReadRecords
<1>3. CASE Create
  BY <1>3, ZenonT(30), SMTT(60) DEF Create
<1>4. CASE Propagate
  BY <1>4, ZenonT(30), SMTT(60) DEF Propagate, Removal
<1>5. CASE Cleanup
  BY <1>5 DEF Cleanup, Removal
<1>6. CASE RemoveRecord
  BY <1>6, ZenonT(30), SMTT(60) DEF RemoveRecord
<1>7. CASE OtherEdit
  BY <1>7 DEF OtherEdit
<1>8. CASE Crash
  BY <1>8, ZenonT(30), SMTT(60) DEF Crash
<1>9. CASE UNCHANGED dnsVars
  BY <1>9 DEF dnsVars
<1> QED BY <1>1, <1>2, <1>3, <1>4, <1>5, <1>6, <1>7, <1>8, <1>9, ZenonT(60) DEF DnsNext

(* What was lost stays lost. *)
LEMMA GoodBefore ==
  ASSUME [DnsNext]_dnsVars, ~answerLost', ~raced'
  PROVE  ~answerLost /\ ~raced
<1>1. CASE Authorize
  BY <1>1 DEF Authorize
<1>2. CASE ReadRecords("read", "create", FALSE) \/ ReadRecords("readAgain", "remove", TRUE)
  <2>1. UNCHANGED raced /\ (answerLost' = answerLost \/ answerLost' = (answerLost \/ FALSE) \/ answerLost' = (answerLost \/ TRUE))
    BY <1>2 DEF ReadRecords
  <2>2. ~raced
    BY <2>1
  <2>3. CASE answerLost' = answerLost
    BY <2>2, <2>3
  <2>4. CASE answerLost' = (answerLost \/ FALSE)
    BY <2>2, <2>4, Zenon
  <2>5. CASE answerLost' = (answerLost \/ TRUE)
    BY <2>2, <2>5, Zenon
  <2> QED BY <2>1, <2>3, <2>4, <2>5, ZenonT(30), SMTT(60)
<1>3. CASE Create
  <2>1. UNCHANGED raced /\ (answerLost' = answerLost \/ answerLost' = TRUE)
    BY <1>3, ZenonT(30), SMTT(60) DEF Create
  <2> QED BY <2>1
<1>4. CASE Propagate
  BY <1>4 DEF Propagate
<1>5. CASE Cleanup
  BY <1>5 DEF Cleanup
<1>6. CASE RemoveRecord
  <2>1. UNCHANGED raced /\ (answerLost' = answerLost \/ answerLost' = TRUE)
    BY <1>6 DEF RemoveRecord
  <2> QED BY <2>1
<1>7. CASE OtherEdit
  BY <1>7, Zenon DEF OtherEdit
<1>8. CASE Crash
  BY <1>8 DEF Crash
<1>9. CASE UNCHANGED dnsVars
  BY <1>9 DEF dnsVars
<1> QED BY <1>1, <1>2, <1>3, <1>4, <1>5, <1>6, <1>7, <1>8, <1>9, ZenonT(60) DEF DnsNext

Restorable == HandleInv /\ IdInv /\ RrsetInv /\ ZoneInv /\ SingleInv

LEMMA AuthorizeRestorable ==
  ASSUME DnsTypes, Restorable, Authorize
  PROVE  Restorable'
<1>1. /\ state = "idle" /\ state' \in Before /\ (state' # "create" \/ ~ReadsFirst)
      /\ UNCHANGED <<provider, txt, expected, records, handle>>
  BY ZenonT(30), SMTT(60) DEF Authorize, Before
<1>2. Extra = {} /\ Extra' = {} /\ TxtValues' = TxtValues /\ records = {} /\ handle = {} /\ state \in Before
  BY <1>1 DEF Extra, Before, TxtValues, Restorable, HandleInv
<1>3. HandleInv'
  BY <1>1, <1>2, ZenonT(30), SMTT(60) DEF HandleInv, Before
<1>4. IdInv'
  BY <1>1, <1>2, ZenonT(30), SMTT(60) DEF Restorable, IdInv
<1>5. RrsetInv'
  BY <1>1, <1>2, ZenonT(30), SMTT(60) DEF Restorable, RrsetInv, Before, ReadsFirst
<1>6. ZoneInv'
  BY <1>1, <1>2 DEF Restorable, ZoneInv, Before, ReadsFirst
<1>7. SingleInv'
  BY <1>1, <1>2 DEF Restorable, SingleInv
<1> QED BY <1>3, <1>4, <1>5, <1>6, <1>7, ZenonT(30), SMTT(60) DEF Restorable

LEMMA ReadRestorable ==
  ASSUME DnsTypes, Restorable, ~answerLost',
         ReadRecords("read", "create", FALSE) \/ ReadRecords("readAgain", "remove", TRUE)
  PROVE  Restorable'
<1>1. UNCHANGED <<provider, txt, expected, value, nextId>> /\ TxtValues' = TxtValues
  BY DEF ReadRecords, TxtValues
<1>2. CASE state' \in {"create", "remove"}
  <2>1. /\ (state = "read" /\ state' = "create") \/ (state = "readAgain" /\ state' = "remove")
        /\ snapshot' = TxtValues /\ UNCHANGED <<records, handle>>
    BY <1>2 DEF ReadRecords
  <2>2. Extra' = Extra /\ (state \in Before <=> state' \in Before)
    BY <1>1, <2>1, ZenonT(30), SMTT(60) DEF Extra, Before
  <2>3. HandleInv'
    BY <1>1, <2>1, ZenonT(30), SMTT(60) DEF Restorable, HandleInv, Before, Made
  <2>4. IdInv' /\ RrsetInv' /\ ZoneInv' /\ SingleInv'
    BY <1>1, <2>1, <2>2, Zenon DEF Restorable, IdInv, RrsetInv, ZoneInv, SingleInv
  <2> QED BY <2>3, <2>4, ZenonT(30), SMTT(60) DEF Restorable
<1>3. CASE state' \notin {"create", "remove"}
  <2>1. state = "read" /\ state' = "idle" /\ handle' = {} /\ records' = records \ handle
    BY <1>3, ZenonT(60) DEF ReadRecords
  <2>2. records = {} /\ records' = {} /\ handle = {} /\ Extra = {} /\ Extra' = {}
    BY <2>1, ZenonT(30), SMTT(60) DEF Restorable, HandleInv, Extra, Before
  <2>3. HandleInv'
    BY <2>1, <2>2, ZenonT(30), SMTT(60) DEF HandleInv, Before
  <2>4. IdInv' /\ RrsetInv' /\ ZoneInv' /\ SingleInv'
    BY <1>1, <2>1, <2>2, ZenonT(60) DEF Restorable, IdInv, RrsetInv, ZoneInv, SingleInv, Before
  <2> QED BY <2>3, <2>4 DEF Restorable
<1> QED BY <1>2, <1>3, ZenonT(30), SMTT(60)

LEMMA CreateRestorable ==
  ASSUME DnsTypes, Restorable, ~answerLost', Create
  PROVE  Restorable'
<1> DEFINE present == provider = "zone" /\ value \in snapshot
<1>1. state = "create" /\ records = {} /\ handle = {} /\ Extra = {}
  BY DEF Create, Restorable, HandleInv, Before, Extra
<1>2. UNCHANGED <<provider, expected, value, snapshot, handle, nextId>>
  BY DEF Create
<1>3. CASE state' = "idle"
  <2>1. UNCHANGED <<txt, records>>
    BY <1>3, ZenonT(30), SMTT(60) DEF Create
  <2>2. TxtValues' = TxtValues /\ Extra' = {}
    BY <1>3, <2>1, ZenonT(30), SMTT(60) DEF TxtValues, Extra, Before
  <2>3. HandleInv'
    BY <1>1, <1>2, <1>3, <2>1, ZenonT(30), SMTT(60) DEF HandleInv, Before
  <2>4. IdInv' /\ RrsetInv' /\ ZoneInv' /\ SingleInv'
    BY <1>1, <1>2, <1>3, <2>1, <2>2, ZenonT(60) DEF Restorable, IdInv, RrsetInv, ZoneInv, SingleInv, Before
  <2> QED BY <2>3, <2>4 DEF Restorable
<1>4. CASE state' # "idle"
  <2>1. /\ state' = "propagate"
        /\ records' = {[value |-> value, id |-> nextId, created |-> ~present]}
        /\ Extra' = {value}
    BY <1>1, <1>2, <1>4 DEF Create, Extra, Before
  <2>2. HandleInv'
    BY <1>1, <1>2, <2>1, ZenonT(60) DEF HandleInv, Before, Made
  <2>3. IdInv'
    <3> SUFFICES ASSUME provider = "id"
                 PROVE  txt' = Plain(expected) \union {[value |-> v, id |-> nextId] : v \in {value}}
      BY <1>2, <2>1, Zenon DEF IdInv, Plain
    <3>1. txt' = txt \union {[value |-> value, id |-> nextId]}
      BY <1>4, ZenonT(30), SMTT(60) DEF Create
    <3>2. txt = Plain(expected)
      BY <1>1, ZenonT(30), SMTT(60) DEF Restorable, IdInv
    <3> QED BY <3>1, <3>2, ZenonT(30), SMTT(60)
  <2>4. RrsetInv'
    <3> SUFFICES ASSUME provider = "rrset" PROVE RrsetInv'
      BY <1>2 DEF RrsetInv
    <3>1. txt' = Plain(snapshot \union {value})
      BY <1>4 DEF Create
    <3>2. TxtValues' = snapshot \union {value}
      BY <3>1, HeldPlain, ZenonT(60) DEF TxtValues
    <3>3. snapshot = TxtValues /\ TxtValues \ Values = expected \ Values /\ TxtValues \subseteq expected /\ value \in Values
      BY <1>1, ZenonT(30), SMTT(60) DEF Restorable, RrsetInv, DnsTypes
    <3> QED BY <1>2, <2>1, <3>2, <3>3, ZenonT(30), SMTT(60) DEF RrsetInv
  <2>5. ZoneInv'
    <3> SUFFICES ASSUME provider = "zone" PROVE ZoneInv'
      BY <1>2 DEF ZoneInv
    <3>1. snapshot = TxtValues /\ TxtValues = expected
      BY <1>1 DEF Restorable, ZoneInv
    <3>2. TxtValues' = expected \union {value}
      <4>1. CASE value \in snapshot
        <5>1. txt' = txt
          BY <1>4, <4>1 DEF Create
        <5> QED BY <3>1, <4>1, <5>1 DEF TxtValues
      <4>2. CASE value \notin snapshot
        <5>1. txt' = Plain(snapshot \union {value})
          BY <1>4, <4>2, ZenonT(30), SMTT(60) DEF Create
        <5> QED BY <3>1, <5>1, HeldPlain, Zenon DEF TxtValues
      <4> QED BY <4>1, <4>2
    <3>3. \A h \in records' \union handle' : h.created = (value \notin expected)
      BY <1>1, <1>2, <2>1, <3>1, SMTT(60)
    <3> QED BY <1>1, <1>2, <2>1, <3>2, <3>3, ZenonT(30), SMTT(60) DEF ZoneInv
  <2>6. SingleInv'
    BY <2>1, ZenonT(30), SMTT(60) DEF SingleInv, Before
  <2> QED BY <2>2, <2>3, <2>4, <2>5, <2>6 DEF Restorable
<1> QED BY <1>3, <1>4

(* The first step of remove, after a propagation that failed or a challenge. *)
LEMMA RemovalRestorable ==
  ASSUME DnsTypes, Restorable, state \in {"propagate", "challenge"}, NEW h \in records,
         state' = Removal(h), UNCHANGED <<provider, txt, expected, value, snapshot, nextId>>,
         state' = "idle" => records' = {} /\ handle' = {},
         state' # "idle" => handle' = {h} /\ records' \subseteq {h}
  PROVE  Restorable'
<1>1. PICK b \in BOOLEAN : records = {Made(b)}
  BY ZenonT(30), SMTT(60) DEF Restorable, HandleInv
<1>2. h = Made(b) /\ h.created = b /\ TxtValues' = TxtValues /\ Extra = {value}
  BY <1>1, SMTT(60) DEF Made, TxtValues, Extra, Before
<1>3. CASE provider = "zone" /\ ~h.created
  <2>1. state' = "idle" /\ Extra' = {}
    BY <1>3 DEF Removal, Extra, Before
  <2>2. value \in expected /\ TxtValues = expected
    BY <1>2, <1>3, ZenonT(60) DEF Restorable, ZoneInv
  <2>3. HandleInv'
    BY <2>1, ZenonT(30), SMTT(60) DEF HandleInv, Before
  <2>4. IdInv' /\ RrsetInv' /\ SingleInv'
    BY <1>3, ZenonT(30), SMTT(60) DEF IdInv, RrsetInv, SingleInv
  <2>5. ZoneInv'
    BY <1>2, <1>3, <2>1, <2>2, ZenonT(30), SMTT(60) DEF ZoneInv
  <2> QED BY <2>3, <2>4, <2>5, ZenonT(30), SMTT(60) DEF Restorable
<1>4. CASE ~(provider = "zone" /\ ~h.created)
  <2>1. state' = (IF ReadsFirst THEN "readAgain" ELSE "remove") /\ Extra' = {value}
    BY <1>4, ZenonT(30), SMTT(60) DEF Removal, Extra, Before
  <2>2. handle' = {h} /\ records' \subseteq {h} /\ state' \notin Before
    BY <2>1, ZenonT(30), SMTT(60) DEF Before
  <2>3. HandleInv'
    <3>1. Made(b)' = Made(b)
      BY ZenonT(30), SMTT(60) DEF Made
    <3> QED BY <1>2, <2>1, <2>2, <3>1, ZenonT(30), SMTT(60) DEF HandleInv, Before
  <2>4. IdInv'
    BY <1>2, <2>1, ZenonT(60) DEF Restorable, IdInv
  <2>5. RrsetInv'
    BY <1>2, <2>1 DEF Restorable, RrsetInv, ReadsFirst
  <2>6. ZoneInv'
    <3> SUFFICES ASSUME provider = "zone" PROVE ZoneInv'
      BY ZenonT(30), SMTT(60) DEF ZoneInv
    <3>1. h.created /\ state' = "readAgain"
      BY <1>4, <2>1, ZenonT(30), SMTT(60) DEF ReadsFirst
    <3>2. h.created = (value \notin expected) /\ TxtValues = expected \union {value}
      BY <1>2, ZenonT(30), SMTT(60) DEF Restorable, ZoneInv
    <3>3. \A x \in records' \union handle' : x = h
      BY <2>2
    <3> QED BY <1>2, <2>1, <3>1, <3>2, <3>3, ZenonT(60) DEF ZoneInv
  <2>7. SingleInv'
    BY <2>2, ZenonT(30), SMTT(60) DEF SingleInv
  <2> QED BY <2>3, <2>4, <2>5, <2>6, <2>7, ZenonT(30), SMTT(60) DEF Restorable
<1> QED BY <1>3, <1>4, ZenonT(30), SMTT(60)

LEMMA PropagateRestorable ==
  ASSUME DnsTypes, Restorable, Propagate
  PROVE  Restorable'
<1>1. state = "propagate" /\ UNCHANGED <<provider, txt, expected, value, snapshot, nextId>>
  BY DEF Propagate
<1>2. CASE state' = "challenge" /\ UNCHANGED <<records, handle>>
  <2>1. TxtValues' = TxtValues /\ Extra' = Extra
    BY <1>1, <1>2, ZenonT(30), SMTT(60) DEF TxtValues, Extra, Before
  <2>2. HandleInv'
    BY <1>1, <1>2 DEF Restorable, HandleInv, Before, Made
  <2>3. IdInv' /\ RrsetInv' /\ ZoneInv' /\ SingleInv'
    BY <1>1, <1>2, <2>1, ZenonT(60) DEF Restorable, IdInv, RrsetInv, ZoneInv, SingleInv, Before
  <2> QED BY <2>2, <2>3, ZenonT(30), SMTT(60) DEF Restorable
<1>3. CASE \E h \in records :
             /\ state' = Removal(h)
             /\ IF state' = "idle" THEN records' = records \ {h} /\ UNCHANGED handle
                ELSE handle' = {h} /\ UNCHANGED records
  <2>1. PICK h \in records :
          /\ state' = Removal(h)
          /\ IF state' = "idle" THEN records' = records \ {h} /\ UNCHANGED handle
             ELSE handle' = {h} /\ UNCHANGED records
    BY <1>3, ZenonT(30), SMTT(60)
  <2>2. records = {h} /\ handle = {}
    BY <1>1 DEF Restorable, HandleInv
  <2>3. state' = "idle" => records' = {} /\ handle' = {}
    BY <2>1, <2>2, ZenonT(30), SMTT(60)
  <2>4. state' # "idle" => handle' = {h} /\ records' \subseteq {h}
    BY <2>1, <2>2, ZenonT(30), SMTT(60)
  <2> QED BY <1>1, <2>1, <2>3, <2>4, RemovalRestorable, ZenonT(30), SMTT(60)
<1> QED BY <1>2, <1>3, ZenonT(30), SMTT(60) DEF Propagate

LEMMA CleanupRestorable ==
  ASSUME DnsTypes, Restorable, Cleanup
  PROVE  Restorable'
<1>1. state = "challenge" /\ UNCHANGED <<provider, txt, expected, value, snapshot, nextId>>
  BY ZenonT(30), SMTT(60) DEF Cleanup
<1>2. PICK h \in records :
        /\ state' = Removal(h) /\ records' = records \ {h}
        /\ handle' = IF state' = "idle" THEN {} ELSE {h}
  BY ZenonT(30), SMTT(60) DEF Cleanup
<1>3. records' = {}
  BY <1>1, <1>2 DEF Restorable, HandleInv
<1> QED BY <1>1, <1>2, <1>3, RemovalRestorable, ZenonT(30), SMTT(60)

LEMMA RemoveRestorable ==
  ASSUME DnsTypes, Restorable, ~answerLost', RemoveRecord
  PROVE  Restorable'
<1>1. /\ state = "remove" /\ state' = "idle" /\ handle' = {} /\ records' = records \ handle
      /\ UNCHANGED <<provider, expected, value, snapshot, nextId>>
  BY DEF RemoveRecord
<1>2. records' = {} /\ Extra = {value} /\ Extra' = {} /\ state' \in Before
  BY <1>1, ZenonT(30), SMTT(60) DEF Restorable, HandleInv, Extra, Before
<1>3. PICK b \in BOOLEAN : handle = {Made(b)}
  BY <1>1, ZenonT(30), SMTT(60) DEF Restorable, HandleInv
<1>4. Made(b).value = value /\ Made(b).id = nextId /\ Made(b).created = b
  BY DEF Made
<1> DEFINE absent == \/ provider = "zone" /\ value \notin snapshot
                     \/ provider = "rrset" /\ snapshot = {}
<1>5. txt' = CASE absent -> txt
               [] provider = "id" -> {r \in txt : r.id # nextId}
               [] provider = "single" -> {}
               [] OTHER -> Plain(snapshot \ {value})
  BY <1>3, <1>4, ZenonT(30), SMTT(60) DEF RemoveRecord
<1>6. HandleInv'
  BY <1>1, <1>2, ZenonT(30), SMTT(60) DEF HandleInv, Before
<1>7. IdInv'
  <2> SUFFICES ASSUME provider = "id" PROVE txt' = Plain(expected)
    BY <1>1, <1>2 DEF IdInv, Plain
  <2>1. txt' = {r \in txt : r.id # nextId}
    BY <1>5, ZenonT(30), SMTT(60)
  <2>2. txt = Plain(expected) \union {[value |-> value, id |-> nextId]}
    BY <1>2, Zenon DEF Restorable, IdInv
  <2>3. nextId # 0
    BY ZenonT(30), SMTT(60) DEF DnsTypes
  <2>4. \A r \in Plain(expected) : r.id = 0
    BY SMTT(60) DEF Plain
  <2> QED BY <2>1, <2>2, <2>3, <2>4, SMTT(60)
<1>8. RrsetInv'
  <2> SUFFICES ASSUME provider = "rrset" PROVE RrsetInv'
    BY <1>1, ZenonT(30), SMTT(60) DEF RrsetInv
  <2>1. snapshot = TxtValues /\ TxtValues \ Values = expected \ Values /\ TxtValues \subseteq expected \union {value}
        /\ value \in Values
    BY <1>1, <1>2 DEF Restorable, RrsetInv, DnsTypes
  <2>2. TxtValues' = TxtValues \ {value}
    <3>1. CASE snapshot = {}
      <4>1. txt' = txt
        BY <1>5, <3>1
      <4> QED BY <2>1, <3>1, <4>1 DEF TxtValues
    <3>2. CASE snapshot # {}
      <4>1. txt' = Plain(snapshot \ {value})
        BY <1>5, <3>2, ZenonT(30), SMTT(60)
      <4> QED BY <2>1, <4>1, HeldPlain, Zenon DEF TxtValues
    <3> QED BY <3>1, <3>2, ZenonT(30), SMTT(60)
  <2> QED BY <1>1, <1>2, <2>1, <2>2, ZenonT(30), SMTT(60) DEF RrsetInv
<1>9. ZoneInv'
  <2> SUFFICES ASSUME provider = "zone" PROVE ZoneInv'
    BY <1>1, ZenonT(30), SMTT(60) DEF ZoneInv
  <2>1. snapshot = TxtValues /\ TxtValues = expected \union {value} /\ value \notin expected
    BY <1>1, <1>2, <1>3, <1>4 DEF Restorable, ZoneInv
  <2>2. txt' = Plain(snapshot \ {value})
    BY <1>5, <2>1
  <2>3. TxtValues' = snapshot \ {value}
    BY <2>2, HeldPlain, Zenon DEF TxtValues
  <2>4. TxtValues' = expected
    BY <2>1, <2>3
  <2> QED BY <1>1, <1>2, <2>4, ZenonT(30), SMTT(60) DEF ZoneInv
<1>10. SingleInv'
  <2> SUFFICES ASSUME provider = "single" PROVE TxtValues' = {}
    BY <1>1 DEF SingleInv
  <2>1. txt' = {}
    BY <1>5
  <2> QED BY <2>1 DEF TxtValues
<1> QED BY <1>6, <1>7, <1>8, <1>9, <1>10 DEF Restorable

LEMMA PlainWithout ==
  ASSUME NEW E, NEW x
  PROVE  {r \in Plain(E) : r.value # x} = Plain(E \ {x})
<1>1. \A v : [value |-> v, id |-> 0].value = v
  OBVIOUS
<1>2. ASSUME NEW r
      PROVE  r \in {y \in Plain(E) : y.value # x} <=> r \in Plain(E \ {x})
  BY <1>1, ZenonT(60) DEF Plain
<1> QED BY <1>2, ZenonT(60)

LEMMA FilterUnion ==
  ASSUME NEW P, NEW Q, NEW x, \A q \in Q : q.value # x
  PROVE  {r \in P \union Q : r.value # x} = {r \in P : r.value # x} \union Q
BY ZenonT(60)

(* The foreign value is none of the solver's. *)
LEMMA EditRestorable ==
  ASSUME DnsTypes, Restorable, ~raced', OtherEdit
  PROVE  Restorable'
<1>1. UNCHANGED <<provider, state, value, snapshot, records, handle, nextId>> /\ Extra' = Extra
  BY DEF OtherEdit, Extra
<1>2. ~(ReadsFirst /\ state \in {"create", "remove"})
  BY Zenon DEF OtherEdit
<1>3. value \in Values /\ value # Foreign /\ Extra \subseteq {value}
  BY DnsAssumption, ZenonT(30), SMTT(60) DEF DnsTypes, Extra
<1>4. HandleInv'
  BY <1>1 DEF Restorable, HandleInv, Made
<1>5. CASE Foreign \in expected
  <2>1. expected' = expected \ {Foreign} /\ txt' = {r \in txt : r.value # Foreign}
    BY <1>5, Zenon DEF OtherEdit
  <2>2. TxtValues' = TxtValues \ {Foreign}
    <3>1. TxtValues' = {r.value : r \in {x \in txt : x.value # Foreign}}
      BY <2>1 DEF TxtValues
    <3>2. \A v : v \in {r.value : r \in {x \in txt : x.value # Foreign}} <=> v \in TxtValues /\ v # Foreign
      BY ZenonT(60) DEF TxtValues
    <3> QED BY <3>1, <3>2, ZenonT(60)
  <2>3. IdInv'
    <3> SUFFICES ASSUME provider = "id"
                 PROVE  txt' = Plain(expected') \union {[value |-> v, id |-> nextId] : v \in Extra}
      BY <1>1, ZenonT(30), SMTT(60) DEF IdInv, Plain
    <3>1. txt = Plain(expected) \union {[value |-> v, id |-> nextId] : v \in Extra}
      BY ZenonT(60) DEF Restorable, IdInv
    <3>2. {r \in Plain(expected) : r.value # Foreign} = Plain(expected')
      BY <2>1, PlainWithout, ZenonT(60)
    <3>3. \A v \in Extra : [value |-> v, id |-> nextId].value # Foreign
      BY <1>3, ZenonT(30), SMTT(60)
    <3>4. \A q \in {[value |-> v, id |-> nextId] : v \in Extra} : q.value # Foreign
      BY <3>3, ZenonT(60)
    <3> QED BY <2>1, <3>1, <3>2, <3>4, FilterUnion, ZenonT(60)
  <2>4. RrsetInv'
    BY <1>1, <1>2, <1>3, <2>1, <2>2, ZenonT(30), SMTT(60) DEF Restorable, RrsetInv, ReadsFirst
  <2>5. ZoneInv'
    BY <1>1, <1>2, <1>3, <2>1, <2>2, ZenonT(30), SMTT(60) DEF Restorable, ZoneInv, ReadsFirst
  <2>6. SingleInv'
    BY <1>1, <2>1, <2>2, ZenonT(30), SMTT(60) DEF Restorable, SingleInv
  <2> QED BY <1>4, <2>3, <2>4, <2>5, <2>6 DEF Restorable
<1>6. CASE Foreign \notin expected
  <2>1. expected' = expected \union {Foreign} /\ txt' = txt \union Plain({Foreign})
    BY <1>6 DEF OtherEdit
  <2>2. TxtValues' = TxtValues \union {Foreign}
    <3>1. {r.value : r \in Plain({Foreign})} = {Foreign}
      BY HeldPlain, ZenonT(60)
    <3> QED BY <2>1, <3>1, Zenon DEF TxtValues
  <2>3. IdInv'
    <3>1. Plain(expected') = Plain(expected) \union Plain({Foreign})
      BY <2>1 DEF Plain
    <3> QED BY <1>1, <2>1, <3>1, ZenonT(30), SMTT(60) DEF Restorable, IdInv
  <2>4. RrsetInv'
    BY <1>1, <1>2, <1>3, <2>1, <2>2, ZenonT(30), SMTT(60) DEF Restorable, RrsetInv, ReadsFirst
  <2>5. ZoneInv'
    BY <1>1, <1>2, <1>3, <2>1, <2>2, ZenonT(30), SMTT(60) DEF Restorable, ZoneInv, ReadsFirst
  <2>6. SingleInv'
    BY <1>1, <2>1, <2>2 DEF Restorable, SingleInv
  <2> QED BY <1>4, <2>3, <2>4, <2>5, <2>6 DEF Restorable
<1> QED BY <1>5, <1>6, ZenonT(30), SMTT(60)

LEMMA DnsStep == DnsInv /\ [DnsNext]_dnsVars => DnsInv'
<1> SUFFICES ASSUME DnsInv, [DnsNext]_dnsVars, ~answerLost', ~raced'
             PROVE  Restorable'
  BY DnsTypesKept DEF DnsInv, Restorable
<1>1. DnsTypes /\ Restorable
  BY GoodBefore DEF DnsInv, Restorable
<1>2. ~Crash
  BY DEF Crash
<1>3. CASE UNCHANGED dnsVars
  <2>1. UNCHANGED <<provider, txt, expected, state, value, snapshot, handle, records, nextId>>
    BY <1>3, ZenonT(30), SMTT(60) DEF dnsVars
  <2>2. TxtValues' = TxtValues /\ Extra' = Extra
    BY <2>1, ZenonT(30), SMTT(60) DEF TxtValues, Extra
  <2>3. HandleInv'
    BY <1>1, <2>1, ZenonT(30), SMTT(60) DEF Restorable, HandleInv, Made
  <2>4. IdInv'
    BY <1>1, <2>1, <2>2, ZenonT(60) DEF Restorable, IdInv, Plain
  <2>5. RrsetInv' /\ ZoneInv' /\ SingleInv'
    BY <1>1, <2>1, <2>2 DEF Restorable, RrsetInv, ZoneInv, SingleInv
  <2> QED BY <2>3, <2>4, <2>5, ZenonT(30), SMTT(60) DEF Restorable
<1> QED
  BY ZenonT(60), <1>1, <1>2, <1>3, AuthorizeRestorable, ReadRestorable, CreateRestorable, PropagateRestorable,
     CleanupRestorable, RemoveRestorable, EditRestorable DEF DnsNext

(* Whatever is refused, times out or is edited meanwhile, an authorization *)
(* leaves the records of the name as others have them, for every class of  *)
(* provider and any number of authorizations, unless an answer was lost or *)
(* an edit fell between a read and the write.                              *)
THEOREM ZoneIsRestored == DnsInit /\ [][DnsNext]_dnsVars => []ZoneRestored
BY DnsStart, DnsStep, DnsImplies, PTL

=============================================================================
