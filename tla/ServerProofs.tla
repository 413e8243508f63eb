---------------------------- MODULE ServerProofs ----------------------------
(***************************************************************************)
(* Proofs about the relaying of traffic, TcpProxy with the connections of  *)
(* Handshake, for any number of connections, streams and users and any     *)
(* amount of data: the negotiated rates, the order of what is relayed and  *)
(* what a kick is used up on.  AccountingProofs is about what is counted.  *)
(***************************************************************************)
EXTENDS TcpProxy, TLAPS

(* Facts about naturals and sequences that steps below cite by name. *)
LEMMA Below ==
  ASSUME NEW a \in Nat, NEW b \in Nat, NEW c \in Nat, a <= b, b <= c
  PROVE  a <= c
OBVIOUS

LEMMA StrictlyBelow ==
  ASSUME NEW a \in Nat, NEW b \in Nat, a < b
  PROVE  a <= a + 1 /\ a + 1 <= b /\ a # b
OBVIOUS

LEMMA SeqAppend ==
  ASSUME NEW S, NEW q \in Seq(S), NEW e \in S
  PROVE  /\ Append(q, e) \in Seq(S) /\ Len(Append(q, e)) = Len(q) + 1 /\ Len(q) \in Nat
         /\ Append(q, e)[Len(q) + 1] = e
         /\ \A i \in 1..Len(q) : Append(q, e)[i] = q[i]
OBVIOUS

LinkStates == {"none", "open", "closed"}
Early == {"none", "request", "hook", "dial", "reply", "prefix"}
AnyStage == Early \cup {"copy", "done"}
Pipes == [sent : Nat, fin : BOOLEAN, read : Nat, held : SUBSET Nat, out : Seq(Nat), done : BOOLEAN]

Types ==
  /\ link \in [Conns -> LinkStates]
  /\ tunnel \in [Streams -> {"none", "waiting", "awaiting", "ready", "failed"}]
  /\ stage \in [Streams -> AnyStage]
  /\ putback \in [Streams -> Seq(Nat)]
  /\ pipe \in [Streams -> [Directions -> Pipes]]

(* Whoever has a rate has the one the two offers lead to. *)
RateInv == scenario \in Scenarios /\ rates \in [Conns -> SUBSET {Rates(scenario.offer)}]

(* The sequence 1, 2, 3, ... *)
Counts(seq) == \A i \in 1..Len(seq) : seq[i] = i

(* What has got out is what was read, up to the chunk in between; a        *)
(* direction that was ended has got everything out, and gets no more in.   *)
PipeInv(p) ==
  /\ Counts(p.out) /\ Len(p.out) <= p.read /\ p.read <= p.sent
  /\ p.done => p.fin /\ Len(p.out) = p.sent

(* Until the copying starts, the only reader is the hook, and putback has  *)
(* what it read; then at most one chunk is between reading and writing.    *)
StreamInv(s) ==
  /\ \A d \in Directions : PipeInv(pipe[s][d])
  /\ tunnel[s] = "none" => stage[s] = "none"
  /\ stage[s] \in Early =>
       /\ \A d \in Directions : pipe[s][d].out = <<>> /\ pipe[s][d].held = {} /\ ~pipe[s][d].done
       /\ pipe[s]["down"].read = 0
       /\ Counts(putback[s]) /\ Len(putback[s]) = pipe[s]["up"].read
  /\ stage[s] = "copy" =>
       \A d \in Directions : LET p == pipe[s][d] IN
         \/ p.held = {} /\ p.read = Len(p.out)
         \/ p.held = {Len(p.out) + 1} /\ p.read = Len(p.out) + 1

RelayInv == \A s \in Streams : StreamInv(s)

-----------------------------------------------------------------------------
(* The rates.                                                              *)

(* The two ends compute, each from its own offer and the one it was sent,  *)
(* a rate that neither of the offers forbids.                              *)
LEMMA RatesBounded ==
  ASSUME NEW x \in Scenarios
  PROVE  LET r == Rates(x.offer)
             cl == x.offer.client
             sv == x.offer.server
         IN  /\ r.client <= cl.tx /\ (sv.rx > 0 => r.client <= sv.rx)
             /\ r.server <= cl.rx /\ (sv.tx > 0 => r.server <= sv.tx)
             /\ sv.auto => r.client = 0 /\ r.server = 0
<1> DEFINE cl == x.offer.client
           sv == x.offer.server
<1>1. cl.tx \in Nat /\ cl.rx \in Nat /\ sv.tx \in Nat /\ sv.rx \in Nat
  BY OfferAssumption
<1>2. Rates(x.offer).client = ClientRate(cl, sv) /\ Rates(x.offer).server = ServerRate(cl, sv)
  BY DEF Rates
<1> HIDE DEF cl, sv
<1>3. /\ ClientRate(cl, sv) <= cl.tx /\ (sv.rx > 0 => ClientRate(cl, sv) <= sv.rx)
      /\ sv.auto => ClientRate(cl, sv) = 0
  BY <1>1 DEF ClientRate
<1>4. /\ ServerRate(cl, sv) <= cl.rx /\ (sv.tx > 0 => ServerRate(cl, sv) <= sv.tx)
      /\ sv.auto => ServerRate(cl, sv) = 0
  BY <1>1 DEF ServerRate
<1> QED BY <1>2, <1>3, <1>4 DEF cl, sv

LEMMA InitRates == ServerInit => RateInv
BY DEF ServerInit, HandshakeInit, RateInv

(* Only Authenticate sets a rate. *)
LEMMA NextRates == RateInv /\ [ProxyNext]_proxyVars => RateInv'
<1> SUFFICES ASSUME RateInv, [ProxyNext]_proxyVars PROVE RateInv'
  OBVIOUS
<1>1. CASE UNCHANGED <<scenario, rates>>
  BY <1>1 DEF RateInv
<1>2. CASE \E c \in Conns : Authenticate(c)
  BY <1>2 DEF RateInv, Authenticate
<1>3. ConnectionStep => UNCHANGED <<scenario, rates>> \/ \E c \in Conns : Authenticate(c)
  BY ZenonT(60) DEF ConnectionStep, Peer, Connect, LinkFails, Ask, PeerSends, PeerReads, ResponseFails, Task, Close,
         TakeRequest, GiveUp, ReceiveBody, BackendReads, BackendAnswers, FinishResponse, Announce
<1>4. OnlineStep => UNCHANGED <<scenario, rates>>
  BY DEF OnlineStep, AcceptNext, ServeEnds
<1>5. ClearTraffic \/ (\E u \in Users : Kick(u)) \/ (\E c \in Conns : UdpTraffic(c))
        => UNCHANGED <<scenario, rates>>
  BY DEF ClearTraffic, Kick, UdpTraffic, CloseLink, hsVars
<1>6. ASSUME NEW s \in Streams,
             Open(s) \/ ReadResponse(s) \/ EarlyFailure(s) \/ TargetFails(s) \/ StreamTask(s)
               \/ \E d \in Directions : Send(s, d)
      PROVE  UNCHANGED <<scenario, rates>>
  BY <1>6, ZenonT(60) DEF Open, ReadResponse, EarlyFailure, TargetFails, StreamTask, Send, ReadRequest, Hook, Dial,
         Reply, WritePrefix, LinkNoticed, CopyRead, CopyWrite, CopyEnd, CloseLink, hsVars
<1>7. UNCHANGED proxyVars => UNCHANGED <<scenario, rates>>
  BY DEF proxyVars, hsVars
<1> QED BY <1>1, <1>2, <1>3, <1>4, <1>5, <1>6, <1>7 DEF ProxyNext

(* Brutal is never told to send faster than this end may or than the other *)
(* one announced, whatever the two configurations are.                     *)
THEOREM NegotiationRespected == ProxySpec => []RatesRespectBoth
<1>1. RateInv => RatesRespectBoth
  BY RatesBounded DEF RateInv, RatesRespectBoth
<1> QED BY <1>1, InitRates, NextRates, PTL DEF ProxySpec

-----------------------------------------------------------------------------
(* The relay.                                                              *)

LEMMA InitRelay == ServerInit => Types /\ RelayInv
<1> SUFFICES ASSUME ServerInit PROVE Types /\ RelayInv
  OBVIOUS
<1>1. EmptyPipe \in Pipes /\ PipeInv(EmptyPipe) /\ EmptyPipe.out = <<>> /\ EmptyPipe.held = {}
      /\ EmptyPipe.read = 0 /\ ~EmptyPipe.done
  BY DEF EmptyPipe, Pipes, PipeInv, Counts
<1>2. /\ \A s \in Streams : \A d \in Directions : pipe[s][d] = EmptyPipe
      /\ \A s \in Streams : stage[s] = "none" /\ tunnel[s] = "none" /\ putback[s] = <<>>
  BY DEF ServerInit, TcpInit
<1>3. Types
  <2>1. <<>> \in Seq(Nat)
    OBVIOUS
  <2>2. pipe \in [Streams -> [Directions -> Pipes]] /\ putback \in [Streams -> Seq(Nat)]
    BY <1>1, <2>1 DEF ServerInit, TcpInit
  <2>3. link \in [Conns -> LinkStates]
    BY ZenonT(30), SMTT(60) DEF ServerInit, HandshakeInit, LinkStates
  <2> QED BY <2>2, <2>3 DEF ServerInit, TcpInit, Types, AnyStage, Early
<1>4. RelayInv
  BY <1>1, <1>2, SMTT(60) DEF RelayInv, StreamInv, Counts, Directions
<1> QED BY <1>3, <1>4

(* A step of one stream leaves the others alone. *)
OthersStay(s) ==
  \A t \in Streams \ {s} : /\ tunnel'[t] = tunnel[t] /\ stage'[t] = stage[t]
                          /\ putback'[t] = putback[t] /\ pipe'[t] = pipe[t]

LEMMA OtherStreams ==
  ASSUME RelayInv, NEW s \in Streams, StreamInv(s)', OthersStay(s)
  PROVE  RelayInv'
<1> SUFFICES ASSUME NEW t \in Streams \ {s} PROVE StreamInv(t)'
  BY DEF RelayInv
<1>1. StreamInv(t)
  BY DEF RelayInv
<1> QED BY <1>1, SMTT(60) DEF StreamInv, OthersStay

(* What moving a stream to another stage changes. *)
StageIs(s, x) ==
  /\ stage' \in [Streams -> AnyStage] /\ stage'[s] = x
  /\ \A t \in Streams \ {s} : stage'[t] = stage[t]

LEMMA StageFacts ==
  ASSUME Types, NEW s \in Streams, NEW x \in AnyStage, stage' = [stage EXCEPT ![s] = x]
  PROVE  StageIs(s, x)
BY DEF Types, StageIs

(* What a step of one direction changes. *)
PipeIs(s, d, q) ==
  /\ pipe' \in [Streams -> [Directions -> Pipes]]
  /\ pipe'[s][d] = q
  /\ \A e \in Directions \ {d} : pipe'[s][e] = pipe[s][e]
  /\ \A t \in Streams \ {s} : pipe'[t] = pipe[t]

LEMMA PipeFacts ==
  ASSUME Types, NEW s \in Streams, NEW d \in Directions, NEW q \in Pipes,
         pipe' = [pipe EXCEPT ![s][d] = q]
  PROVE  PipeIs(s, d, q)
BY DEF Types, PipeIs

(* A stream that ends keeps what its pipes got out. *)
LEMMA EndKeepsStream ==
  ASSUME Types, RelayInv, NEW s \in Streams, EndStream(s), UNCHANGED pipe, UNCHANGED putback,
         tunnel[s] # "none" /\ UNCHANGED tunnel
  PROVE  stage' \in [Streams -> AnyStage] /\ RelayInv'
<1>1. StageIs(s, "done")
  BY StageFacts, ZenonT(60) DEF EndStream, AnyStage
<1> USE DEF StageIs
<1>2. StreamInv(s)'
  BY <1>1, ZenonT(30), SMTT(60) DEF RelayInv, StreamInv, Early
<1> QED BY <1>1, <1>2, OtherStreams DEF OthersStay

(* The source sends a chunk, or ends. *)
LEMMA SendKeeps ==
  ASSUME Types, RelayInv, NEW s \in Streams, NEW d \in Directions, Send(s, d)
  PROVE  Types' /\ RelayInv'
<1> DEFINE p == pipe[s][d]
<1>1. UNCHANGED <<link, tunnel, stage, putback>>
  BY ZenonT(30), SMTT(60) DEF Send, hsVars
<1>2. p \in Pipes /\ PipeInv(p) /\ StreamInv(s)
  BY SMTT(60) DEF Types, RelayInv, StreamInv
<1>3. \E q \in Pipes : /\ pipe' = [pipe EXCEPT ![s][d] = q] /\ PipeInv(q)
                       /\ q.out = p.out /\ q.held = p.held /\ q.read = p.read /\ q.done = p.done
  <2>1. CASE pipe' = [pipe EXCEPT ![s][d].sent = @ + 1]
    <3> DEFINE q == [p EXCEPT !.sent = @ + 1]
    <3>1. q \in Pipes /\ q.out = p.out /\ q.held = p.held /\ q.read = p.read /\ q.done = p.done
          /\ q.sent = p.sent + 1 /\ q.fin = p.fin
      <4> HIDE DEF p
      <4>1. p.sent + 1 \in Nat
        BY <1>2 DEF Pipes
      <4>2. q \in Pipes
        BY <1>2, <4>1, ZenonT(30) DEF Pipes
      <4> QED BY <1>2, <4>2, Zenon DEF Pipes
    <3>2. pipe' = [pipe EXCEPT ![s][d] = q]
      BY <2>1 DEF Types
    <3>3. ~p.fin
      BY ZenonT(30), SMTT(60) DEF Send
    <3> HIDE DEF q
    <3>4. PipeInv(q)
      BY <1>2, <3>1, <3>3 DEF PipeInv, Pipes
    <3> QED BY <3>1, <3>2, <3>4, Zenon
  <2>2. CASE pipe' = [pipe EXCEPT ![s][d].fin = TRUE]
    <3> DEFINE q == [p EXCEPT !.fin = TRUE]
    <3>1. q \in Pipes /\ q.out = p.out /\ q.held = p.held /\ q.read = p.read /\ q.done = p.done
          /\ q.sent = p.sent /\ q.fin
      BY <1>2, Zenon DEF Pipes
    <3>2. pipe' = [pipe EXCEPT ![s][d] = q]
      BY <2>2, ZenonT(30), SMTT(60) DEF Types
    <3> HIDE DEF q
    <3>3. PipeInv(q)
      BY <1>2, <3>1, ZenonT(30), SMTT(60) DEF PipeInv
    <3> QED BY <3>1, <3>2, <3>3, Zenon
  <2> QED BY <2>1, <2>2 DEF Send
<1>4. /\ pipe' \in [Streams -> [Directions -> Pipes]] /\ \A t \in Streams \ {s} : pipe'[t] = pipe[t]
      /\ \A e \in Directions : /\ PipeInv(pipe'[s][e])
                               /\ pipe'[s][e].out = pipe[s][e].out /\ pipe'[s][e].held = pipe[s][e].held
                               /\ pipe'[s][e].read = pipe[s][e].read /\ pipe'[s][e].done = pipe[s][e].done
  <2>1. PICK q \in Pipes : /\ pipe' = [pipe EXCEPT ![s][d] = q] /\ PipeInv(q)
                          /\ q.out = p.out /\ q.held = p.held /\ q.read = p.read /\ q.done = p.done
    BY <1>3, ZenonT(60)
  <2>2. \A e \in Directions : PipeInv(pipe[s][e])
    BY <1>2 DEF StreamInv
  <2>3. PipeIs(s, d, q)
    BY <2>1, PipeFacts, Zenon
  <2> QED BY <2>1, <2>2, <2>3 DEF PipeIs
<1>5. StreamInv(s)'
  <2>1. \A e \in Directions :
          /\ stage[s] \in Early => pipe'[s][e].out = <<>> /\ pipe'[s][e].held = {} /\ ~pipe'[s][e].done
          /\ stage[s] = "copy" => \/ pipe'[s][e].held = {} /\ pipe'[s][e].read = Len(pipe'[s][e].out)
                                 \/ /\ pipe'[s][e].held = {Len(pipe'[s][e].out) + 1}
                                    /\ pipe'[s][e].read = Len(pipe'[s][e].out) + 1
    BY <1>2, <1>4, ZenonT(60) DEF StreamInv
  <2>2. pipe'[s]["up"].read = pipe[s]["up"].read /\ pipe'[s]["down"].read = pipe[s]["down"].read
    BY <1>4 DEF Directions
  <2> QED BY <1>1, <1>2, <1>4, <2>1, <2>2, Zenon DEF StreamInv
<1>6. Types'
  BY <1>1, <1>4 DEF Types
<1> QED BY <1>1, <1>4, <1>5, <1>6, OtherStreams DEF OthersStay

(* Steps that touch no stream. *)
LEMMA QuietKeeps ==
  ASSUME Types, RelayInv, UNCHANGED <<tunnel, stage, putback, pipe>>, link' \in [Conns -> LinkStates]
  PROVE  Types' /\ RelayInv'
BY DEF Types, RelayInv, StreamInv

LEMMA ConnectionKeeps ==
  ASSUME Types, RelayInv,
         \/ ConnectionStep \/ OnlineStep \/ ClearTraffic
         \/ \E u \in Users : Kick(u)
         \/ \E c \in Conns : UdpTraffic(c)
  PROVE  Types' /\ RelayInv'
<1>1. UNCHANGED <<tunnel, stage, putback, pipe>>
  BY DEF ConnectionStep, OnlineStep, ClearTraffic, Kick, UdpTraffic, tcpVars
<1>2. link' \in [Conns -> LinkStates]
  <2> USE DEF Types, LinkStates
  <2>1. CASE UNCHANGED link
    BY <2>1
  <2>2. ASSUME NEW c \in Conns, Peer(c)
        PROVE  link' \in [Conns -> LinkStates]
    <3>1. CASE Connect(c) \/ LinkFails(c) \/ Ask(c)
      BY <3>1, Zenon DEF Connect, LinkFails, Ask
    <3>2. CASE PeerSends(c) \/ PeerReads(c)
      BY <3>2 DEF PeerSends, PeerReads
    <3>3. CASE ResponseFails(c)
      BY <3>3 DEF ResponseFails
    <3> QED BY <2>2, <3>1, <3>2, <3>3, Zenon DEF Peer
  <2>3. ASSUME NEW c \in Conns, FinishResponse(c)
        PROVE  link' \in [Conns -> LinkStates]
    BY <2>3, ZenonT(30), SMTT(60) DEF FinishResponse
  <2>4. ASSUME NEW c \in Conns, Task(c), ~FinishResponse(c)
        PROVE  UNCHANGED link
    BY <2>4 DEF Task, TakeRequest, Authenticate, GiveUp, ReceiveBody, BackendReads, BackendAnswers,
                Announce
  <2>5. CASE Close
    BY <2>5 DEF Close
  <2>6. CASE ConnectionStep
    BY <2>1, <2>2, <2>3, <2>4, <2>5, <2>6, ZenonT(60) DEF ConnectionStep
  <2>7. CASE OnlineStep
    BY <2>1, <2>7 DEF OnlineStep, AcceptNext, ServeEnds
  <2>8. CASE ClearTraffic \/ \E u \in Users : Kick(u)
    BY <2>1, <2>8, ZenonT(30) DEF ClearTraffic, Kick, hsVars
  <2>9. CASE \E c \in Conns : UdpTraffic(c)
    BY <2>9, ZenonT(60) DEF UdpTraffic, CloseLink
  <2> QED BY <2>6, <2>7, <2>8, <2>9
<1> QED BY <1>1, <1>2, QuietKeeps, ZenonT(60)

LEMMA OpenKeeps ==
  ASSUME Types, RelayInv, NEW s \in Streams, Open(s)
  PROVE  Types' /\ RelayInv'
<1>1. UNCHANGED <<link, putback, pipe>> /\ tunnel[s] = "none" /\ stage[s] = "none"
  BY Zenon DEF Open, hsVars, RelayInv, StreamInv
<1>2. StageIs(s, "request")
  BY StageFacts, ZenonT(30) DEF Open, AnyStage, Early
<1> USE DEF StageIs
<1>3. /\ tunnel' \in [Streams -> {"none", "waiting", "awaiting", "ready", "failed"}]
      /\ tunnel'[s] # "none" /\ \A t \in Streams \ {s} : tunnel'[t] = tunnel[t]
  BY ZenonT(30) DEF Open, Types
<1>4. StreamInv(s)'
  BY <1>1, <1>2, <1>3, ZenonT(60) DEF RelayInv, StreamInv, Early
<1>5. Types'
  BY <1>1, <1>2, <1>3, ZenonT(30) DEF Types
<1> QED BY <1>1, <1>2, <1>3, <1>4, <1>5, OtherStreams, ZenonT(30), SMTT(60) DEF OthersStay

LEMMA ReadResponseKeeps ==
  ASSUME Types, RelayInv, NEW s \in Streams, ReadResponse(s)
  PROVE  Types' /\ RelayInv'
<1>1. UNCHANGED <<link, stage, putback, pipe>>
  BY Zenon DEF ReadResponse, hsVars
<1>2. /\ tunnel' \in [Streams -> {"none", "waiting", "awaiting", "ready", "failed"}]
      /\ tunnel'[s] # "none" /\ \A t \in Streams \ {s} : tunnel'[t] = tunnel[t]
  BY ZenonT(60) DEF ReadResponse, Types
<1>3. StreamInv(s)'
  BY <1>1, <1>2 DEF RelayInv, StreamInv
<1>4. Types'
  BY <1>1, <1>2, ZenonT(60) DEF Types
<1> QED BY <1>1, <1>2, <1>3, <1>4, OtherStreams, ZenonT(30) DEF OthersStay

(* A stream that has started has a tunnel on the client's side. *)
LEMMA StartedHasTunnel ==
  ASSUME RelayInv, NEW s \in Streams, stage[s] # "none"
  PROVE  tunnel[s] # "none"
BY DEF RelayInv, StreamInv

LEMMA EndingKeeps ==
  ASSUME Types, RelayInv, NEW s \in Streams, EarlyFailure(s) \/ TargetFails(s) \/ LinkNoticed(s)
  PROVE  Types' /\ RelayInv'
<1>1. EndStream(s) /\ UNCHANGED <<link, tunnel, putback, pipe>>
  BY Zenon DEF EarlyFailure, TargetFails, LinkNoticed, hsVars
<1>2. stage[s] # "none"
  BY DEF EarlyFailure, TargetFails, LinkNoticed
<1>3. stage' \in [Streams -> AnyStage] /\ RelayInv'
  BY <1>1, <1>2, StartedHasTunnel, EndKeepsStream, ZenonT(30), SMTT(60)
<1> QED BY <1>1, <1>3, ZenonT(30), SMTT(60) DEF Types

(* The steps before the copying that only move the stream on. *)
LEMMA EarlyKeeps ==
  ASSUME Types, RelayInv, NEW s \in Streams, NEW x \in Early \ {"none"},
         stage[s] \in Early \ {"none"}, stage' = [stage EXCEPT ![s] = x],
         UNCHANGED <<link, tunnel, putback, pipe>>
  PROVE  Types' /\ RelayInv'
<1>1. StageIs(s, x)
  BY StageFacts, ZenonT(30) DEF AnyStage
<1> USE DEF StageIs
<1>2. StreamInv(s)'
  BY <1>1, StartedHasTunnel, ZenonT(60) DEF RelayInv, StreamInv, Early
<1>3. Types'
  BY <1>1 DEF Types
<1> QED BY <1>1, <1>2, <1>3, OtherStreams DEF OthersStay

LEMMA ReadRequestKeeps ==
  ASSUME Types, RelayInv, NEW s \in Streams, ReadRequest(s)
  PROVE  Types' /\ RelayInv'
<1>1. stage[s] = "request" /\ UNCHANGED <<link, tunnel, putback, pipe>>
  BY Zenon DEF ReadRequest, hsVars
<1>2. stage' = [stage EXCEPT ![s] = "hook"] \/ stage' = [stage EXCEPT ![s] = "dial"]
  BY Zenon DEF ReadRequest
<1> QED BY <1>1, <1>2, EarlyKeeps, ZenonT(30) DEF Early

LEMMA DialKeeps ==
  ASSUME Types, RelayInv, NEW s \in Streams, Dial(s)
  PROVE  Types' /\ RelayInv'
<1>1. stage[s] = "dial" /\ UNCHANGED <<link, tunnel, putback, pipe>>
  BY DEF Dial, hsVars
<1>2. CASE stage' = [stage EXCEPT ![s] = "reply"]
  BY <1>1, <1>2, EarlyKeeps, ZenonT(60) DEF Early
<1>3. CASE EndStream(s)
  <2>1. stage' \in [Streams -> AnyStage] /\ RelayInv'
    BY <1>1, <1>3, StartedHasTunnel, EndKeepsStream, ZenonT(30), SMTT(60)
  <2> QED BY <1>1, <2>1 DEF Types
<1> QED BY <1>2, <1>3, Zenon DEF Dial

(* The hook reads ahead of the copying, and keeps what it reads. *)
LEMMA HookKeeps ==
  ASSUME Types, RelayInv, NEW s \in Streams, Hook(s)
  PROVE  Types' /\ RelayInv'
<1> DEFINE p == pipe[s]["up"]
<1>1. stage[s] = "hook" /\ UNCHANGED <<link, tunnel>> /\ "up" \in Directions
  BY DEF Hook, hsVars, Directions
<1>2. CASE /\ p.read < p.sent
           /\ putback' = [putback EXCEPT ![s] = Append(@, p.read + 1)]
           /\ pipe' = [pipe EXCEPT ![s]["up"].read = @ + 1]
           /\ UNCHANGED stage
  <2> DEFINE q == [p EXCEPT !.read = @ + 1]
  <2>1. /\ p \in Pipes /\ PipeInv(p) /\ StreamInv(s) /\ p.read \in Nat
        /\ Counts(putback[s]) /\ Len(putback[s]) = p.read /\ putback[s] \in Seq(Nat)
        /\ p.out = <<>> /\ p.held = {} /\ ~p.done
    BY <1>1 DEF Types, RelayInv, StreamInv, Pipes, Early
  <2>2. pipe' = [pipe EXCEPT ![s]["up"] = q]
    BY <1>2 DEF Types
  <2> HIDE DEF p
  <2>3. /\ q \in Pipes /\ q.read = p.read + 1 /\ q.sent = p.sent /\ q.out = p.out /\ q.held = p.held
        /\ q.done = p.done
    <3>1. p.read + 1 \in Nat
      BY <2>1
    <3>2. q \in Pipes
      BY <2>1, <3>1, ZenonT(30), SMTT(60) DEF Pipes
    <3> QED BY <2>1, <3>2, ZenonT(30) DEF Pipes
  <2> HIDE DEF q
  <2>4. PipeInv(q)
    BY <1>2, <2>1, <2>3 DEF PipeInv, Pipes, Counts
  <2>5. PipeIs(s, "up", q)
    BY <1>1, <2>2, <2>3, PipeFacts, Zenon
  <2> USE DEF PipeIs
  <2>6. /\ putback' \in [Streams -> Seq(Nat)] /\ putback'[s] = Append(putback[s], p.read + 1)
        /\ \A t \in Streams \ {s} : putback'[t] = putback[t]
    BY <1>2, <2>1 DEF Types
  <2>7. Counts(putback'[s]) /\ Len(putback'[s]) = p.read + 1
    <3> DEFINE a == putback[s]
               n == p.read
    <3>1. Counts(a) /\ Len(a) = n /\ n \in Nat /\ a \in Seq(Nat)
      BY <2>1, ZenonT(30) DEF Types, Pipes
    <3>2. putback'[s] = Append(a, n + 1)
      BY <2>6
    <3> HIDE DEF a, n
    <3>3. Counts(Append(a, n + 1)) /\ Len(Append(a, n + 1)) = n + 1
      BY ONLY <3>1 DEF Counts
    <3> QED BY <3>2, <3>3, ZenonT(30) DEF n
  <2>8. StreamInv(s)'
    <3>1. \A d \in Directions : /\ PipeInv(pipe'[s][d]) /\ pipe'[s][d].out = <<>>
                               /\ pipe'[s][d].held = {} /\ ~pipe'[s][d].done
      BY <1>1, <2>1, <2>3, <2>4, <2>5, ZenonT(60) DEF StreamInv, Early
    <3>2. pipe'[s]["down"].read = 0
      BY <1>1, <2>1, <2>5 DEF StreamInv, Early, Directions
    <3>3. stage'[s] = "hook" /\ tunnel'[s] # "none"
      BY <1>1, <1>2, StartedHasTunnel
    <3> QED BY <2>3, <2>5, <2>7, <3>1, <3>2, <3>3, ZenonT(30) DEF StreamInv
  <2>9. Types'
    BY <1>1, <1>2, <2>5, <2>6 DEF Types
  <2> QED BY <1>1, <1>2, <2>5, <2>6, <2>8, <2>9, OtherStreams, ZenonT(60) DEF OthersStay
<1>3. CASE stage' = [stage EXCEPT ![s] = "dial"] /\ UNCHANGED <<putback, pipe>>
  BY <1>1, <1>3, EarlyKeeps, Zenon DEF Early
<1> QED BY <1>2, <1>3 DEF Hook

LEMMA ReplyKeeps ==
  ASSUME Types, RelayInv, NEW s \in Streams, Reply(s)
  PROVE  Types' /\ RelayInv'
<1>1. stage[s] = "reply" /\ UNCHANGED <<link, tunnel, putback, pipe>>
  BY DEF Reply, hsVars
<1>2. CASE stage' = [stage EXCEPT ![s] = "prefix"]
  BY <1>1, <1>2, EarlyKeeps, ZenonT(60) DEF Early
<1>3. CASE putback[s] = <<>> /\ stage' = [stage EXCEPT ![s] = "copy"]
  <2>1. StageIs(s, "copy")
    BY <1>3, StageFacts, ZenonT(60) DEF AnyStage
  <2> USE DEF StageIs
  <2>2. \A d \in Directions : pipe[s][d].held = {} /\ pipe[s][d].out = <<>> /\ pipe[s][d].read = 0
    BY <1>1, <1>3 DEF RelayInv, StreamInv, Early, Directions
  <2>3. StreamInv(s)'
    BY <1>1, <2>1, <2>2, StartedHasTunnel, ZenonT(60) DEF RelayInv, StreamInv, Early
  <2>4. Types'
    BY <1>1, <2>1 DEF Types
  <2> QED BY <1>1, <2>1, <2>3, <2>4, OtherStreams DEF OthersStay
<1> QED BY <1>2, <1>3, ZenonT(60) DEF Reply

(* A refused call: the stream ends with its connection. *)
LEMMA RefusedKeeps ==
  ASSUME Types, RelayInv, NEW s \in Streams, stage[s] # "none",
         CloseLink(ConnOf[s]), EndStream(s), UNCHANGED <<pipe, tunnel, putback>>
  PROVE  Types' /\ RelayInv'
<1>1. stage' \in [Streams -> AnyStage] /\ RelayInv'
  BY StartedHasTunnel, EndKeepsStream
<1>2. link' \in [Conns -> LinkStates]
  BY Zenon DEF Types, CloseLink, LinkStates
<1> QED BY <1>1, <1>2, ZenonT(60) DEF Types

(* What the hook has read goes out first. *)
LEMMA WritePrefixKeeps ==
  ASSUME Types, RelayInv, NEW s \in Streams, WritePrefix(s)
  PROVE  Types' /\ RelayInv'
<1>1. stage[s] = "prefix" /\ UNCHANGED <<tunnel, putback>> /\ "up" \in Directions
  BY DEF WritePrefix, Directions
<1>2. CASE Refused(User(s))
  BY <1>1, <1>2, RefusedKeeps, ZenonT(60) DEF WritePrefix
<1>3. CASE ~Refused(User(s))
  <2> DEFINE p == pipe[s]["up"]
             q == [p EXCEPT !.out = putback[s]]
  <2>1. /\ stage' = [stage EXCEPT ![s] = "copy"] /\ UNCHANGED link
        /\ pipe' = [pipe EXCEPT ![s]["up"].out = putback[s]]
    BY <1>3, ZenonT(30) DEF WritePrefix, hsVars
  <2>2. /\ p \in Pipes /\ PipeInv(p) /\ StreamInv(s)
        /\ Counts(putback[s]) /\ Len(putback[s]) = p.read /\ putback[s] \in Seq(Nat)
        /\ p.held = {} /\ ~p.done
    <3>1. StreamInv(s) /\ stage[s] \in Early
      BY <1>1, ZenonT(30) DEF RelayInv, Early
    <3>2. p \in Pipes /\ putback[s] \in Seq(Nat)
      BY <1>1, ZenonT(30) DEF Types
    <3> QED BY <1>1, <3>1, <3>2, ZenonT(30) DEF StreamInv
  <2>3. pipe' = [pipe EXCEPT ![s]["up"] = q]
    BY <2>1 DEF Types
  <2> HIDE DEF p
  <2>4. /\ q \in Pipes /\ q.read = p.read /\ q.sent = p.sent /\ q.out = putback[s] /\ q.held = p.held
        /\ q.done = p.done
    BY <2>2, Zenon DEF Pipes
  <2> HIDE DEF q
  <2>5. PipeInv(q)
    BY <2>2, <2>4 DEF PipeInv, Pipes
  <2>6. PipeIs(s, "up", q)
    BY <1>1, <2>3, <2>4, PipeFacts, Zenon
  <2> USE DEF PipeIs
  <2>7. StageIs(s, "copy")
    BY <2>1, StageFacts, ZenonT(60) DEF AnyStage
  <2> USE DEF StageIs
  <2>8. StreamInv(s)'
    <3>1. /\ pipe'[s]["down"].held = {} /\ pipe'[s]["down"].out = <<>> /\ pipe'[s]["down"].read = 0
          /\ PipeInv(pipe'[s]["down"])
      BY <1>1, <2>2, <2>6, ZenonT(30) DEF StreamInv, Early, Directions
    <3>2. \A d \in Directions : PipeInv(pipe'[s][d])
      BY <2>5, <2>6, <3>1, ZenonT(30) DEF Directions
    <3>3. \A d \in Directions : pipe'[s][d].held = {} /\ pipe'[s][d].read = Len(pipe'[s][d].out)
      <4>1. pipe'[s]["up"] = q /\ q.held = {} /\ q.read = Len(q.out)
        BY <2>2, <2>4, <2>6, ZenonT(30)
      <4>2. Len(pipe'[s]["down"].out) = 0
        BY <3>1, ZenonT(60)
      <4> QED BY <3>1, <4>1, <4>2, ZenonT(30) DEF Directions
    <3>4. tunnel'[s] # "none"
      BY <1>1, StartedHasTunnel
    <3> QED BY <2>7, <3>2, <3>3, <3>4, ZenonT(30), SMTT(60) DEF StreamInv, Early
  <2>9. Types'
    BY <1>1, <2>1, <2>6, <2>7, ZenonT(30) DEF Types
  <2> QED BY <1>1, <2>6, <2>7, <2>8, <2>9, OtherStreams DEF OthersStay
<1> QED BY <1>2, <1>3

(* What the copying does to a direction that it does not end. *)
LEMMA CopyKeeps ==
  ASSUME Types, RelayInv, NEW s \in Streams, NEW d \in Directions, NEW q \in Pipes,
         stage[s] = "copy", pipe' = [pipe EXCEPT ![s][d] = q],
         UNCHANGED <<link, tunnel, stage, putback>>,
         PipeInv(q),
         \/ q.held = {} /\ q.read = Len(q.out)
         \/ q.held = {Len(q.out) + 1} /\ q.read = Len(q.out) + 1
  PROVE  Types' /\ RelayInv'
<1>1. PipeIs(s, d, q)
  BY PipeFacts, ZenonT(60)
<1> USE DEF PipeIs
<1>2. StreamInv(s)'
  <2>1. StreamInv(s) /\ stage'[s] = "copy" /\ tunnel'[s] # "none"
    BY StartedHasTunnel, ZenonT(30) DEF RelayInv
  <2>2. \A e \in Directions : PipeInv(pipe'[s][e])
    BY <1>1, <2>1, ZenonT(60) DEF StreamInv
  <2>3. \A e \in Directions :
          \/ pipe'[s][e].held = {} /\ pipe'[s][e].read = Len(pipe'[s][e].out)
          \/ /\ pipe'[s][e].held = {Len(pipe'[s][e].out) + 1}
             /\ pipe'[s][e].read = Len(pipe'[s][e].out) + 1
    BY <1>1, <2>1, ZenonT(60) DEF StreamInv
  <2> QED BY <2>1, <2>2, <2>3 DEF StreamInv, Early
<1>3. Types'
  BY <1>1, ZenonT(30), SMTT(60) DEF Types
<1> QED BY <1>1, <1>2, <1>3, OtherStreams, Zenon DEF OthersStay

(* A direction of a stream that copies. *)
LEMMA CopyingPipe ==
  ASSUME Types, RelayInv, NEW s \in Streams, NEW d \in Directions, stage[s] = "copy"
  PROVE  /\ pipe[s][d] \in Pipes /\ PipeInv(pipe[s][d])
         /\ \/ pipe[s][d].held = {} /\ pipe[s][d].read = Len(pipe[s][d].out)
            \/ /\ pipe[s][d].held = {Len(pipe[s][d].out) + 1}
               /\ pipe[s][d].read = Len(pipe[s][d].out) + 1
<1>1. pipe[s][d] \in Pipes
  BY ZenonT(30), SMTT(60) DEF Types
<1>2. StreamInv(s)
  BY Zenon DEF RelayInv
<1> QED BY <1>1, <1>2, ZenonT(30) DEF StreamInv

LEMMA CopyReadKeeps ==
  ASSUME Types, RelayInv, NEW s \in Streams, NEW d \in Directions, CopyRead(s, d)
  PROVE  Types' /\ RelayInv'
<1> DEFINE p == pipe[s][d]
           q == [p EXCEPT !.read = @ + 1, !.held = {p.read + 1}]
<1>1. stage[s] = "copy" /\ p.held = {} /\ p.read < p.sent /\ UNCHANGED <<tunnel, putback>>
  BY DEF CopyRead
<1>2. CASE Refused(User(s))
  BY <1>1, <1>2, RefusedKeeps DEF CopyRead
<1>3. CASE ~Refused(User(s))
  <2>1. /\ UNCHANGED <<link, stage>>
        /\ pipe' = [pipe EXCEPT ![s][d].read = @ + 1, ![s][d].held = {pipe[s][d].read + 1}]
    BY <1>3 DEF CopyRead, hsVars
  <2>2. pipe' = [pipe EXCEPT ![s][d] = q]
    BY <2>1, ZenonT(60) DEF Types
  <2>3. p \in Pipes /\ PipeInv(p) /\ p.read = Len(p.out)
    BY <1>1, CopyingPipe, Zenon
  <2> HIDE DEF p
  <2>4. p.read \in Nat /\ p.sent \in Nat /\ p.read + 1 \in Nat
    BY <2>3 DEF Pipes
  <2>5. q \in Pipes
    BY <2>3, <2>4, Zenon DEF Pipes
  <2>6. /\ q.read = p.read + 1 /\ q.held = {p.read + 1} /\ q.sent = p.sent /\ q.out = p.out
        /\ q.done = p.done /\ q.fin = p.fin
    BY <2>3, <2>5, ZenonT(30) DEF Pipes
  <2> HIDE DEF q
  <2>7. PipeInv(q)
    <3>1. p.read <= p.read + 1 /\ p.read + 1 <= p.sent /\ p.read # p.sent
      BY <1>1, <2>4, StrictlyBelow, Zenon
    <3> QED BY <2>3, <2>6, <3>1, ZenonT(30) DEF PipeInv
  <2>8. q.held = {Len(q.out) + 1} /\ q.read = Len(q.out) + 1
    BY <2>3, <2>6, Zenon
  <2> QED BY <1>1, <2>1, <2>2, <2>5, <2>7, <2>8, CopyKeeps, ZenonT(60)
<1> QED BY <1>2, <1>3, ZenonT(30), SMTT(60)

LEMMA CopyWriteKeeps ==
  ASSUME Types, RelayInv, NEW s \in Streams, NEW d \in Directions, CopyWrite(s, d)
  PROVE  Types' /\ RelayInv'
<1> DEFINE p == pipe[s][d]
<1>1. stage[s] = "copy" /\ UNCHANGED <<link, tunnel, stage, putback>>
  BY DEF CopyWrite, hsVars
<1>2. PICK k \in p.held : pipe' = [pipe EXCEPT ![s][d].held = {}, ![s][d].out = Append(@, k)]
  BY Zenon DEF CopyWrite
<1> DEFINE q == [p EXCEPT !.held = {}, !.out = Append(@, k)]
<1>3. pipe' = [pipe EXCEPT ![s][d] = q]
  BY <1>2, ZenonT(60) DEF Types
<1>4. p \in Pipes /\ PipeInv(p) /\ k = Len(p.out) + 1 /\ p.read = Len(p.out) + 1
  BY <1>1, <1>2, CopyingPipe
<1> HIDE DEF p
<1>5. p.out \in Seq(Nat) /\ p.sent \in Nat /\ k \in Nat /\ Append(p.out, k) \in Seq(Nat)
  BY <1>4 DEF Pipes
<1>6. q \in Pipes
  BY <1>4, <1>5, Zenon DEF Pipes
<1>7. /\ q.read = p.read /\ q.held = {} /\ q.sent = p.sent /\ q.out = Append(p.out, k)
      /\ q.done = p.done /\ q.fin = p.fin
  BY <1>4, <1>6, ZenonT(30), SMTT(60) DEF Pipes
<1> HIDE DEF q
<1>8. Counts(q.out) /\ Len(q.out) = q.read
  <2>1. /\ Len(Append(p.out, k)) = Len(p.out) + 1 /\ Len(p.out) \in Nat
        /\ Append(p.out, k)[Len(p.out) + 1] = k
        /\ \A i \in 1..Len(p.out) : Append(p.out, k)[i] = p.out[i]
    BY ONLY <1>5, SeqAppend, SMTT(60)
  <2>2. \A i \in 1..Len(p.out) : p.out[i] = i
    BY <1>4 DEF PipeInv, Counts
  <2>3. \A i \in 1..Len(Append(p.out, k)) : Append(p.out, k)[i] = i
    <3> DEFINE l == Len(p.out)
    <3>1. \A i \in 1..(l + 1) : i \in 1..l \/ i = l + 1
      <4>1. l \in Nat
        BY <2>1, ZenonT(30), SMTT(60)
      <4> HIDE DEF l
      <4> QED BY ONLY <4>1
    <3> QED BY <1>4, <2>1, <2>2, <3>1, ZenonT(60)
  <2> QED BY <1>4, <1>7, <2>1, <2>3, ZenonT(60) DEF Counts
<1>9. ~p.done
  BY <1>4, <1>5, SMTT(60) DEF PipeInv
<1>10. PipeInv(q)
  BY <1>4, <1>5, <1>7, <1>8, <1>9, SMTT(60) DEF PipeInv
<1> QED BY <1>1, <1>3, <1>6, <1>7, <1>8, <1>10, CopyKeeps, ZenonT(60)

(* A direction is ended when everything has gone out; the stream may end   *)
(* with it.                                                                *)
LEMMA CopyEndKeeps ==
  ASSUME Types, RelayInv, NEW s \in Streams, NEW d \in Directions, CopyEnd(s, d)
  PROVE  Types' /\ RelayInv'
<1> DEFINE p == pipe[s][d]
           q == [p EXCEPT !.done = TRUE]
<1>1. /\ stage[s] = "copy" /\ UNCHANGED <<link, tunnel, putback>>
      /\ p.held = {} /\ p.read = p.sent /\ p.fin
      /\ pipe' = [pipe EXCEPT ![s][d].done = TRUE]
  BY DEF CopyEnd, hsVars
<1>2. EndStream(s) \/ UNCHANGED stage
  BY DEF CopyEnd
<1>3. pipe' = [pipe EXCEPT ![s][d] = q]
  BY <1>1 DEF Types
<1>4. p \in Pipes /\ PipeInv(p) /\ p.read = Len(p.out)
  BY <1>1, CopyingPipe, ZenonT(60)
<1>5. p.fin
  BY <1>1
<1> HIDE DEF p
<1>6. q \in Pipes /\ q.read = p.read /\ q.held = p.held /\ q.sent = p.sent /\ q.out = p.out /\ q.fin
  BY <1>4, <1>5, Zenon DEF Pipes
<1> HIDE DEF q
<1>7. PipeInv(q)
  BY <1>1, <1>4, <1>6, Zenon DEF PipeInv, p
<1>8. CASE UNCHANGED stage
  <2>1. q.held = {} /\ q.read = Len(q.out)
    BY <1>1, <1>4, <1>6 DEF p
  <2> QED BY <1>1, <1>3, <1>6, <1>7, <1>8, <2>1, CopyKeeps, ZenonT(60)
<1>9. CASE EndStream(s)
  <2>1. StageIs(s, "done")
    BY <1>9, StageFacts, Zenon DEF EndStream, AnyStage
  <2> USE DEF StageIs
  <2>2. PipeIs(s, d, q)
    BY <1>3, <1>6, PipeFacts, ZenonT(60)
  <2> USE DEF PipeIs
  <2>3. \A e \in Directions : PipeInv(pipe'[s][e])
    BY <1>7, <2>2 DEF RelayInv, StreamInv
  <2>4. tunnel'[s] # "none"
    BY <1>1, StartedHasTunnel, ZenonT(30), SMTT(60)
  <2>5. StreamInv(s)'
    BY <2>1, <2>3, <2>4, ZenonT(60) DEF StreamInv, Early
  <2>6. Types'
    BY <1>1, <2>1, <2>2, ZenonT(30), SMTT(60) DEF Types
  <2> QED BY <1>1, <2>1, <2>2, <2>5, <2>6, OtherStreams DEF OthersStay
<1> QED BY <1>2, <1>8, <1>9, ZenonT(30), SMTT(60)

LEMMA NextRelay == Types /\ RelayInv /\ [ProxyNext]_proxyVars => Types' /\ RelayInv'
<1> SUFFICES ASSUME Types, RelayInv, [ProxyNext]_proxyVars PROVE Types' /\ RelayInv'
  OBVIOUS
<1>1. CASE \/ ConnectionStep \/ OnlineStep \/ ClearTraffic
           \/ \E u \in Users : Kick(u)
           \/ \E c \in Conns : UdpTraffic(c)
  BY <1>1, ConnectionKeeps
<1>2. ASSUME NEW s \in Streams, Open(s) \/ ReadResponse(s) \/ EarlyFailure(s) \/ TargetFails(s)
      PROVE  Types' /\ RelayInv'
  BY <1>2, OpenKeeps, ReadResponseKeeps, EndingKeeps
<1>3. ASSUME NEW s \in Streams, NEW d \in Directions, Send(s, d)
      PROVE  Types' /\ RelayInv'
  BY <1>3, SendKeeps, ZenonT(30)
<1>4. ASSUME NEW s \in Streams, StreamTask(s)
      PROVE  Types' /\ RelayInv'
  BY ZenonT(60), <1>4, ReadRequestKeeps, HookKeeps, DialKeeps, ReplyKeeps, WritePrefixKeeps, EndingKeeps,
     CopyReadKeeps, CopyWriteKeeps, CopyEndKeeps DEF StreamTask
<1>5. CASE UNCHANGED proxyVars
  <2>1. UNCHANGED <<link, tunnel, stage, putback, pipe>>
    BY <1>5 DEF proxyVars, hsVars, tcpVars
  <2> QED BY <2>1, QuietKeeps, ZenonT(30), SMTT(60) DEF Types
<1> QED BY <1>1, <1>2, <1>3, <1>4, <1>5 DEF ProxyNext

LEMMA CountsIs ==
  ASSUME NEW o \in Seq(Nat), Counts(o)
  PROVE  o = [k \in 1..Len(o) |-> k]
<1>1. o \in [1..Len(o) -> Nat]
  OBVIOUS
<1>2. \A k \in 1..Len(o) : o[k] = k
  BY ZenonT(30) DEF Counts
<1> QED BY <1>1, <1>2, Zenon

LEMMA RelayIsOrdered == Types /\ RelayInv => RelayedInOrder
<1> SUFFICES ASSUME Types, RelayInv, NEW s \in Streams, NEW d \in Directions
             PROVE  LET p == pipe[s][d] IN
                    /\ p.out = [k \in 1..Len(p.out) |-> k] /\ Len(p.out) <= p.sent
                    /\ p.done => Len(p.out) = p.sent
  BY ZenonT(60) DEF RelayedInOrder
<1>1. pipe[s][d] \in Pipes /\ PipeInv(pipe[s][d])
  BY DEF Types, RelayInv, StreamInv
<1>2. pipe[s][d].out \in Seq(Nat)
  BY <1>1, ZenonT(30) DEF Pipes
<1>3. pipe[s][d].out = [k \in 1..Len(pipe[s][d].out) |-> k]
  BY <1>1, <1>2, CountsIs, ZenonT(60) DEF PipeInv
<1>4. pipe[s][d].sent \in Nat /\ pipe[s][d].read \in Nat
  BY <1>1 DEF Pipes
<1>5. Len(pipe[s][d].out) \in Nat
  BY <1>2
<1>6. Len(pipe[s][d].out) <= pipe[s][d].sent
  BY <1>1, <1>4, <1>5, Below, ZenonT(30) DEF PipeInv
<1> QED BY <1>1, <1>3, <1>6, Zenon DEF PipeInv

(* Both directions of a tunnel deliver a prefix of what was sent, with the *)
(* bytes a request hook has looked at in their place, and all of it when   *)
(* the direction is ended, for any number of chunks.                       *)
THEOREM RelayFaithful == ProxySpec => []RelayedInOrder
<1>1. ProxySpec => [](Types /\ RelayInv)
  BY InitRelay, NextRelay, PTL DEF ProxySpec
<1> QED BY <1>1, RelayIsOrdered, PTL

-----------------------------------------------------------------------------
(* Kicking.                                                                *)

(* What a refused call of a stream does. *)
LEMMA RefusedCloses ==
  ASSUME Types, NEW s \in Streams, stage[s] # "done", CloseLink(ConnOf[s]), EndStream(s)
  PROVE  /\ ConnOf[s] \in Conns /\ UserOf[ConnOf[s]] = User(s)
         /\ link'[ConnOf[s]] = "closed" /\ stage[s] # stage'[s]
BY ProxyAssumption, ZenonT(60) DEF Types, CloseLink, EndStream, User

(* Only a call of log_traffic takes a kick, and it names the user whose    *)
(* traffic it logs.                                                        *)
LEMMA OnlyLogsTakeKicks ==
  ASSUME ProxyNext, NEW u \in kicked \ kicked'
  PROVE  \/ \E c \in Conns : UdpTraffic(c) /\ u = UserOf[c]
         \/ \E s \in Streams : /\ u = User(s) /\ Refused(User(s))
                              /\ (WritePrefix(s) \/ \E d \in Directions : CopyRead(s, d))
<1>1. ~ UNCHANGED kicked
  BY ZenonT(30), SMTT(60)
<1>2. ~ConnectionStep /\ ~OnlineStep /\ ~ClearTraffic /\ \A v \in Users : ~Kick(v)
  BY Zenon DEF ConnectionStep, tcpVars, OnlineStep, ClearTraffic, Kick
<1>3. ASSUME NEW s \in Streams
      PROVE  /\ ~Open(s) /\ ~ReadResponse(s) /\ ~EarlyFailure(s) /\ ~TargetFails(s)
             /\ \A d \in Directions : ~Send(s, d)
  BY <1>1 DEF Open, ReadResponse, EarlyFailure, TargetFails, Send, statVars
<1>4. ASSUME NEW s \in Streams, StreamTask(s)
      PROVE  WritePrefix(s) \/ \E d \in Directions : CopyRead(s, d)
  BY <1>1, <1>4, Zenon DEF StreamTask, ReadRequest, Hook, Dial, Reply, LinkNoticed, CopyWrite, CopyEnd, statVars
<1>5. ASSUME NEW s \in Streams, WritePrefix(s) \/ \E d \in Directions : CopyRead(s, d)
      PROVE  u = User(s) /\ Refused(User(s))
  BY <1>5, ZenonT(60) DEF WritePrefix, CopyRead, LogTraffic, Refused
<1>6. ASSUME NEW c \in Conns, UdpTraffic(c)
      PROVE  u = UserOf[c]
  BY <1>6, ZenonT(30), SMTT(60) DEF UdpTraffic, LogTraffic
<1> QED BY <1>2, <1>3, <1>4, <1>5, <1>6, ZenonT(30), SMTT(60) DEF ProxyNext

LEMMA NextCloses == Types /\ [ProxyNext]_proxyVars => [KickCloses]_proxyVars
<1> SUFFICES ASSUME Types, ProxyNext, NEW u \in kicked \ kicked'
             PROVE  \E c \in Conns : UserOf[c] = u /\ link'[c] = "closed"
                      /\ (link[c] = "open" \/ \E s \in Streams : ConnOf[s] = c /\ stage[s] # stage'[s])
  BY ZenonT(30), SMTT(60) DEF KickCloses
<1>1. ASSUME NEW c \in Conns, UdpTraffic(c), u = UserOf[c]
      PROVE  UserOf[c] = u /\ link'[c] = "closed" /\ link[c] = "open"
  BY <1>1 DEF UdpTraffic, CloseLink, Types
<1>2. ASSUME NEW s \in Streams, u = User(s), Refused(User(s)),
             WritePrefix(s) \/ \E d \in Directions : CopyRead(s, d)
      PROVE  ConnOf[s] \in Conns /\ UserOf[ConnOf[s]] = u /\ link'[ConnOf[s]] = "closed" /\ stage[s] # stage'[s]
  <2>1. stage[s] # "done" /\ CloseLink(ConnOf[s]) /\ EndStream(s)
    BY <1>2 DEF WritePrefix, CopyRead
  <2> QED BY <1>2, <2>1, RefusedCloses, Zenon
<1> QED BY <1>1, <1>2, OnlyLogsTakeKicks, ZenonT(60)

(* Every kick that is used up closes a live connection of the kicked user  *)
(* or ends a stream of one that is already closed.                         *)
THEOREM KicksClose == ProxySpec => KickClosesConnection
<1>1. ProxySpec => [](Types /\ RelayInv)
  BY InitRelay, NextRelay, PTL DEF ProxySpec
<1> QED BY <1>1, NextCloses, PTL DEF ProxySpec, KickClosesConnection

=============================================================================
