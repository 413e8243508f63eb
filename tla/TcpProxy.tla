------------------------------ MODULE TcpProxy ------------------------------
(***************************************************************************)
(* TCP relay over an authenticated connection and the accounting of its    *)
(* traffic: ProxyClient::tcp and TcpTunnel, ProxyServerConnection::serve   *)
(* and handle_tcp_stream (crates/hysteria-transport/src/proxy.rs), and     *)
(* TrafficStats with its HTTP interface (crates/hysteria/src/traffic.rs).  *)
(* The connections are those of Handshake.                                 *)
(*                                                                         *)
(* What the client or the target sends on a stream is the sequence         *)
(* 1, 2, 3, ... of chunks; a pipe is one direction of a stream.            *)
(***************************************************************************)
EXTENDS Handshake, FiniteSetsExt

CONSTANTS
  Streams,      \* TCP streams
  ConnOf,       \* the connection of a stream
  Users, UserOf \* authentication ids, and the id of a connection

ASSUME ProxyAssumption ==
  IsFiniteSet(Streams) /\ ConnOf \in [Streams -> Conns] /\ UserOf \in [Conns -> Users]

VARIABLES
  tunnel,    \* the client's TcpTunnel: "none", "waiting", "awaiting", "ready", "failed"
  response,  \* the TCP response on its way: an option of a BOOLEAN
  stage,     \* handle_tcp_stream: "none", "request", "hook", "dial", "reply",
             \* "prefix", "copy", "done"
  putback,   \* what the request hook has read
  pipe,      \* per stream and direction: the pipe
  counted,   \* TrafficState::stats, per user
  reported,  \* what the HTTP interface has reported and cleared, per user
  kicked,    \* TrafficState::kicked
  kicks,     \* bound: how often somebody was kicked
  online,    \* TrafficState::online
  traced     \* TrafficState::streams

tcpVars == <<tunnel, response, stage, putback, pipe, counted, reported, kicked, kicks, online, traced>>
statVars == <<counted, reported, kicked, kicks, online>>
proxyVars == <<hsVars, tcpVars>>

Directions == {"up", "down"}
User(s) == UserOf[ConnOf[s]]
Linked(s) == link[ConnOf[s]] = "open"

(* sent and fin: the source; read: chunks taken from it; held: the chunk   *)
(* between read and write; out: what the destination has got; done: the    *)
(* end of the source was passed on.                                        *)
EmptyPipe == [sent |-> 0, fin |-> FALSE, read |-> 0, held |-> {}, out |-> <<>>, done |-> FALSE]

TcpInit ==
  /\ tunnel = [s \in Streams |-> "none"] /\ response = [s \in Streams |-> {}]
  /\ stage = [s \in Streams |-> "none"] /\ putback = [s \in Streams |-> <<>>]
  /\ pipe = [s \in Streams |-> [d \in Directions |-> EmptyPipe]]
  /\ counted = [u \in Users |-> 0] /\ reported = [u \in Users |-> 0]
  /\ kicked = {} /\ kicks = 0 /\ traced = {}
  /\ online = [u \in Users |-> Cardinality({c \in Conns : UserOf[c] = u /\ serving[c] = "yes"})]

-----------------------------------------------------------------------------
(* TrafficStats.                                                           *)

(* log_traffic: a kick is used up by one call, which counts nothing.       *)
(* Refused(u) is what the call returns.                                    *)
Refused(u) == u \in kicked
LogTraffic(u, n) ==
  /\ kicked' = kicked \ {u}
  /\ counted' = IF Refused(u) THEN counted ELSE [counted EXCEPT ![u] = @ + n]

(* POST /kick. *)
Kick(u) ==
  /\ kicks < scenario.relay.kicks /\ kicks' = kicks + 1
  /\ kicked' = kicked \cup {u}
  /\ UNCHANGED <<hsVars, tunnel, response, stage, putback, pipe, counted, reported, online, traced>>

(* GET /traffic?clear=1, under one lock.  The bound keeps it to a counter  *)
(* that is not empty.                                                      *)
ClearTraffic ==
  /\ \E u \in Users : counted[u] > 0
  /\ reported' = [u \in Users |-> reported[u] + counted[u]]
  /\ counted' = [u \in Users |-> 0]
  /\ UNCHANGED <<hsVars, tunnel, response, stage, putback, pipe, kicked, kicks, online, traced>>

(* Connection::close with CLOSE_TRAFFIC_LIMIT_REACHED; nothing happens to  *)
(* a connection that is already closed.                                    *)
CloseLink(c) ==
  /\ link' = [link EXCEPT ![c] = "closed"]
  /\ client' = [client EXCEPT ![c] = "failed"]
  /\ UNCHANGED <<scenario, server, task, request, requests, exchange, queue, serving, rates>>

(* A UDP session of the connection logs a message and closes the           *)
(* connection when it is refused (udp.rs).                                 *)
UdpTraffic(c) ==
  /\ serving[c] = "yes" /\ link[c] = "open" /\ UserOf[c] \in kicked
  /\ LogTraffic(UserOf[c], 1) /\ CloseLink(c)
  /\ UNCHANGED <<tunnel, response, stage, putback, pipe, reported, kicks, online, traced>>

-----------------------------------------------------------------------------
(* The client.                                                             *)

(* ProxyClient::tcp up to the request; serve spawns handle_tcp_stream,     *)
(* which is traced from its start to its end.                              *)
Open(s) ==
  /\ s \in scenario.relay.streams /\ tunnel[s] = "none"
  /\ Linked(s) /\ client[ConnOf[s]] = "ready" /\ serving[ConnOf[s]] = "yes"
  /\ tunnel' = [tunnel EXCEPT ![s] = IF scenario.relay.fast THEN "awaiting" ELSE "waiting"]
  /\ stage' = [stage EXCEPT ![s] = "request"]
  /\ traced' = traced \cup {s}
  /\ UNCHANGED <<hsVars, response, putback, pipe, statVars>>

(* The response, read by tcp or, with fast open, by the first poll_read. *)
ReadResponse(s) ==
  /\ tunnel[s] \in {"waiting", "awaiting"}
  /\ \/ \E ok \in response[s] : tunnel' = [tunnel EXCEPT ![s] = IF ok THEN "ready" ELSE "failed"]
     \/ /\ (~Linked(s) \/ stage[s] = "done") /\ response[s] = {}
        /\ tunnel' = [tunnel EXCEPT ![s] = "failed"]
  /\ UNCHANGED <<hsVars, response, stage, putback, pipe, statVars, traced>>

(* poll_write does not wait for the response; the target may write as soon *)
(* as it is connected.                                                     *)
MaySend(s, d) ==
  IF d = "up" THEN tunnel[s] \in {"awaiting", "ready"} /\ Linked(s)
              ELSE stage[s] \in {"reply", "prefix", "copy"}

Send(s, d) ==
  /\ MaySend(s, d) /\ ~pipe[s][d].fin
  /\ \/ /\ pipe[s][d].sent < scenario.relay[d]
        /\ pipe' = [pipe EXCEPT ![s][d].sent = @ + 1]
     \/ pipe' = [pipe EXCEPT ![s][d].fin = TRUE]
  /\ UNCHANGED <<hsVars, tunnel, response, stage, putback, statVars, traced>>

-----------------------------------------------------------------------------
(* handle_tcp_stream.                                                      *)

(* A stream ends: its trace is dropped, and with it both pipes. *)
EndStream(s) ==
  /\ stage' = [stage EXCEPT ![s] = "done"]
  /\ traced' = traced \ {s}

(* Every await on the stream or on the target may fail before the copying  *)
(* starts.                                                                 *)
EarlyFailure(s) ==
  /\ stage[s] \in {"request", "hook", "reply", "prefix"}
  /\ EndStream(s)
  /\ UNCHANGED <<hsVars, tunnel, response, putback, pipe, statVars>>

ReadRequest(s) ==
  /\ stage[s] = "request"
  /\ \E hooked \in scenario.relay.hooks : stage' = [stage EXCEPT ![s] = IF hooked THEN "hook" ELSE "dial"]
  /\ UNCHANGED <<hsVars, tunnel, response, putback, pipe, statVars, traced>>

(* Mutant: a hook that has nothing to look at waits for it without end. *)
HookUntilData(s) ==
  /\ stage[s] = "hook"
  /\ LET p == pipe[s]["up"] IN
     \/ /\ p.read < p.sent
        /\ putback' = [putback EXCEPT ![s] = Append(@, p.read + 1)]
        /\ pipe' = [pipe EXCEPT ![s]["up"].read = @ + 1]
        /\ UNCHANGED stage
     \/ /\ putback[s] # <<>> \/ p.fin
        /\ stage' = [stage EXCEPT ![s] = "dial"]
        /\ UNCHANGED <<putback, pipe>>
  /\ UNCHANGED <<hsVars, tunnel, response, statVars, traced>>

(* RequestHook::tcp: reads for as long as the sniffer wants, and no longer *)
(* than its timeout.  Everything it reads is put back.                     *)
Hook(s) ==
  /\ stage[s] = "hook"
  /\ LET p == pipe[s]["up"] IN
     \/ /\ p.read < p.sent
        /\ putback' = [putback EXCEPT ![s] = Append(@, p.read + 1)]
        /\ pipe' = [pipe EXCEPT ![s]["up"].read = @ + 1]
        /\ UNCHANGED stage
     \/ /\ stage' = [stage EXCEPT ![s] = "dial"]
        /\ UNCHANGED <<putback, pipe>>
  /\ UNCHANGED <<hsVars, tunnel, response, statVars, traced>>

(* outbound.tcp; a failure is told to the client. *)
Dial(s) ==
  /\ stage[s] = "dial"
  /\ \/ stage' = [stage EXCEPT ![s] = "reply"] /\ UNCHANGED <<response, traced>>
     \/ EndStream(s) /\ response' = [response EXCEPT ![s] = IF Linked(s) THEN {FALSE} ELSE {}]
  /\ UNCHANGED <<hsVars, tunnel, putback, pipe, statVars>>

Reply(s) ==
  /\ stage[s] = "reply" /\ Linked(s)
  /\ response' = [response EXCEPT ![s] = {TRUE}]
  /\ stage' = [stage EXCEPT ![s] = IF putback[s] = <<>> THEN "copy" ELSE "prefix"]
  /\ UNCHANGED <<hsVars, tunnel, putback, pipe, statVars, traced>>

(* Mutant: the hooked bytes are accounted for and not written. *)
SkipPrefix(s) ==
  /\ stage[s] = "prefix"
  /\ LogTraffic(User(s), Len(putback[s]))
  /\ stage' = [stage EXCEPT ![s] = "copy"]
  /\ UNCHANGED <<hsVars, tunnel, response, putback, pipe, traced, reported, kicks, online>>

(* write_hooked_prefix: one call accounts for all of it. *)
WritePrefix(s) ==
  /\ stage[s] = "prefix"
  /\ LogTraffic(User(s), Len(putback[s]))
  /\ IF Refused(User(s))
     THEN CloseLink(ConnOf[s]) /\ EndStream(s) /\ UNCHANGED pipe
     ELSE /\ stage' = [stage EXCEPT ![s] = "copy"]
          /\ pipe' = [pipe EXCEPT ![s]["up"].out = putback[s]]
          /\ UNCHANGED <<hsVars, traced>>
  /\ UNCHANGED <<tunnel, response, putback, reported, kicks, online>>

-----------------------------------------------------------------------------
(* copy_with_traffic in the two directions, under try_join.                *)

(* Mutant: the chunk is written, and accounted for afterwards if at all. *)
CopyReadUncounted(s, d) ==
  /\ stage[s] = "copy" /\ pipe[s][d].held = {} /\ pipe[s][d].read < pipe[s][d].sent
  /\ pipe' = [pipe EXCEPT ![s][d].read = @ + 1, ![s][d].held = {pipe[s][d].read + 1}]
  /\ UNCHANGED <<hsVars, tunnel, response, stage, putback, statVars, traced>>

(* Mutant: a refused chunk ends the stream and leaves the connection. *)
CopyReadKeepsLink(s, d) ==
  /\ stage[s] = "copy" /\ pipe[s][d].held = {} /\ pipe[s][d].read < pipe[s][d].sent
  /\ LogTraffic(User(s), 1)
  /\ IF Refused(User(s))
     THEN EndStream(s) /\ UNCHANGED <<hsVars, pipe>>
     ELSE /\ pipe' = [pipe EXCEPT ![s][d].read = @ + 1, ![s][d].held = {pipe[s][d].read + 1}]
          /\ UNCHANGED <<hsVars, stage, traced>>
  /\ UNCHANGED <<tunnel, response, putback, reported, kicks, online>>

(* A chunk is read and accounted for; a refusal cancels the other          *)
(* direction and closes the connection.                                    *)
CopyRead(s, d) ==
  /\ stage[s] = "copy" /\ pipe[s][d].held = {} /\ pipe[s][d].read < pipe[s][d].sent
  /\ LogTraffic(User(s), 1)
  /\ IF Refused(User(s))
     THEN CloseLink(ConnOf[s]) /\ EndStream(s) /\ UNCHANGED pipe
     ELSE /\ pipe' = [pipe EXCEPT ![s][d].read = @ + 1, ![s][d].held = {pipe[s][d].read + 1}]
          /\ UNCHANGED <<hsVars, stage, traced>>
  /\ UNCHANGED <<tunnel, response, putback, reported, kicks, online>>

CopyWrite(s, d) ==
  /\ stage[s] = "copy" /\ (d = "down" => Linked(s))
  /\ \E k \in pipe[s][d].held :
       pipe' = [pipe EXCEPT ![s][d].held = {}, ![s][d].out = Append(@, k)]
  /\ UNCHANGED <<hsVars, tunnel, response, stage, putback, statVars, traced>>

(* The source has ended: the end is passed on (shutdown, finish), and the  *)
(* stream is over once both directions have ended.                         *)
CopyEnd(s, d) ==
  LET p == pipe[s][d]
      other == IF d = "up" THEN "down" ELSE "up"
  IN  /\ stage[s] = "copy" /\ p.held = {} /\ p.read = p.sent /\ p.fin /\ ~p.done
      /\ pipe' = [pipe EXCEPT ![s][d].done = TRUE]
      /\ IF pipe[s][other].done THEN EndStream(s) ELSE UNCHANGED <<stage, traced>>
      /\ UNCHANGED <<hsVars, tunnel, response, putback, statVars>>

(* Mutant: a failed write to the client is not noticed. *)
LinkNoticedByReads(s) ==
  /\ ~Linked(s)
  /\ stage[s] \in {"request", "reply"} \/ (stage[s] = "copy" /\ ~pipe[s]["up"].done)
  /\ EndStream(s)
  /\ UNCHANGED <<hsVars, tunnel, response, putback, pipe, statVars>>

(* A dead connection fails the read of the client's data and the write of  *)
(* the target's; either ends the stream.                                   *)
LinkNoticed(s) ==
  /\ ~Linked(s)
  /\ \/ stage[s] \in {"request", "reply"}
     \/ stage[s] = "copy" /\ (~pipe[s]["up"].done \/ pipe[s]["down"].held # {})
  /\ EndStream(s)
  /\ UNCHANGED <<hsVars, tunnel, response, putback, pipe, statVars>>

(* The target resets its connection. *)
TargetFails(s) ==
  /\ stage[s] = "copy" /\ EndStream(s)
  /\ UNCHANGED <<hsVars, tunnel, response, putback, pipe, statVars>>

-----------------------------------------------------------------------------
(* OnlineGuard: serve counts its connection while it runs. *)
OnlineStep ==
  /\ AcceptNext \/ \E c \in Conns : ServeEnds(c)
  /\ online' = [u \in Users |-> Cardinality({c \in Conns : UserOf[c] = u /\ serving'[c] = "yes"})]
  /\ UNCHANGED <<tunnel, response, stage, putback, pipe, counted, reported, kicked, kicks, traced>>

ConnectionStep ==
  /\ \/ \E c \in Conns : Peer(c) \/ Task(c)
     \/ Close
  /\ UNCHANGED tcpVars

StreamTask(s) ==
  \/ ReadRequest(s) \/ Hook(s) \/ Dial(s) \/ Reply(s) \/ WritePrefix(s) \/ LinkNoticed(s)
  \/ \E d \in Directions : CopyRead(s, d) \/ CopyWrite(s, d) \/ CopyEnd(s, d)

ProxyNext ==
  \/ ConnectionStep \/ OnlineStep \/ ClearTraffic
  \/ \E u \in Users : Kick(u)
  \/ \E c \in Conns : UdpTraffic(c)
  \/ \E s \in Streams : \/ Open(s) \/ ReadResponse(s) \/ EarlyFailure(s) \/ TargetFails(s)
                        \/ StreamTask(s)
                        \/ \E d \in Directions : Send(s, d)

(* The tasks of both ends run, a hook and a dial end by their timeouts;    *)
(* clients, targets and administrators may do nothing.                     *)
ProxyFairness ==
  /\ HandshakeFairness
  /\ \A s \in Streams :
       /\ WF_proxyVars(ReadResponse(s)) /\ WF_proxyVars(StreamTask(s))
       /\ WF_proxyVars(LinkNoticed(s))

ServerInit == HandshakeInit /\ TcpInit

ProxySpec == ServerInit /\ [][ProxyNext]_proxyVars /\ ProxyFairness

-----------------------------------------------------------------------------
(* What either side gets is what the other side sent, in order and without *)
(* gaps, the bytes a request hook looked at included; and when a direction *)
(* has ended in the ordinary way, all of it has arrived.                   *)
RelayedInOrder ==
  \A s \in Streams : \A d \in Directions :
    LET p == pipe[s][d] IN
    /\ p.out = [k \in 1..Len(p.out) |-> k] /\ Len(p.out) <= p.sent
    /\ p.done => Len(p.out) = p.sent

(* Chunks that the destinations of a stream have got. *)
Delivered == [s \in Streams |-> Len(pipe[s]["up"].out) + Len(pipe[s]["down"].out)]

(* No byte is forwarded without having been accounted for: the counters    *)
(* and the snapshots the HTTP interface has handed out and cleared add up  *)
(* to at least what was delivered for the user.                            *)
ForwardedAreCounted ==
  \A u \in Users :
    MapThenSumSet(LAMBDA s : Delivered[s], {s \in Streams : User(s) = u}) <= counted[u] + reported[u]

(* What a step that takes a user from the kicked ones does. *)
KickCloses ==
  \A u \in kicked \ kicked' :
    \E c \in Conns : UserOf[c] = u /\ link'[c] = "closed"
                     /\ (link[c] = "open" \/ \E s \in Streams : ConnOf[s] = c /\ stage[s] # stage'[s])

(* A kick is used up by closing a live connection of that user, or by the  *)
(* left-over stream of a connection that was dead already: it never leaves *)
(* a connection running that it was used up on.                            *)
KickClosesConnection == [][KickCloses]_proxyVars

(* The client waits for the response and the server's hook for the         *)
(* client's data, and yet every request is settled: the tunnel becomes     *)
(* ready or fails.                                                         *)
RequestsSettle ==
  \A s \in Streams :
    (tunnel[s] \in {"waiting", "awaiting"}) ~> (tunnel[s] \in {"ready", "failed"})

(* The stream of a closed connection ends, except while its client had     *)
(* finished sending and its target says nothing: serve aborts the UDP task *)
(* and leaves the streams to notice.                                       *)
StreamsEnd ==
  \A s \in Streams :
    (~Linked(s) /\ stage[s] \notin {"none", "done"})
      ~> (stage[s] = "done" \/ (pipe[s]["up"].done /\ ~pipe[s]["down"].fin))

(* No stream waits for ever: neither while it is being opened nor after    *)
(* its connection has gone.                                                *)
StreamsFinish == RequestsSettle /\ StreamsEnd
=============================================================================
