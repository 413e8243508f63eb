------------------------------ MODULE Handshake ------------------------------
(***************************************************************************)
(* The server's accept loop, authentication over HTTP/3 and masquerade     *)
(* (crates/hysteria-transport/src/handshake.rs) with the loop of           *)
(* serve_server (crates/hysteria/src/runtime.rs) that hands authenticated  *)
(* connections to their own tasks.                                         *)
(*                                                                         *)
(* An option is a set of at most one element.  A rate of 0 stands for the  *)
(* adaptive controller.  Both ends of a connection see it close in the     *)
(* same step.                                                              *)
(***************************************************************************)
EXTENDS Integers, Sequences, FiniteSets

CONSTANTS
  Conns,        \* connections
  QueueSize,    \* capacity of the channel of authenticated connections
  BodySize,     \* MASQUERADE_BODY_CHANNEL_SIZE
  MaxUpload,    \* bound: chunks of a request body
  MaxRequests,  \* bound: HTTP requests of one connection
  Scenarios     \* which offers and which traffic an instance explores

ASSUME HandshakeAssumption ==
  /\ QueueSize \in Nat \ {0} /\ BodySize \in Nat \ {0}
  /\ MaxUpload \in Nat /\ MaxRequests \in Nat

(* The rates of an offer are unsigned. *)
ASSUME OfferAssumption ==
  \A x \in Scenarios : /\ x.offer.client.tx \in Nat /\ x.offer.client.rx \in Nat
                       /\ x.offer.server.tx \in Nat /\ x.offer.server.rx \in Nat

VARIABLES
  scenario,  \* the member of Scenarios this behaviour explores
  server,    \* "running" or "closed"
  link,      \* per connection: "none", "open", "closed"
  task,      \* its child task: "none", "idle", "auth", "masquerade", "sending", "done"
  request,   \* the request in flight: an option of a request
  requests,  \* requests sent so far
  exchange,  \* the masquerade exchange
  queue,     \* the channel of authenticated connections
  serving,   \* ProxyServerConnection::serve: "no", "yes", "ended"
  client,    \* the client: "none", "asking", "ready", "failed"
  rates      \* per connection: the rates the two ends send at, an option

hsVars == <<scenario, server, link, task, request, requests, exchange, queue, serving, client, rates>>

(* "auth" and "refused" are authentication requests, by what the           *)
(* authenticator says of them; "web" is anything else.  A backend answers  *)
(* "after" it has read the whole body, "early" without needing it, or      *)
(* sends a response that "follows" the body.                               *)
Requests == [kind : {"auth"}, upload : {0}, backend : {"after"}]
            \cup [kind : {"refused"}, upload : {0}, backend : {"after", "early"}]
            \cup [kind : {"web"}, upload : {0, MaxUpload}, backend : {"after", "early", "follows"}]

(* An exchange: chunks of the body that the peer has still to send, those  *)
(* that have arrived, and those in the channel; whether the backend has    *)
(* begun to answer, and whether the peer takes the answer.                 *)
NoExchange == [left |-> 0, arrived |-> 0, buffered |-> 0, backend |-> "after",
               answering |-> FALSE, credit |-> FALSE]

(* Negotiation of the rates.                                               *)

(* Mutant: the client ignores what the server can receive. *)
ClientRateOwn(c, s) == IF s.auto THEN 0 ELSE c.tx

(* authenticate_client_connection: actual_tx. *)
ClientRate(c, s) ==
  CASE s.auto -> 0
    [] ~s.auto /\ (s.rx = 0 \/ s.rx > c.tx) -> c.tx
    [] OTHER -> s.rx

(* authenticate_server_connection: peer_rx, and whether Brutal is enabled. *)
ServerRate(c, s) ==
  IF s.auto THEN 0 ELSE IF s.tx > 0 /\ c.rx > s.tx THEN s.tx ELSE c.rx

Rates(offer) ==
  [client |-> ClientRate(offer.client, offer.server),
   server |-> ServerRate(offer.client, offer.server)]

(* The connections of scenario.settled have been authenticated and are     *)
(* served when the behaviour starts.                                       *)
HandshakeInit ==
  /\ scenario \in Scenarios
  /\ server = "running" /\ queue = <<>>
  /\ LET Settled(yes, no) == [c \in Conns |-> IF c \in scenario.settled THEN yes ELSE no] IN
     /\ link = Settled("open", "none") /\ task = Settled("done", "none")
     /\ serving = Settled("yes", "no") /\ client = Settled("ready", "none")
     /\ rates = Settled({Rates(scenario.offer)}, {})
  /\ request = [c \in Conns |-> {}] /\ requests = [c \in Conns |-> 0]
  /\ exchange = [c \in Conns |-> NoExchange]

-----------------------------------------------------------------------------
(* The endpoint, the child task and its peer.                              *)

(* A QUIC connection arrives; its handshake may fail. *)
Connect(c) ==
  /\ server = "running" /\ scenario.kinds[c] # {} /\ link[c] = "none"
  /\ \E ok \in BOOLEAN :
       /\ link' = [link EXCEPT ![c] = IF ok THEN "open" ELSE "closed"]
       /\ task' = [task EXCEPT ![c] = IF ok THEN "idle" ELSE "done"]
  /\ UNCHANGED <<scenario, server, request, requests, exchange, queue, serving, client, rates>>

(* The peer closes the connection, or it times out. *)
LinkFails(c) ==
  /\ link[c] = "open"
  /\ link' = [link EXCEPT ![c] = "closed"]
  /\ client' = [client EXCEPT ![c] = IF @ = "none" THEN @ ELSE "failed"]
  /\ UNCHANGED <<scenario, server, task, request, requests, exchange, queue, serving, rates>>

(* A request on a new stream; the task takes one request after the other. *)
Ask(c) ==
  /\ link[c] = "open" /\ task[c] = "idle" /\ request[c] = {}
  /\ client[c] = "none" /\ requests[c] < MaxRequests
  /\ \E r \in Requests :
       /\ r.kind \in scenario.kinds[c]
       /\ request' = [request EXCEPT ![c] = {r}]
       /\ client' = [client EXCEPT ![c] = IF r.kind = "web" THEN "none" ELSE "asking"]
  /\ requests' = [requests EXCEPT ![c] = @ + 1]
  /\ UNCHANGED <<scenario, server, link, task, exchange, queue, serving, rates>>

Started(r) == [NoExchange EXCEPT !.left = r.upload, !.backend = r.backend]

(* resolve_request: only a POST to the authentication host and path goes   *)
(* to the authenticator.                                                   *)
TakeRequest(c) ==
  /\ task[c] = "idle" /\ link[c] = "open"
  /\ \E r \in request[c] :
       /\ task' = [task EXCEPT ![c] = IF r.kind = "web" THEN "masquerade" ELSE "auth"]
       /\ exchange' = [exchange EXCEPT ![c] = IF r.kind = "web" THEN Started(r) ELSE @]
  /\ UNCHANGED <<scenario, server, link, request, requests, queue, serving, client, rates>>

(* The authenticator answers.  The response goes out before the rate is    *)
(* set; a failed write ends the task.                                      *)
Authenticate(c) ==
  /\ task[c] = "auth" /\ link[c] = "open"
  /\ \E r \in request[c] :
       \/ /\ r.kind = "auth"
          /\ task' = [task EXCEPT ![c] = "sending"]
          /\ rates' = [rates EXCEPT ![c] = {Rates(scenario.offer)}]
          /\ client' = [client EXCEPT ![c] = "ready"]
          /\ UNCHANGED exchange
       \/ /\ r.kind = "refused"
          /\ task' = [task EXCEPT ![c] = "masquerade"]
          /\ exchange' = [exchange EXCEPT ![c] = Started(r)]
          /\ UNCHANGED <<rates, client>>
  /\ UNCHANGED <<scenario, server, link, request, requests, queue, serving>>

(* select! on connection.closed(): a task whose connection has closed      *)
(* gives up authenticating and masquerading.                               *)
GiveUp(c) ==
  /\ link[c] = "closed" /\ task[c] \in {"idle", "auth", "masquerade"}
  /\ task' = [task EXCEPT ![c] = "done"]
  /\ UNCHANGED <<scenario, server, link, request, requests, exchange, queue, serving, client, rates>>

-----------------------------------------------------------------------------
(* handle_masquerade_request: the body is received only until the backend  *)
(* answers.                                                                *)

(* The peer sends a chunk, or resets the stream: what it has not sent, and *)
(* what was not received, does not come.                                   *)
PeerSends(c) ==
  /\ task[c] = "masquerade" /\ link[c] = "open" /\ exchange[c].left > 0
  /\ exchange' \in {[exchange EXCEPT ![c].left = @ - 1, ![c].arrived = @ + 1],
                    [exchange EXCEPT ![c].left = 0, ![c].arrived = 0]}
  /\ UNCHANGED <<scenario, server, link, task, request, requests, queue, serving, client, rates>>

(* Mutant: one place of the channel is never used. *)
ReceiveOffByOne(c) ==
  /\ task[c] = "masquerade" /\ link[c] = "open" /\ ~exchange[c].answering
  /\ exchange[c].arrived > 0 /\ exchange[c].buffered < BodySize - 1
  /\ exchange' = [exchange EXCEPT ![c].arrived = @ - 1, ![c].buffered = @ + 1]
  /\ UNCHANGED <<scenario, server, link, task, request, requests, queue, serving, client, rates>>

ReceiveBody(c) ==
  /\ task[c] = "masquerade" /\ link[c] = "open" /\ ~exchange[c].answering
  /\ exchange[c].arrived > 0 /\ exchange[c].buffered < BodySize
  /\ exchange' = [exchange EXCEPT ![c].arrived = @ - 1, ![c].buffered = @ + 1]
  /\ UNCHANGED <<scenario, server, link, task, request, requests, queue, serving, client, rates>>

BackendReads(c) ==
  /\ task[c] = "masquerade" /\ exchange[c].buffered > 0
  /\ exchange' = [exchange EXCEPT ![c].buffered = @ - 1]
  /\ UNCHANGED <<scenario, server, link, task, request, requests, queue, serving, client, rates>>

BodyConsumed(c) == exchange[c].left + exchange[c].arrived + exchange[c].buffered = 0

BackendAnswers(c) ==
  /\ task[c] = "masquerade" /\ ~exchange[c].answering
  /\ exchange[c].backend = "after" => BodyConsumed(c)
  /\ exchange' = [exchange EXCEPT ![c].answering = TRUE]
  /\ UNCHANGED <<scenario, server, link, task, request, requests, queue, serving, client, rates>>

(* The peer makes room for the whole answer: send_data waits for it. *)
PeerReads(c) ==
  /\ task[c] = "masquerade" /\ link[c] = "open" /\ ~exchange[c].credit
  /\ exchange' = [exchange EXCEPT ![c].credit = TRUE]
  /\ UNCHANGED <<scenario, server, link, task, request, requests, queue, serving, client, rates>>

(* send_masquerade_response to the end of the backend's body; the task     *)
(* takes the next request.  A client that was refused closes.              *)
FinishResponse(c) ==
  /\ task[c] = "masquerade" /\ link[c] = "open" /\ exchange[c].answering /\ exchange[c].credit
  /\ exchange[c].backend = "follows" => BodyConsumed(c)
  /\ LET asking == client[c] = "asking" IN
     /\ task' = [task EXCEPT ![c] = "idle"]
     /\ client' = [client EXCEPT ![c] = IF asking THEN "failed" ELSE @]
     /\ link' = [link EXCEPT ![c] = IF asking THEN "closed" ELSE @]
  /\ request' = [request EXCEPT ![c] = {}]
  /\ exchange' = [exchange EXCEPT ![c] = NoExchange]
  /\ UNCHANGED <<scenario, server, requests, queue, serving, rates>>

(* The peer stops the stream or the backend's body breaks off: the error   *)
(* ends the task, whose connection closes with its last handle.            *)
ResponseFails(c) ==
  /\ task[c] = "masquerade" /\ link[c] = "open" /\ exchange[c].answering
  /\ task' = [task EXCEPT ![c] = "done"]
  /\ link' = [link EXCEPT ![c] = "closed"]
  /\ client' = [client EXCEPT ![c] = IF @ = "none" THEN @ ELSE "failed"]
  /\ UNCHANGED <<scenario, server, request, requests, exchange, queue, serving, rates>>

-----------------------------------------------------------------------------
(* Mutant: a connection that finds the channel full is dropped. *)
AnnounceOrDrop(c) ==
  /\ task[c] = "sending" /\ server = "running"
  /\ queue' = IF Len(queue) < QueueSize THEN Append(queue, c) ELSE queue
  /\ task' = [task EXCEPT ![c] = "done"]
  /\ UNCHANGED <<scenario, server, link, request, requests, exchange, serving, client, rates>>

(* sender.send(connection).await: waits for room in the channel. *)
Announce(c) ==
  /\ task[c] = "sending" /\ server = "running" /\ Len(queue) < QueueSize
  /\ queue' = Append(queue, c)
  /\ task' = [task EXCEPT ![c] = "done"]
  /\ UNCHANGED <<scenario, server, link, request, requests, exchange, serving, client, rates>>

(* serve_server: accept, and a task of its own for the connection. *)
AcceptNext ==
  /\ server = "running" /\ queue # <<>>
  /\ serving' = [serving EXCEPT ![Head(queue)] = "yes"]
  /\ queue' = Tail(queue)
  /\ UNCHANGED <<scenario, server, link, task, request, requests, exchange, client, rates>>

(* serve ends when accept_bi fails. *)
ServeEnds(c) ==
  /\ serving[c] = "yes" /\ link[c] = "closed"
  /\ serving' = [serving EXCEPT ![c] = "ended"]
  /\ UNCHANGED <<scenario, server, link, task, request, requests, exchange, queue, client, rates>>

(* Mutant: the accept loop ends and the endpoint stays as it is. *)
CloseLoopOnly ==
  /\ server = "running" /\ server' = "closed"
  /\ task' = [c \in Conns |-> IF task[c] = "none" THEN "none" ELSE "done"]
  /\ queue' = <<>>
  /\ UNCHANGED <<scenario, link, request, requests, exchange, serving, client, rates>>

(* HysteriaServer::close on shutdown: the accept task is aborted with the  *)
(* child tasks it owns, and the endpoint closes every connection.          *)
Close ==
  /\ server = "running" /\ server' = "closed"
  /\ task' = [c \in Conns |-> IF task[c] = "none" THEN "none" ELSE "done"]
  /\ queue' = <<>>
  /\ link' = [c \in Conns |-> IF link[c] = "open" THEN "closed" ELSE link[c]]
  /\ client' = [c \in Conns |-> IF client[c] = "none" THEN "none" ELSE "failed"]
  /\ UNCHANGED <<scenario, request, requests, exchange, serving, rates>>

Task(c) ==
  \/ TakeRequest(c) \/ Authenticate(c) \/ GiveUp(c)
  \/ ReceiveBody(c) \/ BackendReads(c) \/ BackendAnswers(c) \/ FinishResponse(c)
  \/ Announce(c)

(* What the peer of a connection does with it. *)
Peer(c) ==
  Connect(c) \/ LinkFails(c) \/ Ask(c) \/ PeerSends(c) \/ PeerReads(c) \/ ResponseFails(c)

(* Tasks and backends make progress; peers need not.  A task that waits    *)
(* for room in the channel of connections gets it in turn: the channel is  *)
(* first in, first out.                                                    *)
HandshakeFairness ==
  /\ \A c \in Conns : WF_hsVars(Task(c)) /\ SF_hsVars(Announce(c)) /\ WF_hsVars(ServeEnds(c))
  /\ WF_hsVars(AcceptNext)

-----------------------------------------------------------------------------
(* Neither end is told to send faster than it may, or than the other end   *)
(* says it can receive.                                                    *)
RatesRespectBoth ==
  \A c \in Conns : \A r \in rates[c] :
    LET cl == scenario.offer.client
        sv == scenario.offer.server
    IN  /\ r.client <= cl.tx /\ (sv.rx > 0 => r.client <= sv.rx)
        /\ r.server <= cl.rx /\ (sv.tx > 0 => r.server <= sv.tx)
        /\ sv.auto => r.client = 0 /\ r.server = 0

(* "closing/dropping the server cancels pending authentication and         *)
(* masquerade work": after close no child task is left, and every task     *)
(* that serves a connection ends.                                          *)
CloseEndsEverything ==
  (server = "closed") ~> (\A c \in Conns : task[c] \in {"none", "done"} /\ serving[c] # "yes")

(* A client that was told it is authenticated is served, however full the  *)
(* channel is, unless the server closes.                                   *)
AuthenticatedAreServed ==
  \A c \in Conns : (task[c] = "sending") ~> (serving[c] # "no" \/ server = "closed")

(* What an exchange may wait for: the rest of a body that the backend      *)
(* wants, or room for the answer.  Both are the peer's to give.            *)
AwaitsPeer(c) ==
  LET e == exchange[c] IN
  \/ ~e.answering /\ e.backend = "after" /\ e.left > 0 /\ e.arrived + e.buffered = 0
  \/ e.answering /\ ~e.credit

(* A masquerade exchange ends, and the requests behind it get their turn,  *)
(* or it waits for its peer: neither the bounded channel of the body nor   *)
(* an answer that comes before the body was read holds it up.  (Except     *)
(* when the backend's answer goes on to need the body: the rest is not     *)
(* received any more once the answer has begun, and the exchange stands    *)
(* still until the connection closes.)                                     *)
ExchangesEnd ==
  \A c \in Conns :
    (task[c] = "masquerade" /\ exchange[c].backend # "follows")
      ~> (task[c] # "masquerade" \/ AwaitsPeer(c))
=============================================================================
