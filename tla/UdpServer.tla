----------------------------- MODULE UdpServer -----------------------------
(***************************************************************************)
(* The server side of the UDP relay of one connection                      *)
(* (crates/hysteria-transport/src/udp.rs): spawn_server_udp is one task    *)
(* that reads datagrams and routes them by session id, run_server_session  *)
(* is one task per session, and the two share the table of sessions.       *)
(*                                                                         *)
(* A message is only counted here: what Defragger::feed makes of its       *)
(* content is the subject of UdpPath, and any message may complete a       *)
(* packet or not.  Each step ends where the code awaits or where another   *)
(* task can take the lock of the table; an Option is a set of at most one  *)
(* element.  Tokens identify the session tasks, as next_token does.        *)
(***************************************************************************)
EXTENDS Integers, Sequences, FiniteSets

CONSTANTS
  SessionIds,
  Capacity,      \* SESSION_CHANNEL_SIZE
  MaxTokens,     \* bound on the session tasks spawned
  MaxArrivals,   \* bound on the datagrams the peer sends
  MaxReplies     \* bound on the packets the outbound receives

ASSUME UdpServerAssumption ==
  /\ Capacity \in Nat \ {0}
  /\ MaxTokens \in Nat /\ MaxArrivals \in Nat /\ MaxReplies \in Nat

Tokens == 1..MaxTokens

VARIABLES
  conn,       \* "open" or "closed"
  inbox,      \* session ids of the datagrams QUIC has buffered
  arrivals, replies,   \* how many there have been, for the bounds
  reader,     \* pc, and between lookup and routing the datagram's session
              \* and the entry found
  sessions,   \* the shared table: per session id the token of its entry
  nextToken,
  task        \* per token: pc, session, and messages queued in its channel

vars == <<conn, inbox, arrivals, replies, reader, sessions, nextToken, task>>

ReaderPc == {"read", "route", "exit", "cleared", "aborted"}
TaskPc == {"unused", "first", "dial", "greet", "loop", "check", "forward",
           "reply", "done"}

Live(t) == task[t].pc \notin {"unused", "done"}

(* The tasks after t moved to pc with so many messages in its channel. *)
Moved(t, pc, queue) ==
  [task EXCEPT ![t] = [pc |-> pc, session |-> task[t].session, queue |-> queue]]

(* Every sender of the task's channel is gone: recv() returns None. *)
ChannelClosed(t) ==
  /\ \A s \in SessionIds : t \notin sessions[s]
  /\ ~(reader.pc = "route" /\ t \in reader.existing)

Init ==
  /\ conn = "open" /\ inbox = <<>> /\ arrivals = 0 /\ replies = 0
  /\ reader = [pc |-> "read", session |-> {}, existing |-> {}]
  /\ sessions = [s \in SessionIds |-> {}]
  /\ nextToken = 1
  /\ task = [t \in Tokens |-> [pc |-> "unused", session |-> {}, queue |-> 0]]

-----------------------------------------------------------------------------
(* The connection: datagrams arrive while it is open, and those buffered   *)
(* can still be read after it closed.                                      *)

Arrive(s) ==
  /\ conn = "open" /\ arrivals < MaxArrivals
  /\ inbox' = Append(inbox, s)
  /\ arrivals' = arrivals + 1
  /\ UNCHANGED <<conn, replies, reader, sessions, nextToken, task>>

ConnectionLost ==
  /\ conn = "open"
  /\ conn' = "closed"
  /\ UNCHANGED <<inbox, arrivals, replies, reader, sessions, nextToken, task>>

-----------------------------------------------------------------------------
(* The reader.                                                             *)

Goto(pc) == reader' = [pc |-> pc, session |-> {}, existing |-> {}]

(* read_datagram returns: the datagram does not decode, or log_traffic     *)
(* refuses it and closes the connection, or its session is looked up.      *)
ReadDatagram ==
  /\ reader.pc = "read" /\ inbox # <<>>
  /\ inbox' = Tail(inbox)
  /\ \/ UNCHANGED <<conn, reader>>
     \/ conn' = "closed" /\ Goto("exit")
     \/ /\ reader' = [pc |-> "route", session |-> {Head(inbox)},
                      existing |-> sessions[Head(inbox)]]
        /\ UNCHANGED conn
  /\ UNCHANGED <<arrivals, replies, sessions, nextToken, task>>

ReadError ==
  /\ reader.pc = "read" /\ inbox = <<>> /\ conn = "closed"
  /\ Goto("exit")
  /\ UNCHANGED <<conn, inbox, arrivals, replies, sessions, nextToken, task>>

(* An entry was found: try_send, whose failure is ignored. *)
RouteToExisting ==
  /\ reader.pc = "route" /\ reader.existing # {}
  /\ \E t \in reader.existing :
       task' = IF Live(t) /\ task[t].queue < Capacity
               THEN Moved(t, task[t].pc, task[t].queue + 1) ELSE task
  /\ Goto("read")
  /\ UNCHANGED <<conn, inbox, arrivals, replies, sessions, nextToken>>

(* Mutant: a full channel is treated like a missing session. *)
SpawnWhenFull(s, t) ==
  /\ reader.pc = "route" /\ s \in reader.session
  /\ \A u \in reader.existing : task[u].queue = Capacity
  /\ t = nextToken /\ t \in Tokens
  /\ sessions' = [sessions EXCEPT ![s] = {t}]
  /\ nextToken' = nextToken + 1
  /\ task' = [task EXCEPT ![t] = [pc |-> "first", session |-> {s}, queue |-> 1]]
  /\ Goto("read")
  /\ UNCHANGED <<conn, inbox, arrivals, replies>>

(* No entry was found: insert one, send it the message, spawn its task. *)
SpawnSession(s, t) ==
  /\ reader.pc = "route" /\ s \in reader.session /\ reader.existing = {}
  /\ t = nextToken /\ t \in Tokens
  /\ sessions' = [sessions EXCEPT ![s] = {t}]
  /\ nextToken' = nextToken + 1
  /\ task' = [task EXCEPT ![t] = [pc |-> "first", session |-> {s}, queue |-> 1]]
  /\ Goto("read")
  /\ UNCHANGED <<conn, inbox, arrivals, replies>>

(* Mutant: the task ends without clearing the table. *)
ExitWithoutClear ==
  /\ reader.pc = "exit"
  /\ Goto("cleared")
  /\ UNCHANGED <<sessions, conn, inbox, arrivals, replies, nextToken, task>>

ClearTable ==
  /\ reader.pc = "exit"
  /\ sessions' = [s \in SessionIds |-> {}]
  /\ Goto("cleared")
  /\ UNCHANGED <<conn, inbox, arrivals, replies, nextToken, task>>

(* serve() aborts the reader when accept_bi fails; a task is only ever     *)
(* cancelled where it awaits, so the table is then not cleared.            *)
AbortReader ==
  /\ conn = "closed" /\ reader.pc = "read"
  /\ Goto("aborted")
  /\ UNCHANGED <<conn, inbox, arrivals, replies, sessions, nextToken, task>>

-----------------------------------------------------------------------------
(* The session tasks.                                                      *)

Step(t, from, to) ==
  /\ task[t].pc = from
  /\ task' = Moved(t, to, task[t].queue)
  /\ UNCHANGED <<conn, inbox, arrivals, replies, reader, sessions, nextToken>>

(* Mutant: the task ends without removing its entry. *)
RemoveNothing(t) == sessions

(* remove_server_session. *)
Remove(t) ==
  [s \in SessionIds |-> IF s \in task[t].session THEN sessions[s] \ {t} ELSE sessions[s]]

(* The task removes its entry and returns, dropping its receiver. *)
Finish(t) ==
  /\ sessions' = Remove(t)
  /\ task' = Moved(t, "done", 0)
  /\ UNCHANGED <<inbox, arrivals, reader, nextToken>>

(* A message is taken from the channel and fed to the Defragger: the       *)
(* packet is incomplete, or it is complete; the first complete one passes  *)
(* the request hook, which may fail.                                       *)
TakeMessage(t, from, to) ==
  /\ task[t].pc = from /\ task[t].queue > 0
  /\ \E pc \in {from, to} :
       task' = Moved(t, pc, task[t].queue - 1)
  /\ UNCHANGED <<conn, inbox, arrivals, replies, reader, sessions, nextToken>>

FirstMessage(t) ==
  \/ TakeMessage(t, "first", "dial")
  \/ /\ task[t].pc = "first" /\ task[t].queue > 0
     /\ Finish(t) /\ UNCHANGED <<conn, replies>>

(* outbound.udp, then socket.send_to of the first message. *)
Dial(t) == Step(t, "dial", "greet")
Greet(t) == Step(t, "greet", "loop")
StartFails(t) ==
  /\ task[t].pc \in {"dial", "greet"}
  /\ Finish(t) /\ UNCHANGED <<conn, replies>>

(* The loop: a message of the client is checked and forwarded; both calls  *)
(* await, and their errors only drop the message.                          *)
ClientMessage(t) == TakeMessage(t, "loop", "check")
CheckUdp(t) == Step(t, "check", "forward") \/ Step(t, "check", "loop")
Forward(t) == Step(t, "forward", "loop")

(* A packet of the outbound: log_traffic refuses it and closes the         *)
(* connection, or it is sent to the client, or receiving failed.           *)
RemotePacket(t) ==
  /\ task[t].pc = "loop" /\ replies < MaxReplies
  /\ replies' = replies + 1
  /\ \/ conn' = "closed" /\ Finish(t)
     \/ Finish(t) /\ UNCHANGED conn
     \/ /\ task' = Moved(t, "reply", task[t].queue)
        /\ UNCHANGED <<conn, inbox, arrivals, reader, sessions, nextToken>>

(* sender.send fails on a closed connection, and for an oversized packet. *)
Reply(t) == conn = "open" /\ Step(t, "reply", "loop")
ReplyFails(t) ==
  /\ task[t].pc = "reply"
  /\ Finish(t) /\ UNCHANGED <<conn, replies>>

(* Mutant: the wait for the first message has no timeout. *)
WaitingInLoop(t) == task[t].pc = "loop" /\ task[t].queue = 0

Waiting(t) == task[t].pc \in {"first", "loop"} /\ task[t].queue = 0

(* The idle timeout; tokio's timeout polls the channel before the timer. *)
IdleTimeout(t) ==
  /\ Waiting(t) /\ ~ChannelClosed(t)
  /\ Finish(t) /\ UNCHANGED <<conn, replies>>

ChannelEnds(t) ==
  /\ Waiting(t) /\ ChannelClosed(t)
  /\ Finish(t) /\ UNCHANGED <<conn, replies>>

-----------------------------------------------------------------------------
ReaderNext ==
  \/ ReadDatagram \/ ReadError \/ RouteToExisting \/ ClearTable
  \/ \E s \in SessionIds, t \in Tokens : SpawnSession(s, t)

(* What a session task does without an event from outside. *)
TaskNext(t) ==
  \/ FirstMessage(t) \/ Dial(t) \/ Greet(t) \/ StartFails(t)
  \/ ClientMessage(t) \/ CheckUdp(t) \/ Forward(t)
  \/ Reply(t) \/ ReplyFails(t) \/ ChannelEnds(t)

Environment ==
  \/ \E s \in SessionIds : Arrive(s)
  \/ ConnectionLost \/ AbortReader
  \/ \E t \in Tokens : RemotePacket(t)

Next ==
  \/ Environment \/ ReaderNext
  \/ \E t \in Tokens : TaskNext(t) \/ IdleTimeout(t)

(* The runtime polls every ready task; outbound calls have timeouts of     *)
(* their own, so they return.                                              *)
Fairness == WF_vars(ReaderNext) /\ \A t \in Tokens : WF_vars(TaskNext(t))
Timers == \A t \in Tokens : WF_vars(IdleTimeout(t))

Spec == Init /\ [][Next]_vars /\ Fairness

-----------------------------------------------------------------------------
TypeOK ==
  /\ conn \in {"open", "closed"}
  /\ inbox \in Seq(SessionIds) /\ arrivals \in Nat /\ replies \in Nat
  /\ reader \in [pc : ReaderPc, session : SUBSET SessionIds, existing : SUBSET Tokens]
  /\ sessions \in [SessionIds -> SUBSET Tokens]
  /\ nextToken \in Nat
  /\ task \in [Tokens -> [pc : TaskPc, session : SUBSET SessionIds, queue : 0..Capacity]]

(* The table and the tasks agree: an entry belongs to a live task of its   *)
(* session, and until the reader has cleared the table every live task has *)
(* its entry, so its messages reach it.  The reader looks an entry up and  *)
(* acts on the answer in two sections of the lock, while tasks remove      *)
(* theirs.                                                                 *)
TableMatchesTasks ==
  \A t \in Tokens, s \in SessionIds :
    /\ t \in sessions[s] => Live(t) /\ task[t].session = {s}
    /\ Live(t) /\ task[t].session = {s} /\ reader.pc # "cleared" => sessions[s] = {t}

(* No two live tasks serve one session id: a client sees one outbound      *)
(* socket per session, also while its session is being replaced.           *)
OneTaskPerSession ==
  \A t, u \in Tokens :
    Live(t) /\ Live(u) /\ task[t].session = task[u].session => t = u

(* A closed connection leaves no session behind: every task ends and the   *)
(* table empties, whether the reader cleared it or was aborted; after an   *)
(* abort it takes the idle timers.                                         *)
AllEnded == \A s \in SessionIds, t \in Tokens : sessions[s] = {} /\ ~Live(t)
SessionsEnd == Timers => (conn = "closed" ~> AllEnded)

(* A session whose client and peer fall silent is given up although the    *)
(* connection stays open: the traffic of the model is finite.              *)
IdleSessionsEnd == Timers => \A t \in Tokens : Live(t) ~> ~Live(t)

(* When the reader leaves its loop, clearing the table ends the sessions   *)
(* at once: no idle timer has to expire.                                   *)
ClearEndsSessions == reader.pc = "exit" ~> AllEnded

(* A session ends with its connection, when it is idle, and without delay  *)
(* when the reader clears the table.                                       *)
SessionEndings == SessionsEnd /\ IdleSessionsEnd /\ ClearEndsSessions
=============================================================================
