----------------------------- MODULE UdpClient -----------------------------
(***************************************************************************)
(* The client side of the UDP relay of one connection                      *)
(* (crates/hysteria-transport/src/udp.rs): ClientUdpManager with its task  *)
(* that reads datagrams and routes them to the sessions, and the           *)
(* UdpSessions its callers open, receive from and drop.                    *)
(*                                                                         *)
(* A message is only counted (what Defragger::feed makes of it is in       *)
(* UdpPath).  A session is known by its number in the order of opening;    *)
(* its id is that number in the width of the counter.  A caller has seen   *)
(* the connection open (ClientHandle::client) some time before it opens.   *)
(***************************************************************************)
EXTENDS Integers, Sequences

CONSTANTS
  IdSpace,      \* how many session ids there are: 2^32
  Capacity,     \* SESSION_CHANNEL_SIZE
  MaxSessions,  \* bound on the sessions opened
  MaxArrivals   \* bound on the datagrams the peer sends

ASSUME UdpClientAssumption ==
  /\ IdSpace \in Nat \ {0} /\ Capacity \in Nat \ {0}
  /\ MaxSessions \in Nat /\ MaxArrivals \in Nat

Handles == 1..MaxSessions
Ids == 0..IdSpace - 1

VARIABLES
  conn,      \* "open" or "closed"
  manager,   \* "alive" or "dropped"
  inbox, arrivals,
  reader,    \* pc, and between lookup and try_send the sender it cloned
  sessions,  \* the table: per id the session whose sender it holds
  opened,    \* next_session_id - 1
  caller,    \* "idle", or "checked" when it saw the connection open
  handle     \* per session: pc and messages queued

vars == <<conn, manager, inbox, arrivals, reader, sessions, opened, caller, handle>>

Init ==
  /\ conn = "open" /\ manager = "alive" /\ inbox = <<>> /\ arrivals = 0
  /\ reader = [pc |-> "read", found |-> {}]
  /\ sessions = [i \in Ids |-> {}]
  /\ opened = 0 /\ caller = "idle"
  /\ handle = [h \in Handles |-> [pc |-> "unused", queue |-> 0]]

Put(h, pc, queue) == handle' = [handle EXCEPT ![h] = [pc |-> pc, queue |-> queue]]

-----------------------------------------------------------------------------
(* The connection. *)
Arrive(i) ==
  /\ conn = "open" /\ arrivals < MaxArrivals
  /\ inbox' = Append(inbox, i) /\ arrivals' = arrivals + 1
  /\ UNCHANGED <<conn, manager, reader, sessions, opened, caller, handle>>

ConnectionLost ==
  /\ conn = "open" /\ conn' = "closed"
  /\ UNCHANGED <<manager, inbox, arrivals, reader, sessions, opened, caller, handle>>

-----------------------------------------------------------------------------
(* The receive task. *)
ReadDatagram ==
  /\ reader.pc = "read" /\ inbox # <<>>
  /\ inbox' = Tail(inbox)
  /\ \/ UNCHANGED reader                    \* it does not decode
     \/ reader' = [pc |-> "route", found |-> sessions[Head(inbox)]]
  /\ UNCHANGED <<conn, manager, arrivals, sessions, opened, caller, handle>>

(* try_send to the session found, if any; its failure is ignored. *)
Route ==
  /\ reader.pc = "route"
  /\ handle' = [h \in Handles |->
       IF h \in reader.found /\ handle[h].pc # "dropped" /\ handle[h].queue < Capacity
       THEN [pc |-> handle[h].pc, queue |-> handle[h].queue + 1] ELSE handle[h]]
  /\ reader' = [pc |-> "read", found |-> {}]
  /\ UNCHANGED <<conn, manager, inbox, arrivals, sessions, opened, caller>>

ReadError ==
  /\ reader.pc = "read" /\ inbox = <<>> /\ conn = "closed"
  /\ reader' = [pc |-> "exit", found |-> {}]
  /\ UNCHANGED <<conn, manager, inbox, arrivals, sessions, opened, caller, handle>>

(* Mutant: the task ends without clearing the table. *)
ExitWithoutClear ==
  /\ reader.pc = "exit"
  /\ reader' = [pc |-> "cleared", found |-> {}]
  /\ UNCHANGED <<sessions, conn, manager, inbox, arrivals, opened, caller, handle>>

ClearTable ==
  /\ reader.pc = "exit"
  /\ sessions' = [i \in Ids |-> {}]
  /\ reader' = [pc |-> "cleared", found |-> {}]
  /\ UNCHANGED <<conn, manager, inbox, arrivals, opened, caller, handle>>

(* abort() of the manager's drop takes effect where the task awaits. *)
Aborted ==
  /\ manager = "dropped" /\ reader.pc = "read"
  /\ reader' = [pc |-> "aborted", found |-> {}]
  /\ UNCHANGED <<conn, manager, inbox, arrivals, sessions, opened, caller, handle>>

-----------------------------------------------------------------------------
(* The callers. *)
Check ==
  /\ manager = "alive" /\ conn = "open" /\ caller = "idle" /\ opened < MaxSessions
  /\ caller' = "checked"
  /\ UNCHANGED <<conn, manager, inbox, arrivals, reader, sessions, opened, handle>>

(* Mutant: every session gets the same id. *)
SameId(n) == 0

SessionId(n) == n % IdSpace

Open ==
  /\ manager = "alive" /\ caller = "checked"
  /\ opened' = opened + 1
  /\ sessions' = [sessions EXCEPT ![SessionId(opened')] = {opened'}]
  /\ Put(opened', "open", 0)
  /\ caller' = "idle"
  /\ UNCHANGED <<conn, manager, inbox, arrivals, reader>>

(* receive() takes a message, or returns SessionClosed once the channel is *)
(* empty and every sender is gone.                                         *)
Receive(h) ==
  /\ handle[h].pc = "open" /\ handle[h].queue > 0
  /\ Put(h, "open", handle[h].queue - 1)
  /\ UNCHANGED <<conn, manager, inbox, arrivals, reader, sessions, opened, caller>>

ReceiveEnds(h) ==
  /\ handle[h].pc = "open" /\ handle[h].queue = 0
  /\ h \notin reader.found /\ \A i \in Ids : h \notin sessions[i]
  /\ Put(h, "ended", 0)
  /\ UNCHANGED <<conn, manager, inbox, arrivals, reader, sessions, opened, caller>>

(* Dropping a session removes whatever entry has its id. *)
DropSession(h) ==
  /\ handle[h].pc \in {"open", "ended"}
  /\ sessions' = [sessions EXCEPT ![SessionId(h)] = {}]
  /\ Put(h, "dropped", 0)
  /\ UNCHANGED <<conn, manager, inbox, arrivals, reader, opened, caller>>

(* The last reference to the ProxyClient goes; no caller is inside it. *)
DropManager ==
  /\ manager = "alive" /\ caller = "idle"
  /\ manager' = "dropped"
  /\ sessions' = [i \in Ids |-> {}]
  /\ UNCHANGED <<conn, inbox, arrivals, reader, opened, caller, handle>>

-----------------------------------------------------------------------------
ReaderNext == ReadDatagram \/ Route \/ ReadError \/ ClearTable \/ Aborted

Next ==
  \/ \E i \in Ids : Arrive(i)
  \/ ConnectionLost \/ ReaderNext \/ Check \/ Open \/ DropManager
  \/ \E h \in Handles : Receive(h) \/ ReceiveEnds(h) \/ DropSession(h)

(* The receive task runs, a caller that decided to open goes on, and       *)
(* sessions are received from until they end.                              *)
Fairness ==
  /\ WF_vars(ReaderNext) /\ WF_vars(Open)
  /\ \A h \in Handles : WF_vars(Receive(h) \/ ReceiveEnds(h))

Spec == Init /\ [][Next]_vars /\ Fairness

-----------------------------------------------------------------------------
(* The ids wrapped so that another session has the id of h. *)
Wrapped(h) == h + IdSpace <= opened \/ h > IdSpace

(* While the receive task serves the table, an open session is in it and   *)
(* so gets its datagrams, whatever other sessions are opened and dropped,  *)
(* and receive() does not report SessionClosed on a working connection.    *)
(* Only sessions a whole turn of the ids apart disturb each other: the     *)
(* later one overwrites the entry of the earlier one, and dropping the     *)
(* earlier one removes the entry of the later one.                         *)
ReachableUntilWrap ==
  \A h \in Handles :
    /\ handle[h].pc = "open" /\ manager = "alive" /\ reader.pc # "cleared"
         => h \in sessions[SessionId(h)] \/ Wrapped(h)
    /\ handle[h].pc = "ended" => conn = "closed" \/ manager = "dropped" \/ Wrapped(h)

(* A session that is open when the connection is found closed learns of    *)
(* it: clearing the table ends its receive().                              *)
EarlySessionsEnd ==
  \A h \in Handles :
    (handle[h].pc = "open" /\ conn = "closed" /\ reader.pc # "cleared") ~> handle[h].pc # "open"

(* "Returns SessionClosed when the session or connection closes", says     *)
(* receive(): every session on a closed connection is told.                *)
AllSessionsEnd ==
  \A h \in Handles : (handle[h].pc = "open" /\ conn = "closed") ~> handle[h].pc # "open"
=============================================================================
