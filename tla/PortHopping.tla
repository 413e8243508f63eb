----------------------------- MODULE PortHopping -----------------------------
(***************************************************************************)
(* The UDP socket that hops between server ports                           *)
(* (crates/hysteria-transport/src/obfs_socket.rs, PortHoppingUdpSocket):   *)
(* beside the send queue of SendQueue, a hop worker replaces the local     *)
(* socket (and picks another server port, which nothing here tells apart)  *)
(* while Quinn's endpoint driver reads the current socket and the one      *)
(* before it.                                                              *)
(*                                                                         *)
(* A socket wakes the driver only when a poll has left a waker on it.      *)
(* Datagrams are counted per socket; sockets are numbered in the order in  *)
(* which the factory opens them.                                           *)
(***************************************************************************)
EXTENDS SendQueue, Sequences, Functions

CONSTANTS
  MaxHops,      \* bound: how often the worker hops
  MaxArrivals   \* bound: how many datagrams arrive

VARIABLES
  current, previous,  \* HopState: a socket, and an option of a socket
  hopper,             \* the hop worker: "sleep" or "done"
  arrived,            \* datagrams that have arrived
  buffered,           \* per socket: datagrams nobody has read
  wakers,             \* the sockets that wake the driver
  driver,             \* the endpoint driver: "idle", "woken" or "polling"
  toPoll              \* the sockets this poll_recv has yet to try

hopVars == <<current, previous, hopper, arrived, buffered, wakers, driver, toPoll>>
allVars == <<queueVars, hopVars>>

Sockets == 1..(MaxHops + 1)
Held == {current} \cup previous

(* PortHoppingUdpSocket::new; the driver polls a socket it was just given. *)
HopInit ==
  /\ current = 1 /\ previous = {}
  /\ hopper = "sleep"
  /\ arrived = 0 /\ buffered = [s \in Sockets |-> 0]
  /\ wakers = {} /\ driver = "woken" /\ toPoll = <<>>

-----------------------------------------------------------------------------
(* Mutant: the replaced socket is closed at once. *)
HopWithoutOverlap ==
  /\ hopping /\ hopper = "sleep"
  /\ \/ closed /\ hopper' = "done" /\ UNCHANGED <<current, previous, buffered, wakers>>
     \/ /\ ~closed /\ current < MaxHops + 1
        /\ current' = current + 1 /\ previous' = {}
        /\ buffered' = [buffered EXCEPT ![current] = 0]
        /\ wakers' = wakers \ {current}
        /\ UNCHANGED hopper
  /\ UNCHANGED <<queueVars, arrived, driver, toPoll>>

(* hop_worker after its sleep.  A factory that fails leaves everything as  *)
(* it is.  The socket of the hop before is closed, with what is in it,     *)
(* unless a poll_recv still holds a clone of it.                           *)
Hop ==
  /\ hopping /\ hopper = "sleep"
  /\ \/ closed /\ hopper' = "done" /\ UNCHANGED <<current, previous, buffered, wakers>>
     \/ /\ ~closed /\ current < MaxHops + 1
        /\ current' = current + 1 /\ previous' = {current}
        /\ buffered' = [s \in Sockets |-> IF s \in previous \ Range(toPoll) THEN 0 ELSE buffered[s]]
        /\ wakers' = wakers \ previous
        /\ UNCHANGED hopper
  /\ UNCHANGED <<queueVars, arrived, driver, toPoll>>

(* A datagram reaches a local socket; ReceiveState is the driver's alone. *)
Arrive(s) ==
  /\ hopping /\ ~closed /\ arrived < MaxArrivals /\ s \in Held
  /\ arrived' = arrived + 1
  /\ buffered' = [buffered EXCEPT ![s] = @ + 1]
  /\ wakers' = wakers \ {s}
  /\ driver' = IF s \in wakers /\ driver = "idle" THEN "woken" ELSE driver
  /\ UNCHANGED <<queueVars, current, previous, hopper, toPoll>>

(* Mutant: only the socket of the hop before is polled. *)
SnapshotOld ==
  /\ hopping /\ ~closed /\ driver = "woken"
  /\ driver' = "polling"
  /\ toPoll' = IF previous = {} THEN <<current>> ELSE <<CHOOSE s \in previous : TRUE>>
  /\ UNCHANGED <<queueVars, current, previous, hopper, arrived, buffered, wakers>>

(* poll_recv clones the two sockets under the read lock; hops may follow   *)
(* while it polls the clones.                                              *)
Snapshot ==
  /\ hopping /\ ~closed /\ driver = "woken"
  /\ driver' = "polling"
  /\ toPoll' = <<current>> \o (IF previous = {} THEN <<>> ELSE <<CHOOSE s \in previous : TRUE>>)
  /\ UNCHANGED <<queueVars, current, previous, hopper, arrived, buffered, wakers>>

(* One socket of the poll: a datagram is returned, and the driver polls    *)
(* again; or the waker is left there and the next socket is tried.  A      *)
(* datagram the codec drops is read and the same socket tried again; an    *)
(* error of the socket is returned before the next socket is tried, and    *)
(* the driver polls again after an error too.                              *)
PollSocket ==
  /\ driver = "polling" /\ toPoll # <<>>
  /\ LET s == Head(toPoll) IN
     \/ /\ buffered[s] > 0
        /\ \/ driver' = "woken" /\ toPoll' = <<>>
              /\ buffered' = [x \in Sockets |-> CASE x = s /\ s \in Held -> buffered[x] - 1
                                                [] x \notin Held -> 0
                                                [] OTHER -> buffered[x]]
           \/ /\ buffered' = [buffered EXCEPT ![s] = @ - 1]
              /\ UNCHANGED <<driver, toPoll>>
        /\ UNCHANGED wakers
     \/ /\ buffered[s] = 0
        /\ wakers' = IF s \in Held THEN wakers \cup {s} ELSE wakers
        /\ toPoll' = Tail(toPoll)
        /\ driver' = IF Len(toPoll) = 1 THEN "idle" ELSE driver
        /\ UNCHANGED buffered
  /\ UNCHANGED <<queueVars, current, previous, hopper, arrived>>

(* Anything else that makes Quinn poll its driver (a new connection, an    *)
(* event from a connection).  Nothing says that it happens.                *)
OtherWakeup ==
  /\ hopping /\ ~closed /\ driver = "idle" /\ driver' = "woken"
  /\ UNCHANGED <<queueVars, current, previous, hopper, arrived, buffered, wakers, toPoll>>

-----------------------------------------------------------------------------
(* A step of SendQueue leaves the receiving half alone. *)
QueueStep(A) == A /\ UNCHANGED hopVars

HopNext ==
  \/ QueueStep(QueueNext) \/ Hop \/ Snapshot \/ PollSocket \/ OtherWakeup
  \/ \E s \in Sockets : Arrive(s)

(* Tasks that are woken are polled, and the hop worker's sleep ends. *)
HopFairness ==
  /\ WF_allVars(QueueStep(WorkerNext))
  /\ \A s \in Senders : WF_allVars(QueueStep(NotifyWorker(s)))
  /\ WF_allVars(Hop)
  /\ WF_allVars(Snapshot) /\ WF_allVars(PollSocket)

SocketInit == QueueInit /\ HopInit

HopSpec == SocketInit /\ [][HopNext]_allVars /\ HopFairness

-----------------------------------------------------------------------------
(* "The previous local socket remains readable for one additional hop":    *)
(* a datagram disappears from a socket only by being read, or when an      *)
(* earlier hop had already replaced that socket.                           *)
OverlapLosesNothing ==
  [][ \A s \in Sockets : buffered'[s] < buffered[s] =>
        (driver = "polling" /\ Head(toPoll) = s) \/ s # current
    ]_allVars

(* The hop itself wakes nobody, so a datagram on the new socket may wait   *)
(* for the driver; but once the driver is woken, by the old socket or by   *)
(* anything else, that datagram is read too, unless another hop comes      *)
(* first.                                                                  *)
WokenReadsCurrent ==
  \A s \in Sockets :
    (driver = "woken" /\ s = current /\ buffered[s] > 0)
       ~> (buffered[s] = 0 \/ s # current \/ closed)

=============================================================================
