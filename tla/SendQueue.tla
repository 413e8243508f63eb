----------------------------- MODULE SendQueue -----------------------------
(***************************************************************************)
(* The send queue of the obfuscating sockets                               *)
(* (crates/hysteria-transport/src/obfs_socket.rs, SharedSendState):        *)
(* Quinn's connections put datagrams in with try_send and wait for room    *)
(* with poll_writable, one worker task takes them out and sends them.      *)
(* ObfuscatedUdpSocket and PortHoppingUdpSocket use it alike except for    *)
(* the way their drop wakes the worker (hopping).                          *)
(*                                                                         *)
(* The worker sleeps on a tokio Notify: notify_one wakes it or, when it    *)
(* does not wait, leaves a permit that its next wait consumes;             *)
(* notify_waiters only wakes it.  Datagrams are counted.                   *)
(***************************************************************************)
EXTENDS Integers

CONSTANTS
  Senders,    \* Quinn's connections
  Capacity    \* SEND_QUEUE_CAPACITY

ASSUME SendQueueAssumption == Capacity \in Nat \ {0}

VARIABLES
  hopping,    \* a PortHoppingUdpSocket rather than an ObfuscatedUdpSocket
  queue,      \* how many OutgoingDatagrams are queued
  waiters,    \* the senders whose waker is registered
  error,      \* a send error not reported yet
  permit,     \* the permit of the Notify
  closed,
  worker,     \* "check", "pop", "wait", "asleep", "send" or "done"
  sender      \* per sender: "idle", "notify", "poll" or "blocked"

queueVars == <<hopping, queue, waiters, error, permit, closed, worker, sender>>

QueueInit ==
  /\ hopping \in BOOLEAN
  /\ queue = 0 /\ waiters = {} /\ error = FALSE
  /\ permit = FALSE /\ closed = FALSE
  /\ worker = "check"
  /\ sender = [s \in Senders |-> "idle"]

-----------------------------------------------------------------------------
(* Notify::notify_one. *)
NotifyOne ==
  /\ worker' = IF worker = "asleep" THEN "check" ELSE worker
  /\ permit' = (permit \/ worker # "asleep")

(* Notify::notify_waiters. *)
NotifyWaiters ==
  /\ worker' = IF worker = "asleep" THEN "check" ELSE worker
  /\ UNCHANGED permit

(* Mutant: the registered wakers are forgotten without being woken. *)
ForgetWriters == sender' = sender /\ waiters' = {}

(* wake_writers: a woken connection polls again. *)
WakeWriters ==
  /\ sender' = [s \in Senders |-> IF s \in waiters THEN "poll" ELSE sender[s]]
  /\ waiters' = {}

-----------------------------------------------------------------------------
(* try_send under the lock: report an error (poll_writable does so too),   *)
(* or refuse a full queue, or push; notify_one follows after the unlock.   *)
(* A datagram that cannot be encoded changes nothing.                      *)
ReportError(s) ==
  /\ sender[s] \in {"idle", "poll"} /\ ~closed /\ error
  /\ error' = FALSE
  /\ sender' = [sender EXCEPT ![s] = "idle"]
  /\ UNCHANGED <<hopping, queue, waiters, permit, closed, worker>>

WouldBlock(s) ==
  /\ sender[s] = "idle" /\ ~closed /\ ~error /\ queue >= Capacity
  /\ sender' = [sender EXCEPT ![s] = "poll"]
  /\ UNCHANGED <<hopping, queue, waiters, error, permit, closed, worker>>

Push(s) ==
  /\ sender[s] = "idle" /\ ~closed /\ ~error /\ queue < Capacity
  /\ queue' = queue + 1
  /\ sender' = [sender EXCEPT ![s] = "notify"]
  /\ UNCHANGED <<hopping, waiters, error, permit, closed, worker>>

(* Mutant: only a worker that already waits is notified. *)
NotifyWaitingWorker(s) ==
  /\ sender[s] = "notify"
  /\ sender' = [sender EXCEPT ![s] = "idle"]
  /\ NotifyWaiters
  /\ UNCHANGED <<hopping, queue, waiters, error, closed>>

NotifyWorker(s) ==
  /\ sender[s] = "notify"
  /\ sender' = [sender EXCEPT ![s] = "idle"]
  /\ NotifyOne
  /\ UNCHANGED <<hopping, queue, waiters, error, closed>>

(* poll_writable without an error to report. *)
PollWritable(s) ==
  /\ sender[s] = "poll" /\ ~error
  /\ IF queue < Capacity
     THEN sender' = [sender EXCEPT ![s] = "idle"] /\ UNCHANGED waiters
     ELSE sender' = [sender EXCEPT ![s] = "blocked"] /\ waiters' = waiters \cup {s}
  /\ UNCHANGED <<hopping, queue, error, permit, closed, worker>>

(* The endpoint drops the socket: no connection uses it any more. *)
DropSocket ==
  /\ ~closed /\ \A s \in Senders : sender[s] = "idle"
  /\ closed' = TRUE
  /\ IF hopping THEN NotifyWaiters ELSE NotifyOne
  /\ UNCHANGED <<hopping, queue, waiters, error, sender>>

-----------------------------------------------------------------------------
(* The worker.  Other threads run between any two of these steps. *)

(* Mutant: the worker does not look at closed. *)
CheckNothing ==
  /\ worker = "check" /\ worker' = "pop"
  /\ UNCHANGED <<hopping, queue, waiters, error, permit, closed, sender>>

CheckClosed ==
  /\ worker = "check"
  /\ worker' = IF closed THEN "done" ELSE "pop"
  /\ UNCHANGED <<hopping, queue, waiters, error, permit, closed, sender>>

Pop ==
  /\ worker = "pop"
  /\ IF queue > 0
     THEN queue' = queue - 1 /\ worker' = "send" /\ WakeWriters
     ELSE worker' = "wait" /\ UNCHANGED <<queue, waiters, sender>>
  /\ UNCHANGED <<hopping, error, permit, closed>>

Wait ==
  /\ worker = "wait"
  /\ worker' = IF permit THEN "check" ELSE "asleep"
  /\ permit' = FALSE
  /\ UNCHANGED <<hopping, queue, waiters, error, closed, sender>>

Sent ==
  /\ worker = "send" /\ worker' = "check"
  /\ UNCHANGED <<hopping, queue, waiters, error, permit, closed, sender>>

SendFails ==
  /\ worker = "send" /\ worker' = "check"
  /\ error' = TRUE /\ WakeWriters
  /\ UNCHANGED <<hopping, queue, permit, closed>>

-----------------------------------------------------------------------------
WorkerNext == CheckClosed \/ Pop \/ Wait \/ Sent \/ SendFails

QueueNext ==
  \/ \E s \in Senders :
       ReportError(s) \/ WouldBlock(s) \/ Push(s) \/ NotifyWorker(s) \/ PollWritable(s)
  \/ DropSocket \/ WorkerNext

(* The worker is polled when it is woken, and a thread inside try_send     *)
(* leaves it.                                                              *)
QueueFairness ==
  /\ WF_queueVars(WorkerNext)
  /\ \A s \in Senders : WF_queueVars(NotifyWorker(s))

QueueSpec == QueueInit /\ [][QueueNext]_queueVars /\ QueueFairness

-----------------------------------------------------------------------------
QueueTypeOK ==
  /\ hopping \in BOOLEAN
  /\ queue \in 0..Capacity /\ waiters \subseteq Senders
  /\ error \in BOOLEAN /\ permit \in BOOLEAN /\ closed \in BOOLEAN
  /\ worker \in {"check", "pop", "wait", "asleep", "send", "done"}
  /\ sender \in [Senders -> {"idle", "notify", "poll", "blocked"}]

(* No lost wakeup: the worker never sleeps over a datagram unless a sender *)
(* that has pushed is just about to notify it, although the push and the   *)
(* notification are apart, and so are the worker's last look and its wait. *)
NoSleepOverWork ==
  worker = "asleep" /\ queue > 0 => \E s \in Senders : sender[s] = "notify"

(* A connection waits for room only while there is none, and its waker is  *)
(* registered: otherwise it would stall with space in the queue.           *)
BlockedOnlyWhenFull ==
  \A s \in Senders : sender[s] = "blocked" => queue = Capacity /\ s \in waiters

(* Back-pressure ends: a blocked connection is woken. *)
BlockedAreWoken == \A s \in Senders : sender[s] = "blocked" ~> sender[s] # "blocked"

(* The worker task ends after its socket was dropped, and with it the      *)
(* sockets it holds.  The hopping socket's notify_waiters leaves no permit *)
(* for a worker caught between its check of closed and its wait.           *)
MissesDrop == IF hopping THEN {"pop", "wait", "asleep"} ELSE {}
WorkerEnds == (closed /\ worker \notin MissesDrop) ~> worker = "done"

(* Neither side of the queue is forgotten: blocked senders are woken, and  *)
(* the worker hears of the end of its socket.                              *)
WakeupsArrive == BlockedAreWoken /\ WorkerEnds
=============================================================================
