------------------------------ MODULE UdpFlows ------------------------------
(***************************************************************************)
(* The tables of UDP flows that the client's local inbounds keep: UDP      *)
(* forwarding (crates/hysteria/src/runtime.rs, run_udp_forwarding), TPROXY *)
(* (transparent.rs, serve_udp_tproxy) and TUN (tun.rs, run_udp).  A packet *)
(* goes into the queue of its flow's task; when that queue is full or its  *)
(* task has ended, a new task with a new queue takes the flow over.        *)
(*                                                                         *)
(* The packets of a flow are numbered in the order in which they arrive.   *)
(***************************************************************************)
EXTENDS Integers, Sequences, FiniteSets

CONSTANTS
  Keys,          \* flows: a peer, or a pair of peer and target
  FlowTasks,     \* tasks, and with them queues and sessions
  FlowCapacity,  \* capacity of a queue (256)
  MaxPackets     \* bound: packets of one flow

VARIABLES
  arrivals,  \* per flow: packets that have arrived
  flows,     \* per flow: the task its sender leads to, an option
  flow,      \* per task: [key, queue, state]; state is "none", "connecting",
             \* "open" or "done"
  relayed,   \* per flow: the packets sent into sessions, in that order
  overflow   \* flows that were taken over from a task with a full queue

flowVars == <<arrivals, flows, flow, relayed, overflow>>

NoFlow == [key |-> CHOOSE k \in Keys : TRUE, queue |-> <<>>, state |-> "none"]

FlowInit ==
  /\ arrivals = [k \in Keys |-> 0] /\ flows = [k \in Keys |-> {}]
  /\ flow = [t \in FlowTasks |-> NoFlow]
  /\ relayed = [k \in Keys |-> <<>>] /\ overflow = {}

(* A task whose sender is not in the table any more. *)
Replaced(t) == flow[t].state \in {"connecting", "open"} /\ t \notin flows[flow[t].key]

(* Mutant: a queue counts as full when it is not empty. *)
AcceptsEmpty(t) == flow[t].state # "done" /\ Len(flow[t].queue) = 0

(* try_send succeeds: there is room, and the receiver exists. *)
Accepts(t) == flow[t].state # "done" /\ Len(flow[t].queue) < FlowCapacity

-----------------------------------------------------------------------------
(* TPROXY and TUN first forget the flows whose tasks have ended, UDP       *)
(* forwarding never does; either way a packet of such a flow gets a new    *)
(* task.                                                                   *)
Packet(k) ==
  LET p == arrivals[k] + 1
      taken == {t \in flows[k] : Accepts(t)}
  IN  /\ arrivals[k] < MaxPackets
      /\ arrivals' = [arrivals EXCEPT ![k] = p]
      /\ \/ /\ taken # {}
            /\ \E t \in taken : flow' = [flow EXCEPT ![t].queue = Append(@, p)]
            /\ UNCHANGED <<flows, overflow>>
         \/ /\ taken = {}
            /\ \E t \in FlowTasks :
                 /\ flow[t].state = "none"
                 /\ flow' = [flow EXCEPT ![t] = [key |-> k, queue |-> <<p>>, state |-> "connecting"]]
                 /\ flows' = [flows EXCEPT ![k] = {t}]
            /\ overflow' = IF \E t \in flows[k] : flow[t].state # "done" /\ Len(flow[t].queue) = FlowCapacity
                           THEN overflow \cup {k} ELSE overflow
      /\ UNCHANGED relayed

(* client.udp() returns a session or an error. *)
Session(t) ==
  /\ flow[t].state = "connecting"
  /\ \E s \in {"open", "done"} : flow' = [flow EXCEPT ![t].state = s]
  /\ UNCHANGED <<arrivals, flows, relayed, overflow>>

(* recv: the next packet is sent into the session, and a failed send ends  *)
(* the task.                                                               *)
Relay(t) ==
  /\ flow[t].state = "open" /\ flow[t].queue # <<>>
  /\ \/ /\ flow' = [flow EXCEPT ![t].queue = Tail(@)]
        /\ relayed' = [relayed EXCEPT ![flow[t].key] = Append(@, Head(flow[t].queue))]
     \/ flow' = [flow EXCEPT ![t].state = "done"] /\ UNCHANGED relayed
  /\ UNCHANGED <<arrivals, flows, overflow>>

(* Mutant: a closed queue is polled again. *)
PollAgain(t) ==
  /\ flow[t].state = "open" /\ Replaced(t) /\ flow[t].queue = <<>>
  /\ UNCHANGED flowVars

(* recv returns None once the sender is gone and the queue is empty. *)
SenderGone(t) ==
  /\ flow[t].state = "open" /\ Replaced(t) /\ flow[t].queue = <<>>
  /\ flow' = [flow EXCEPT ![t].state = "done"]
  /\ UNCHANGED <<arrivals, flows, relayed, overflow>>

(* The idle timeout of a task with nothing to send, or the end of its      *)
(* session.  Traffic from the server may put the timeout off for ever.     *)
SessionEnds(t) ==
  /\ flow[t].state = "open"
  /\ flow' = [flow EXCEPT ![t].state = "done"]
  /\ UNCHANGED <<arrivals, flows, relayed, overflow>>

FlowNext ==
  \/ \E k \in Keys : Packet(k)
  \/ \E t \in FlowTasks : Session(t) \/ Relay(t) \/ SenderGone(t) \/ SessionEnds(t)

(* Sessions are answered and tasks run; timeouts need not come. *)
FlowFairness ==
  \A t \in FlowTasks : WF_flowVars(Session(t)) /\ WF_flowVars(Relay(t)) /\ WF_flowVars(SenderGone(t))

-----------------------------------------------------------------------------
(* The packets of a flow enter the tunnel in the order in which they       *)
(* arrived, across the end of one task and the start of the next; only a   *)
(* flow that has overrun its queue has two tasks at once, whose packets    *)
(* overtake each other.                                                    *)
OrderedUnlessOverflow ==
  \A k \in Keys \ overflow :
    \A i, j \in 1..Len(relayed[k]) : i < j => relayed[k][i] < relayed[k][j]

(* A task that was replaced in the table ends, even while the server keeps *)
(* sending to it.                                                          *)
ReplacedTasksEnd == \A t \in FlowTasks : Replaced(t) ~> (flow[t].state = "done")

(* A flow is handed from task to task without disorder, and the task it    *)
(* was taken from goes away.                                               *)
FlowsHandedOver == []OrderedUnlessOverflow /\ ReplacedTasksEnd
=============================================================================
