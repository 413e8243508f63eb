--------------------------- MODULE DatagramService ---------------------------
(***************************************************************************)
(* What the UDP relay promises about the messages of its sessions, whatever *)
(* it does with packets, fragments and reassembly buffers: a message that   *)
(* is delivered was sent, is delivered whole and to its own session, and is *)
(* delivered at most once.  Messages may be lost and may be reordered.      *)
(***************************************************************************)
EXTENDS Sequences, SequencesExt

CONSTANT Message

VARIABLES sent, delivered   \* the messages sent and delivered so far

Init == sent = {} /\ delivered = <<>>

Send(m) ==
  /\ m \in Message \ sent
  /\ sent' = sent \union {m}
  /\ UNCHANGED delivered

Deliver(m) ==
  /\ m \in sent
  /\ ~Contains(delivered, m)
  /\ delivered' = Append(delivered, m)
  /\ UNCHANGED sent

Next == \E m \in Message : Send(m) \/ Deliver(m)

Spec == Init /\ [][Next]_<<sent, delivered>>
=============================================================================
