------------------------------ MODULE UdpPath ------------------------------
(***************************************************************************)
(* One direction of the UDP relay: the sessions of a connection send       *)
(* messages through one DatagramSender, the QUIC connection carries the    *)
(* datagrams, and each session of the peer reassembles what it receives    *)
(* with its own Defragger (crates/hysteria-transport/src/udp.rs).          *)
(*                                                                         *)
(* The senders share the packet id counter, and each datagram is sent by a *)
(* separate await, so the fragments of concurrent senders interleave.      *)
(* QUIC never duplicates a datagram; it may lose and reorder them.  A      *)
(* datagram dropped because a session's channel is full is a loss too.     *)
(***************************************************************************)
EXTENDS Fragment, FiniteSets

CONSTANTS
  Sessions,
  Addresses,
  Lengths,        \* payload lengths the applications use
  MaxSizes,       \* values max_datagram_size takes (path MTU changes)
  MaxUdpSize,     \* MAX_UDP_SIZE
  PacketIdSpace,  \* number of packet ids: 2^16 in the code, 0 is skipped
  MaxMessages,    \* bound on the messages sent
  MaxNumbered     \* bound on the packet ids handed out

ASSUME UdpPathAssumption ==
  /\ Lengths \subseteq Nat /\ MaxSizes \subseteq Nat
  /\ PacketIdSpace \in Nat \ {0, 1}
  /\ MaxUdpSize \in Nat /\ MaxMessages \in Nat /\ MaxNumbered \in Nat

VARIABLES
  nextPacketId,  \* the low 16 bits of DatagramSender::next_packet_id
  outbox,        \* per session: datagrams its send() has yet to hand to QUIC
  wire,          \* datagrams in flight, oldest first
  defragger,     \* per receiving session
  stamp,         \* history: stamp[n] is the rank of the packet id of the
                 \* n-th message among those handed out, 0 if it has none
  numbered,      \* history: packet ids handed out so far
  disturbed,     \* history: a datagram was lost, overtaken or given up
  sent,          \* history: messages whose sending started
  delivered      \* history: messages the receiving sessions returned

vars == <<nextPacketId, outbox, wire, defragger, stamp, numbered, disturbed,
          sent, delivered>>
history == <<stamp, numbered, sent>>

(* The n-th message; every byte remembers its message and position. *)
Payload(n, len) == [i \in 1..len |-> <<n, i>>]

AsSent(m) == [session |-> m.session, addr |-> m.addr, data |-> m.data]

Init ==
  /\ nextPacketId = 0
  /\ outbox = [s \in Sessions |-> <<>>]
  /\ wire = <<>>
  /\ defragger = [s \in Sessions |-> NewDefragger]
  /\ stamp = <<>> /\ numbered = 0 /\ disturbed = FALSE
  /\ sent = {} /\ delivered = <<>>

(* next_packet_id: the counter after the loop, which is also the id. *)
NewPacketId(c) ==
  LET id == (c + 1) % PacketIdSpace IN IF id = 0 THEN 1 ELSE id

(* DatagramSender::send up to its first await.  Only a message that does   *)
(* not fit one datagram takes a packet id, even when it then fails.        *)
Send(s, m, maxSize) ==
  /\ outbox[s] = <<>>
  /\ EncodedSize(m) <= MaxUdpSize
  /\ IF EncodedSize(m) <= maxSize
     THEN /\ outbox' = [outbox EXCEPT ![s] = <<m>>]
          /\ stamp' = Append(stamp, 0)
          /\ sent' = sent \union {AsSent(m)}
          /\ UNCHANGED <<nextPacketId, numbered>>
     ELSE LET packet == [m EXCEPT !.packet = NewPacketId(nextPacketId)]
              failed == TooManyFragments(packet, maxSize) \/ MaxPayload(maxSize) = 0
          IN /\ numbered < MaxNumbered
             /\ nextPacketId' = packet.packet
             /\ numbered' = numbered + 1
             /\ IF failed
                THEN UNCHANGED <<outbox, stamp, sent>>
                ELSE /\ outbox' = [outbox EXCEPT ![s] = FragmentUdpMessage(packet, maxSize)]
                     /\ stamp' = Append(stamp, numbered')
                     /\ sent' = sent \union {AsSent(m)}
  /\ UNCHANGED <<wire, defragger, disturbed, delivered>>

(* UdpSession::send, and the reply branch of run_server_session. *)
SendMessage(s) ==
  /\ Len(stamp) < MaxMessages
  /\ \E len \in Lengths, a \in Addresses, maxSize \in MaxSizes :
       Send(s, [session |-> s, packet |-> 0, index |-> 0, count |-> 1, addr |-> a,
                data |-> Payload(Len(stamp) + 1, len), limit |-> maxSize], maxSize)

(* send_one. *)
SendOne(s) ==
  /\ outbox[s] # <<>>
  /\ wire' = Append(wire, Head(outbox[s]))
  /\ outbox' = [outbox EXCEPT ![s] = Tail(@)]
  /\ UNCHANGED <<nextPacketId, defragger, history, disturbed, delivered>>

(* send_one fails, for instance because the path MTU shrank: the remaining *)
(* fragments are given up.                                                 *)
SendFails(s) ==
  /\ outbox[s] # <<>>
  /\ outbox' = [outbox EXCEPT ![s] = <<>>]
  /\ disturbed' = TRUE
  /\ UNCHANGED <<nextPacketId, wire, defragger, history, delivered>>

(* A datagram reaches the peer.  UdpMessage::decode refuses a message      *)
(* without payload; UdpSession::receive and run_server_session feed the    *)
(* session's Defragger with the others.                                    *)
Receive(i) ==
  LET d == wire[i]
      r == Feed(defragger[d.session], d)
  IN /\ wire' = RemoveAt(wire, i)
     /\ disturbed' = (disturbed \/ i > 1)
     /\ IF d.data = <<>>
        THEN UNCHANGED <<defragger, delivered>>
        ELSE /\ defragger' = [defragger EXCEPT ![d.session] = r.state]
             /\ delivered' = delivered \o SetToSeq({AsSent(m) : m \in r.out})
     /\ UNCHANGED <<nextPacketId, outbox, history>>

Lose(i) ==
  /\ wire' = RemoveAt(wire, i)
  /\ disturbed' = TRUE
  /\ UNCHANGED <<nextPacketId, outbox, defragger, history, delivered>>

Next ==
  \/ \E s \in Sessions : SendMessage(s) \/ SendOne(s) \/ SendFails(s)
  \/ \E i \in 1..Len(wire) : Receive(i) \/ Lose(i)

Spec == Init /\ [][Next]_vars

-----------------------------------------------------------------------------
InFlight == UNION {ToSet(outbox[s]) : s \in Sessions} \union ToSet(wire)

TypeOK ==
  /\ nextPacketId \in 0..(PacketIdSpace - 1)
  /\ numbered \in 0..MaxNumbered
  /\ \A d \in InFlight :
       /\ d.session \in Sessions /\ d.packet \in 0..(PacketIdSpace - 1)
       /\ d.index \in 0..(MaxFragments - 1) /\ d.count \in 1..MaxFragments
  /\ \A s \in Sessions :
       /\ defragger[s].received = Cardinality({i \in 1..Len(defragger[s].fragments) :
                                                 defragger[s].fragments[i] # {}})
       /\ defragger[s].received <= Len(defragger[s].fragments)

(* A datagram is never larger than the limit that was in force when its    *)
(* message was split, header included (fragment_udp_message).              *)
DatagramsFit == \A d \in InFlight : EncodedSize(d) <= d.limit

(* Messages that contributed a byte to a delivered payload. *)
Origins(m) == {m.data[i][1] : i \in 1..Len(m.data)}

(* A delivered payload is one that was sent on that session to that        *)
(* address, unless it mixes messages whose packet ids are a whole turn of  *)
(* the 16-bit counter apart: the Defragger has no age limit, and the       *)
(* sessions share the counter, so the turn is what protects a packet that  *)
(* lost a fragment from the ones that follow.                              *)
MixedOnlyAfterWrap ==
  \A k \in 1..Len(delivered) :
    LET m == delivered[k]
    IN \/ m \in sent
       \/ \E a, b \in Origins(m) : stamp[b] - stamp[a] >= PacketIdSpace - 1

(* While no datagram is lost, overtaken or given up, a non-empty           *)
(* message is delivered once its last datagram has arrived, however the    *)
(* fragments of the other sessions interleave with its own.  The one       *)
(* exception: an earlier packet of the session had the same id, a whole    *)
(* number of turns of the counter before, and the Defragger still holds    *)
(* that completed packet and takes the new fragments for repetitions.      *)
LostOnlyAfterWrap ==
  ~disturbed =>
    \A m \in sent :
      \/ m.data = <<>>
      \/ Contains(delivered, m)
      \/ \E d \in InFlight : m.data[Len(m.data)] \in ToSet(d.data)
      \/ \E e \in sent \ {m} :
           /\ e.session = m.session /\ e.data # <<>>
           /\ LET turn == stamp[m.data[1][1]] - stamp[e.data[1][1]]
              IN turn > 0 /\ turn % (PacketIdSpace - 1) = 0

(* The datagrams fit, and beyond what the network does to them only the    *)
(* turn of the 16-bit packet ids harms a message.                          *)
HarmOnlyAtTurn == TypeOK /\ DatagramsFit /\ MixedOnlyAfterWrap /\ LostOnlyAfterWrap

(* The service the path promises. *)
Service == INSTANCE DatagramService WITH
  Message   <- [session : Sessions, addr : Addresses,
                data : {Payload(n, len) : n \in 1..MaxMessages, len \in Lengths}],
  sent      <- sent,
  delivered <- delivered

(* Until the packet ids wrap every step is one of the service, or changes  *)
(* nothing that it shows.                                                  *)
ImplementsService ==
  /\ Service!Init
  /\ [][numbered' < PacketIdSpace => Service!Next]_<<sent, delivered>>
=============================================================================
