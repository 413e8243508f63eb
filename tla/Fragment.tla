------------------------------ MODULE Fragment ------------------------------
(***************************************************************************)
(* UDP message fragmentation and reassembly of the Hysteria protocol       *)
(* (crates/hysteria-protocol/src/fragment.rs).                             *)
(*                                                                         *)
(* A message is a record with the fields of UdpMessage: the session it     *)
(* belongs to, the packet id, the fragment index and count, the address    *)
(* and the payload.  The payload is a sequence; its elements stand for     *)
(* bytes.  The size of an encoded header depends on the address only, so   *)
(* it is one constant here.                                                *)
(***************************************************************************)
EXTENDS Integers, Sequences, SequencesExt

CONSTANTS
  HeaderSize,    \* UdpMessage::header_size of the address in use
  MaxFragments   \* largest fragment count a u8 holds (255 in the code)

ASSUME FragmentAssumption ==
  /\ HeaderSize \in Nat \ {0}
  /\ MaxFragments \in Nat \ {0, 1}

EncodedSize(m) == HeaderSize + Len(m.data)

CeilDiv(a, b) == (a + b - 1) \div b

SmallerOf(a, b) == IF a < b THEN a ELSE b

(* usize::saturating_sub *)
SaturatingSub(a, b) == IF a > b THEN a - b ELSE 0

MaxPayload(maxSize) == SaturatingSub(maxSize, HeaderSize)

FragmentCount(m, maxSize) == CeilDiv(Len(m.data), MaxPayload(maxSize))

(* The i-th of data.chunks(size), counting from 1. *)
Chunk(data, size, i) ==
  SubSeq(data, (i - 1) * size + 1, SmallerOf(i * size, Len(data)))

(* The error path of fragment_udp_message: the count does not fit a u8. *)
TooManyFragments(m, maxSize) ==
  /\ EncodedSize(m) > maxSize
  /\ MaxPayload(maxSize) > 0
  /\ FragmentCount(m, maxSize) > MaxFragments

(* Mutant: the chunk size forgets the header. *)
FragmentWithoutHeader(m, maxSize) ==
  LET size  == maxSize
      count == CeilDiv(Len(m.data), size)
  IN [i \in 1..count |->
        [m EXCEPT !.index = i - 1, !.count = count,
                  !.data = Chunk(m.data, size, i)]]

(* fragment_udp_message, when it does not fail. *)
FragmentUdpMessage(m, maxSize) ==
  IF EncodedSize(m) <= maxSize THEN <<m>>
  ELSE IF MaxPayload(maxSize) = 0 THEN <<>>
  ELSE LET size  == MaxPayload(maxSize)
           count == FragmentCount(m, maxSize)
       IN [i \in 1..count |->
             [m EXCEPT !.index = i - 1, !.count = count,
                       !.data = Chunk(m.data, size, i)]]

-----------------------------------------------------------------------------
(* A Defragger.  A slot holds {} for None and {m} for Some(m).             *)

NewDefragger == [packet |-> 0, fragments |-> <<>>, received |-> 0]

(* Concatenation of the payloads held, in index order. *)
Joined(fragments) ==
  FlattenSeq([i \in 1..Len(fragments) |->
                (CHOOSE f \in fragments[i] : TRUE).data])

(* Mutant: the state is kept although the packet id changed. *)
FeedIgnoringPacketId(d, m) ==
  IF m.count <= 1 THEN [state |-> d, out |-> {m}]
  ELSE IF Len(d.fragments) # m.count
  THEN [state |-> [packet    |-> m.packet,
                   fragments |-> [i \in 1..m.count |->
                                    IF i = m.index + 1 THEN {m} ELSE {}],
                   received  |-> 1],
        out |-> {}]
  ELSE IF d.fragments[m.index + 1] # {} THEN [state |-> d, out |-> {}]
  ELSE LET held == [d.fragments EXCEPT ![m.index + 1] = {m}]
           next == [d EXCEPT !.fragments = held, !.received = @ + 1]
       IN [state |-> next,
           out   |-> IF next.received = Len(held)
                     THEN {[m EXCEPT !.index = 0, !.count = 1,
                                     !.data = Joined(held)]}
                     ELSE {}]

(* Mutant: the last index is refused. *)
FeedOffByOne(d, m) ==
  IF m.count <= 1 THEN [state |-> d, out |-> {m}]
  ELSE IF m.index + 1 >= m.count THEN [state |-> d, out |-> {}]
  ELSE FeedIgnoringPacketId(d, m)

(* Defragger::feed: the next state, and {} or the completed message.  The  *)
(* completed message takes its other fields from the fragment that arrived *)
(* last.                                                                   *)
Feed(d, m) ==
  IF m.count <= 1 THEN [state |-> d, out |-> {m}]
  ELSE IF m.index >= m.count THEN [state |-> d, out |-> {}]
  ELSE IF m.packet # d.packet \/ Len(d.fragments) # m.count
  THEN [state |-> [packet    |-> m.packet,
                   fragments |-> [i \in 1..m.count |->
                                    IF i = m.index + 1 THEN {m} ELSE {}],
                   received  |-> 1],
        out |-> {}]
  ELSE IF d.fragments[m.index + 1] # {} THEN [state |-> d, out |-> {}]
  ELSE LET held == [d.fragments EXCEPT ![m.index + 1] = {m}]
           next == [d EXCEPT !.fragments = held, !.received = @ + 1]
       IN [state |-> next,
           out   |-> IF next.received = Len(held)
                     THEN {[m EXCEPT !.index = 0, !.count = 1,
                                     !.data = Joined(held)]}
                     ELSE {}]
=============================================================================
