------------------------------- MODULE Gecko -------------------------------
(***************************************************************************)
(* Gecko (crates/hysteria-obfs/src/gecko.rs) splits a long-header QUIC     *)
(* packet into chunks, sent as datagrams of their own, and the receiver    *)
(* puts them together again in a pool of reassemblies that is bounded in   *)
(* total and per source.                                                   *)
(*                                                                         *)
(* A packet is its number in its sender's order, which the code does not   *)
(* have: on the wire there is only the number modulo the message ids.      *)
(* Padding, Salamander and short-header packets change no state and are    *)
(* left out.  The network loses, reorders and duplicates datagrams.        *)
(***************************************************************************)
EXTENDS Integers, FiniteSets, Functions

CONSTANTS
  Sources,
  MessageIds,      \* how many there are: 256, message_id is a u8
  Totals,          \* MIN_FRAGMENT_COUNT..MAX_FRAGMENT_COUNT
  MaxPerSource,    \* MAX_REASSEMBLIES_PER_SOURCE
  MaxReassemblies, \* MAX_REASSEMBLIES
  TTL,             \* REASSEMBLY_TTL
  MaxPackets,      \* bound on the packets of each source
  MaxTime,         \* bound on the clock
  MaxCopies        \* bound on the datagrams delivered twice

ASSUME GeckoAssumption ==
  /\ IsFiniteSet(Sources)
  /\ MessageIds \in Nat \ {0} /\ Totals \subseteq Nat \ {0, 1}
  /\ MaxPerSource \in Nat \ {0} /\ MaxReassemblies \in Nat \ {0}
  /\ TTL \in Nat /\ MaxPackets \in Nat /\ MaxTime \in Nat /\ MaxCopies \in Nat

VARIABLES
  sent,       \* per source, how many packets it has encoded
  net,        \* the frames under way
  pool,       \* Reassembler: entries and per_source
  now,
  delivered,  \* the packets receive_packet returned, as sequences of chunks
  copies

vars == <<sent, net, pool, now, delivered, copies>>

Packets == 1..MaxPackets
Keys == Sources \X (0..MessageIds - 1)

(* Where a chunk's bytes come from. *)
Chunks == [source : Sources, packet : Packets, index : Nat]
Frames == [source : Sources, packet : Packets, id : 0..MessageIds - 1,
           index : Nat, total : Totals]

Init ==
  /\ sent = [s \in Sources |-> 0]
  /\ net = {} /\ now = 0 /\ delivered = {} /\ copies = 0
  /\ pool = [entries |-> << >>, count |-> [s \in Sources |-> 0]]

-----------------------------------------------------------------------------
MessageId(n) == n % MessageIds

(* encode_packet of a long-header packet. *)
EncodePacket(s, total) ==
  /\ sent[s] < MaxPackets
  /\ sent' = [sent EXCEPT ![s] = @ + 1]
  /\ net' = net \cup
       {[source |-> s, packet |-> sent'[s], id |-> MessageId(sent'[s]),
         index |-> i, total |-> total] : i \in 0..total - 1}
  /\ UNCHANGED <<pool, now, delivered, copies>>

-----------------------------------------------------------------------------
(* The reassembler.                                                        *)

(* Mutant: chunks of one source are told apart by their index alone. *)
KeyOfSource(f) == <<f.source, 0>>

Key(f) == <<f.source, f.id>>

(* Mutant: the per-source count is left as it is. *)
DropWithoutCount(p, k) ==
  [entries |-> Restrict(p.entries, DOMAIN p.entries \ {k}), count |-> p.count]

(* drop_entry; a count of 0 is the absence of the source in per_source. *)
DropEntry(p, k) ==
  [entries |-> Restrict(p.entries, DOMAIN p.entries \ {k}),
   count |-> [p.count EXCEPT ![k[1]] = IF k \in DOMAIN p.entries THEN @ - 1 ELSE @]]

PutEntry(p, k, e) ==
  [x \in DOMAIN p.entries \cup {k} |-> IF x = k THEN e ELSE p.entries[x]]

Insert(p, f) ==
  [entries |-> PutEntry(p, Key(f), [chunks |-> [i \in 0..f.total - 1 |-> {}],
                                    received |-> 0, total |-> f.total,
                                    deadline |-> now + TTL]),
   count |-> [p.count EXCEPT ![f.source] = @ + 1]]

(* evict_oldest: which of several oldest entries goes is the HashMap's choice. *)
Oldest(p) ==
  {k \in DOMAIN p.entries :
     \A x \in DOMAIN p.entries : p.entries[k].deadline <= p.entries[x].deadline}

MadeRoom(p) ==
  IF Cardinality(DOMAIN p.entries) >= MaxReassemblies
  THEN {DropEntry(p, k) : k \in Oldest(p)} ELSE {p}

(* The pools in which f has an entry to go to; none when accept returns    *)
(* before looking at the chunk.                                            *)
Admit(f) ==
  IF Key(f) \in DOMAIN pool.entries
  THEN {p \in {pool} : p.entries[Key(f)].total = f.total}
  ELSE IF pool.count[f.source] >= MaxPerSource
       THEN {}
       ELSE {Insert(p, f) : p \in MadeRoom(pool)}

(* Mutant: a chunk that is already there is taken again. *)
NeverThere(e, f) == FALSE

Duplicate(e, f) == e.chunks[f.index] # {}

Filled(e, f) ==
  [chunks |-> [e.chunks EXCEPT ![f.index] =
                 {[source |-> f.source, packet |-> f.packet, index |-> f.index]}],
   received |-> e.received + 1, total |-> e.total, deadline |-> e.deadline]

(* accept. *)
Accept(f) ==
  \/ Admit(f) = {} /\ UNCHANGED <<pool, delivered>>
  \/ \E p \in Admit(f) :
       LET k == Key(f)
           e == p.entries[k]
       IN  \/ /\ Duplicate(e, f)
              /\ pool' = p /\ UNCHANGED delivered
           \/ /\ ~Duplicate(e, f) /\ e.received + 1 < e.total
              /\ pool' = [entries |-> PutEntry(p, k, Filled(e, f)), count |-> p.count]
              /\ UNCHANGED delivered
           \/ /\ ~Duplicate(e, f) /\ e.received + 1 >= e.total
              /\ pool' = DropEntry(p, k)
              /\ delivered' = delivered \cup {Filled(e, f).chunks}

ReceivePacket(f) ==
  /\ f \in net
  /\ Accept(f)
  /\ \/ net' = net \ {f} /\ UNCHANGED copies
     \/ copies < MaxCopies /\ copies' = copies + 1 /\ UNCHANGED net
  /\ UNCHANGED <<sent, now>>

(* expire: every entry whose deadline has passed is dropped. *)
Expired == {k \in DOMAIN pool.entries : now > pool.entries[k].deadline}

Expire ==
  /\ Expired # {}
  /\ pool' = [entries |-> Restrict(pool.entries, DOMAIN pool.entries \ Expired),
              count |-> [s \in Sources |->
                 pool.count[s] - Cardinality({k \in Expired : k[1] = s})]]
  /\ UNCHANGED <<sent, net, now, delivered, copies>>

-----------------------------------------------------------------------------
Lose(f) ==
  /\ f \in net
  /\ net' = net \ {f}
  /\ UNCHANGED <<sent, pool, now, delivered, copies>>

Tick ==
  /\ now < MaxTime
  /\ now' = now + 1
  /\ UNCHANGED <<sent, net, pool, delivered, copies>>

(* PacketCodec of obfs_socket.rs: it encodes and receives, nothing else. *)
WrapperNext ==
  \/ \E s \in Sources, total \in Totals : EncodePacket(s, total)
  \/ \E f \in net : ReceivePacket(f) \/ Lose(f)
  \/ Tick

(* The codec as its own interface offers it, with expire. *)
Next == WrapperNext \/ Expire

Spec == Init /\ [][Next]_vars

(* Datagrams that arrive are read, and time passes. *)
WrapperSpec ==
  Init /\ [][WrapperNext]_vars /\ WF_vars(\E f \in net : ReceivePacket(f)) /\ WF_vars(Tick)

-----------------------------------------------------------------------------
Entry(e) ==
  /\ e.total \in Totals
  /\ e.chunks \in [0..e.total - 1 -> SUBSET Chunks]
  /\ e.received \in 0..e.total /\ e.deadline \in Nat

TypeOK ==
  /\ sent \in [Sources -> 0..MaxPackets]
  /\ \A f \in net : f \in Frames /\ f.index < f.total
  /\ DOMAIN pool.entries \subseteq Keys
  /\ \A k \in DOMAIN pool.entries : Entry(pool.entries[k])
  /\ pool.count \in [Sources -> Nat]
  /\ now \in Nat /\ copies \in Nat

OfSource(p, s) == {k \in DOMAIN p.entries : k[1] = s}

(* The pool is bounded in total and per source, and per_source counts      *)
(* exactly the entries of each source through every way an entry comes and *)
(* goes (new, completed, evicted for another source, expired): a count     *)
(* that drifts up starves its source, one that drifts down lets it exceed  *)
(* its share and ends in an underflow of drop_entry's subtraction.         *)
PoolBounded ==
  /\ Cardinality(DOMAIN pool.entries) <= MaxReassemblies
  /\ \A s \in Sources :
       /\ pool.count[s] = Cardinality(OfSource(pool, s))
       /\ pool.count[s] <= MaxPerSource

(* No entry holds all its chunks, and received counts the ones it holds,   *)
(* also when datagrams arrive twice: otherwise a complete packet would be  *)
(* kept back, or an incomplete one returned.                               *)
PendingIncomplete ==
  \A k \in DOMAIN pool.entries :
    LET e == pool.entries[k] IN
      /\ e.received = Cardinality({i \in DOMAIN e.chunks : e.chunks[i] # {}})
      /\ 0 < e.received /\ e.received < e.total

(* A packet that is returned has every chunk, in place and of one source,  *)
(* and they are of one packet unless the byte of the message id wrapped    *)
(* between the packets they are of.                                        *)
PacketsIntact ==
  \A chunks \in delivered : \A i, j \in DOMAIN chunks :
    \E c \in chunks[i], d \in chunks[j] :
      /\ c.index = i /\ c.source = d.source
      /\ c.packet < d.packet => d.packet - c.packet >= MessageIds

(* What is returned is whole, and nothing that is whole is held back. *)
PacketsWhole == TypeOK /\ PacketsIntact /\ PendingIncomplete

(* An incomplete packet is forgotten once its deadline has passed.         *)
EntriesExpire ==
  \A k \in Keys :
    k \in Expired ~> k \notin Expired
=============================================================================
