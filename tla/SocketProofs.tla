---------------------------- MODULE SocketProofs ----------------------------
(***************************************************************************)
(* Proofs about the sockets that the programs wrap.  The reassembly pool of*)
(* Gecko keeps its bounds and its per-source counts, and the packets it    *)
(* returns are whole, for any sources, message ids, fragment counts and caps,*)
(* and whatever the network does.  The wrapped sockets lose no wakeup      *)
(* (SendQueue) and no datagram to a hop (PortHopping).                     *)
(***************************************************************************)
EXTENDS Gecko, PortHopping, FiniteSetTheorems, TLAPS

(* What accept and expire keep of a pool: the counts are those of its      *)
(* entries.                                                                *)
Sound(p) ==
  /\ DOMAIN p.entries \subseteq Keys
  /\ p.count \in [Sources -> Nat]
  /\ \A s \in Sources : p.count[s] = Cardinality(OfSource(p, s))

Bounded(p) ==
  /\ Cardinality(DOMAIN p.entries) <= MaxReassemblies
  /\ \A s \in Sources : p.count[s] <= MaxPerSource

FramesOK ==
  /\ sent \in [Sources -> Nat]
  /\ \A f \in net : f.source \in Sources /\ f.id \in 0..MessageIds - 1

PoolInv == Sound(pool) /\ Bounded(pool) /\ FramesOK

(* There are finitely many keys, so sets of them have a cardinality. *)
LEMMA KeysFinite == IsFiniteSet(Keys)
<1>1. IsFiniteSet(0..MessageIds - 1)
  BY FS_Interval, GeckoAssumption
<1>2. IsFiniteSet(Sources)
  BY GeckoAssumption
<1> QED BY <1>1, <1>2, FS_Product, ZenonT(30) DEF Keys

LEMMA PoolFinite ==
  ASSUME NEW p, DOMAIN p.entries \subseteq Keys
  PROVE  /\ IsFiniteSet(DOMAIN p.entries)
         /\ Cardinality(DOMAIN p.entries) \in Nat
         /\ \A s \in Sources : /\ IsFiniteSet(OfSource(p, s))
                               /\ Cardinality(OfSource(p, s)) \in Nat
<1>1. IsFiniteSet(DOMAIN p.entries)
  BY KeysFinite, FS_Subset
<1>2. \A s \in Sources : OfSource(p, s) \subseteq DOMAIN p.entries
  BY DEF OfSource
<1>3. \A s \in Sources : IsFiniteSet(OfSource(p, s))
  BY <1>1, <1>2, FS_Subset, ZenonT(30), SMTT(60)
<1> QED BY <1>1, <1>3, FS_CardinalityType

(* drop_entry takes one off the entries and off its source's count, which  *)
(* is at least one.                                                        *)
LEMMA DropSound ==
  ASSUME NEW p, Sound(p), NEW k \in DOMAIN p.entries
  PROVE  LET q == DropEntry(p, k) IN
         /\ Sound(q)
         /\ DOMAIN q.entries = DOMAIN p.entries \ {k}
         /\ Cardinality(DOMAIN q.entries) = Cardinality(DOMAIN p.entries) - 1
         /\ \A s \in Sources : q.count[s] <= p.count[s]
<1> DEFINE q == DropEntry(p, k)
<1>1. k \in Keys /\ k[1] \in Sources
  BY DEF Sound, Keys
<1>2. /\ DOMAIN q.entries = DOMAIN p.entries \ {k}
      /\ q.count = [p.count EXCEPT ![k[1]] = p.count[k[1]] - 1]
  BY <1>1 DEF DropEntry, Restrict, Sound
<1>3. Cardinality(DOMAIN q.entries) = Cardinality(DOMAIN p.entries) - 1
  BY <1>2, PoolFinite, FS_RemoveElement, ZenonT(60) DEF Sound
<1>4. ASSUME NEW s \in Sources
      PROVE  /\ q.count[s] = Cardinality(OfSource(q, s))
             /\ q.count[s] \in Nat /\ q.count[s] <= p.count[s]
  <2>1. p.count[s] = Cardinality(OfSource(p, s)) /\ p.count[s] \in Nat
    BY DEF Sound
  <2>2. CASE s = k[1]
    <3>1. OfSource(q, s) = OfSource(p, s) \ {k} /\ k \in OfSource(p, s)
      BY <1>2, <2>2 DEF OfSource
    <3>2. /\ Cardinality(OfSource(q, s)) = Cardinality(OfSource(p, s)) - 1
          /\ Cardinality(OfSource(q, s)) \in Nat
      <4>1. IsFiniteSet(OfSource(p, s))
        BY PoolFinite DEF Sound
      <4> QED BY <3>1, <4>1, FS_RemoveElement, FS_CardinalityType
    <3>3. q.count[s] = p.count[s] - 1
      BY <1>1, <1>2, <2>2 DEF Sound
    <3> QED BY <2>1, <3>2, <3>3
  <2>3. CASE s # k[1]
    <3>1. OfSource(q, s) = OfSource(p, s)
      BY <1>2, <2>3 DEF OfSource
    <3>2. q.count[s] = p.count[s]
      BY <1>1, <1>2, <2>3 DEF Sound
    <3> QED BY <2>1, <3>1, <3>2
  <2> QED BY <2>2, <2>3
<1>5. q.count \in [Sources -> Nat]
  BY <1>1, <1>2, <1>4 DEF Sound
<1> QED BY <1>2, <1>3, <1>4, <1>5 DEF Sound

(* A new entry adds one to the entries and to its source's count. *)
LEMMA InsertSound ==
  ASSUME NEW p, Sound(p), NEW f, f.source \in Sources, f.id \in 0..MessageIds - 1,
         Key(f) \notin DOMAIN p.entries
  PROVE  LET q == Insert(p, f) IN
         /\ Sound(q)
         /\ Cardinality(DOMAIN q.entries) = Cardinality(DOMAIN p.entries) + 1
         /\ \A s \in Sources :
              q.count[s] = IF s = f.source THEN p.count[s] + 1 ELSE p.count[s]
<1> DEFINE q == Insert(p, f)
<1>1. Key(f) \in Keys /\ Key(f)[1] = f.source
  BY DEF Key, Keys
<1>2. /\ DOMAIN q.entries = DOMAIN p.entries \cup {Key(f)}
      /\ q.count = [p.count EXCEPT ![f.source] = p.count[f.source] + 1]
  BY DEF Insert, PutEntry
<1>3. Cardinality(DOMAIN q.entries) = Cardinality(DOMAIN p.entries) + 1
  BY <1>2, PoolFinite, FS_AddElement, ZenonT(60) DEF Sound
<1>4. \A s \in Sources :
        q.count[s] = IF s = f.source THEN p.count[s] + 1 ELSE p.count[s]
  BY <1>2 DEF Sound
<1>5. ASSUME NEW s \in Sources
      PROVE  q.count[s] = Cardinality(OfSource(q, s))
  <2>1. CASE s = f.source
    <3>1. OfSource(q, s) = OfSource(p, s) \cup {Key(f)} /\ Key(f) \notin OfSource(p, s)
      BY <1>1, <1>2, <2>1 DEF OfSource
    <3>2. IsFiniteSet(OfSource(p, s))
      BY PoolFinite DEF Sound
    <3>3. Cardinality(OfSource(q, s)) = Cardinality(OfSource(p, s)) + 1
      BY <3>1, <3>2, FS_AddElement, ZenonT(60)
    <3> QED BY <1>4, <2>1, <3>3 DEF Sound
  <2>2. CASE s # f.source
    <3>1. OfSource(q, s) = OfSource(p, s)
      BY <1>1, <1>2, <2>2, ZenonT(30), SMTT(60) DEF OfSource
    <3> QED BY <1>4, <2>2, <3>1 DEF Sound
  <2> QED BY <2>1, <2>2
<1>6. DOMAIN q.entries \subseteq Keys /\ q.count \in [Sources -> Nat]
  BY <1>1, <1>2 DEF Sound
<1> QED BY <1>3, <1>4, <1>5, <1>6 DEF Sound

(* Only the keys of a pool and its counts matter. *)
LEMMA SameKeysSound ==
  ASSUME NEW p, NEW q, Sound(p), Bounded(p),
         DOMAIN q.entries = DOMAIN p.entries, q.count = p.count
  PROVE  Sound(q) /\ Bounded(q)
BY DEF Sound, Bounded, OfSource

LEMMA DropBounded ==
  ASSUME NEW p, Sound(p), Bounded(p), NEW k \in DOMAIN p.entries
  PROVE  Sound(DropEntry(p, k)) /\ Bounded(DropEntry(p, k))
<1> DEFINE q == DropEntry(p, k)
<1>1. /\ Sound(q)
      /\ Cardinality(DOMAIN q.entries) = Cardinality(DOMAIN p.entries) - 1
      /\ \A s \in Sources : q.count[s] <= p.count[s]
  BY DropSound
<1>2. Cardinality(DOMAIN p.entries) \in Nat /\ p.count \in [Sources -> Nat]
      /\ q.count \in [Sources -> Nat]
  BY <1>1, PoolFinite DEF Sound
<1>3. Cardinality(DOMAIN q.entries) <= MaxReassemblies
  BY <1>1, <1>2, GeckoAssumption DEF Bounded
<1>4. \A s \in Sources : q.count[s] <= MaxPerSource
  BY <1>1, <1>2, GeckoAssumption DEF Bounded
<1> QED BY <1>1, <1>3, <1>4 DEF Bounded

(* Making room leaves space for one more entry. *)
LEMMA RoomMade ==
  ASSUME NEW p, Sound(p), Bounded(p), NEW q \in MadeRoom(p)
  PROVE  /\ Sound(q)
         /\ DOMAIN q.entries \subseteq DOMAIN p.entries
         /\ Cardinality(DOMAIN q.entries) < MaxReassemblies
         /\ \A s \in Sources : q.count[s] <= p.count[s]
<1>1. Cardinality(DOMAIN p.entries) \in Nat /\ p.count \in [Sources -> Nat]
  BY PoolFinite DEF Sound
<1>2. CASE Cardinality(DOMAIN p.entries) >= MaxReassemblies
  <2>1. PICK k \in DOMAIN p.entries : q = DropEntry(p, k)
    BY <1>2 DEF MadeRoom, Oldest
  <2>2. /\ Sound(q) /\ DOMAIN q.entries = DOMAIN p.entries \ {k}
        /\ Cardinality(DOMAIN q.entries) = Cardinality(DOMAIN p.entries) - 1
        /\ \A s \in Sources : q.count[s] <= p.count[s]
    BY <2>1, DropSound
  <2> QED BY <1>1, <2>2, GeckoAssumption DEF Bounded
<1>3. CASE ~(Cardinality(DOMAIN p.entries) >= MaxReassemblies)
  BY <1>1, <1>3, GeckoAssumption DEF MadeRoom
<1> QED BY <1>2, <1>3

(* The pool in which accept looks at the chunk is sound and within bounds. *)
LEMMA AdmitSound ==
  ASSUME PoolInv, NEW f \in net, NEW p \in Admit(f)
  PROVE  Sound(p) /\ Bounded(p) /\ Key(f) \in DOMAIN p.entries
<1> USE DEF PoolInv
<1>0. f.source \in Sources /\ f.id \in 0..MessageIds - 1
  BY DEF FramesOK
<1>1. CASE Key(f) \in DOMAIN pool.entries
  BY <1>1 DEF Admit
<1>2. CASE Key(f) \notin DOMAIN pool.entries
  <2>1. ~(pool.count[f.source] >= MaxPerSource)
    BY <1>2 DEF Admit
  <2>2. PICK r \in MadeRoom(pool) : p = Insert(r, f)
    BY <1>2, <2>1 DEF Admit
  <2>3. /\ Sound(r)
        /\ Key(f) \notin DOMAIN r.entries
        /\ Cardinality(DOMAIN r.entries) < MaxReassemblies
        /\ \A s \in Sources : r.count[s] <= pool.count[s]
    BY <1>2, <2>2, RoomMade, ZenonT(30), SMTT(60)
  <2>4. /\ Sound(p)
        /\ Cardinality(DOMAIN p.entries) = Cardinality(DOMAIN r.entries) + 1
        /\ \A s \in Sources :
             p.count[s] = IF s = f.source THEN r.count[s] + 1 ELSE r.count[s]
    BY <1>0, <2>2, <2>3, InsertSound, ZenonT(30), SMTT(60)
  <2>5. Cardinality(DOMAIN r.entries) \in Nat
    BY <2>3, PoolFinite DEF Sound
  <2>6. Cardinality(DOMAIN p.entries) <= MaxReassemblies
    BY <2>3, <2>4, <2>5, GeckoAssumption, SMTT(60)
  <2>7. ASSUME NEW s \in Sources PROVE p.count[s] <= MaxPerSource
    <3>1. r.count[s] \in Nat /\ pool.count[s] \in Nat /\ r.count[s] <= pool.count[s]
          /\ pool.count[s] <= MaxPerSource
      BY <2>3, ZenonT(30), SMTT(60) DEF Sound, Bounded
    <3> QED BY <2>1, <2>4, <3>1, GeckoAssumption, SMTT(60)
  <2>8. Key(f) \in DOMAIN p.entries
    BY <2>2 DEF Insert, PutEntry
  <2> QED BY <2>4, <2>6, <2>7, <2>8, ZenonT(30), SMTT(60) DEF Bounded
<1> QED BY <1>1, <1>2

LEMMA ReceiveKeepsPool ==
  ASSUME PoolInv, NEW f \in net, ReceivePacket(f)
  PROVE  PoolInv'
<1>1. FramesOK'
  BY ZenonT(30), SMTT(60) DEF ReceivePacket, PoolInv, FramesOK
<1>2. Sound(pool') /\ Bounded(pool')
  <2>1. CASE pool' = pool
    BY <2>1 DEF PoolInv
  <2>2. ASSUME NEW p \in Admit(f),
               \/ pool' = p
               \/ \E e : pool' = [entries |-> PutEntry(p, Key(f), e), count |-> p.count]
               \/ pool' = DropEntry(p, Key(f))
        PROVE  Sound(pool') /\ Bounded(pool')
    <3>1. Sound(p) /\ Bounded(p) /\ Key(f) \in DOMAIN p.entries
      BY AdmitSound
    <3>2. CASE \E e : pool' = [entries |-> PutEntry(p, Key(f), e), count |-> p.count]
      <4>1. DOMAIN pool'.entries = DOMAIN p.entries /\ pool'.count = p.count
        BY <3>1, <3>2 DEF PutEntry
      <4> QED BY <3>1, <4>1, SameKeysSound
    <3> QED BY <2>2, <3>1, <3>2, DropBounded
  <2> QED BY <2>1, <2>2 DEF ReceivePacket, Accept
<1> QED BY <1>1, <1>2 DEF PoolInv, Sound, Bounded, OfSource

LEMMA ExpireKeepsPool ==
  ASSUME PoolInv, Expire
  PROVE  PoolInv'
<1> USE DEF PoolInv
<1>1. /\ DOMAIN pool'.entries = DOMAIN pool.entries \ Expired
      /\ \A s \in Sources :
           pool'.count[s] = pool.count[s] - Cardinality({k \in Expired : k[1] = s})
      /\ DOMAIN pool'.count = Sources
      /\ pool'.count = [s \in Sources |->
           pool.count[s] - Cardinality({k \in Expired : k[1] = s})]
  BY ZenonT(30), SMTT(60) DEF Expire, Restrict
<1>2. ASSUME NEW s \in Sources
      PROVE  /\ pool'.count[s] = Cardinality(OfSource(pool', s))
             /\ pool'.count[s] \in Nat /\ pool'.count[s] <= pool.count[s]
  <2> DEFINE gone == {k \in Expired : k[1] = s}
  <2>1. IsFiniteSet(OfSource(pool, s)) /\ pool.count[s] = Cardinality(OfSource(pool, s))
    BY PoolFinite, ZenonT(30), SMTT(60) DEF Sound
  <2>2. /\ OfSource(pool', s) = OfSource(pool, s) \ gone
        /\ OfSource(pool, s) \cap gone = gone
    BY <1>1 DEF OfSource, Expired
  <2>3. /\ IsFiniteSet(OfSource(pool', s))
        /\ Cardinality(OfSource(pool', s)) = Cardinality(OfSource(pool, s)) - Cardinality(gone)
    <3> HIDE DEF gone
    <3>1. /\ IsFiniteSet(OfSource(pool, s) \ gone)
          /\ Cardinality(OfSource(pool, s) \ gone)
               = Cardinality(OfSource(pool, s)) - Cardinality(OfSource(pool, s) \cap gone)
      BY <2>1, FS_Difference, Zenon
    <3> QED BY <2>2, <3>1, ZenonT(30), SMTT(60)
  <2>4. OfSource(pool', s) \subseteq OfSource(pool, s)
    BY <2>2
  <2>5. Cardinality(OfSource(pool', s)) <= Cardinality(OfSource(pool, s))
        /\ Cardinality(OfSource(pool', s)) \in Nat
    BY <2>1, <2>3, <2>4, FS_Subset, FS_CardinalityType, ZenonT(30), SMTT(60)
  <2> QED BY <1>1, <2>1, <2>3, <2>5, ZenonT(30), SMTT(60)
<1>3. Sound(pool')
  BY <1>1, <1>2 DEF Sound
<1>4. Cardinality(DOMAIN pool'.entries) <= MaxReassemblies
  <2>1. IsFiniteSet(DOMAIN pool.entries) /\ DOMAIN pool'.entries \subseteq DOMAIN pool.entries
    BY <1>1, PoolFinite, ZenonT(30), SMTT(60) DEF Sound
  <2>2. /\ Cardinality(DOMAIN pool'.entries) <= Cardinality(DOMAIN pool.entries)
        /\ Cardinality(DOMAIN pool'.entries) \in Nat /\ Cardinality(DOMAIN pool.entries) \in Nat
    <3>1. IsFiniteSet(DOMAIN pool'.entries)
          /\ Cardinality(DOMAIN pool'.entries) <= Cardinality(DOMAIN pool.entries)
      BY <2>1, FS_Subset, ZenonT(30), SMTT(60)
    <3> QED BY <2>1, <3>1, FS_CardinalityType, ZenonT(30), SMTT(60)
  <2> QED BY <2>2, GeckoAssumption, SMTT(60) DEF Bounded
<1>5. \A s \in Sources : pool'.count[s] <= MaxPerSource
  BY <1>2, GeckoAssumption, SMTT(60) DEF Bounded, Sound
<1>6. FramesOK'
  BY DEF Expire, FramesOK
<1> QED BY <1>3, <1>4, <1>5, <1>6, ZenonT(30), SMTT(60) DEF Bounded, Sound, OfSource

LEMMA InitPool == Init => PoolInv
<1> SUFFICES ASSUME Init PROVE PoolInv
  OBVIOUS
<1>1. DOMAIN pool.entries = {} /\ pool.count = [s \in Sources |-> 0]
  BY DEF Init
<1>2. \A s \in Sources : OfSource(pool, s) = {}
  BY <1>1 DEF OfSource
<1>3. Sound(pool) /\ Bounded(pool)
  BY <1>1, <1>2, FS_EmptySet, GeckoAssumption, SMTT(60) DEF Sound, Bounded
<1> QED BY <1>3 DEF PoolInv, FramesOK, Init

LEMMA NextKeepsPool == PoolInv /\ [Next]_vars => PoolInv'
<1> SUFFICES ASSUME PoolInv, [Next]_vars PROVE PoolInv'
  OBVIOUS
<1>1. ASSUME UNCHANGED pool, FramesOK' PROVE PoolInv'
  BY <1>1 DEF PoolInv, Sound, Bounded, OfSource
<1>2. CASE UNCHANGED vars
  BY <1>1, <1>2, ZenonT(30), SMTT(60) DEF vars, PoolInv, FramesOK
<1>3. ASSUME NEW s \in Sources, NEW total \in Totals, EncodePacket(s, total)
      PROVE  PoolInv'
  <2>1. sent' \in [Sources -> Nat] /\ sent'[s] \in Nat
    BY <1>3 DEF EncodePacket, PoolInv, FramesOK
  <2>2. MessageId(sent'[s]) \in 0..MessageIds - 1
    BY <2>1, GeckoAssumption, SMTT(60) DEF MessageId
  <2>3. \A f \in net' : f.source \in Sources /\ f.id \in 0..MessageIds - 1
    BY <1>3, <2>2 DEF EncodePacket, PoolInv, FramesOK
  <2> QED BY <1>1, <1>3, <2>1, <2>3, ZenonT(30), SMTT(60) DEF EncodePacket, FramesOK
<1>4. ASSUME NEW f \in net, ReceivePacket(f) PROVE PoolInv'
  BY <1>4, ReceiveKeepsPool, ZenonT(30), SMTT(60)
<1>5. ASSUME NEW f \in net, Lose(f) PROVE PoolInv'
  BY <1>1, <1>5, ZenonT(30), SMTT(60) DEF Lose, PoolInv, FramesOK
<1>6. CASE Tick
  BY <1>1, <1>6 DEF Tick, PoolInv, FramesOK
<1>7. CASE Expire
  BY <1>7, ExpireKeepsPool
<1> QED BY <1>2, <1>3, <1>4, <1>5, <1>6, <1>7 DEF Next, WrapperNext

(* The reassembly pool keeps within MAX_REASSEMBLIES and                   *)
(* MAX_REASSEMBLIES_PER_SOURCE, and per_source counts exactly the entries  *)
(* of each source, through accept, evict_oldest, drop_entry and expire; so *)
(* drop_entry never subtracts from zero.                                   *)
THEOREM PoolStaysBounded == Spec => []PoolBounded
<1>1. PoolInv => PoolBounded
  BY DEF PoolInv, Sound, Bounded, PoolBounded
<1> QED BY <1>1, InitPool, NextKeepsPool, PTL DEF Spec

-----------------------------------------------------------------------------
(* What is returned is whole.  The chunks an entry holds are of its        *)
(* source, at their place, and of packets with its message id, and         *)
(* received counts them; a frame carries the id of its packet.             *)
ChunksHeld(e) == {i \in DOMAIN e.chunks : e.chunks[i] # {}}

ChunkOf(k, i, c) ==
  /\ c \in Chunks
  /\ c.source = k[1] /\ c.index = i /\ MessageId(c.packet) = k[2]

InPlace(k, chunks, i) == \E c : chunks[i] = {c} /\ ChunkOf(k, i, c)

EntryInv(k, e) ==
  /\ Entry(e)
  /\ \A i \in ChunksHeld(e) : InPlace(k, e.chunks, i)
  /\ e.received = Cardinality(ChunksHeld(e)) /\ e.received < e.total

FrameInv(f) == f \in Frames /\ f.index < f.total /\ f.id = MessageId(f.packet)

DeliveredInv(chunks) ==
  \E k \in Keys : \A i \in DOMAIN chunks : InPlace(k, chunks, i)

WholeInv ==
  /\ PoolInv
  /\ sent \in [Sources -> 0..MaxPackets] /\ now \in Nat /\ copies \in Nat
  /\ \A f \in net : FrameInv(f)
  /\ \A k \in DOMAIN pool.entries :
       EntryInv(k, pool.entries[k]) /\ 0 < pool.entries[k].received
  /\ \A chunks \in delivered : DeliveredInv(chunks)

LEMMA HeldFinite ==
  ASSUME NEW e, Entry(e)
  PROVE  /\ DOMAIN e.chunks = 0..e.total - 1 /\ ChunksHeld(e) \subseteq 0..e.total - 1
         /\ IsFiniteSet(ChunksHeld(e)) /\ Cardinality(ChunksHeld(e)) \in Nat
         /\ IsFiniteSet(0..e.total - 1) /\ Cardinality(0..e.total - 1) = e.total
         /\ e.total \in Nat \ {0, 1}
<1>1. /\ e.total \in Nat \ {0, 1} /\ DOMAIN e.chunks = 0..e.total - 1
      /\ ChunksHeld(e) \subseteq 0..e.total - 1
  BY GeckoAssumption, Zenon DEF Entry, ChunksHeld
<1>2. IsFiniteSet(0..e.total - 1) /\ Cardinality(0..e.total - 1) = e.total
  <2> DEFINE l == e.total - 1
  <2>1. l \in Int /\ l >= 0 /\ (l - 0) + 1 = e.total
    BY ONLY <1>1
  <2> HIDE DEF l
  <2>2. 0 \in Int /\ (0 > l) = FALSE
    BY ONLY <2>1
  <2>3. IsFiniteSet(0..l) /\ Cardinality(0..l) = IF 0 > l THEN 0 ELSE l - 0 + 1
    BY <2>1, <2>2, FS_Interval, ZenonT(30)
  <2> QED BY <2>1, <2>2, <2>3, ZenonT(30) DEF l
<1>3. IsFiniteSet(ChunksHeld(e))
  BY <1>1, <1>2, FS_Subset, ZenonT(60)
<1> QED BY <1>1, <1>2, <1>3, FS_CardinalityType

(* The chunk of a frame, put where there was none, adds one to what is held. *)
LEMMA FillKeeps ==
  ASSUME NEW f, FrameInv(f), NEW e, EntryInv(Key(f), e), e.total = f.total,
         ~Duplicate(e, f)
  PROVE  LET g == Filled(e, f) IN
         /\ Entry(g) /\ g.total = e.total /\ g.received = e.received + 1
         /\ g.received = Cardinality(ChunksHeld(g))
         /\ \A i \in ChunksHeld(g) : InPlace(Key(f), g.chunks, i)
<1> DEFINE g == Filled(e, f)
           c == [source |-> f.source, packet |-> f.packet, index |-> f.index]
<1>1. /\ f.source \in Sources /\ f.packet \in Packets /\ f.index \in Nat
      /\ f.index < f.total /\ f.id = MessageId(f.packet) /\ f.total \in Totals
  BY ZenonT(30), SMTT(60) DEF FrameInv, Frames
<1>2. e.total \in Nat /\ f.index \in 0..e.total - 1
  BY <1>1, HeldFinite, SMTT(30) DEF EntryInv
<1>3. c \in Chunks
  BY <1>1, ZenonT(30) DEF Chunks
<1>4. /\ g.total = e.total /\ g.received = e.received + 1 /\ g.deadline = e.deadline
      /\ g.chunks = [e.chunks EXCEPT ![f.index] = {c}]
  BY ZenonT(60) DEF Filled
<1>5. e.chunks \in [0..e.total - 1 -> SUBSET Chunks]
  BY ZenonT(30), SMTT(60) DEF EntryInv, Entry
<1> HIDE DEF g, c
<1>6. g.chunks \in [0..e.total - 1 -> SUBSET Chunks]
  BY <1>2, <1>3, <1>4, <1>5, SMTT(60)
<1>7. /\ g.chunks[f.index] = {c}
      /\ \A i \in 0..e.total - 1 : i # f.index => g.chunks[i] = e.chunks[i]
  BY <1>2, <1>4, <1>5, ZenonT(30), SMTT(60)
<1>8. Entry(g)
  <2>1. e.received \in Nat /\ e.received < e.total /\ e.total \in Totals
        /\ e.deadline \in Nat
    BY DEF EntryInv, Entry
  <2>2. e.received + 1 \in Nat
    BY ONLY <2>1
  <2> QED BY <1>2, <1>4, <1>6, <2>1, <2>2, SMTT(60) DEF Entry
<1>9. ChunksHeld(g) = ChunksHeld(e) \cup {f.index} /\ f.index \notin ChunksHeld(e)
  BY <1>2, <1>5, <1>6, <1>7, ZenonT(60) DEF ChunksHeld, Duplicate
<1>10. Cardinality(ChunksHeld(g)) = Cardinality(ChunksHeld(e)) + 1
  <2>1. IsFiniteSet(ChunksHeld(e))
    BY HeldFinite, ZenonT(30), SMTT(60) DEF EntryInv
  <2> QED BY <1>9, <2>1, FS_AddElement, ZenonT(60)
<1>11. ASSUME NEW i \in ChunksHeld(g) PROVE InPlace(Key(f), g.chunks, i)
  <2>1. CASE i = f.index
    <3>1. ChunkOf(Key(f), i, c)
      BY <1>1, <1>3, <2>1, ZenonT(60) DEF ChunkOf, Key, c
    <3> QED BY <1>7, <2>1, <3>1, ZenonT(30), SMTT(60) DEF InPlace
  <2>2. CASE i # f.index
    <3>1. i \in ChunksHeld(e) /\ g.chunks[i] = e.chunks[i]
      BY <1>5, <1>7, <1>9, <2>2, ZenonT(60) DEF ChunksHeld
    <3> QED BY <3>1 DEF EntryInv, InPlace
  <2> QED BY <2>1, <2>2, ZenonT(30), SMTT(60)
<1> QED BY <1>4, <1>8, <1>10, <1>11, ZenonT(30), SMTT(60) DEF EntryInv, g

(* An entry that has received as many chunks as its total holds every one. *)
LEMMA FullIsWhole ==
  ASSUME NEW e, Entry(e), e.received = Cardinality(ChunksHeld(e)), e.received >= e.total
  PROVE  ChunksHeld(e) = DOMAIN e.chunks
<1>1. /\ ChunksHeld(e) \subseteq 0..e.total - 1 /\ IsFiniteSet(0..e.total - 1)
      /\ Cardinality(0..e.total - 1) = e.total /\ DOMAIN e.chunks = 0..e.total - 1
      /\ Cardinality(ChunksHeld(e)) \in Nat /\ e.total \in Nat
  BY HeldFinite
<1>2. /\ Cardinality(ChunksHeld(e)) <= Cardinality(0..e.total - 1)
      /\ Cardinality(0..e.total - 1) = Cardinality(ChunksHeld(e)) => 0..e.total - 1 = ChunksHeld(e)
  BY <1>1, FS_Subset, ZenonT(60)
<1> QED BY <1>1, <1>2, SMTT(60)

(* The pool in which accept looks at a chunk: the chunk's entry has the    *)
(* chunk's total, and only that one may be empty.                          *)
LEMMA AdmitKeepsEntries ==
  ASSUME WholeInv, NEW f \in net, NEW p \in Admit(f)
  PROVE  /\ \A k \in DOMAIN p.entries :
              /\ EntryInv(k, p.entries[k])
              /\ k # Key(f) => 0 < p.entries[k].received
         /\ p.entries[Key(f)].total = f.total
<1>0. FrameInv(f)
  BY ZenonT(30), SMTT(60) DEF WholeInv
<1>1. CASE Key(f) \in DOMAIN pool.entries
  BY <1>1, ZenonT(30), SMTT(60) DEF Admit, WholeInv
<1>2. CASE Key(f) \notin DOMAIN pool.entries
  <2>1. PICK r \in MadeRoom(pool) : p = Insert(r, f)
    BY <1>2 DEF Admit
  <2>2. /\ DOMAIN r.entries \subseteq DOMAIN pool.entries
        /\ \A k \in DOMAIN r.entries : r.entries[k] = pool.entries[k]
    <3>1. CASE r = pool
      BY <3>1, ZenonT(30), SMTT(60)
    <3>2. ASSUME NEW k, r = DropEntry(pool, k)
          PROVE  /\ DOMAIN r.entries \subseteq DOMAIN pool.entries
                 /\ \A x \in DOMAIN r.entries : r.entries[x] = pool.entries[x]
      BY <3>2, ZenonT(30), SMTT(60) DEF DropEntry, Restrict
    <3> QED BY <3>1, <3>2, <2>1 DEF MadeRoom
  <2> DEFINE new == [chunks |-> [i \in 0..f.total - 1 |-> {}], received |-> 0,
                     total |-> f.total, deadline |-> now + TTL]
  <2>3. /\ DOMAIN p.entries = DOMAIN r.entries \cup {Key(f)}
        /\ p.entries[Key(f)] = new
        /\ \A k \in DOMAIN r.entries : k # Key(f) => p.entries[k] = r.entries[k]
    BY <2>1 DEF Insert, PutEntry
  <2>4. EntryInv(Key(f), new)
    <3>1. f.total \in Totals /\ f.total \in Nat \ {0, 1}
      BY <1>0, GeckoAssumption, ZenonT(60) DEF FrameInv, Frames
    <3>2. now + TTL \in Nat
      BY GeckoAssumption, SMTT(60) DEF WholeInv
    <3>3. Entry(new)
      BY <3>1, <3>2, SMTT(60) DEF Entry
    <3>4. ChunksHeld(new) = {}
      BY DEF ChunksHeld
    <3>5. new.received = 0 /\ new.total = f.total
      OBVIOUS
    <3> HIDE DEF new
    <3> QED BY <3>1, <3>3, <3>4, <3>5, FS_EmptySet, SMTT(60) DEF EntryInv
  <2>5. new.total = f.total
    BY ZenonT(30), SMTT(60)
  <2> HIDE DEF new
  <2> QED BY <2>2, <2>3, <2>4, <2>5 DEF WholeInv
<1> QED BY <1>1, <1>2

LEMMA ReceiveKeepsWhole ==
  ASSUME WholeInv, NEW f \in net, ReceivePacket(f)
  PROVE  WholeInv'
<1>1. PoolInv'
  BY ReceiveKeepsPool, ZenonT(30), SMTT(60) DEF WholeInv
<1>2. /\ sent' \in [Sources -> 0..MaxPackets] /\ now' \in Nat /\ copies' \in Nat
      /\ \A g \in net' : FrameInv(g)
  BY SMTT(30) DEF ReceivePacket, WholeInv
<1>3. FrameInv(f)
  BY DEF WholeInv
<1> DEFINE PoolKept == \A k \in DOMAIN pool'.entries :
                         EntryInv(k, pool'.entries[k]) /\ 0 < pool'.entries[k].received
           ReturnedKept == \A chunks \in delivered' : DeliveredInv(chunks)
<1>4. PoolKept /\ ReturnedKept
  <2>1. CASE Admit(f) = {} /\ UNCHANGED <<pool, delivered>>
    BY <2>1, ZenonT(30), SMTT(60) DEF WholeInv
  <2>2. ASSUME NEW p \in Admit(f),
               LET k == Key(f)
                   e == p.entries[k]
               IN  \/ /\ Duplicate(e, f)
                      /\ pool' = p /\ UNCHANGED delivered
                   \/ /\ ~Duplicate(e, f) /\ e.received + 1 < e.total
                      /\ pool' = [entries |-> PutEntry(p, k, Filled(e, f)),
                                  count |-> p.count]
                      /\ UNCHANGED delivered
                   \/ /\ ~Duplicate(e, f) /\ e.received + 1 >= e.total
                      /\ pool' = DropEntry(p, k)
                      /\ delivered' = delivered \cup {Filled(e, f).chunks}
        PROVE  PoolKept /\ ReturnedKept
    <3> DEFINE k == Key(f)
               e == p.entries[k]
               g == Filled(e, f)
    <3>0. \/ Duplicate(e, f) /\ pool' = p /\ UNCHANGED delivered
          \/ /\ ~Duplicate(e, f) /\ e.received + 1 < e.total
             /\ pool' = [entries |-> PutEntry(p, k, g), count |-> p.count]
             /\ UNCHANGED delivered
          \/ /\ ~Duplicate(e, f) /\ e.received + 1 >= e.total
             /\ pool' = DropEntry(p, k)
             /\ delivered' = delivered \cup {g.chunks}
      BY <2>2, ZenonT(30)
    <3>1. /\ k \in DOMAIN p.entries /\ k \in Keys
          /\ \A x \in DOMAIN p.entries :
               EntryInv(x, p.entries[x]) /\ (x # k => 0 < p.entries[x].received)
          /\ e.total = f.total
      BY AdmitKeepsEntries, AdmitSound, ZenonT(30) DEF WholeInv, Sound
    <3>2. EntryInv(k, e) /\ Entry(e)
      BY <3>1, ZenonT(30) DEF EntryInv
    <3>3. f.index \in 0..e.total - 1 /\ DOMAIN e.chunks = 0..e.total - 1
          /\ e.received = Cardinality(ChunksHeld(e)) /\ IsFiniteSet(ChunksHeld(e))
          /\ e.received \in Nat /\ e.total \in Nat
      <4>1. /\ DOMAIN e.chunks = 0..e.total - 1 /\ IsFiniteSet(ChunksHeld(e))
            /\ Cardinality(ChunksHeld(e)) \in Nat /\ e.total \in Nat
        BY <3>2, HeldFinite, ZenonT(30)
      <4>2. e.received = Cardinality(ChunksHeld(e))
        BY <3>2, ZenonT(60) DEF EntryInv
      <4>3. f.index \in Nat /\ f.index < f.total
        BY <1>3, GeckoAssumption, ZenonT(30), SMTT(60) DEF FrameInv, Frames
      <4>4. f.index \in 0..e.total - 1
        BY <3>1, <4>1, <4>3, SMTT(60)
      <4> QED BY <4>1, <4>2, <4>4, ZenonT(30)
    <3>4. ~Duplicate(e, f) =>
            /\ Entry(g) /\ g.total = e.total /\ g.received = e.received + 1
            /\ g.received = Cardinality(ChunksHeld(g))
            /\ \A i \in ChunksHeld(g) : InPlace(k, g.chunks, i)
      BY <1>3, <3>1, <3>2, FillKeeps, ZenonT(60)
    <3> HIDE DEF g, e, k
    <3>5. CASE Duplicate(e, f) /\ pool' = p /\ UNCHANGED delivered
      <4>1. f.index \in ChunksHeld(e)
        BY <3>3, <3>5, ZenonT(60) DEF ChunksHeld, Duplicate
      <4>2. 0 < e.received
        BY <3>3, <4>1, FS_EmptySet, SMTT(30)
      <4>3. ReturnedKept
        BY <3>5, ZenonT(30) DEF WholeInv
      <4>4. PoolKept
        BY <3>1, <3>5, <4>2, ZenonT(60) DEF e
      <4> QED BY <4>3, <4>4, ZenonT(30)
    <3>6. CASE /\ ~Duplicate(e, f) /\ e.received + 1 < e.total
               /\ pool' = [entries |-> PutEntry(p, k, g), count |-> p.count]
               /\ UNCHANGED delivered
      <4>0. g.received = e.received + 1 /\ g.total = e.total /\ e.received \in Nat
            /\ e.received + 1 < e.total
        BY <3>3, <3>4, <3>6, ZenonT(30)
      <4>a. g.received < g.total /\ 0 < g.received
        BY ONLY <4>0
      <4>1. EntryInv(k, g) /\ 0 < g.received
        BY <3>4, <3>6, <4>a, ZenonT(30) DEF EntryInv
      <4>2. /\ DOMAIN pool'.entries = DOMAIN p.entries
            /\ pool'.entries[k] = g
            /\ \A x \in DOMAIN p.entries : x # k => pool'.entries[x] = p.entries[x]
        <5> DEFINE T == DOMAIN p.entries \cup {k}
        <5>1. T = DOMAIN p.entries
          BY <3>1, ZenonT(30)
        <5>2. pool'.entries = PutEntry(p, k, g)
          BY <3>6, ZenonT(30)
        <5>3. pool'.entries = [x \in T |-> IF x = k THEN g ELSE p.entries[x]]
          BY <5>2, ZenonT(30) DEF PutEntry
        <5> QED BY <3>1, <5>1, <5>3, ZenonT(30)
      <4>3. ReturnedKept
        BY <3>6, ZenonT(30) DEF WholeInv
      <4>4. PoolKept
        BY <3>1, <4>1, <4>2, ZenonT(60)
      <4> QED BY <4>3, <4>4, ZenonT(30)
    <3>7. CASE /\ ~Duplicate(e, f) /\ e.received + 1 >= e.total
               /\ pool' = DropEntry(p, k)
               /\ delivered' = delivered \cup {g.chunks}
      <4>1. ChunksHeld(g) = DOMAIN g.chunks
        <5>1. g.received = e.received + 1 /\ g.total = e.total /\ e.received + 1 >= e.total
          BY <3>4, <3>7, ZenonT(30)
        <5>2. g.received >= g.total
          BY <5>1, ZenonT(30)
        <5> QED BY <3>4, <3>7, <5>2, FullIsWhole, ZenonT(60)
      <4>2. DeliveredInv(g.chunks)
        BY <3>1, <3>4, <3>7, <4>1, ZenonT(30) DEF DeliveredInv
      <4>3. /\ DOMAIN pool'.entries = DOMAIN p.entries \ {k}
            /\ \A x \in DOMAIN pool'.entries : pool'.entries[x] = p.entries[x]
        BY <3>7, ZenonT(30) DEF DropEntry, Restrict
      <4>4. ReturnedKept
        BY <3>7, <4>2, ZenonT(30) DEF WholeInv
      <4>5. PoolKept
        BY <3>1, <4>3, ZenonT(30)
      <4> QED BY <4>4, <4>5, ZenonT(30)
    <3> QED BY <3>0, <3>5, <3>6, <3>7, ZenonT(30)
  <2>3. Accept(f)
    BY ZenonT(30) DEF ReceivePacket
  <2> HIDE DEF PoolKept, ReturnedKept
  <2> QED BY <2>1, <2>2, <2>3, ZenonT(60) DEF Accept
<1> QED BY <1>1, <1>2, <1>4, ZenonT(30), SMTT(60) DEF WholeInv

LEMMA EncodeKeepsWhole ==
  ASSUME WholeInv, NEW s \in Sources, NEW total \in Totals, EncodePacket(s, total)
  PROVE  \A f \in net' : FrameInv(f)
<1>0. sent \in [Sources -> 0..MaxPackets] /\ sent[s] < MaxPackets
      /\ sent' = [sent EXCEPT ![s] = sent[s] + 1] /\ MaxPackets \in Nat
  BY GeckoAssumption, ZenonT(30) DEF EncodePacket, WholeInv
<1>1. sent'[s] \in Packets
  BY ONLY <1>0, s \in Sources DEF Packets
<1>2. total \in Nat
  BY GeckoAssumption
<1>3. MessageId(sent'[s]) \in 0..MessageIds - 1
  BY <1>1, GeckoAssumption, SMTT(60) DEF MessageId, Packets
<1>4. ASSUME NEW i \in 0..total - 1
      PROVE  FrameInv([source |-> s, packet |-> sent'[s], id |-> MessageId(sent'[s]),
                       index |-> i, total |-> total])
  BY <1>1, <1>2, <1>3, SMTT(30) DEF FrameInv, Frames
<1>5. net' = net \cup {[source |-> s, packet |-> sent'[s], id |-> MessageId(sent'[s]),
                        index |-> i, total |-> total] : i \in 0..total - 1}
  BY ZenonT(30) DEF EncodePacket
<1>6. \A f \in net : FrameInv(f)
  BY ZenonT(30) DEF WholeInv
<1> QED BY <1>4, <1>5, <1>6, ZenonT(30)

LEMMA OneMore ==
  ASSUME NEW S, NEW n \in Nat, NEW f \in [S -> 0..n], NEW s \in S, f[s] < n
  PROVE  [f EXCEPT ![s] = f[s] + 1] \in [S -> 0..n]
<1>1. f[s] + 1 \in 0..n
  OBVIOUS
<1> QED BY <1>1

LEMMA NextKeepsWhole == WholeInv /\ [Next]_vars => WholeInv'
<1> SUFFICES ASSUME WholeInv, [Next]_vars PROVE WholeInv'
  OBVIOUS
<1>0. PoolInv'
  BY NextKeepsPool, Zenon DEF WholeInv
<1>1. CASE UNCHANGED vars
  BY <1>0, <1>1, ZenonT(30) DEF vars, WholeInv
<1>2. ASSUME NEW s \in Sources, NEW total \in Totals, EncodePacket(s, total)
      PROVE  WholeInv'
  <2>1. sent' \in [Sources -> 0..MaxPackets]
    <3>1. sent \in [Sources -> 0..MaxPackets]
      BY ZenonT(60) DEF WholeInv
    <3>2. sent[s] < MaxPackets /\ sent' = [sent EXCEPT ![s] = sent[s] + 1]
      BY <1>2, ZenonT(60) DEF EncodePacket
    <3>3. MaxPackets \in Nat
      BY GeckoAssumption, ZenonT(60)
    <3> QED BY <3>1, <3>2, <3>3, OneMore, ZenonT(60)
  <2>2. \A f \in net' : FrameInv(f)
    BY <1>2, EncodeKeepsWhole
  <2> QED BY <1>0, <1>2, <2>1, <2>2, ZenonT(60) DEF EncodePacket, WholeInv
<1>3. ASSUME NEW f \in net, ReceivePacket(f) PROVE WholeInv'
  BY <1>3, ReceiveKeepsWhole
<1>4. ASSUME NEW f \in net, Lose(f) PROVE WholeInv'
  BY <1>0, <1>4, ZenonT(60) DEF Lose, WholeInv
<1>5. CASE Tick
  <2>1. now \in Nat
    BY ZenonT(60) DEF WholeInv
  <2>2. now' = now + 1
    BY <1>5, ZenonT(60) DEF Tick
  <2>3. now' \in Nat
    BY <2>1, <2>2
  <2> QED BY <1>0, <1>5, <2>3, ZenonT(60) DEF Tick, WholeInv
<1>6. CASE Expire
  <2>1. /\ DOMAIN pool'.entries \subseteq DOMAIN pool.entries
        /\ \A k \in DOMAIN pool'.entries : pool'.entries[k] = pool.entries[k]
    BY <1>6 DEF Expire, Restrict
  <2> QED BY <1>0, <1>6, <2>1, Zenon DEF Expire, WholeInv
<1> QED BY <1>1, <1>2, <1>3, <1>4, <1>5, <1>6 DEF Next, WrapperNext

(* Packets of one source with one message id are a whole round of the ids  *)
(* apart.                                                                  *)
LEMMA SameIdApart ==
  ASSUME NEW a \in Packets, NEW b \in Packets, MessageId(a) = MessageId(b), a < b
  PROVE  b - a >= MessageIds
<1> DEFINE n == MessageIds
           p == a \div n
           q == b \div n
           r == a % n
<1>0. a \in Nat /\ b \in Nat /\ n \in Nat \ {0}
  BY GeckoAssumption DEF Packets
<1>1. \A x \in Nat : x % n \in 0..n - 1 /\ x \div n \in Nat
                     /\ x = n * (x \div n) + (x % n)
  BY <1>0
<1>2. p \in Nat /\ r \in Nat /\ a = n * p + r
  BY <1>0, <1>1
<1>3. q \in Nat /\ b = n * q + r
  <2>1. b % n = a % n
    BY DEF MessageId
  <2> QED BY <1>0, <1>1, <2>1
<1> HIDE DEF p, q, r, n
<1>4. p < q
  BY <1>0, <1>2, <1>3
<1>5. n * q >= n * p + n
  BY <1>0, <1>2, <1>3, <1>4, SMTT(60)
<1> QED BY <1>0, <1>2, <1>3, <1>5, SMTT(60) DEF n

LEMMA WholeIsIntact == WholeInv => PacketsWhole
<1> SUFFICES ASSUME WholeInv PROVE PacketsWhole
  BY ZenonT(30), SMTT(60)
<1>1. TypeOK
  BY Zenon DEF WholeInv, PoolInv, Sound, TypeOK, FrameInv, EntryInv
<1>2. PendingIncomplete
  BY ZenonT(60) DEF WholeInv, EntryInv, ChunksHeld, PendingIncomplete
<1>3. ASSUME NEW chunks \in delivered, NEW i \in DOMAIN chunks, NEW j \in DOMAIN chunks
      PROVE  \E c \in chunks[i], d \in chunks[j] :
               /\ c.index = i /\ c.source = d.source
               /\ c.packet < d.packet => d.packet - c.packet >= MessageIds
  <2>1. PICK k \in Keys : \A x \in DOMAIN chunks : InPlace(k, chunks, x)
    BY Zenon DEF WholeInv, DeliveredInv
  <2>2. PICK c : chunks[i] = {c} /\ ChunkOf(k, i, c)
    BY <2>1, ZenonT(60) DEF InPlace
  <2>3. PICK d : chunks[j] = {d} /\ ChunkOf(k, j, d)
    BY <2>1, ZenonT(30), SMTT(60) DEF InPlace
  <2>4. /\ c.index = i /\ c.source = d.source
        /\ c.packet \in Packets /\ d.packet \in Packets
        /\ MessageId(c.packet) = MessageId(d.packet)
    BY <2>2, <2>3, ZenonT(30), SMTT(60) DEF ChunkOf, Chunks
  <2>5. c.packet < d.packet => d.packet - c.packet >= MessageIds
    BY <2>4, SameIdApart
  <2> QED BY <2>2, <2>3, <2>4, <2>5, ZenonT(30), SMTT(60)
<1> QED BY <1>1, <1>2, <1>3 DEF PacketsWhole, PacketsIntact

(* Whatever the network loses, repeats and reorders, a packet that         *)
(* receive_packet returns has every chunk of one source in its place, of   *)
(* one packet unless 256 packets lie between two of them, and no entry     *)
(* that has all its chunks stays in the pool.                              *)
THEOREM ReturnedAreWhole == Spec => []PacketsWhole
<1>1. Init => WholeInv
  <2> SUFFICES ASSUME Init PROVE WholeInv
    OBVIOUS
  <2>1. DOMAIN pool.entries = {}
    BY DEF Init
  <2>2. sent \in [Sources -> 0..MaxPackets] /\ now \in Nat /\ copies \in Nat
    BY GeckoAssumption DEF Init
  <2> QED BY <2>1, <2>2, InitPool DEF Init, WholeInv
<1> QED BY <1>1, NextKeepsWhole, WholeIsIntact, PTL DEF Spec

-----------------------------------------------------------------------------
(* SendQueue: no wakeup is lost in either direction, for any number of     *)
(* senders, any capacity, and both kinds of socket.                        *)

(* The worker that found the queue empty and is about to wait will see     *)
(* what was pushed since: the permit is there, or its sender is about to   *)
(* leave it.                                                               *)
WakeupPending ==
  worker = "wait" /\ queue > 0 => permit \/ \E s \in Senders : sender[s] = "notify"

IInv == QueueTypeOK /\ NoSleepOverWork /\ BlockedOnlyWhenFull /\ WakeupPending

LEMMA InitIInv == QueueInit => IInv
<1> SUFFICES ASSUME QueueInit PROVE IInv
  OBVIOUS
<1>1. queue \in 0..Capacity /\ ~(queue > 0)
  BY SendQueueAssumption DEF QueueInit
<1>2. hopping \in BOOLEAN /\ error \in BOOLEAN /\ permit \in BOOLEAN /\ closed \in BOOLEAN
  BY Zenon DEF QueueInit
<1>3. /\ waiters \subseteq Senders
      /\ worker \in {"check", "pop", "wait", "asleep", "send", "done"}
      /\ sender \in [Senders -> {"idle", "notify", "poll", "blocked"}]
      /\ \A s \in Senders : sender[s] # "blocked"
  BY ZenonT(30), SMTT(60) DEF QueueInit
<1> QED BY <1>1, <1>2, <1>3
     DEF IInv, QueueTypeOK, NoSleepOverWork, BlockedOnlyWhenFull, WakeupPending

LEMMA NextKeepsIInv == IInv /\ [QueueNext]_queueVars => IInv'
<1> SUFFICES ASSUME IInv, [QueueNext]_queueVars PROVE IInv'
  OBVIOUS
<1> USE SendQueueAssumption
    DEF IInv, QueueTypeOK, NoSleepOverWork, BlockedOnlyWhenFull, WakeupPending
<1>1. CASE UNCHANGED queueVars
  BY <1>1 DEF queueVars
<1>2. ASSUME NEW s \in Senders, ReportError(s) PROVE IInv'
  BY <1>2, ZenonT(60) DEF ReportError
<1>3. ASSUME NEW s \in Senders, WouldBlock(s) PROVE IInv'
  BY <1>3, ZenonT(30), SMTT(60) DEF WouldBlock
<1>4. ASSUME NEW s \in Senders, Push(s) PROVE IInv'
  BY <1>4 DEF Push
<1>5. ASSUME NEW s \in Senders, NotifyWorker(s) PROVE IInv'
  BY <1>5, ZenonT(60) DEF NotifyWorker, NotifyOne
<1>6. ASSUME NEW s \in Senders, PollWritable(s) PROVE IInv'
  BY <1>6 DEF PollWritable
<1>7. CASE DropSocket
  BY <1>7, ZenonT(60) DEF DropSocket, NotifyOne, NotifyWaiters
<1>8. CASE CheckClosed
  BY <1>8, ZenonT(30), SMTT(60) DEF CheckClosed
<1>9. CASE Pop
  BY <1>9 DEF Pop, WakeWriters
<1>10. CASE Wait
  BY <1>10, ZenonT(60) DEF Wait
<1>11. CASE Sent
  BY <1>11, ZenonT(30), SMTT(60) DEF Sent
<1>12. CASE SendFails
  BY <1>12 DEF SendFails, WakeWriters
<1> QED BY <1>1, <1>2, <1>3, <1>4, <1>5, <1>6, <1>7, <1>8, <1>9, <1>10, <1>11, <1>12, ZenonT(60)
     DEF QueueNext, WorkerNext

(* try_send and send_worker together lose no wakeup: the worker does not   *)
(* sleep over a queued datagram, except while its sender is between the    *)
(* push and notify_one.                                                    *)
THEOREM NoLostWakeup == QueueSpec => []NoSleepOverWork
<1>1. IInv => NoSleepOverWork
  BY ZenonT(30), SMTT(60) DEF IInv
<1> QED BY <1>1, InitIInv, NextKeepsIInv, PTL DEF QueueSpec

(* poll_writable and wake_writers together keep no connection waiting      *)
(* while the queue has room.                                               *)
THEOREM NoStalledSender == QueueSpec => []BlockedOnlyWhenFull
<1>1. IInv => BlockedOnlyWhenFull
  BY DEF IInv
<1> QED BY <1>1, InitIInv, NextKeepsIInv, PTL DEF QueueSpec

-----------------------------------------------------------------------------
(* PortHopping.                                                            *)

(* Sockets are opened in order, so the one of the hop before is another    *)
(* than the current one.                                                   *)
HopInv ==
  /\ current \in Nat /\ \A s \in previous : s # current
  /\ buffered \in [Sockets -> Int]

LEMMA HopKeeps == HopInv /\ [HopNext]_allVars => HopInv'
<1> SUFFICES ASSUME HopInv, [HopNext]_allVars PROVE HopInv'
  OBVIOUS
<1>1. CASE UNCHANGED <<current, previous, buffered>>
  BY <1>1, ZenonT(30), SMTT(60) DEF HopInv
<1>2. CASE QueueStep(QueueNext) \/ Snapshot \/ OtherWakeup \/ UNCHANGED allVars
  BY <1>1, <1>2, ZenonT(30), SMTT(60) DEF QueueStep, Snapshot, OtherWakeup, allVars, hopVars
<1>3. CASE Hop
  BY <1>3 DEF Hop, HopInv
<1>4. CASE PollSocket
  BY <1>4 DEF PollSocket, HopInv
<1>5. ASSUME NEW s \in Sockets, Arrive(s) PROVE HopInv'
  BY <1>5, SMTT(60) DEF Arrive, HopInv
<1> QED BY <1>2, <1>3, <1>4, <1>5, ZenonT(30), SMTT(60) DEF HopNext

LEMMA HopLosesNothing ==
  ASSUME HopInv, HopNext, NEW s \in Sockets, buffered'[s] < buffered[s]
  PROVE  (driver = "polling" /\ Head(toPoll) = s) \/ s # current
<1>1. buffered[s] \in Int /\ ~(buffered[s] < buffered[s]) /\ ~(buffered[s] + 1 < buffered[s])
  BY DEF HopInv
<1>2. CASE QueueStep(QueueNext) \/ Snapshot \/ OtherWakeup
  BY <1>1, <1>2, ZenonT(60) DEF QueueStep, Snapshot, OtherWakeup, hopVars
<1>3. CASE Hop
  BY <1>1, <1>3 DEF Hop, HopInv
<1>4. CASE PollSocket
  BY <1>1, <1>4, ZenonT(60) DEF PollSocket, HopInv, Held
<1>5. ASSUME NEW r \in Sockets, Arrive(r) PROVE FALSE
  BY <1>1, <1>5 DEF Arrive, HopInv
<1> QED BY <1>2, <1>3, <1>4, <1>5, ZenonT(30), SMTT(60) DEF HopNext

(* However often the worker hops and wherever the driver is in its poll:   *)
(* a hop takes no datagram from the socket it replaces, which stays        *)
(* readable until the hop after it.                                        *)
THEOREM HopsOverlap == HopSpec => OverlapLosesNothing
<1>1. SocketInit => HopInv
  BY DEF SocketInit, HopInit, HopInv
<1>2. HopInv /\ [HopNext]_allVars =>
        [ \A s \in Sockets : buffered'[s] < buffered[s] =>
            (driver = "polling" /\ Head(toPoll) = s) \/ s # current ]_allVars
  BY HopLosesNothing
<1> QED BY <1>1, <1>2, HopKeeps, PTL DEF HopSpec, OverlapLosesNothing

(* The send queue keeps its promises while the socket hops: hop_worker and *)
(* poll_recv take no step that send_worker and try_send can see.           *)
THEOREM HoppingKeepsQueue == HopSpec => [](NoSleepOverWork /\ BlockedOnlyWhenFull)
<1>1. SocketInit => IInv
  BY InitIInv DEF SocketInit
<1>2. [HopNext]_allVars => [QueueNext]_queueVars
  BY DEF HopNext, allVars, QueueStep, Hop, Snapshot, PollSocket, OtherWakeup, Arrive
<1>3. IInv => NoSleepOverWork /\ BlockedOnlyWhenFull
  BY DEF IInv
<1> QED BY <1>1, <1>2, <1>3, NextKeepsIInv, PTL DEF HopSpec
=============================================================================
