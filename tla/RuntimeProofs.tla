--------------------------- MODULE RuntimeProofs ----------------------------
(***************************************************************************)
(* Proofs about the runtime of the programs (runtime.rs): the client's     *)
(* shared connection (ClientHandle), for any number of workers and         *)
(* connections, of which there is one at a time and none after close();    *)
(* that it implements ReconnectingClient; and how the programs come up from*)
(* any configuration (Startup).                                            *)
(***************************************************************************)
EXTENDS ClientHandle, Startup, TLAPS

NoRepeats(q) == \A i, j \in DOMAIN q : q[i] = q[j] => i = j
In(q, x) == \E i \in DOMAIN q : q[i] = x

(* Whoever waits for the Mutex, or holds it, is in its queue once, and a   *)
(* worker that dials has kept the lock.                                    *)
LockInv ==
  /\ NoRepeats(waiting)
  /\ \A w \in Workers : In(waiting, w) <=> worker[w].pc \in {"client", "dialing", "invalidate"}
  /\ In(waiting, Closer) <=> closer = "closing"
  /\ \A w \in Workers : worker[w].pc = "dialing" => Holds(w)

(* Who dials has the only reference to what it dials, and nothing is       *)
(* connected meanwhile.                                                    *)
DialInv ==
  /\ \A w \in Workers : worker[w].pc = "dialing" =>
       /\ connected = {} /\ ~closed
       /\ \E n \in Conns : worker[w].client = {n} /\ status[n] = "dialing"
  /\ \A w, v \in Workers : worker[w].pc = "dialing" /\ v # w =>
       \A c \in worker[w].client : c \notin worker[v].client
  /\ \A c \in Conns : status[c] = "dialing" =>
       \E w \in Workers : worker[w].pc = "dialing" /\ worker[w].client = {c}

(* A live connection is the one in connected; what is in connected was     *)
(* live once; and a worker that comes to invalidate a connection has a     *)
(* reference to it, so that its address means no other.                    *)
ConnInv ==
  /\ \A c \in Conns : status[c] = "live" => connected = {c}
  /\ connected = {} \/ \E c \in Conns : connected = {c} /\ status[c] \in {"live", "lost"}
  /\ closed => connected = {}
  /\ \A w \in Workers : worker[w].pc = "invalidate" =>
       \A c \in worker[w].client : status[c] \notin {"live", "dialing"}

IInv == TypeOK /\ LockInv /\ DialInv /\ ConnInv

-----------------------------------------------------------------------------
(* The queue of the Mutex.                                                 *)

LEMMA AppendFacts ==
  ASSUME NEW T, NEW q \in Seq(T), NEW x \in T, NoRepeats(q), ~In(q, x)
  PROVE  /\ Append(q, x) \in Seq(T) /\ NoRepeats(Append(q, x))
         /\ \A y : In(Append(q, x), y) <=> In(q, y) \/ y = x
         /\ q # <<>> => Append(q, x) # <<>> /\ Head(Append(q, x)) = Head(q)
<1>1. /\ Append(q, x) \in Seq(T) /\ Len(Append(q, x)) = Len(q) + 1
      /\ \A i \in 1..Len(q) : Append(q, x)[i] = q[i]
      /\ Append(q, x)[Len(q) + 1] = x
      /\ DOMAIN q = 1..Len(q) /\ DOMAIN Append(q, x) = 1..Len(q) + 1 /\ Len(q) \in Nat
  OBVIOUS
<1>2. NoRepeats(Append(q, x))
  BY <1>1 DEF NoRepeats, In
<1>3. ASSUME NEW y PROVE In(Append(q, x), y) <=> In(q, y) \/ y = x
  BY <1>1 DEF In
<1>4. q # <<>> => Append(q, x) # <<>> /\ Head(Append(q, x)) = Head(q)
  OBVIOUS
<1> QED BY <1>1, <1>2, <1>3, <1>4

LEMMA TailFacts ==
  ASSUME NEW T, NEW q \in Seq(T), q # <<>>, NoRepeats(q)
  PROVE  /\ Tail(q) \in Seq(T) /\ NoRepeats(Tail(q))
         /\ \A y : In(Tail(q), y) <=> In(q, y) /\ y # Head(q)
         /\ In(q, Head(q))
<1>1. /\ Tail(q) \in Seq(T) /\ Len(Tail(q)) = Len(q) - 1 /\ Head(q) = q[1]
      /\ \A i \in 1..Len(q) - 1 : Tail(q)[i] = q[i + 1]
      /\ DOMAIN q = 1..Len(q) /\ DOMAIN Tail(q) = 1..Len(q) - 1
      /\ Len(q) \in Nat /\ Len(q) > 0
  OBVIOUS
<1>2. NoRepeats(Tail(q))
  BY <1>1 DEF NoRepeats
<1>3. ASSUME NEW y PROVE In(Tail(q), y) <=> In(q, y) /\ y # Head(q)
  <2>1. ASSUME In(Tail(q), y) PROVE In(q, y) /\ y # Head(q)
    BY <1>1, <2>1 DEF NoRepeats, In
  <2>2. ASSUME In(q, y), y # Head(q) PROVE In(Tail(q), y)
    <3>1. PICK i \in 1..Len(q) : q[i] = y
      BY <1>1, <2>2 DEF In
    <3>2. i - 1 \in 1..Len(q) - 1 /\ Tail(q)[i - 1] = y
      BY <1>1, <3>1, <2>2
    <3> QED BY <1>1, <3>2, Zenon DEF In
  <2> QED BY <2>1, <2>2
<1> QED BY <1>1, <1>2, <1>3 DEF In

LEMMA WithoutFacts ==
  ASSUME NEW T, NEW q \in Seq(T), NEW x, NoRepeats(q)
  PROVE  /\ Without(q, x) \in Seq(T) /\ NoRepeats(Without(q, x))
         /\ \A y : In(Without(q, x), y) <=> In(q, y) /\ y # x
         /\ q # <<>> /\ Head(q) # x => Without(q, x) # <<>> /\ Head(Without(q, x)) = Head(q)
<1>1. CASE \A i \in DOMAIN q : q[i] # x
  BY <1>1, Zenon DEF Without, In
<1>2. CASE ~ \A i \in DOMAIN q : q[i] # x
  <2> DEFINE at == CHOOSE i \in DOMAIN q : q[i] = x
             r == [i \in 1..Len(q) - 1 |-> IF i < at THEN q[i] ELSE q[i + 1]]
  <2>1. at \in DOMAIN q /\ q[at] = x
    BY <1>2
  <2>2. Without(q, x) = r
    BY <1>2 DEF Without
  <2> HIDE DEF at
  <2>3. /\ DOMAIN q = 1..Len(q) /\ Len(q) \in Nat /\ Len(q) > 0
        /\ \A i \in 1..Len(q) : q[i] \in T
        /\ at \in 1..Len(q)
    BY <2>1
  <2>4. r \in [1..Len(q) - 1 -> T] /\ Len(q) - 1 \in Nat
    BY <2>3
  <2>5. r \in Seq(T) /\ DOMAIN r = 1..Len(q) - 1 /\ Len(r) = Len(q) - 1
    BY <2>4
  <2>6. \A i \in 1..Len(q) - 1 : r[i] = IF i < at THEN q[i] ELSE q[i + 1]
    OBVIOUS
  <2> HIDE DEF r
  <2>7. NoRepeats(r)
    BY <2>3, <2>5, <2>6, SMTT(60) DEF NoRepeats
  <2>8. ASSUME NEW y, In(r, y) PROVE In(q, y) /\ y # x
    <3>1. PICK i \in 1..Len(q) - 1 : r[i] = y
      BY <2>5, <2>8 DEF In
    <3>2. PICK j \in 1..Len(q) : q[j] = y /\ j # at
      BY <3>1, <2>3, <2>6
    <3> QED BY <3>2, <2>1, <2>3 DEF NoRepeats, In
  <2>9. ASSUME NEW y, In(q, y), y # x PROVE In(r, y)
    <3>1. PICK i \in 1..Len(q) : q[i] = y
      BY <2>3, <2>9 DEF In
    <3>2. i # at
      BY <3>1, <2>1, <2>9
    <3>3. CASE i < at
      <4>1. i \in 1..Len(q) - 1 /\ r[i] = y
        BY <3>1, <3>3, <2>3, <2>6
      <4> QED BY <4>1, <2>5, ZenonT(30), SMTT(60) DEF In
    <3>4. CASE i > at
      <4>1. i - 1 \in 1..Len(q) - 1 /\ r[i - 1] = y
        BY <3>1, <3>4, <2>3, <2>6
      <4> QED BY <4>1, <2>5 DEF In
    <3> QED BY <3>2, <3>3, <3>4, <2>3
  <2>10. ASSUME Head(q) # x PROVE r # <<>> /\ Head(r) = Head(q)
    <3>1. at > 1 /\ 1 \in 1..Len(q) - 1
      BY <2>1, <2>3, <2>10
    <3>2. r[1] = q[1]
      BY <3>1, <2>3, <2>6
    <3> QED BY <3>1, <3>2, <2>5
  <2> QED BY <2>2, <2>5, <2>7, <2>8, <2>9, <2>10
<1> QED BY <1>1, <1>2

-----------------------------------------------------------------------------
(* The steps.                                                              *)

Pcs == {"idle", "client", "dialing", "use", "invalidate", "gone"}

LEMMA SetFacts ==
  ASSUME TypeOK, NEW w \in Workers, NEW pc \in Pcs, NEW client \in SUBSET Conns,
         Set(w, pc, client)
  PROVE  /\ worker' \in [Workers -> [pc : Pcs, client : SUBSET Conns]]
         /\ worker'[w].pc = pc /\ worker'[w].client = client
         /\ \A v \in Workers \ {w} : worker'[v] = worker[v]
BY DEF TypeOK, Set, Pcs

Statuses == {"dialing", "live", "lost", "closed"}

LEMMA ClosedFacts ==
  ASSUME TypeOK, NEW S
  PROVE  /\ Closed(S) \in [Conns -> Statuses]
         /\ \A c \in Conns : Closed(S)[c] = IF c \in S THEN "closed" ELSE status[c]
BY DEF TypeOK, Closed, Statuses

(* While somebody holds the lock nobody else dials. *)
LEMMA HolderAlone ==
  ASSUME IInv, NEW x, Holds(x), NEW w \in Workers, worker[w].pc = "dialing"
  PROVE  w = x
BY DEF IInv, LockInv, Holds

LEMMA InitIInv == Init => IInv
<1> SUFFICES ASSUME Init PROVE IInv
  OBVIOUS
<1>1. TypeOK
  <2>1. closed \in BOOLEAN
    BY Zenon DEF Init
  <2>2. worker \in [Workers -> [pc : Pcs, client : SUBSET Conns]]
    BY DEF Init, Idle, Pcs
  <2> QED BY <2>1, <2>2 DEF Init, TypeOK, Pcs
<1>2. LockInv
  BY DEF Init, LockInv, NoRepeats, In, Idle
<1>3. DialInv /\ ConnInv
  BY DEF Init, DialInv, ConnInv, Idle
<1> QED BY <1>1, <1>2, <1>3 DEF IInv

(* A step that leaves those who dial and what they dial alone. *)
LEMMA DialersStay ==
  ASSUME IInv, NEW w \in Workers, worker[w].pc # "dialing", worker'[w].pc # "dialing",
         worker'[w].client \subseteq worker[w].client,
         \A v \in Workers \ {w} : worker'[v] = worker[v],
         UNCHANGED <<status, connected, closed>>
  PROVE  DialInv'
<1> USE DEF IInv
<1>1. \A v \in Workers : worker[v].pc = "dialing" \/ worker'[v].pc = "dialing" =>
         v # w /\ worker'[v] = worker[v]
  OBVIOUS
<1>2. \A v \in Workers : worker'[v].client \subseteq worker[v].client
  OBVIOUS
<1>3. \A v \in Workers : worker'[v].pc = "dialing" =>
        /\ connected' = {} /\ ~closed'
        /\ \E n \in Conns : worker'[v].client = {n} /\ status'[n] = "dialing"
  BY <1>1 DEF DialInv
<1>4. \A u, v \in Workers : worker'[u].pc = "dialing" /\ v # u =>
        \A c \in worker'[u].client : c \notin worker'[v].client
  BY <1>1, <1>2 DEF DialInv
<1>5. \A c \in Conns : status'[c] = "dialing" =>
        \E v \in Workers : worker'[v].pc = "dialing" /\ worker'[v].client = {c}
  BY <1>1 DEF DialInv
<1> QED BY <1>3, <1>4, <1>5, Zenon DEF DialInv

(* Nobody dials while somebody holds the lock for something else. *)
LEMMA NobodyDials ==
  ASSUME IInv, NEW x, Holds(x), x \in Workers => worker[x].pc # "dialing"
  PROVE  /\ \A w \in Workers : worker[w].pc # "dialing"
         /\ \A c \in Conns : status[c] # "dialing"
<1>1. \A w \in Workers : worker[w].pc # "dialing"
  BY HolderAlone
<1> QED BY <1>1 DEF IInv, DialInv

(* Joining the queue. *)
LEMMA JoinKeepsIInv ==
  ASSUME IInv, NEW w \in Workers, NEW pc \in {"client", "invalidate"}, NEW client \in SUBSET Conns,
         worker[w].pc \in {"idle", "use"}, client \subseteq worker[w].client,
         pc = "invalidate" => \A c \in client : status[c] # "live",
         Set(w, pc, client), waiting' = Append(waiting, w),
         UNCHANGED <<status, connected, closed, updater, closer>>
  PROVE  IInv'
<1> USE DEF IInv
<1>1. /\ worker' \in [Workers -> [pc : Pcs, client : SUBSET Conns]]
      /\ worker'[w].pc = pc /\ worker'[w].client = client
      /\ \A v \in Workers \ {w} : worker'[v] = worker[v]
  BY SetFacts DEF Pcs
<1>2. ~In(waiting, w)
  BY DEF LockInv
<1>3. /\ waiting' \in Seq(Workers \cup {Closer}) /\ NoRepeats(waiting')
      /\ \A y : In(waiting', y) <=> In(waiting, y) \/ y = w
      /\ waiting # <<>> => waiting' # <<>> /\ Head(waiting') = Head(waiting)
  BY <1>2, AppendFacts DEF TypeOK, LockInv
<1>4. TypeOK'
  BY <1>1, <1>3 DEF TypeOK, Pcs, NoRepeats
<1>5. LockInv'
  BY <1>1, <1>3, ClientHandleAssumption, ZenonT(30), SMTT(60) DEF LockInv, Holds
<1>6. DialInv'
  BY <1>1, DialersStay
<1>7. \A c \in client : status[c] # "dialing"
  BY DEF DialInv
<1>8. ConnInv'
  BY <1>1, <1>7 DEF ConnInv
<1> QED BY <1>4, <1>5, <1>6, <1>8

(* Releasing the lock, which was not held to dial. *)
LEMMA UnlockKeepsIInv ==
  ASSUME IInv, NEW w \in Workers, NEW pc \in {"idle", "use"}, NEW client \in SUBSET Conns,
         Holds(w), worker[w].pc \in {"client", "invalidate"}, Set(w, pc, client), Unlock,
         \/ UNCHANGED <<status, connected>>
         \/ status' = Closed(connected) /\ connected' = {},
         UNCHANGED <<closed, updater, closer>>
  PROVE  IInv'
<1> USE DEF IInv
<1>1. /\ worker' \in [Workers -> [pc : Pcs, client : SUBSET Conns]]
      /\ worker'[w].pc = pc /\ worker'[w].client = client
      /\ \A v \in Workers \ {w} : worker'[v] = worker[v]
  BY SetFacts DEF Pcs
<1>2. /\ waiting' \in Seq(Workers \cup {Closer}) /\ NoRepeats(waiting')
      /\ \A y : In(waiting', y) <=> In(waiting, y) /\ y # w
  BY TailFacts DEF Unlock, Holds, TypeOK, LockInv
<1>3. /\ \A v \in Workers : worker[v].pc # "dialing"
      /\ \A c \in Conns : status[c] # "dialing"
  BY NobodyDials
<1>4. \A v \in Workers : worker'[v].pc # "dialing"
  BY <1>1, <1>3
<1>5. /\ status' \in [Conns -> Statuses]
      /\ \A c \in Conns : status'[c] = status[c] \/ (c \in connected /\ status'[c] = "closed")
  <2>1. CASE UNCHANGED <<status, connected>>
    BY <2>1 DEF TypeOK, Statuses
  <2>2. CASE status' = Closed(connected)
    BY <2>2, ClosedFacts
  <2> QED BY <2>1, <2>2
<1>6. TypeOK'
  BY <1>1, <1>2, <1>5, ZenonT(30), SMTT(60) DEF TypeOK, Pcs, Statuses, NoRepeats
<1>7. LockInv'
  BY <1>1, <1>2, <1>4, ClientHandleAssumption, ZenonT(30), SMTT(60) DEF LockInv
<1>8. DialInv'
  BY <1>3, <1>4, <1>5, ZenonT(30), SMTT(60) DEF DialInv
<1>9. ConnInv'
  <2>1. CASE UNCHANGED <<status, connected>>
    BY <1>1, <2>1 DEF ConnInv
  <2>2. CASE status' = Closed(connected) /\ connected' = {}
    <3>1. \A c \in Conns : status'[c] # "live"
      BY <2>2 DEF ConnInv, Closed, TypeOK
    <3>2. \A c \in Conns : status'[c] # "dialing"
      BY <1>3, <1>5
    <3>3. \A v \in Workers : worker'[v].client \subseteq Conns
      BY <1>1
    <3> QED BY <3>1, <3>2, <3>3, <2>2 DEF ConnInv
  <2> QED BY <2>1, <2>2
<1> QED BY <1>6, <1>7, <1>8, <1>9, ZenonT(30), SMTT(60)

LEMMA DialKeepsIInv ==
  ASSUME IInv, NEW w \in Workers, NEW n \in Conns, Dial(w, n)
  PROVE  IInv'
<1> USE DEF IInv
<1>1. /\ worker' \in [Workers -> [pc : Pcs, client : SUBSET Conns]]
      /\ worker'[w].pc = "dialing" /\ worker'[w].client = {n}
      /\ \A v \in Workers \ {w} : worker'[v] = worker[v]
  BY SetFacts DEF Dial, Pcs
<1>2. /\ \A v \in Workers : worker[v].pc # "dialing"
      /\ \A c \in Conns : status[c] # "dialing"
  BY NobodyDials DEF Dial
<1>3. /\ status' \in [Conns -> Statuses]
      /\ \A c \in Conns : status'[c] = IF c = n THEN "dialing"
                                       ELSE IF c \in connected THEN "closed" ELSE status[c]
  BY ClosedFacts DEF Dial, Statuses
<1>4. \A v \in Workers : n \notin worker[v].client
  BY DEF Dial, Unreferenced
<1>5. TypeOK'
  BY <1>1, <1>3 DEF Dial, TypeOK, Pcs, Statuses
<1>6. LockInv'
  BY <1>1, <1>2, ZenonT(30), SMTT(60) DEF Dial, LockInv, Holds
<1>7. DialInv'
  <2>1. \A v \in Workers : worker'[v].pc = "dialing" => v = w
    BY <1>1, <1>2
  <2>2. \A v \in Workers : v # w => n \notin worker'[v].client
    BY <1>1, <1>4
  <2>3. \A c \in Conns : status'[c] = "dialing" => c = n
    BY <1>2, <1>3
  <2>4. connected' = {} /\ ~closed'
    BY DEF Dial
  <2> QED BY <2>1, <2>2, <2>3, <2>4, <1>1, <1>3 DEF DialInv
<1>8. ConnInv'
  <2>1. \A c \in Conns : status'[c] # "live"
    BY <1>3 DEF ConnInv
  <2>2. \A v \in Workers : worker'[v].pc = "invalidate" => v # w /\ worker'[v] = worker[v]
    BY <1>1
  <2>3. \A v \in Workers : worker'[v].pc = "invalidate" =>
          \A c \in worker'[v].client : c \in Conns /\ c # n
    BY <2>2, <1>1, <1>4
  <2>4. \A v \in Workers : worker'[v].pc = "invalidate" =>
          \A c \in worker'[v].client : status'[c] \notin {"live", "dialing"}
    BY <2>1, <2>3, <1>2, <1>3
  <2>5. connected' = {}
    BY DEF Dial
  <2> QED BY <2>1, <2>4, <2>5 DEF ConnInv
<1> QED BY <1>5, <1>6, <1>7, <1>8, ZenonT(30), SMTT(60)

(* A dial ends: with the connection in connected and in the hands of the   *)
(* worker, or with nothing.                                                *)
LEMMA DialEndsKeepsIInv ==
  ASSUME IInv, NEW w \in Workers, worker[w].pc = "dialing",
         NEW pc \in {"idle", "use", "gone"}, NEW client \in {{}, worker[w].client},
         Set(w, pc, client), waiting' = Without(waiting, w),
         \A c \in Conns : status'[c] = IF c \in worker[w].client
                                      THEN (IF client = {} THEN "closed" ELSE "live") ELSE status[c],
         status' \in [Conns -> Statuses],
         connected' = client, updater' \subseteq Conns,
         UNCHANGED <<closed, closer>>
  PROVE  IInv'
<1> USE DEF IInv
<1>1. PICK n \in Conns : worker[w].client = {n} /\ status[n] = "dialing"
  BY ZenonT(30), SMTT(60) DEF DialInv
<1>2. /\ worker' \in [Workers -> [pc : Pcs, client : SUBSET Conns]]
      /\ worker'[w].pc = pc /\ worker'[w].client = client
      /\ \A v \in Workers \ {w} : worker'[v] = worker[v]
  BY <1>1, SetFacts DEF Pcs
<1>3. /\ waiting' \in Seq(Workers \cup {Closer}) /\ NoRepeats(waiting')
      /\ \A y : In(waiting', y) <=> In(waiting, y) /\ y # w
  BY WithoutFacts, ZenonT(30), SMTT(60) DEF TypeOK, LockInv
<1>4. \A v \in Workers : worker[v].pc = "dialing" => v = w
  BY HolderAlone, ZenonT(30), SMTT(60) DEF LockInv
<1>5. /\ \A v \in Workers : worker'[v].pc # "dialing"
      /\ \A c \in Conns : status[c] = "dialing" => c = n
      /\ \A c \in Conns : status[c] # "live"
      /\ ~closed
  <2>1. connected = {} /\ ~closed
    BY DEF DialInv
  <2>2. \A c \in Conns : status[c] # "live"
    BY <2>1 DEF ConnInv
  <2>3. \A c \in Conns : status[c] = "dialing" => c = n
    BY <1>1, <1>4 DEF DialInv
  <2> QED BY <2>1, <2>2, <2>3, <1>2, <1>4, ZenonT(60)
<1>6. /\ client = {} => status'[n] = "closed"
      /\ client # {} => status'[n] = "live"
      /\ \A c \in Conns : c # n => status'[c] = status[c] /\ status[c] \notin {"live", "dialing"}
  BY <1>1, <1>5, ZenonT(30), SMTT(60)
<1>7. client = {} \/ client = {n}
  BY <1>1, ZenonT(30), SMTT(60)
<1>8. TypeOK'
  BY <1>2, <1>3, <1>7, ZenonT(30), SMTT(60) DEF TypeOK, Pcs, Statuses, NoRepeats
<1>9. LockInv'
  BY <1>2, <1>3, <1>5, ClientHandleAssumption, ZenonT(60) DEF LockInv
<1>10. DialInv'
  BY <1>5, <1>6, SMTT(60) DEF DialInv
<1>11. ConnInv'
  <2>1. \A c \in Conns : status'[c] = "live" => connected' = {c}
    <3>1. \A c \in Conns : status'[c] = "live" => c = n /\ client # {}
      BY <1>6, ZenonT(30), SMTT(60)
    <3> QED BY <3>1, <1>7
  <2>2. connected' = {} \/ (connected' = {n} /\ status'[n] = "live")
    BY <1>6, <1>7, ZenonT(30), SMTT(60)
  <2>3. \A v \in Workers : worker'[v].pc = "invalidate" => v # w /\ worker'[v] = worker[v]
    BY <1>2, ZenonT(30), SMTT(60)
  <2>4. \A v \in Workers : worker'[v].pc = "invalidate" =>
          \A c \in worker'[v].client : c \in Conns /\ c # n
    <3>1. \A v \in Workers : v # w => n \notin worker[v].client
      BY <1>1, ZenonT(30), SMTT(60) DEF DialInv
    <3> QED BY <2>3, <3>1, <1>2, ZenonT(30), SMTT(60)
  <2>5. \A v \in Workers : worker'[v].pc = "invalidate" =>
          \A c \in worker'[v].client : status'[c] \notin {"live", "dialing"}
    BY <2>4, <1>6
  <2> QED BY <2>1, <2>2, <2>5, <1>5, ZenonT(30), SMTT(60) DEF ConnInv
<1> QED BY <1>8, <1>9, <1>10, <1>11, ZenonT(30), SMTT(60)

LEMMA AbortKeepsIInv ==
  ASSUME IInv, NEW w \in Workers, Abort(w), worker[w].pc # "dialing"
  PROVE  IInv'
<1> USE DEF IInv
<1>1. /\ worker' \in [Workers -> [pc : Pcs, client : SUBSET Conns]]
      /\ worker'[w].pc = "gone" /\ worker'[w].client = {}
      /\ \A v \in Workers \ {w} : worker'[v] = worker[v]
  BY SetFacts DEF Abort, Pcs
<1>2. /\ waiting' \in Seq(Workers \cup {Closer}) /\ NoRepeats(waiting')
      /\ \A y : In(waiting', y) <=> In(waiting, y) /\ y # w
      /\ waiting # <<>> /\ Head(waiting) # w => waiting' # <<>> /\ Head(waiting') = Head(waiting)
  BY WithoutFacts DEF Abort, TypeOK, LockInv
<1>3. UNCHANGED <<status, connected, closed, updater, closer>>
  BY DEF Abort
<1>4. TypeOK'
  BY <1>1, <1>2, <1>3, ZenonT(30), SMTT(60) DEF TypeOK, Pcs, NoRepeats
<1>5. LockInv'
  BY <1>1, <1>2, <1>3, ClientHandleAssumption, ZenonT(30), SMTT(60) DEF LockInv, Holds
<1>6. DialInv'
  BY <1>1, <1>3, DialersStay
<1>7. ConnInv'
  BY <1>1, <1>3 DEF ConnInv
<1> QED BY <1>4, <1>5, <1>6, <1>7, ZenonT(30), SMTT(60)

LEMMA OpenedKeepsIInv ==
  ASSUME IInv, NEW w \in Workers, Opened(w)
  PROVE  IInv'
<1> USE DEF IInv
<1>1. /\ worker' \in [Workers -> [pc : Pcs, client : SUBSET Conns]]
      /\ worker'[w].pc = "idle" /\ worker'[w].client = {}
      /\ \A v \in Workers \ {w} : worker'[v] = worker[v]
  BY SetFacts DEF Opened, Pcs
<1>2. UNCHANGED <<status, connected, closed, updater, waiting, closer>> /\ worker[w].pc = "use"
  BY DEF Opened
<1>3. TypeOK'
  BY <1>1, <1>2, ZenonT(30), SMTT(60) DEF TypeOK, Pcs
<1>4. LockInv'
  BY <1>1, <1>2, ZenonT(30), SMTT(60) DEF LockInv, Holds
<1>5. DialInv'
  BY <1>1, <1>2, DialersStay, ZenonT(30), SMTT(60)
<1>6. ConnInv'
  BY <1>1, <1>2 DEF ConnInv
<1> QED BY <1>3, <1>4, <1>5, <1>6, ZenonT(30), SMTT(60)

LEMMA LoseKeepsIInv ==
  ASSUME IInv, NEW c \in Conns, Lose(c)
  PROVE  IInv'
<1> USE DEF IInv
<1>1. /\ status' \in [Conns -> Statuses] /\ status'[c] = "lost" /\ connected = {c}
      /\ \A d \in Conns \ {c} : status'[d] = status[d]
  BY DEF Lose, TypeOK, ConnInv, Statuses
<1>2. UNCHANGED <<connected, closed, updater, waiting, worker, closer>>
  BY DEF Lose
<1>3. TypeOK' /\ LockInv'
  BY <1>1, <1>2 DEF TypeOK, LockInv, Holds, Statuses
<1>4. \A w \in Workers : worker[w].pc # "dialing"
  BY <1>1, ZenonT(60) DEF DialInv
<1>5. DialInv'
  BY <1>1, <1>2, <1>4 DEF DialInv
<1>6. ConnInv'
  BY <1>1, <1>2, Zenon DEF ConnInv, TypeOK
<1> QED BY <1>3, <1>5, <1>6

LEMMA StopKeepsIInv == IInv /\ Stop => IInv'
<1> SUFFICES ASSUME IInv, Stop PROVE IInv'
  BY ZenonT(30), SMTT(60)
<1> USE DEF IInv
<1>1. /\ waiting' \in Seq(Workers \cup {Closer}) /\ NoRepeats(waiting')
      /\ \A y : In(waiting', y) <=> In(waiting, y) \/ y = Closer
      /\ waiting # <<>> => waiting' # <<>> /\ Head(waiting') = Head(waiting)
  BY AppendFacts DEF Stop, TypeOK, LockInv
<1>2. UNCHANGED <<status, connected, closed, updater, worker>> /\ closer' = "closing"
  BY DEF Stop
<1>3. TypeOK'
  BY <1>1, <1>2, ZenonT(30), SMTT(60) DEF TypeOK, NoRepeats
<1>4. LockInv'
  BY <1>1, <1>2, ClientHandleAssumption, ZenonT(30), SMTT(60) DEF LockInv, Holds
<1>5. DialInv' /\ ConnInv'
  BY <1>2, ZenonT(30), SMTT(60) DEF DialInv, ConnInv
<1> QED BY <1>3, <1>4, <1>5

LEMMA CloseKeepsIInv == IInv /\ Close => IInv'
<1> SUFFICES ASSUME IInv, Close PROVE IInv'
  OBVIOUS
<1> USE DEF IInv
<1>1. /\ waiting' \in Seq(Workers \cup {Closer}) /\ NoRepeats(waiting')
      /\ \A y : In(waiting', y) <=> In(waiting, y) /\ y # Closer
  BY TailFacts, ZenonT(30), SMTT(60) DEF Close, Unlock, Holds, TypeOK, LockInv
<1>2. /\ \A v \in Workers : worker[v].pc # "dialing"
      /\ \A c \in Conns : status[c] # "dialing"
  BY NobodyDials, ClientHandleAssumption DEF Close
<1>3. /\ status' \in [Conns -> Statuses]
      /\ \A c \in Conns : status'[c] = IF c \in connected THEN "closed" ELSE status[c]
  BY ClosedFacts DEF Close
<1>4. connected' = {} /\ closed' = TRUE /\ closer' = "done" /\ UNCHANGED <<updater, worker>>
  BY DEF Close
<1>5. \A c \in Conns : status'[c] \notin {"live", "dialing"}
  BY <1>2, <1>3, ZenonT(30), SMTT(60) DEF ConnInv
<1>6. TypeOK'
  <2>1. closed' \in BOOLEAN
    BY <1>4, ZenonT(60)
  <2> QED BY <1>1, <1>3, <1>4, <2>1 DEF TypeOK, Statuses, NoRepeats
<1>7. LockInv'
  BY <1>1, <1>2, <1>4, ClientHandleAssumption, ZenonT(30), SMTT(60) DEF LockInv
<1>8. DialInv'
  BY <1>2, <1>4, <1>5, ZenonT(30), SMTT(60) DEF DialInv
<1>9. ConnInv'
  BY <1>4, <1>5, ZenonT(30), SMTT(60) DEF ConnInv, TypeOK
<1> QED BY <1>6, <1>7, <1>8, <1>9

LEMMA NextKeepsIInv == IInv /\ [Next]_vars => IInv'
<1> SUFFICES ASSUME IInv, [Next]_vars PROVE IInv'
  OBVIOUS
<1> USE DEF IInv
<1>1. CASE UNCHANGED vars
  BY <1>1, ZenonT(60) DEF vars, TypeOK, LockInv, DialInv, ConnInv, Holds
<1>2. ASSUME NEW w \in Workers, Request(w) PROVE IInv'
  BY <1>2, JoinKeepsIInv, SMTT(60) DEF Request
<1>3. ASSUME NEW w \in Workers, Refuse(w) PROVE IInv'
  BY <1>3, UnlockKeepsIInv, SMTT(60) DEF Refuse
<1>4. ASSUME NEW w \in Workers, Share(w) PROVE IInv'
  BY <1>4, UnlockKeepsIInv DEF Share, TypeOK
<1>5. ASSUME NEW w \in Workers, NEW n \in Conns, Dial(w, n) PROVE IInv'
  BY <1>5, DialKeepsIInv, ZenonT(30), SMTT(60)
<1>6. ASSUME NEW w \in Workers, DialSucceeds(w) PROVE IInv'
  <2>1. worker[w].client # {} /\ worker[w].client \subseteq Conns
    BY <1>6, SMTT(60) DEF DialSucceeds, DialInv
  <2>2. /\ status' \in [Conns -> Statuses]
        /\ \A c \in Conns : status'[c] = IF c \in worker[w].client THEN "live" ELSE status[c]
    BY <1>6 DEF DialSucceeds, TypeOK, Statuses
  <2>3. updater' \subseteq Conns
    BY <1>6, <2>1, ZenonT(60) DEF DialSucceeds, TypeOK
  <2> QED BY <1>6, <2>1, <2>2, <2>3, DialEndsKeepsIInv, ZenonT(30), SMTT(60) DEF DialSucceeds
<1>7. ASSUME NEW w \in Workers, worker[w].pc = "dialing", DialFails(w) \/ Abort(w) PROVE IInv'
  <2>1. /\ status' \in [Conns -> Statuses]
        /\ \A c \in Conns : status'[c] = IF c \in worker[w].client THEN "closed" ELSE status[c]
    BY <1>7, ClosedFacts, SMTT(60) DEF DialFails, Abort
  <2>2. connected' = {} /\ updater' \subseteq Conns
    BY <1>7 DEF DialFails, Abort, DialInv, TypeOK
  <2> QED BY <1>7, <2>1, <2>2, DialEndsKeepsIInv, ZenonT(30), SMTT(60) DEF DialFails, Abort
<1>8. ASSUME NEW w \in Workers, DialFails(w) \/ Abort(w) PROVE IInv'
  BY <1>7, <1>8, AbortKeepsIInv, Zenon DEF DialFails
<1>9. ASSUME NEW w \in Workers, Opened(w) PROVE IInv'
  BY <1>9, OpenedKeepsIInv, ZenonT(30), SMTT(60)
<1>10. ASSUME NEW w \in Workers, Failed(w) PROVE IInv'
  BY <1>10, JoinKeepsIInv, ZenonT(30), SMTT(60) DEF Failed, TypeOK
<1>11. ASSUME NEW w \in Workers, Invalidate(w) PROVE IInv'
  <2>1. /\ Holds(w) /\ worker[w].pc \in {"client", "invalidate"} /\ Set(w, "idle", {}) /\ Unlock
        /\ UNCHANGED <<closed, updater, closer>>
        /\ \/ UNCHANGED <<status, connected>>
           \/ status' = Closed(connected) /\ connected' = {}
    BY <1>11, ZenonT(30) DEF Invalidate
  <2>2. "idle" \in {"idle", "use"} /\ {} \in SUBSET Conns
    OBVIOUS
  <2> QED BY <2>1, <2>2, UnlockKeepsIInv, ZenonT(30)
<1>12. ASSUME NEW c \in Conns, Lose(c) PROVE IInv'
  BY <1>12, LoseKeepsIInv
<1>13. CASE Stop
  BY <1>13, StopKeepsIInv
<1>14. CASE Close
  BY <1>14, CloseKeepsIInv
<1> QED BY <1>1, <1>2, <1>3, <1>4, <1>5, <1>6, <1>8, <1>9, <1>10, <1>11, <1>12, <1>13, <1>14, ZenonT(30), SMTT(60)
     DEF Next, Work

-----------------------------------------------------------------------------
LEMMA IInvImpliesRules == IInv => ConnectionRules
<1> SUFFICES ASSUME IInv PROVE ConnectionRules
  OBVIOUS
<1> USE DEF IInv
<1> DEFINE busy == {c \in Conns : status[c] \in {"dialing", "live"}}
<1>1. \A c, d \in busy : c = d
  <2> SUFFICES ASSUME NEW c \in busy, NEW d \in busy PROVE c = d
    OBVIOUS
  <2>1. CASE status[c] = "live" /\ status[d] = "live"
    BY <2>1 DEF ConnInv
  <2>2. CASE status[c] = "dialing" /\ status[d] = "dialing"
    <3>1. PICK w \in Workers : worker[w].pc = "dialing" /\ worker[w].client = {c}
      BY <2>2, ZenonT(30), SMTT(60) DEF DialInv
    <3>2. PICK v \in Workers : worker[v].pc = "dialing" /\ worker[v].client = {d}
      BY <2>2, ZenonT(30), SMTT(60) DEF DialInv
    <3>3. v = w
      BY <3>1, <3>2, HolderAlone, ZenonT(30) DEF LockInv
    <3> QED BY <3>1, <3>2, <3>3, ZenonT(30), SMTT(60)
  <2>3. ASSUME NEW x \in Conns, NEW y \in Conns, status[x] = "live", status[y] = "dialing" PROVE FALSE
    BY <2>3, ZenonT(60) DEF ConnInv, DialInv
  <2> QED BY <2>1, <2>2, <2>3
<1>3. OneConnection
  BY <1>1 DEF OneConnection, ConnInv
<1>4. ClosedForGood
  <2> SUFFICES ASSUME closed PROVE connected = {} /\ \A c \in Conns : status[c] \in {"lost", "closed"}
    BY DEF ClosedForGood
  <2>1. connected = {}
    BY DEF ConnInv
  <2>2. \A c \in Conns : status[c] # "live"
    BY <2>1, ZenonT(30), SMTT(60) DEF ConnInv
  <2>3. \A c \in Conns : status[c] # "dialing"
    BY DEF DialInv
  <2> QED BY <2>1, <2>2, <2>3 DEF TypeOK
<1> QED BY <1>3, <1>4 DEF ConnectionRules

(* However requests, dials, failures, aborts and the shutdown interleave:  *)
(* at most one connection is being dialed or live, a live one is the one   *)
(* in connected, and after close() there is none (ClientHandle::client,    *)
(* invalidate and close).                                                  *)
THEOREM OneConnectionAtATime == Spec => []ConnectionRules
BY InitIInv, NextKeepsIInv, IInvImpliesRules, PTL DEF Spec

-----------------------------------------------------------------------------
(* The refinement.                                                         *)

LEMMA InitImplements == Init => Abstract!Init
BY DEF Init, Abstract!Init, ConnState

LEMMA QuietStep ==
  ASSUME UNCHANGED <<status, connected, closed>>
  PROVE  UNCHANGED Abstract!vars
<1>1. UNCHANGED ConnState
  BY DEF ConnState
<1> QED BY <1>1, Zenon DEF Abstract!vars

(* Every step of the handle is a step of ReconnectingClient, or changes    *)
(* nothing that it shows.                                                  *)
LEMMA NextImplements == IInv /\ IInv' /\ [Next]_vars => [Abstract!Next]_Abstract!vars
<1> SUFFICES ASSUME IInv, IInv', [Next]_vars PROVE [Abstract!Next]_Abstract!vars
  OBVIOUS
<1> USE DEF IInv
<1>1. ASSUME UNCHANGED <<status, connected, closed>> PROVE UNCHANGED Abstract!vars
  BY <1>1, QuietStep, ZenonT(30), SMTT(60)
<1>2. ASSUME NEW w \in Workers,
             Request(w) \/ Refuse(w) \/ Share(w) \/ Opened(w) \/ Failed(w)
      PROVE  UNCHANGED Abstract!vars
  BY <1>1, <1>2 DEF Request, Refuse, Share, Opened, Failed
<1>3. ASSUME NEW w \in Workers, NEW n \in Conns, Dial(w, n) PROVE Abstract!Dial
  <2>1. \A c \in Conns : status[c] # "dialing"
    BY <1>3, NobodyDials, ZenonT(60) DEF Dial
  <2>2. ConnState \in {"none", "lost"}
    BY <1>3, <2>1, ZenonT(30), SMTT(60) DEF Dial, ConnState
  <2>3. status'[n] = "dialing"
    BY <1>3, ClosedFacts DEF Dial
  <2>4. ConnState' = "dialing"
    BY <2>3 DEF ConnState
  <2>5. ~closed /\ UNCHANGED ~closed
    BY <1>3, ZenonT(60) DEF Dial
  <2> QED BY <2>2, <2>4, <2>5, Zenon DEF Abstract!Dial
<1>4. ASSUME NEW w \in Workers, worker[w].pc = "dialing" PROVE ConnState = "dialing" /\ connected = {}
  BY <1>4 DEF DialInv, ConnState
<1>5. ASSUME NEW w \in Workers, DialSucceeds(w) PROVE Abstract!DialSucceeds
  <2>1. PICK n \in Conns : worker[w].client = {n}
    BY <1>5, ZenonT(30) DEF DialSucceeds, DialInv
  <2>2. status'[n] = "live" /\ connected' = {n}
    BY <1>5, <2>1, ZenonT(60) DEF DialSucceeds
  <2>3. \A c \in Conns : status'[c] # "dialing"
    BY <2>2 DEF DialInv
  <2>4. ConnState' = "live"
    BY <2>2, <2>3 DEF ConnState
  <2>5. UNCHANGED ~closed
    BY <1>5, ZenonT(60) DEF DialSucceeds
  <2>6. ConnState = "dialing"
    BY <1>4, <1>5 DEF DialSucceeds
  <2> QED BY <2>4, <2>5, <2>6, Zenon DEF Abstract!DialSucceeds
<1>6. ASSUME NEW w \in Workers, worker[w].pc = "dialing", DialFails(w) \/ Abort(w)
      PROVE  Abstract!DialFails
  <2>1. connected' = {} /\ UNCHANGED closed
    BY <1>4, <1>6 DEF DialFails, Abort
  <2>2. \A v \in Workers : worker'[v].pc # "dialing"
    <3>1. /\ worker'[w].pc # "dialing"
          /\ \A v \in Workers \ {w} : worker'[v] = worker[v]
      <4>1. /\ worker = [v \in Workers |-> worker[v]]
            /\ \E pc \in {"idle", "gone"} : worker' = [worker EXCEPT ![w] = [pc |-> pc, client |-> {}]]
        BY <1>6, ZenonT(30) DEF DialFails, Abort, Set, TypeOK
      <4>2. PICK pc \in {"idle", "gone"} : worker' = [worker EXCEPT ![w] = [pc |-> pc, client |-> {}]]
        BY <4>1, Zenon
      <4>3. worker'[w] = [pc |-> pc, client |-> {}] /\ \A v \in Workers \ {w} : worker'[v] = worker[v]
        BY <4>1, <4>2, ZenonT(60)
      <4>4. worker'[w].pc = pc /\ pc # "dialing"
        BY <4>3
      <4> QED BY <4>3, <4>4, Zenon
    <3>2. \A v \in Workers : worker[v].pc = "dialing" => v = w
      BY <1>6, HolderAlone, ZenonT(30) DEF LockInv
    <3> QED BY <3>1, <3>2, ZenonT(30)
  <2>3. ConnState' = "none"
    BY <2>1, <2>2, Zenon DEF ConnState, DialInv
  <2>4. UNCHANGED ~closed
    BY <2>1, Zenon
  <2> QED BY <1>4, <1>6, <2>3, <2>4, ZenonT(60) DEF Abstract!DialFails
<1>7. ASSUME NEW w \in Workers, DialFails(w) \/ Abort(w)
      PROVE  Abstract!DialFails \/ UNCHANGED Abstract!vars
  BY <1>1, <1>6, <1>7, ZenonT(60) DEF DialFails, Abort
<1>8. ASSUME NEW w \in Workers, Invalidate(w) PROVE Abstract!Discard \/ UNCHANGED Abstract!vars
  <2>1. UNCHANGED closed
    BY <1>8, ZenonT(30), SMTT(60) DEF Invalidate
  <2>2. \A c \in Conns : status[c] # "dialing"
    BY <1>8, NobodyDials DEF Invalidate
  <2>3. CASE connected = worker[w].client /\ connected # {}
    <3>1. connected' = {} /\ status' = Closed(connected)
      BY <1>8, <2>3, ZenonT(30), SMTT(60) DEF Invalidate
    <3>2. \A c \in connected : status[c] # "live"
      BY <1>8, <2>3, ZenonT(30), SMTT(60) DEF Invalidate, ConnInv
    <3>3. ConnState = "lost"
      BY <2>2, <2>3, <3>2, ZenonT(30), SMTT(60) DEF ConnState
    <3>4. \A c \in Conns : status'[c] # "dialing"
      BY <2>2, <3>1, ClosedFacts
    <3>5. ConnState' = "none"
      BY <3>1, <3>4 DEF ConnState
    <3>6. UNCHANGED ~closed
      BY <2>1, Zenon
    <3> QED BY <3>3, <3>5, <3>6, ZenonT(60) DEF Abstract!Discard
  <2>4. CASE connected = {}
    <3>1. UNCHANGED <<status, connected>>
      <4>1. Closed({}) = status
        BY ZenonT(30), SMTT(60) DEF Closed, TypeOK
      <4> QED BY <1>8, <2>4, <4>1, ZenonT(30), SMTT(60) DEF Invalidate
    <3> QED BY <1>1, <2>1, <3>1, ZenonT(30), SMTT(60)
  <2>5. CASE connected # worker[w].client
    BY <1>1, <1>8, <2>5 DEF Invalidate
  <2> QED BY <2>3, <2>4, <2>5, ZenonT(30), SMTT(60)
<1>9. ASSUME NEW c \in Conns, Lose(c) PROVE Abstract!Lose
  <2>1. connected = {c} /\ connected' = {c} /\ status[c] = "live" /\ status'[c] = "lost"
    BY <1>9, ZenonT(30), SMTT(60) DEF Lose, ConnInv, TypeOK
  <2>2. \A w \in Workers : worker[w].pc # "dialing" /\ worker'[w].pc # "dialing"
    BY <1>9, <2>1, ZenonT(30), SMTT(60) DEF Lose, DialInv
  <2>3. \A d \in Conns : status[d] # "dialing" /\ status'[d] # "dialing"
    BY <2>2, ZenonT(30), SMTT(60) DEF DialInv
  <2>4. ConnState = "live" /\ ConnState' = "lost"
    BY <2>1, <2>3 DEF ConnState
  <2>5. UNCHANGED ~closed
    BY <1>9, Zenon DEF Lose
  <2> QED BY <2>4, <2>5, ZenonT(60) DEF Abstract!Lose
<1>10. CASE Stop
  BY <1>1, <1>10 DEF Stop
<1>11. ASSUME Close PROVE Abstract!Shutdown
  <2>1. \A c \in Conns : status[c] # "dialing"
    BY <1>11, NobodyDials, ClientHandleAssumption, ZenonT(30), SMTT(60) DEF Close
  <2>2. \A c \in Conns : status'[c] # "dialing"
    BY <1>11, <2>1, ClosedFacts, SMTT(60) DEF Close
  <2>3. ConnState # "dialing" /\ ConnState' = "none"
    BY <1>11, <2>1, <2>2 DEF Close, ConnState
  <2>4. (~closed)' = FALSE
    BY <1>11, Zenon DEF Close
  <2> QED BY <2>3, <2>4, ZenonT(60) DEF Abstract!Shutdown
<1>12. CASE UNCHANGED vars
  BY <1>1, <1>12 DEF vars
<1> QED BY <1>2, <1>3, <1>5, <1>7, <1>8, <1>9, <1>10, <1>11, <1>12, ZenonT(30), SMTT(60)
     DEF Next, Work, Abstract!Next

(* ClientHandle implements ReconnectingClient: it dials only when the last *)
(* connection is gone, takes none away that works except to shut down, and *)
(* a worker that comes late to invalidate its dead connection leaves the   *)
(* one that replaced it alone.                                             *)
THEOREM HandleReconnects == Spec => ImplementsReconnecting
BY InitIInv, NextKeepsIInv, InitImplements, NextImplements, PTL
   DEF Spec, ImplementsReconnecting, Abstract!Spec

-----------------------------------------------------------------------------
(* Startup.  What validation accepted stays accepted while the ACL file is *)
(* not edited, and nothing is started before it.                           *)

Steps == {"challenges", "acquire", "tls", "ech", "quic", "auth", "outbounds", "acl", "hook",
          "masquerade", "stats", "transport", "frontends"}
ClientSteps == {"resolve", "rendezvous", "clientTls", "clientQuic", "socket", "connect"}

StartInv ==
  /\ role = "server" /\ progress \in Steps => edited \/ ServerValid(config, AclText)
  /\ role = "client" /\ progress \in ClientSteps => ClientValid(config)
  /\ progress \in {"validate", "resolve"} => acts = {}
  /\ progress = "acl" => config.acl.source # "none"
  /\ progress # "ended" => outcome = {}
  /\ ValidatedNeverPanics /\ FaultsFoundEarly

(* What the later steps check again. *)
LEMMA ValidServer ==
  ASSUME NEW c, NEW text, ServerValid(c, text)
  PROVE  /\ CongestionValid(c.congestion) /\ BandwidthValid(c.bandwidth) /\ ObfsValid(c.obfs)
         /\ c.auth.kind \in {"password", "userpass", "http", "command"}
         /\ MasqueradeBuilds(c.masquerade) /\ OutboundsValid(c, text)
         /\ c.sniff.enable => SniffValid(c.sniff)
<1>1. /\ CongestionValid(c.congestion) /\ BandwidthValid(c.bandwidth) /\ ObfsValid(c.obfs)
      /\ AuthValid(c.auth) /\ MasqueradeValid(c.masquerade) /\ OutboundsValid(c, text)
      /\ c.sniff.enable => SniffValid(c.sniff)
  BY ZenonT(60) DEF ServerValid
<1>2. c.auth.kind \in {"password", "userpass", "http", "command"}
  BY <1>1 DEF AuthValid
<1>3. MasqueradeBuilds(c.masquerade)
  <2> DEFINE m == c.masquerade
  <2>1. m.kind \in {"404", "file", "proxy", "string"} /\ (m.kind = "proxy" => m.url)
    BY <1>1, ZenonT(60) DEF MasqueradeValid
  <2>2. m.kind = "string" => m.headers /\ m.status \in {0} \union 200..599
    BY <1>1, ZenonT(60) DEF MasqueradeValid, Unset
  <2> HIDE DEF m
  <2>3. m.kind = "string" => m.status = 0 \/ m.status \in 100..999
    BY <2>2, SMTT(60)
  <2>4. MasqueradeBuilds(m)
    BY <2>1, <2>2, <2>3 DEF MasqueradeBuilds, Unset
  <2> QED BY <2>4, ZenonT(30), SMTT(60) DEF m
<1> QED BY <1>1, <1>2, <1>3, ZenonT(30)

LEMMA ValidClient ==
  ASSUME NEW c, ClientValid(c)
  PROVE  ObfsValid(c.obfs) /\ HopValid(c.hop)
BY ZenonT(60) DEF ClientValid, ConnectionValid

(* A valid ACL whose codes are known is built: parse_acl finds what        *)
(* validate_acl looked for.                                                *)
LEMMA ValidAclBuilds ==
  ASSUME OutboundsValid(config, AclText), config.acl.source # "none",
         \A i \in DOMAIN AclText : CodeKnown(AclText[i])
  PROVE  ParseAcl(AclText) = "built"
<1> DEFINE lines == AclText
           names == Names(config.outbounds) \union BuiltIn
           faulty == {i \in DOMAIN lines : \/ lines[i].outbound \notin names
                                           \/ ~LineValid(lines[i], {lines[i].outbound})
                                           \/ ~CodeKnown(lines[i])}
<1>1. /\ \A i \in DOMAIN lines : LineValid(lines[i], names)
      /\ \A i \in DOMAIN lines : CodeKnown(lines[i])
  BY Zenon DEF OutboundsValid, RoutesValid, AclValid
<1> HIDE DEF lines, names
<1>2. \A i \in DOMAIN lines : lines[i].syntax /\ lines[i].outbound \in names
  BY <1>1 DEF LineValid
<1>3. \A i \in DOMAIN lines : LineValid(lines[i], {lines[i].outbound})
  BY <1>1 DEF LineValid
<1>4. faulty = {}
  BY <1>1, <1>2, <1>3
<1>5. ~ \E i \in DOMAIN lines : ~lines[i].syntax
  BY <1>2
<1>6. ParseAcl(lines) = "built"
  BY <1>4, <1>5, Zenon DEF ParseAcl, names
<1> QED BY <1>6 DEF lines

(* Whatever its codes, a valid ACL names no outbound there is not. *)
LEMMA ValidAclNoPanic ==
  ASSUME OutboundsValid(config, AclText), config.acl.source # "none"
  PROVE  ParseAcl(AclText) # "panic"
<1> DEFINE lines == AclText
           names == Names(config.outbounds) \union BuiltIn
           faulty == {i \in DOMAIN lines : \/ lines[i].outbound \notin names
                                           \/ ~LineValid(lines[i], {lines[i].outbound})
                                           \/ ~CodeKnown(lines[i])}
<1>1. \A i \in DOMAIN lines : lines[i].outbound \in names
  BY Zenon DEF OutboundsValid, RoutesValid, AclValid, LineValid
<1> HIDE DEF lines, names
<1>2. ~ \E i \in faulty : lines[i].outbound \notin names
  BY <1>1, ZenonT(60)
<1>3. ParseAcl(lines) # "panic"
  BY <1>2, ZenonT(60) DEF ParseAcl, names
<1> QED BY <1>3 DEF lines

(* A program that goes on keeps what validation accepted. *)
LEMMA GoKeeps ==
  ASSUME StartInv, NEW next, progress # "ended", progress' = next, next # "ended",
         UNCHANGED <<role, config, aclFile, edited, outcome>>,
         next \in Steps => progress \in Steps \/ ServerValid(config, AclText),
         next \in ClientSteps => progress \in ClientSteps \/ ClientValid(config),
         next \in {"validate", "resolve"} => acts' = {},
         next = "acl" => config.acl.source # "none"
  PROVE  StartInv'
<1>1. outcome = {}
  BY DEF StartInv
<1>2. ServerValid(config, AclText)' = ServerValid(config, AclText)
  <2>1. AclText' = AclText
    BY ZenonT(30), SMTT(60) DEF AclText
  <2> QED BY <2>1
<1>3. role' = "server" /\ progress' \in Steps => edited' \/ ServerValid(config, AclText)'
  BY <1>2, ZenonT(30), SMTT(60) DEF StartInv
<1>4. role' = "client" /\ progress' \in ClientSteps => ClientValid(config)'
  BY DEF StartInv
<1>5. ValidatedNeverPanics' /\ FaultsFoundEarly'
  BY <1>1, ZenonT(60) DEF ValidatedNeverPanics, FaultsFoundEarly
<1> QED BY <1>1, <1>3, <1>4, <1>5, ZenonT(30), SMTT(60) DEF StartInv

(* A program may end for its configuration only before it has done         *)
(* anything, or for what validation leaves out.                            *)
Excused == IF role = "server" THEN edited \/ ServerUnread ELSE ClientUnread

LEMMA EndKeeps ==
  ASSUME StartInv, NEW why, End(why),
         why = "panic" => edited, why = "config" => acts = {} \/ Excused
  PROVE  StartInv'
<1>1. progress' = "ended" /\ outcome' = {why} /\ UNCHANGED <<role, config, aclFile, edited, acts>>
  BY DEF End
<1>2. ValidatedNeverPanics'
  BY <1>1 DEF ValidatedNeverPanics
<1>3. FaultsFoundEarly'
  <2>1. Excused' = Excused
    BY <1>1 DEF Excused, ServerUnread, ClientUnread, AclText
  <2>2. CASE why = "config"
    BY <1>1, <2>1, <2>2, Zenon DEF FaultsFoundEarly, Excused
  <2>3. CASE why # "config"
    BY <1>1, <2>3, ZenonT(30), SMTT(60) DEF FaultsFoundEarly
  <2> QED BY <2>2, <2>3, ZenonT(30), SMTT(60)
<1> QED BY <1>1, <1>2, <1>3 DEF StartInv, Steps, ClientSteps

LEMMA EditAclKeeps ==
  ASSUME StartInv, EditAcl
  PROVE  StartInv'
<1>1. edited' = TRUE /\ role = "server" /\ UNCHANGED <<role, config, progress, outcome, acts>>
  BY DEF EditAcl
<1>2. ValidatedNeverPanics' /\ FaultsFoundEarly'
  BY <1>1, ZenonT(60) DEF ValidatedNeverPanics, FaultsFoundEarly
<1> QED BY <1>1, <1>2 DEF StartInv

LEMMA InitStart == StartInit => StartInv
BY ZenonT(30), SMTT(60) DEF StartInit, StartInv, Steps, ClientSteps, ValidatedNeverPanics, FaultsFoundEarly

-----------------------------------------------------------------------------
(* The server's steps. *)

LEMMA ServerOn ==
  ASSUME StartInv, role = "server", progress \in Steps, NEW next \in Steps \union {"running"},
         progress' = next, UNCHANGED <<role, config, aclFile, edited, outcome>>,
         next = "acl" => config.acl.source # "none"
  PROVE  StartInv'
<1>1. /\ progress # "ended" /\ next # "ended" /\ next \notin ClientSteps
      /\ next \notin {"validate", "resolve"}
  BY DEF Steps, ClientSteps
<1> QED BY <1>1, GoKeeps

LEMMA WorldEnds ==
  ASSUME StartInv, End("world") \/ End("stopped")
  PROVE  StartInv'
BY EndKeeps

LEMMA ValidateServerKeeps ==
  ASSUME StartInv, ValidateServer
  PROVE  StartInv'
<1>1. progress = "validate" /\ acts = {}
  BY ZenonT(30), SMTT(60) DEF StartInv, ValidateServer, At
<1>2. ASSUME ServerValid(config, AclText), Go(IF config.acme = {} THEN "tls" ELSE "challenges")
      PROVE  StartInv'
  <2> DEFINE next == IF config.acme = {} THEN "tls" ELSE "challenges"
  <2>1. next \in {"tls", "challenges"}
    BY ZenonT(30), SMTT(60)
  <2>2. progress' = next /\ UNCHANGED <<role, config, aclFile, edited, outcome, acts>>
    BY <1>2 DEF Go
  <2> HIDE DEF next
  <2>3. next \notin {"ended", "acl", "validate", "resolve"} /\ next \notin ClientSteps
    BY <2>1 DEF ClientSteps
  <2> QED BY <1>1, <1>2, <2>2, <2>3, GoKeeps
<1>3. CASE End("config")
  BY <1>1, <1>3, EndKeeps
<1>4. CASE AclUnreadable
  BY <1>4, WorldEnds DEF AclUnreadable
<1> QED BY <1>2, <1>3, <1>4, ZenonT(30), SMTT(60) DEF ValidateServer

(* The steps that validation has nothing to say of, or no more than that   *)
(* it does not read the addresses they use.                                *)
LEMMA PlainStepsKeep ==
  ASSUME StartInv, Challenges \/ Acquire \/ ReadTls \/ ReadEch \/ StartStats \/ StartFrontends
  PROVE  StartInv'
<1>1. role = "server" /\ progress \in Steps
  BY DEF Challenges, Acquire, ReadTls, ReadEch, StartStats, StartFrontends, At, Steps
<1>2. ASSUME NEW next \in {"acquire", "ech", "quic", "transport", "running"}, NEW things,
             GoVisibly(next, things) \/ Go(next)
      PROVE  StartInv'
  <2>1. progress' = next /\ UNCHANGED <<role, config, aclFile, edited, outcome>>
    BY <1>2 DEF Go, GoVisibly
  <2>2. next \in Steps \union {"running"}
    BY DEF Steps
  <2> QED BY <1>1, <2>1, <2>2, ServerOn
<1>3. CASE End("world")
  BY <1>3, WorldEnds, ZenonT(30), SMTT(60)
<1>4. CASE Challenges
  BY <1>2, <1>3, <1>4, ZenonT(30), SMTT(60) DEF Challenges
<1>5. CASE Acquire \/ ReadTls \/ ReadEch
  BY <1>2, <1>3, <1>5 DEF Acquire, ReadTls, ReadEch
<1>6. ASSUME config.malformed # {}, End("config")
      PROVE  StartInv'
  <2>1. Excused
    BY <1>1, <1>6, ZenonT(60) DEF Excused, ServerUnread
  <2> QED BY <1>6, <2>1, EndKeeps
<1>7. CASE StartStats
  BY <1>2, <1>3, <1>6, <1>7, ZenonT(30), SMTT(60) DEF StartStats
<1>8. CASE StartFrontends
  BY <1>2, <1>3, <1>6, <1>8 DEF StartFrontends
<1> QED BY <1>4, <1>5, <1>7, <1>8, ZenonT(30), SMTT(60)

(* The steps that check a section again: what validation accepted passes.  *)
LEMMA CheckedStepsKeep ==
  ASSUME StartInv, ServerQuic \/ BuildAuth \/ BuildHook \/ BuildMasquerade \/ StartTransport
  PROVE  StartInv'
<1>1. role = "server" /\ progress \in Steps
  BY DEF ServerQuic, BuildAuth, BuildHook, BuildMasquerade, StartTransport, At, Steps
<1>2. edited \/ ServerValid(config, AclText)
  BY <1>1, ZenonT(60) DEF StartInv
<1>3. edited \/ /\ CongestionValid(config.congestion) /\ BandwidthValid(config.bandwidth)
                /\ ObfsValid(config.obfs)
                /\ config.auth.kind \in {"password", "userpass", "http", "command"}
                /\ MasqueradeBuilds(config.masquerade)
                /\ config.sniff.enable => SniffValid(config.sniff)
  BY <1>2, ValidServer
<1>4. ASSUME NEW next \in {"auth", "outbounds", "masquerade", "stats", "frontends"}, NEW things,
             GoVisibly(next, things) \/ Go(next)
      PROVE  StartInv'
  <2>1. progress' = next /\ UNCHANGED <<role, config, aclFile, edited, outcome>>
    BY <1>4 DEF Go, GoVisibly
  <2>2. next \in Steps
    BY DEF Steps
  <2> QED BY <1>1, <2>1, <2>2, ServerOn
<1>5. ASSUME End("config"), Excused
      PROVE  StartInv'
  BY <1>5, EndKeeps
<1>6. ASSUME edited \/ ~QuicApplies(config.quic) \/ config.server = "other" \/ config.malformed # {}
      PROVE  Excused
  BY <1>1, <1>6, ZenonT(60) DEF Excused, ServerUnread
<1>7. CASE ServerQuic
  BY <1>3, <1>4, <1>5, <1>6, <1>7, ZenonT(30), SMTT(60) DEF ServerQuic
<1>8. CASE BuildAuth
  BY <1>3, <1>4, <1>5, <1>6, <1>8, ZenonT(30), SMTT(60) DEF BuildAuth
<1>9. CASE BuildHook
  BY <1>3, <1>4, <1>5, <1>6, <1>9, ZenonT(30) DEF BuildHook
<1>10. CASE BuildMasquerade
  BY <1>3, <1>4, <1>5, <1>6, <1>10, ZenonT(60) DEF BuildMasquerade
<1>11. CASE StartTransport
  BY <1>3, <1>4, <1>5, <1>6, <1>11, WorldEnds, ZenonT(30), SMTT(60) DEF StartTransport
<1> QED BY <1>7, <1>8, <1>9, <1>10, <1>11, ZenonT(30), SMTT(60)

(* What outbound::validate accepts, build_backend knows. *)
LEMMA BuildOutboundsKeeps ==
  ASSUME StartInv, BuildOutbounds
  PROVE  StartInv'
<1> DEFINE used == IF config.acl.source = "none"
                   THEN {i \in DOMAIN config.outbounds : i = 1} ELSE DOMAIN config.outbounds
           known(o) == /\ o.kind \in {"direct", "socks5", "http"}
                       /\ o.kind = "direct" => o.mode \in {"auto", "64", "46", "6", "4"}
           next == IF config.acl.source = "none" THEN "hook" ELSE "acl"
<1>1. role = "server" /\ progress \in Steps
  BY ZenonT(60) DEF BuildOutbounds, At, Steps
<1>2. edited \/ OutboundsValid(config, AclText)
  BY <1>1, ValidServer DEF StartInv
<1>3. CASE ~OutboundsValid(config, AclText) /\ End("config")
  <2>1. edited
    BY <1>2, <1>3
  <2>2. Excused
    BY <1>1, <2>1, ZenonT(30) DEF Excused
  <2> QED BY <1>3, <2>2, EndKeeps
<1>4. ASSUME OutboundsValid(config, AclText) PROVE \A i \in used : known(config.outbounds[i])
  BY <1>4, ZenonT(60) DEF OutboundsValid, OutboundValid
<1>5. next \in Steps /\ (next = "acl" => config.acl.source # "none")
  BY DEF Steps
<1>6. ASSUME Go(next) PROVE StartInv'
  <2>1. progress' = next /\ UNCHANGED <<role, config, aclFile, edited, outcome>>
    BY <1>6 DEF Go
  <2> HIDE DEF next
  <2> QED BY <1>1, <1>5, <2>1, ServerOn, ZenonT(30), SMTT(60)
<1>7. CASE AclUnreadable
  BY <1>7, WorldEnds DEF AclUnreadable
<1>8. \/ ~OutboundsValid(config, AclText) /\ End("config")
      \/ /\ OutboundsValid(config, AclText)
         /\ IF \A i \in used : known(config.outbounds[i]) THEN Go(next) ELSE End("panic")
      \/ AclUnreadable
  BY Zenon DEF BuildOutbounds
<1> HIDE DEF used, known, next
<1> QED BY <1>3, <1>4, <1>6, <1>7, <1>8

LEMMA BuildAclKeeps ==
  ASSUME StartInv, BuildAcl
  PROVE  StartInv'
<1>1. role = "server" /\ progress \in Steps /\ config.acl.source # "none"
  BY DEF BuildAcl, At, Steps, StartInv
<1>2. CASE ~Duration(config.acl.geoUpdate) /\ End("config")
  <2>1. Excused
    BY <1>1, <1>2, Zenon DEF Excused, ServerUnread
  <2> QED BY <1>2, <2>1, EndKeeps
<1>3. CASE End("world") \/ AclUnreadable
  BY <1>3, WorldEnds DEF AclUnreadable
<1>4. ASSUME Go("hook") PROVE StartInv'
  <2>1. "hook" \in Steps
    BY DEF Steps
  <2> QED BY <1>1, <1>4, <2>1, ServerOn DEF Go
<1>5. ASSUME ParseAcl(AclText) # "built", End(ParseAcl(AclText)) PROVE StartInv'
  <2> DEFINE known == \A i \in DOMAIN AclText : CodeKnown(AclText[i])
  <2>1. edited \/ OutboundsValid(config, AclText)
    <3>1. edited \/ ServerValid(config, AclText)
      BY <1>1 DEF StartInv
    <3> QED BY <3>1, ValidServer, ZenonT(30), SMTT(60)
  <2>2. edited \/ ~known
    BY <1>1, <1>5, <2>1, ValidAclBuilds
  <2>3. Excused
    BY <1>1, <2>2, Zenon DEF Excused, ServerUnread
  <2>4. ParseAcl(AclText) = "panic" => edited
    <3>1. OutboundsValid(config, AclText) => ParseAcl(AclText) # "panic"
      BY <1>1, ValidAclNoPanic, ZenonT(30), SMTT(60)
    <3> QED BY <2>1, <3>1
  <2> HIDE DEF known
  <2> QED BY <1>5, <2>3, <2>4, EndKeeps, ZenonT(30), SMTT(60)
<1> QED BY <1>2, <1>3, <1>4, <1>5, ZenonT(30), SMTT(60) DEF BuildAcl

-----------------------------------------------------------------------------
(* The client's steps. *)

LEMMA ClientOn ==
  ASSUME StartInv, role = "client", NEW next \in (ClientSteps \ {"resolve"}) \union {"running"},
         progress \in ClientSteps \/ (progress = "validate" /\ ClientValid(config)),
         progress' = next, UNCHANGED <<role, config, aclFile, edited, outcome>>
  PROVE  StartInv'
<1>1. /\ progress # "ended" /\ next \notin {"ended", "acl", "validate", "resolve"}
      /\ next \notin Steps
  BY DEF Steps, ClientSteps
<1> QED BY <1>1, GoKeeps

LEMMA ValidateClientKeeps ==
  ASSUME StartInv, ValidateClient
  PROVE  StartInv'
<1>1. role = "client" /\ progress = "validate" /\ acts = {}
  BY DEF StartInv, ValidateClient, At
<1>2. CASE End("config")
  BY <1>1, <1>2, EndKeeps, ZenonT(30), SMTT(60)
<1>3. CASE ClientValid(config) /\ Go("resolve")
  <2>1. "resolve" \notin Steps /\ acts' = {}
    BY <1>1, <1>3, ZenonT(30), SMTT(60) DEF Steps, Go
  <2> QED BY <1>1, <1>3, <2>1, GoKeeps DEF Go
<1>4. CASE ClientValid(config) /\ GoVisibly("running", config.inbounds)
  BY <1>1, <1>4, ClientOn DEF GoVisibly
<1> QED BY <1>2, <1>3, <1>4, ZenonT(60) DEF ValidateClient

LEMMA ClientStepsKeep ==
  ASSUME StartInv, ResolveTarget \/ Rendezvous \/ ClientTls \/ ClientQuic \/ ClientSocket \/ ClientConnect
  PROVE  StartInv'
<1>1. role = "client" /\ progress \in ClientSteps
  BY ZenonT(30), SMTT(60) DEF ResolveTarget, Rendezvous, ClientTls, ClientQuic, ClientSocket, ClientConnect, At, ClientSteps
<1>2. ObfsValid(config.obfs) /\ HopValid(config.hop)
  BY <1>1, ValidClient DEF StartInv
<1>3. ASSUME NEW next \in {"rendezvous", "clientTls", "clientQuic", "socket", "connect", "running"}, NEW things,
             GoVisibly(next, things) \/ Go(next)
      PROVE  StartInv'
  <2>1. progress' = next /\ UNCHANGED <<role, config, aclFile, edited, outcome>>
    BY <1>3 DEF Go, GoVisibly
  <2>2. next \in (ClientSteps \ {"resolve"}) \union {"running"}
    BY DEF ClientSteps
  <2> QED BY <1>1, <2>1, <2>2, ClientOn, ZenonT(30), SMTT(60)
<1>4. CASE End("world")
  BY <1>4, WorldEnds, ZenonT(30), SMTT(60)
<1>5. CASE ResolveTarget
  <2>1. acts = {}
    BY <1>5 DEF ResolveTarget, At, StartInv
  <2>2. CASE End("config")
    BY <2>1, <2>2, EndKeeps, ZenonT(30), SMTT(60)
  <2> QED BY <1>3, <1>4, <1>5, <2>2, ZenonT(30), SMTT(60) DEF ResolveTarget, ResolveRealm, ResolveAddress
<1>6. CASE ClientQuic
  <2>1. CASE ~ClientQuicApplies(config.quic) /\ End("config")
    <3>1. Excused
      BY <1>1, <2>1 DEF Excused, ClientUnread
    <3> QED BY <2>1, <3>1, EndKeeps
  <2> QED BY <1>3, <1>6, <2>1 DEF ClientQuic
<1>7. CASE ClientSocket
  BY <1>2, <1>3, <1>4, <1>7 DEF ClientSocket
<1>8. ASSUME config.malformed # {}, End("config")
      PROVE  StartInv'
  <2>1. Excused
    BY <1>1, <1>8, ZenonT(30), SMTT(60) DEF Excused, ClientUnread
  <2> QED BY <1>8, <2>1, EndKeeps, ZenonT(30), SMTT(60)
<1>9. CASE ClientTls \/ Rendezvous \/ ClientConnect
  BY <1>3, <1>4, <1>8, <1>9 DEF ClientTls, Rendezvous, ClientConnect
<1> QED BY <1>5, <1>6, <1>7, <1>9, ZenonT(30), SMTT(60)

LEMMA ServiceEndsKeeps ==
  ASSUME StartInv, ServiceEnds
  PROVE  StartInv'
<1>1. ASSUME role = "client", config.malformed # {}, End("config")
      PROVE  StartInv'
  <2>1. Excused
    BY <1>1 DEF Excused, ClientUnread
  <2> QED BY <1>1, <2>1, EndKeeps
<1> QED BY <1>1, WorldEnds DEF ServiceEnds

LEMMA NextStart == StartInv /\ [StartNext]_startVars => StartInv'
<1> SUFFICES ASSUME StartInv, [StartNext]_startVars PROVE StartInv'
  OBVIOUS
<1>1. CASE EditAcl
  BY <1>1, EditAclKeeps
<1>2. CASE ValidateServer
  BY <1>2, ValidateServerKeeps
<1>3. CASE Challenges \/ Acquire \/ ReadTls \/ ReadEch \/ StartStats \/ StartFrontends
  BY <1>3, PlainStepsKeep
<1>4. CASE ServerQuic \/ BuildAuth \/ BuildHook \/ BuildMasquerade \/ StartTransport
  BY <1>4, CheckedStepsKeep
<1>5. CASE BuildOutbounds
  BY <1>5, BuildOutboundsKeeps
<1>6. CASE BuildAcl
  BY <1>6, BuildAclKeeps
<1>7. CASE ValidateClient
  BY <1>7, ValidateClientKeeps
<1>8. CASE ResolveTarget \/ Rendezvous \/ ClientTls \/ ClientQuic \/ ClientSocket \/ ClientConnect
  BY <1>8, ClientStepsKeep
<1>9. CASE ServiceEnds \/ Shutdown
  BY <1>9, ServiceEndsKeeps, WorldEnds, ZenonT(30), SMTT(60) DEF Shutdown
<1>10. CASE UNCHANGED startVars
  <2>1. UNCHANGED <<role, config, aclFile, edited, progress, outcome, acts>>
    BY <1>10 DEF startVars
  <2>2. AclText' = AclText
    BY <2>1, ZenonT(60) DEF AclText
  <2>3. ValidatedNeverPanics' /\ FaultsFoundEarly'
    BY <2>1, <2>2, ZenonT(60) DEF StartInv, ValidatedNeverPanics, FaultsFoundEarly, ServerUnread, ClientUnread
  <2> QED BY <2>1, <2>2, <2>3 DEF StartInv
<1> QED
  BY <1>1, <1>2, <1>3, <1>4, <1>5, <1>6, <1>7, <1>8, <1>9, <1>10 DEF StartNext

(* Every configuration that ServerConfig::validate accepts is built        *)
(* without a panic: outbound::build's unreachable! and parse_acl's index   *)
(* of the outbounds are reached only if the ACL file is edited in between. *)
THEOREM ValidatedBuilds == StartInit /\ [][StartNext]_startVars => []ValidatedNeverPanics
<1>1. StartInv => ValidatedNeverPanics
  BY ZenonT(30), SMTT(60) DEF StartInv
<1> QED BY <1>1, InitStart, NextStart, PTL

(* For every configuration, serve_server and serve_client refuse it before *)
(* anything is bound or contacted, but for what validate leaves out.       *)
THEOREM FaultsAreFoundEarly == StartInit /\ [][StartNext]_startVars => []FaultsFoundEarly
<1>1. StartInv => FaultsFoundEarly
  BY DEF StartInv
<1> QED BY <1>1, InitStart, NextStart, PTL
=============================================================================
