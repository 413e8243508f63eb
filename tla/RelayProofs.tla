---------------------------- MODULE RelayProofs -----------------------------
(***************************************************************************)
(* Proofs about the two ends of what is relayed: the client's UDP sessions *)
(* (UdpClient), for any number of ids, sessions and datagrams, its local   *)
(* inbounds (LocalProxies), and the server's routing of requests           *)
(* (Outbound), for any rules and any DNS.                                  *)
(***************************************************************************)
EXTENDS UdpClient, Outbound, LocalProxies, WellFoundedInduction, TLAPS

-----------------------------------------------------------------------------
(* Arithmetic.                                                             *)

LEMMA Division ==
  ASSUME NEW a \in Nat, NEW n \in Nat \ {0}
  PROVE  /\ a % n \in 0..(n - 1) /\ a \div n \in Nat
         /\ a = n * (a \div n) + (a % n)
OBVIOUS

LEMMA TurnApart ==
  ASSUME NEW a \in Nat, NEW b \in Nat, NEW n \in Nat \ {0}, a < b, a % n = b % n
  PROVE  a + n <= b
<1> DEFINE p == a \div n
           q == b \div n
           r == a % n
<1>1. p \in Nat /\ r \in Nat /\ a = n * p + r
  <2>1. /\ a % n \in 0..(n - 1) /\ a \div n \in Nat
        /\ a = n * (a \div n) + (a % n)
    BY Division, Zenon
  <2> QED BY <2>1
<1>2. q \in Nat /\ b = n * q + r
  BY Division, Zenon
<1> HIDE DEF p, q, r
<1>3. p < q
  BY <1>1, <1>2
<1>4. n * q >= n * p + n
  BY <1>1, <1>2, <1>3
<1> QED BY <1>1, <1>2, <1>4

LEMMA IdsOf ==
  ASSUME NEW h \in Nat
  PROVE  SessionId(h) \in Ids
BY Division, UdpClientAssumption DEF SessionId, Ids

-----------------------------------------------------------------------------
(* UdpClient.  The inductive invariant: sessions are opened in order, a    *)
(* clear table means a closed connection, and the property itself.         *)
ClientTypes ==
  /\ opened \in 0..MaxSessions /\ manager \in {"alive", "dropped"}
  /\ caller = "checked" => opened < MaxSessions
  /\ sessions \in [Ids -> SUBSET Handles]
  /\ handle \in [Handles -> [pc : {"unused", "open", "ended", "dropped"}, queue : Int]]
  /\ \A h \in Handles : handle[h].pc # "unused" => h <= opened

ReaderEnds == reader.pc \in {"exit", "cleared"} => conn = "closed"

ClientInv == ClientTypes /\ ReaderEnds /\ ReachableUntilWrap

(* Two sessions with one id are a turn apart, and then both are wrapped.   *)
LEMMA SameIdWrapped ==
  ASSUME NEW g \in Handles, NEW h \in Handles, opened \in Nat,
         g <= opened, h <= opened, g # h, SessionId(g) = SessionId(h)
  PROVE  Wrapped(h)
<1> USE UdpClientAssumption
<1>1. g \in Nat \ {0} /\ h \in Nat /\ IdSpace \in Nat \ {0} /\ g % IdSpace = h % IdSpace
  BY DEF Handles, SessionId
<1>2. CASE g < h
  <2>1. g + IdSpace <= h
    BY <1>1, <1>2, TurnApart, Zenon
  <2> QED BY <2>1, <1>1 DEF Wrapped
<1>3. CASE h < g
  <2>1. h + IdSpace <= g
    BY <1>1, <1>3, TurnApart, Zenon
  <2> QED BY <2>1, <1>1 DEF Wrapped
<1> QED BY <1>1, <1>2, <1>3

LEMMA WrappedStays ==
  ASSUME NEW h \in Handles, opened \in Nat, opened' \in Nat, opened <= opened', Wrapped(h)
  PROVE  Wrapped(h)'
BY UdpClientAssumption DEF Wrapped, Handles

LEMMA InitClient == Init => ClientInv
<1> SUFFICES ASSUME Init PROVE ClientInv
  OBVIOUS
<1>1. ClientTypes
  BY UdpClientAssumption DEF Init, ClientTypes, Handles
<1>2. ReaderEnds
  BY DEF Init, ReaderEnds
<1>3. ReachableUntilWrap
  BY DEF Init, ReachableUntilWrap
<1> QED BY <1>1, <1>2, <1>3 DEF ClientInv

LEMMA OpenKeeps ==
  ASSUME ClientInv, Open
  PROVE  ClientInv'
<1> USE UdpClientAssumption
<1> DEFINE n == opened + 1
<1>1. /\ n \in Handles /\ n \in Nat /\ opened \in Nat /\ opened' = n
      /\ SessionId(n) \in Ids
      /\ sessions' = [sessions EXCEPT ![SessionId(n)] = {n}]
      /\ handle' = [handle EXCEPT ![n] = [pc |-> "open", queue |-> 0]]
      /\ UNCHANGED <<conn, manager, reader>> /\ caller' = "idle"
  <2>1. n \in Handles /\ n \in Nat /\ opened \in Nat /\ opened' = n
    BY DEF ClientInv, ClientTypes, Open, Handles
  <2>2. SessionId(n) \in Ids
    BY <2>1, IdsOf
  <2> QED BY <2>1, <2>2 DEF Open, Put
<1> HIDE DEF n
<1>2. ClientTypes'
  <2>1. opened' \in 0..MaxSessions /\ caller' # "checked" /\ manager' \in {"alive", "dropped"}
    BY <1>1 DEF ClientInv, ClientTypes, Handles
  <2>2. sessions' \in [Ids -> SUBSET Handles]
    BY <1>1 DEF ClientInv, ClientTypes
  <2>3. handle' \in [Handles -> [pc : {"unused", "open", "ended", "dropped"}, queue : Int]]
    BY <1>1 DEF ClientInv, ClientTypes
  <2>4. \A h \in Handles : handle'[h].pc # "unused" => h <= opened'
    BY <1>1 DEF ClientInv, ClientTypes, Handles, n
  <2> QED BY <2>1, <2>2, <2>3, <2>4 DEF ClientTypes
<1>3. ReaderEnds'
  BY <1>1 DEF ClientInv, ReaderEnds
<1>4. ASSUME NEW h \in Handles
      PROVE  /\ (handle[h].pc = "open" /\ manager = "alive" /\ reader.pc # "cleared"
                   => h \in sessions[SessionId(h)] \/ Wrapped(h))'
             /\ (handle[h].pc = "ended" => conn = "closed" \/ manager = "dropped" \/ Wrapped(h))'
  <2>1. CASE h = n
    <3>1. handle'[h].pc = "open" /\ h \in sessions'[SessionId(h)]
      BY <2>1, <1>1 DEF ClientInv, ClientTypes
    <3>2. SessionId(h)' = SessionId(h)
      BY DEF SessionId
    <3> QED BY <3>1, <3>2
  <2>2. CASE h # n
    <3>1. handle'[h] = handle[h] /\ (Wrapped(h) => Wrapped(h)')
      <4>1. opened <= opened' /\ opened' \in Nat
        BY <1>1 DEF n
      <4> QED BY <2>2, <1>1, <4>1, WrappedStays DEF ClientInv, ClientTypes
    <3>2. CASE SessionId(h) = SessionId(n) /\ handle[h].pc = "open"
      <4>1. h <= opened' /\ n <= opened' /\ opened' \in Nat
        BY <3>2, <1>1 DEF ClientInv, ClientTypes, Handles, n
      <4>2. Wrapped(h)'
        <5>1. h + IdSpace <= n
          <6>1. h \in Nat /\ h < n
            BY <4>1, <2>2, <1>1 DEF Handles
          <6> QED BY <6>1, <1>1, <3>2, TurnApart, Zenon DEF SessionId
        <5> QED BY <5>1, <1>1 DEF Wrapped
      <4> QED BY <4>2
    <3>3. CASE SessionId(h) # SessionId(n)
      <4>1. sessions'[SessionId(h)] = sessions[SessionId(h)]
        <5>1. SessionId(h) \in Ids
          BY IdsOf DEF Handles
        <5> QED BY <5>1, <3>3, <1>1 DEF ClientInv, ClientTypes
      <4>2. SessionId(h)' = SessionId(h)
        BY DEF SessionId
      <4> QED BY <3>1, <4>1, <4>2, <1>1 DEF ClientInv, ReachableUntilWrap
    <3>4. CASE handle[h].pc # "open"
      BY <3>1, <3>4, <1>1 DEF ClientInv, ReachableUntilWrap
    <3> QED BY <3>2, <3>3, <3>4
  <2> QED BY <2>1, <2>2
<1>5. ReachableUntilWrap'
  BY <1>4 DEF ReachableUntilWrap
<1> QED BY <1>2, <1>3, <1>5 DEF ClientInv

(* Dropping a session takes out the entry of its id, whoever's it is.      *)
LEMMA DropSessionKeeps ==
  ASSUME ClientInv, NEW g \in Handles, DropSession(g)
  PROVE  ClientInv'
<1>1. /\ sessions' = [sessions EXCEPT ![SessionId(g)] = {}]
      /\ handle' = [handle EXCEPT ![g] = [pc |-> "dropped", queue |-> 0]]
      /\ UNCHANGED <<conn, manager, reader, opened, caller>>
      /\ handle[g].pc \in {"open", "ended"}
  BY DEF DropSession, Put
<1>2. opened \in Nat /\ g <= opened
  BY <1>1, UdpClientAssumption DEF ClientInv, ClientTypes
<1>3. ClientTypes'
  <2>1. /\ opened' \in 0..MaxSessions /\ (caller' = "checked" => opened' < MaxSessions)
        /\ manager' \in {"alive", "dropped"}
    BY <1>1 DEF ClientInv, ClientTypes
  <2>2. sessions' \in [Ids -> SUBSET Handles]
    BY <1>1, Zenon DEF ClientInv, ClientTypes
  <2>3. handle' \in [Handles -> [pc : {"unused", "open", "ended", "dropped"}, queue : Int]]
    BY <1>1 DEF ClientInv, ClientTypes
  <2>4. \A h \in Handles : handle'[h].pc # "unused" => h <= opened'
    BY <1>1, <1>2 DEF ClientInv, ClientTypes
  <2> QED BY <2>1, <2>2, <2>3, <2>4 DEF ClientTypes
<1>4. ReaderEnds'
  BY <1>1 DEF ClientInv, ReaderEnds
<1>5. ASSUME NEW h \in Handles
      PROVE  /\ (handle[h].pc = "open" /\ manager = "alive" /\ reader.pc # "cleared"
                   => h \in sessions[SessionId(h)] \/ Wrapped(h))'
             /\ (handle[h].pc = "ended" => conn = "closed" \/ manager = "dropped" \/ Wrapped(h))'
  <2>1. CASE h = g
    BY <2>1, <1>1 DEF ClientInv, ClientTypes
  <2>2. CASE h # g
    <3>1. handle'[h] = handle[h] /\ Wrapped(h)' = Wrapped(h) /\ SessionId(h)' = SessionId(h)
      BY <2>2, <1>1 DEF ClientInv, ClientTypes, Wrapped, SessionId
    <3>2. CASE SessionId(h) = SessionId(g) /\ handle[h].pc # "unused"
      <4>1. h <= opened
        BY <3>2 DEF ClientInv, ClientTypes
      <4>2. Wrapped(h)
        BY <4>1, <1>2, <2>2, <3>2, SameIdWrapped
      <4> QED BY <4>2, <3>1
    <3>3. CASE SessionId(h) # SessionId(g)
      <4>1. sessions'[SessionId(h)] = sessions[SessionId(h)]
        <5>1. SessionId(h) \in Ids
          BY IdsOf, UdpClientAssumption DEF Handles
        <5> QED BY <5>1, <3>3, <1>1 DEF ClientInv, ClientTypes
      <4> QED BY <3>1, <4>1, <1>1 DEF ClientInv, ReachableUntilWrap
    <3>4. CASE handle[h].pc = "unused"
      BY <3>1, <3>4
    <3> QED BY <3>2, <3>3, <3>4
  <2> QED BY <2>1, <2>2
<1>6. ReachableUntilWrap'
  BY <1>5, ZenonT(30), SMTT(60) DEF ReachableUntilWrap
<1> QED BY <1>3, <1>4, <1>6 DEF ClientInv

(* receive() reports the end only to a session that no table holds.        *)
LEMMA ReceiveEndsKeeps ==
  ASSUME ClientInv, NEW g \in Handles, ReceiveEnds(g)
  PROVE  ClientInv'
<1>1. /\ \A i \in Ids : g \notin sessions[i]
      /\ handle' = [handle EXCEPT ![g] = [pc |-> "ended", queue |-> 0]]
      /\ UNCHANGED <<conn, manager, reader, sessions, opened, caller>>
      /\ handle[g].pc = "open"
  BY DEF ReceiveEnds, Put
<1>2. ClientTypes'
  BY <1>1 DEF ClientInv, ClientTypes
<1>3. ReaderEnds'
  BY <1>1 DEF ClientInv, ReaderEnds
<1>4. conn = "closed" \/ manager = "dropped" \/ Wrapped(g)
  <2>1. SessionId(g) \in Ids
    BY IdsOf, UdpClientAssumption DEF Handles
  <2> QED BY <2>1, <1>1 DEF ClientInv, ClientTypes, ReachableUntilWrap, ReaderEnds
<1>5. \A h \in Handles : Wrapped(h)' = Wrapped(h) /\ SessionId(h)' = SessionId(h)
  BY <1>1 DEF Wrapped, SessionId
<1>6. \A h \in Handles : h # g => handle'[h] = handle[h]
  BY <1>1 DEF ClientInv, ClientTypes
<1>7. handle'[g].pc = "ended"
  BY <1>1, ZenonT(30), SMTT(60) DEF ClientInv, ClientTypes
<1>8. ReachableUntilWrap'
  BY <1>1, <1>4, <1>5, <1>6, <1>7, ZenonT(30), SMTT(60) DEF ClientInv, ReachableUntilWrap
<1> QED BY <1>2, <1>3, <1>8 DEF ClientInv

(* The other steps of a session leave it in the table and as it was.       *)
LEMMA SessionsKept ==
  ASSUME ClientInv, UNCHANGED <<opened, sessions>>,
         handle' \in [Handles -> [pc : {"unused", "open", "ended", "dropped"}, queue : Int]],
         \A h \in Handles : handle'[h].pc = handle[h].pc,
         caller' = "checked" => opened < MaxSessions,
         conn = "closed" => conn' = "closed",
         manager' = manager,
         reader.pc = "cleared" => reader'.pc = "cleared",
         reader'.pc \in {"exit", "cleared"} => conn' = "closed"
  PROVE  ClientInv'
<1>1. ClientTypes'
  BY DEF ClientInv, ClientTypes
<1>2. ReaderEnds'
  BY DEF ReaderEnds
<1>3. \A h \in Handles : Wrapped(h)' = Wrapped(h) /\ SessionId(h)' = SessionId(h)
  BY ZenonT(30), SMTT(60) DEF Wrapped, SessionId
<1>4. ReachableUntilWrap'
  BY <1>3 DEF ClientInv, ReachableUntilWrap
<1> QED BY <1>1, <1>2, <1>4, ZenonT(30), SMTT(60) DEF ClientInv

(* An emptied table: the receive task's at its end, or the manager's.      *)
LEMMA TableCleared ==
  ASSUME ClientInv, UNCHANGED <<opened, caller, conn, handle>>, sessions' = [i \in Ids |-> {}],
         \/ reader'.pc = "cleared" /\ conn = "closed" /\ manager' = manager
         \/ reader' = reader /\ manager' = "dropped"
  PROVE  ClientInv'
<1>1. ClientTypes'
  BY DEF ClientInv, ClientTypes
<1>2. ReaderEnds'
  BY DEF ClientInv, ReaderEnds
<1>3. \A h \in Handles : Wrapped(h)' = Wrapped(h)
  BY ZenonT(30), SMTT(60) DEF Wrapped
<1>4. ReachableUntilWrap'
  BY <1>3 DEF ClientInv, ReachableUntilWrap
<1> QED BY <1>1, <1>2, <1>4, ZenonT(30), SMTT(60) DEF ClientInv

LEMMA NextClient == ClientInv /\ [Next]_vars => ClientInv'
<1> SUFFICES ASSUME ClientInv, [Next]_vars PROVE ClientInv'
  OBVIOUS
<1> DEFINE Records == [pc : {"unused", "open", "ended", "dropped"}, queue : Int]
<1>0. handle \in [Handles -> Records] /\ (caller = "checked" => opened < MaxSessions)
      /\ (reader.pc \in {"exit", "cleared"} => conn = "closed")
  BY DEF ClientInv, ClientTypes, ReaderEnds
<1>1. ASSUME NEW i \in Ids, Arrive(i) PROVE ClientInv'
  BY <1>0, <1>1, SessionsKept, ZenonT(30), SMTT(60) DEF Arrive
<1>2. CASE ConnectionLost
  BY <1>0, <1>2, SessionsKept, ZenonT(30), SMTT(60) DEF ConnectionLost
<1>3. CASE ReadDatagram
  <2>1. reader.pc # "cleared" /\ reader'.pc \in {"read", "route"}
    BY <1>3, SMTT(60) DEF ReadDatagram
  <2> QED BY <1>0, <1>3, <2>1, SessionsKept, ZenonT(30), SMTT(60) DEF ReadDatagram
<1>4. CASE Route
  <2>1. reader.pc # "cleared" /\ reader'.pc = "read"
    BY <1>4, ZenonT(30), SMTT(60) DEF Route
  <2>2. handle' \in [Handles -> Records] /\ \A h \in Handles : handle'[h].pc = handle[h].pc
    BY <1>0, <1>4, SMTT(60) DEF Route
  <2> QED BY <1>0, <1>4, <2>1, <2>2, SessionsKept, ZenonT(30), SMTT(60) DEF Route
<1>5. CASE ReadError
  <2>1. reader.pc # "cleared" /\ reader'.pc = "exit" /\ conn' = "closed"
    BY <1>5 DEF ReadError
  <2> QED BY <1>0, <1>5, <2>1, SessionsKept, ZenonT(30), SMTT(60) DEF ReadError
<1>6. CASE ClearTable
  <2>1. reader'.pc = "cleared" /\ conn = "closed"
    BY <1>0, <1>6, ZenonT(30), SMTT(60) DEF ClearTable
  <2> QED BY <1>6, <2>1, TableCleared, ZenonT(30), SMTT(60) DEF ClearTable
<1>7. CASE Aborted
  <2>1. reader.pc # "cleared" /\ reader'.pc = "aborted"
    BY <1>7, ZenonT(30), SMTT(60) DEF Aborted
  <2> QED BY <1>0, <1>7, <2>1, SessionsKept, ZenonT(30), SMTT(60) DEF Aborted
<1>8. CASE Check
  BY <1>0, <1>8, SessionsKept DEF Check
<1>9. CASE Open
  BY <1>9, OpenKeeps
<1>10. CASE DropManager
  BY <1>10, TableCleared, ZenonT(30), SMTT(60) DEF DropManager
<1>11. ASSUME NEW g \in Handles, Receive(g) PROVE ClientInv'
  <2>1. handle' \in [Handles -> Records] /\ \A h \in Handles : handle'[h].pc = handle[h].pc
    BY <1>0, <1>11 DEF Receive, Put
  <2> QED BY <1>0, <1>11, <2>1, SessionsKept, ZenonT(30), SMTT(60) DEF Receive
<1>12. ASSUME NEW g \in Handles, ReceiveEnds(g) PROVE ClientInv'
  BY <1>12, ReceiveEndsKeeps
<1>13. ASSUME NEW g \in Handles, DropSession(g) PROVE ClientInv'
  BY <1>13, DropSessionKeeps, ZenonT(30), SMTT(60)
<1>14. CASE UNCHANGED vars
  BY <1>0, <1>14, SessionsKept DEF vars
<1> QED
  BY <1>1, <1>2, <1>3, <1>4, <1>5, <1>6, <1>7, <1>8, <1>9, <1>10, <1>11, <1>12, <1>13, <1>14, ZenonT(30), SMTT(60)
  DEF Next, ReaderNext

(* Until the ids have gone round, an open session of a served table is in  *)
(* the table under its own id, and receive() reports SessionClosed only    *)
(* when the connection or the manager is gone: ClientUdpManager's open,    *)
(* its receive task and UdpSession's drop do not disturb other sessions.   *)
THEOREM SessionsReachable == Spec => []ReachableUntilWrap
<1>1. ClientInv => ReachableUntilWrap
  BY DEF ClientInv
<1> QED BY <1>1, InitClient, NextClient, PTL DEF Spec

-----------------------------------------------------------------------------
(* Outbound: what a lookup gives.                                          *)

LEMMA LeastNat ==
  ASSUME NEW T, T \subseteq Nat, T # {}
  PROVE  \E x \in T : \A y \in T : x <= y
<1> DEFINE R == OpToRel(<, Nat)
<1>1. IsWellFoundedOn(R, Nat)
  BY NatLessThanWellFounded, Zenon
<1>2. \A x, y \in Nat : y < x => <<y, x>> \in R
  BY DEF OpToRel
<1> HIDE DEF R
<1>3. PICK x \in T : \A y \in T : ~ (<<y, x>> \in R)
  BY <1>1, WFMin, Zenon
<1>4. \A y \in T : ~(y < x)
  BY <1>2, <1>3, Zenon
<1> QED BY <1>3, <1>4

(* The body of the recursion in Lookup, for the function f so far. *)
Answer(family) == [n \in DOMAIN zone |-> {a \in zone[n].ips : Family(a) = family}]
Alias(n) == CHOOSE m \in zone[n].alias : TRUE
Hop(below, family) ==
  [n \in DOMAIN zone |->
     IF Answer(family)[n] # {} \/ zone[n].alias = {} THEN Answer(family)[n] ELSE below[Alias(n)]]
Chase(f, family, top) ==
  [k \in 0..top |-> IF k = 0 THEN [n \in DOMAIN zone |-> {}] ELSE Hop(f[k - 1], family)]
Chased(family) == CHOOSE f : f = Chase(f, family, MaxHops)

LEMMA LookupIs ==
  ASSUME NEW name, NEW family
  PROVE  Lookup(name, family) = Chased(family)[MaxHops][name]
BY Zenon DEF Lookup, Chased, Chase, Hop, Answer, Alias

(* The recursion has a solution: one for up to k hops extends to k + 1. *)
LEMMA ChasedIs ==
  ASSUME NEW family
  PROVE  Chased(family) = Chase(Chased(family), family, MaxHops)
<1> DEFINE Bad == {k \in Nat : ~ \E f : f = Chase(f, family, k)}
<1>1. Bad = {}
  <2> SUFFICES ASSUME Bad # {} PROVE FALSE
    BY Zenon
  <2>1. PICK k \in Bad : \A j \in Bad : k <= j
    <3>1. Bad \subseteq Nat
      OBVIOUS
    <3> HIDE DEF Bad
    <3> QED BY <3>1, LeastNat, ZenonT(60)
  <2>2. k \in Nat
    BY <2>1, ZenonT(30), SMTT(60)
  <2>3. CASE k = 0
    <3> DEFINE f == [j \in 0..0 |-> [n \in DOMAIN zone |-> {}]]
    <3>1. f = Chase(f, family, 0)
      BY DEF Chase
    <3> HIDE DEF f
    <3> QED BY <2>1, <2>3, <3>1, ZenonT(30), SMTT(60)
  <2>4. CASE k # 0
    <3>1. k - 1 \in Nat /\ k - 1 \notin Bad
      <4> HIDE DEF Bad
      <4>1. k - 1 \in Nat /\ ~(k <= k - 1)
        BY <2>2, <2>4
      <4> QED BY <2>1, <4>1
    <3>2. PICK f : f = Chase(f, family, k - 1)
      BY <3>1, Zenon
    <3> DEFINE g == Chase(f, family, k)
    <3>3. \A j \in 0..(k - 1) : g[j] = f[j] /\ j \in 0..k
      <4>1. \A j \in 0..(k - 1) : f[j] = IF j = 0 THEN [n \in DOMAIN zone |-> {}] ELSE Hop(f[j - 1], family)
        BY <3>2, ZenonT(60) DEF Chase
      <4>2. \A j \in 0..k : g[j] = IF j = 0 THEN [n \in DOMAIN zone |-> {}] ELSE Hop(f[j - 1], family)
        BY DEF Chase
      <4>3. \A j \in 0..(k - 1) : j \in 0..k
        BY <2>2
      <4> HIDE DEF g
      <4> QED BY <4>1, <4>2, <4>3, Zenon
    <3>4. \A j \in 0..k : j # 0 => g[j - 1] = f[j - 1]
      <4>1. \A j \in 0..k : j # 0 => j - 1 \in 0..(k - 1)
        BY <2>2
      <4> HIDE DEF g
      <4> QED BY <3>3, <4>1, Zenon
    <3>5. g = Chase(g, family, k)
      <4>1. g = [j \in 0..k |-> IF j = 0 THEN [n \in DOMAIN zone |-> {}] ELSE Hop(f[j - 1], family)]
        BY DEF Chase
      <4> HIDE DEF g
      <4> QED BY <4>1, <3>4, ZenonT(60) DEF Chase
    <3> HIDE DEF g
    <3> QED BY <2>1, <3>5, ZenonT(30), SMTT(60)
  <2> QED BY <2>3, <2>4
<1>2. PICK f : f = Chase(f, family, MaxHops)
  BY <1>1, OutAssumption, ZenonT(60)
<1> QED BY <1>2, ZenonT(60) DEF Chased

(* What any lookup of a name gives: at most one address, of the family.    *)
OneOf(family) == {s \in SUBSET {a \in Addr : Family(a) = family} : \A a, b \in s : a = b}

LEMMA LookupGives ==
  ASSUME zone \in Zones, NEW name \in DnsNames, NEW family
  PROVE  Lookup(name, family) \in OneOf(family)
<1> DEFINE c == Chased(family)
           Bad == {k \in 0..MaxHops : \E n \in DnsNames : c[k][n] \notin OneOf(family)}
<1>1. c = Chase(c, family, MaxHops)
  BY ChasedIs, ZenonT(30), SMTT(60)
<1> HIDE DEF c
<1>2. MaxHops \in Nat /\ DOMAIN zone = DnsNames
  BY OutAssumption, ZenonT(30), SMTT(60)
<1>3. \A n \in DnsNames : Answer(family)[n] \in OneOf(family) /\ (zone[n].alias # {} => Alias(n) \in DnsNames)
  BY <1>2, OutAssumption, ZenonT(30), SMTT(60) DEF Answer, OneOf, Alias
<1>4. \A n \in DnsNames : c[0][n] = {}
  BY <1>1, <1>2 DEF Chase
<1>5. \A k \in 0..MaxHops : k # 0 => c[k] = Hop(c[k - 1], family)
  BY <1>1, ZenonT(60) DEF Chase
<1>6. Bad = {}
  <2> SUFFICES ASSUME Bad # {} PROVE FALSE
    BY Zenon
  <2>1. PICK k \in Bad : \A j \in Bad : k <= j
    <3>1. Bad \subseteq Nat
      BY <1>2, SMTT(60)
    <3> HIDE DEF Bad
    <3> QED BY <3>1, LeastNat, ZenonT(60)
  <2>2. k \in 0..MaxHops
    BY <2>1, ZenonT(30), SMTT(60)
  <2>3. PICK n \in DnsNames : c[k][n] \notin OneOf(family)
    BY <2>1, ZenonT(30), SMTT(60)
  <2>4. {} \in OneOf(family)
    BY DEF OneOf
  <2>5. k # 0
    BY <1>4, <2>3, <2>4, ZenonT(60)
  <2>6. k - 1 \in 0..MaxHops /\ k - 1 \notin Bad
    <3> HIDE DEF Bad
    <3>1. k - 1 \in 0..MaxHops /\ ~(k <= k - 1)
      BY <1>2, <2>2, <2>5, SMTT(60)
    <3> QED BY <2>1, <3>1
  <2>7. \A m \in DnsNames : c[k - 1][m] \in OneOf(family)
    BY <2>6
  <2>8. c[k][n] = Answer(family)[n] \/ (zone[n].alias # {} /\ c[k][n] = c[k - 1][Alias(n)])
    <3>1. c[k] = Hop(c[k - 1], family)
      BY <1>5, <2>2, <2>5
    <3>2. Hop(c[k - 1], family)[n] =
            IF Answer(family)[n] # {} \/ zone[n].alias = {} THEN Answer(family)[n] ELSE c[k - 1][Alias(n)]
      BY <1>2, ZenonT(60) DEF Hop
    <3> QED BY <3>1, <3>2, ZenonT(60)
  <2> QED BY <1>3, <2>3, <2>7, <2>8, ZenonT(30), SMTT(60)
<1>7. c[MaxHops][name] \in OneOf(family)
  BY <1>2, <1>6, SMTT(60)
<1> QED BY <1>7, LookupIs DEF c

(* Resolved: at most one address of each family.                           *)
LEMMA ResolveGives ==
  ASSUME zone \in Zones, NEW host \in Addr \union DnsNames, NEW lost
  PROVE  /\ Resolve(host, lost) \subseteq Addr
         /\ \A a, b \in Resolve(host, lost) : Family(a) = Family(b) => a = b
<1>1. CASE host \in Addr
  BY <1>1, ZenonT(30), SMTT(60) DEF Resolve
<1>2. CASE host \notin Addr
  <2>1. \A family \in {4, 6} : Lookup(host, family) \in OneOf(family)
    BY <1>2, LookupGives
  <2>2. Resolve(host, lost) = UNION {Lookup(host, family) : family \in {4, 6} \ lost}
    BY <1>2 DEF Resolve
  <2>3. \A a \in Resolve(host, lost) : a \in Addr /\ a \in Lookup(host, Family(a)) /\ Family(a) \in {4, 6}
    BY <2>1, <2>2, ZenonT(30), SMTT(60) DEF OneOf
  <2> QED BY <2>1, <2>3 DEF OneOf
<1> QED BY <1>1, <1>2, ZenonT(30), SMTT(60)

LEMMA DecideGives ==
  ASSUME policy \in Policies, NEW d \in [host : Addr \union DnsNames, port : Int], NEW protocol, NEW ips
  PROVE  /\ Decide(d, protocol, ips).outbound \in Outbounds
         /\ Decide(d, protocol, ips).target.host \in Addr \union DnsNames
         /\ Decide(d, protocol, ips).seen = ips
<1> DEFINE fit == {i \in DOMAIN policy.rules : Fits(policy.rules[i], d, protocol, ips)}
           rule == policy.rules[Min(fit)]
<1>1. CASE fit = {}
  <2>1. Decide(d, protocol, ips) = [outbound |-> policy.default, target |-> d, seen |-> ips]
    BY <1>1, ZenonT(30), SMTT(60) DEF Decide
  <2> QED BY <2>1, OutAssumption
<1>2. CASE fit # {}
  <2>1. Decide(d, protocol, ips) =
          [outbound |-> rule.outbound, seen |-> ips,
           target |-> IF rule.hijack = {} THEN d
                      ELSE [d EXCEPT !.host = CHOOSE a \in rule.hijack : TRUE]]
    BY <1>2, ZenonT(30), SMTT(60) DEF Decide
  <2>2. Min(fit) \in DOMAIN policy.rules
    <3>1. fit \subseteq DOMAIN policy.rules /\ DOMAIN policy.rules \subseteq Nat
      BY OutAssumption
    <3> HIDE DEF fit
    <3>2. \E x \in fit : \A y \in fit : x <= y
      BY <1>2, <3>1, LeastNat
    <3>3. Min(fit) \in fit
      BY <3>2, ZenonT(30), SMTT(60) DEF Min
    <3> QED BY <3>1, <3>3, ZenonT(30), SMTT(60)
  <2> HIDE DEF fit
  <2>3. rule.outbound \in Outbounds /\ rule.hijack \subseteq Addr
    BY <2>2, OutAssumption
  <2> HIDE DEF rule
  <2>4. CASE rule.hijack = {}
    BY <2>1, <2>3, <2>4
  <2>5. CASE rule.hijack # {}
    <3>1. (CHOOSE a \in rule.hijack : TRUE) \in Addr
      BY <2>3, <2>5, ZenonT(30), SMTT(60)
    <3> QED BY <2>1, <2>3, <2>5, <3>1, SMTT(60)
  <2> QED BY <2>4, <2>5, ZenonT(60)
<1> QED BY <1>1, <1>2, ZenonT(30), SMTT(60)

-----------------------------------------------------------------------------
(* Outbound: where requests go.                                            *)

(* The stages of a request that the ACL has let through, and those that    *)
(* only a UDP session has.                                                 *)
Let == {"tcp", "dialing", "udp", "first", "httpConnect", "proxyDial", "negotiate", "login",
        "command", "reply", "send"}
OnlyUdp == {"udp", "first", "session", "send"}
Stages == Let \union OnlyUdp \union {"hook", "select", "failed", "connected"}

OutTypes ==
  /\ policy \in Policies /\ zone \in Zones /\ traffic \in {"tcp", "udp"}
  /\ dest \in [host : Addr \union DnsNames, port : Int]
  /\ choice.target.host \in Addr \union DnsNames
  /\ stage \in Stages

(* What is let through, and what was reached, was so decided.              *)
Allowed(d, c) == c = Decide(d, traffic, c.seen) /\ c.outbound # "reject"
AllowInv ==
  /\ stage \in Let => Allowed(dest, choice)
  /\ stage \in OnlyUdp => traffic = "udp"
  /\ \A r \in reached : Allowed(r.dest, r.choice)

(* A race that goes on still has every address that would accept.          *)
RaceInv ==
  /\ stage \notin {"dialing", "failed", "connected"} => dialing.all = {}
  /\ stage = "dialing" /\ policy.direct.mode = "auto" => dialing.all \intersect up \subseteq dialing.now
  /\ ConnectsIfReachable

LEMMA AllowImplies == AllowInv => RejectedNeverReached
BY DEF AllowInv, Allowed, RejectedNeverReached

LEMMA InitOut == OutInit => OutTypes /\ AllowInv /\ RaceInv
<1> SUFFICES ASSUME OutInit PROVE OutTypes /\ AllowInv /\ RaceInv
  BY ZenonT(30), SMTT(60)
<1>1. OutTypes
  BY OutAssumption, ZenonT(30), SMTT(60) DEF OutInit, OutTypes, Stages
<1>2. AllowInv
  BY ZenonT(30), SMTT(60) DEF OutInit, AllowInv, Let, OnlyUdp
<1>3. RaceInv
  BY DEF OutInit, RaceInv, ConnectsIfReachable
<1> QED BY <1>1, <1>2, <1>3

(* policy and traffic stay, so does what was decided with them.            *)
LEMMA DecideStays ==
  ASSUME policy' = policy, NEW d, NEW protocol, NEW ips
  PROVE  Decide(d, protocol, ips)' = Decide(d, protocol, ips)
BY DEF Decide, Fits

LEMMA AllowedStays ==
  ASSUME policy' = policy, traffic' = traffic, NEW d, NEW c, Allowed(d, c)
  PROVE  Allowed(d, c)'
BY DecideStays, ZenonT(60) DEF Allowed

LEMMA RouteKept ==
  ASSUME AllowInv, UNCHANGED <<policy, traffic, dest, choice, reached>>,
         stage' \in Let => stage \in Let, stage' \in OnlyUdp => traffic = "udp"
  PROVE  AllowInv'
<1>1. stage' \in Let => Allowed(dest, choice)'
  <2> SUFFICES ASSUME Allowed(dest, choice) PROVE Allowed(dest, choice)'
    BY DEF AllowInv
  <2> QED BY ZenonT(60) DEF Allowed, Decide, Fits
<1>2. \A r \in reached' : Allowed(r.dest, r.choice)'
  <2>1. \A r \in reached : Allowed(r.dest, r.choice)
    BY DEF AllowInv
  <2> SUFFICES ASSUME NEW r \in reached PROVE Allowed(r.dest, r.choice)'
    BY ZenonT(30), SMTT(60)
  <2> QED BY <2>1, AllowedStays
<1> QED BY <1>1, <1>2 DEF AllowInv

LEMMA ReachKept ==
  ASSUME AllowInv, UNCHANGED <<policy, traffic, dest, choice>>, stage \in Let,
         NEW ip, NEW ips, Reach(ip, ips),
         stage' \notin Let, stage' \in OnlyUdp => traffic = "udp"
  PROVE  AllowInv'
<1> DEFINE new == [dest |-> dest, choice |-> choice, ip |-> ip, used |-> ips, packet |-> packets]
<1>1. reached' = reached \union {new} /\ new.dest = dest /\ new.choice = choice
  BY ZenonT(30), SMTT(60) DEF Reach
<1> HIDE DEF new
<1>2. Allowed(dest, choice) /\ \A r \in reached : Allowed(r.dest, r.choice)
  BY DEF AllowInv
<1>3. \A r \in reached' : Allowed(r.dest, r.choice)
  BY <1>1, <1>2, ZenonT(60)
<1>4. \A r \in reached' : Allowed(r.dest, r.choice)'
  <2> SUFFICES ASSUME NEW r \in reached' PROVE Allowed(r.dest, r.choice)'
    BY ZenonT(30), SMTT(60)
  <2> QED BY <1>3, AllowedStays, ZenonT(30), SMTT(60)
<1> QED BY <1>4, ZenonT(30), SMTT(60) DEF AllowInv

(* The ACL decides anew. *)
LEMMA DecidedAnew ==
  ASSUME OutTypes, AllowInv, UNCHANGED <<policy, traffic, reached>>,
         dest' \in [host : Addr \union DnsNames, port : Int],
         NEW ips, choice' = Decide(dest', traffic, ips),
         stage' \in Let => choice'.outbound # "reject", stage' \in OnlyUdp => traffic = "udp"
  PROVE  /\ AllowInv'
         /\ choice'.target.host \in Addr \union DnsNames /\ choice'.outbound \in Outbounds
<1>1. /\ choice'.seen = ips /\ choice'.target.host \in Addr \union DnsNames
      /\ choice'.outbound \in Outbounds
  <2>1. policy \in Policies
    BY ZenonT(30), SMTT(60) DEF OutTypes
  <2>2. \A d \in [host : Addr \union DnsNames, port : Int] :
          /\ Decide(d, traffic, ips).outbound \in Outbounds
          /\ Decide(d, traffic, ips).target.host \in Addr \union DnsNames
          /\ Decide(d, traffic, ips).seen = ips
    BY <2>1, DecideGives, ZenonT(30), SMTT(60)
  <2>3. /\ Decide(dest', traffic, ips).outbound \in Outbounds
        /\ Decide(dest', traffic, ips).target.host \in Addr \union DnsNames
        /\ Decide(dest', traffic, ips).seen = ips
    BY <2>2
  <2> QED BY <2>3, ZenonT(30), SMTT(60)
<1>2. stage' \in Let => Allowed(dest, choice)'
  <2>1. choice' = Decide(dest', traffic, choice'.seen)
    BY <1>1, ZenonT(30)
  <2>2. Decide(dest, traffic, choice.seen)' = Decide(dest', traffic, choice'.seen)
    BY ZenonT(60) DEF Decide, Fits
  <2> QED BY <2>1, <2>2, Zenon DEF Allowed
<1>3. \A r \in reached' : Allowed(r.dest, r.choice)'
  <2>1. \A r \in reached : Allowed(r.dest, r.choice)
    BY DEF AllowInv
  <2> SUFFICES ASSUME NEW r \in reached PROVE Allowed(r.dest, r.choice)'
    OBVIOUS
  <2> QED BY <2>1, AllowedStays
<1> QED BY <1>1, <1>2, <1>3, ZenonT(30), SMTT(60) DEF AllowInv

(* A step of an outbound that fails, goes on or reaches its proxy.         *)
OutInv == OutTypes /\ AllowInv /\ RaceInv

LEMMA BecomeKeeps ==
  ASSUME OutInv, NEW where \in Stages, Become(where),
         stage \notin {"dialing", "failed", "connected"}, where # "dialing",
         where \in Let => stage \in Let, where \in OnlyUdp => traffic = "udp"
  PROVE  OutInv'
<1>1. OutTypes'
  BY DEF OutInv, OutTypes, Become
<1>2. AllowInv'
  BY RouteKept DEF OutInv, Become
<1>3. RaceInv'
  BY ZenonT(30), SMTT(60) DEF OutInv, RaceInv, ConnectsIfReachable, Become
<1> QED BY <1>1, <1>2, <1>3 DEF OutInv

LEMMA ReachKeeps ==
  ASSUME OutInv, UNCHANGED <<policy, zone, up, traffic, dest, choice, dialing>>, stage \in Let,
         NEW ip, NEW ips, Reach(ip, ips), stage # "dialing",
         stage' = "connected" \/ (stage' = "session" /\ traffic = "udp")
  PROVE  OutInv'
<1>1. OutTypes'
  BY ZenonT(30), SMTT(60) DEF OutInv, OutTypes, Stages, OnlyUdp
<1>2. stage' \notin Let /\ (stage' \in OnlyUdp => traffic = "udp")
  BY ZenonT(30), SMTT(60) DEF Let, OnlyUdp
<1>3. AllowInv'
  BY <1>2, ReachKept, ZenonT(30), SMTT(60) DEF OutInv
<1>4. stage \notin {"dialing", "failed", "connected"}
  BY ZenonT(30), SMTT(60) DEF Let
<1>5. RaceInv'
  BY <1>4 DEF OutInv, RaceInv, ConnectsIfReachable
<1> QED BY <1>1, <1>3, <1>5, ZenonT(30), SMTT(60) DEF OutInv

LEMMA DnsChangesKeeps ==
  ASSUME OutInv, DnsChanges
  PROVE  OutInv'
<1>1. OutTypes'
  BY ZenonT(30), SMTT(60) DEF OutInv, OutTypes, DnsChanges
<1>2. AllowInv'
  <2>1. UNCHANGED <<policy, traffic, dest, choice, reached, stage>>
    BY ZenonT(30), SMTT(60) DEF DnsChanges
  <2> QED BY <2>1, RouteKept, ZenonT(30), SMTT(60) DEF OutInv, AllowInv
<1>3. RaceInv'
  BY DEF OutInv, RaceInv, ConnectsIfReachable, DnsChanges
<1> QED BY <1>1, <1>2, <1>3, ZenonT(30), SMTT(60) DEF OutInv

(* A rewritten host is a name. *)
LEMMA SniffKeeps ==
  ASSUME OutInv, SniffTcp \/ SniffUdp
  PROVE  OutInv'
<1>1. PICK found \in Findings : dest' = Rewritten(found)
  BY ZenonT(30), SMTT(60) DEF SniffTcp, SniffUdp
<1>2. /\ stage = "hook" /\ stage' = "select"
      /\ UNCHANGED <<policy, zone, up, traffic, choice, dialing, socket, packets, reached>>
  BY DEF SniffTcp, SniffUdp
<1>3. dest' \in [host : Addr \union DnsNames, port : Int]
  <2>1. dest \in [host : Addr \union DnsNames, port : Int] /\ zone \in Zones
    BY ZenonT(30), SMTT(60) DEF OutInv, OutTypes
  <2>2. found \subseteq DnsNames
    BY <2>1, OutAssumption DEF Findings
  <2>3. CASE found = {}
    BY <1>1, <2>1, <2>3, ZenonT(30), SMTT(60) DEF Rewritten
  <2>4. CASE found # {}
    <3>1. (CHOOSE n \in found : TRUE) \in DnsNames
      BY <2>2, <2>4, ZenonT(30), SMTT(60)
    <3> QED BY <1>1, <2>1, <2>4, <3>1, ZenonT(60) DEF Rewritten
  <2> QED BY <2>3, <2>4, ZenonT(30), SMTT(60)
<1>4. OutTypes'
  BY <1>2, <1>3, ZenonT(30), SMTT(60) DEF OutInv, OutTypes, Stages
<1>5. AllowInv'
  <2>1. \A r \in reached : Allowed(r.dest, r.choice)
    BY ZenonT(30), SMTT(60) DEF OutInv, AllowInv
  <2>2. \A r \in reached' : Allowed(r.dest, r.choice)'
    <3> SUFFICES ASSUME NEW r \in reached PROVE Allowed(r.dest, r.choice)'
      BY <1>2, ZenonT(30), SMTT(60)
    <3> QED BY <1>2, <2>1, AllowedStays, ZenonT(30), SMTT(60)
  <2> QED BY <1>2, <2>2, ZenonT(30), SMTT(60) DEF AllowInv, Let, OnlyUdp
<1>6. RaceInv'
  BY <1>2, ZenonT(30), SMTT(60) DEF OutInv, RaceInv, ConnectsIfReachable
<1> QED BY <1>4, <1>5, <1>6, ZenonT(30), SMTT(60) DEF OutInv

LEMMA SelectKeeps ==
  ASSUME OutInv, Select
  PROVE  OutInv'
<1>1. PICK lost \in Unanswered :
        LET made == Decide(dest, traffic, Resolve(dest.host, lost)) IN
        /\ choice' = made
        /\ stage' = CASE made.outbound = "reject" -> "failed"
                   [] made.outbound = "http" /\ traffic = "udp" -> "failed"
                   [] made.outbound = "http" /\ traffic = "tcp" -> "httpConnect"
                   [] made.outbound = "socks5" -> "proxyDial"
                   [] made.outbound = "direct" -> traffic
  BY ZenonT(60) DEF Select
<1>2. /\ stage = "select"
      /\ UNCHANGED <<policy, zone, up, traffic, dest, dialing, socket, packets, reached>>
  BY DEF Select
<1> DEFINE ips == Resolve(dest.host, lost)
<1>3. choice' = Decide(dest', traffic, ips)
  BY <1>1, <1>2, Zenon
<1>4. stage' = CASE choice'.outbound = "reject" -> "failed"
                 [] choice'.outbound = "http" /\ traffic = "udp" -> "failed"
                 [] choice'.outbound = "http" /\ traffic = "tcp" -> "httpConnect"
                 [] choice'.outbound = "socks5" -> "proxyDial"
                 [] choice'.outbound = "direct" -> traffic
  BY <1>1, ZenonT(60)
<1> HIDE DEF ips
<1>5. /\ traffic \in {"tcp", "udp"} /\ dest' \in [host : Addr \union DnsNames, port : Int]
      /\ policy \in Policies
  BY <1>2 DEF OutInv, OutTypes
<1>6. choice'.outbound \in Outbounds
  <2>1. \A d \in [host : Addr \union DnsNames, port : Int] : Decide(d, traffic, ips).outbound \in Outbounds
    BY <1>5, DecideGives, ZenonT(30), SMTT(60)
  <2> QED BY <1>3, <1>5, <2>1, ZenonT(60)
<1>7. /\ stage' \in {"failed", "httpConnect", "proxyDial", traffic}
      /\ choice'.outbound = "reject" => stage' = "failed"
  BY <1>4, <1>5, <1>6, ZenonT(30), SMTT(60) DEF Outbounds
<1>8. /\ stage' \in Let => choice'.outbound # "reject"
      /\ stage' \in OnlyUdp => traffic = "udp"
      /\ stage' \in Stages /\ stage' # "dialing"
  BY <1>5, <1>7, ZenonT(30), SMTT(60) DEF Let, OnlyUdp, Stages
<1>9. AllowInv' /\ choice'.target.host \in Addr \union DnsNames
  BY <1>2, <1>3, <1>5, <1>8, DecidedAnew, ZenonT(30), SMTT(60) DEF OutInv
<1>10. OutTypes'
  BY <1>2, <1>5, <1>8, <1>9, ZenonT(30), SMTT(60) DEF OutInv, OutTypes
<1>11. RaceInv'
  BY <1>2, <1>8, ZenonT(30), SMTT(60) DEF OutInv, RaceInv, ConnectsIfReachable
<1> QED BY <1>9, <1>10, <1>11 DEF OutInv

(* In auto mode every address that was resolved is dialled.                *)
Dialled(wanted, race) == {wanted[i] : i \in {j \in DOMAIN wanted : race \/ j = 1}}

LEMMA SlotIs ==
  ASSUME NEW s, \A a, b \in s : a = b
  PROVE  (s = {} /\ Slot(s) = <<>>) \/ \E a \in s : s = {a} /\ Slot(s) = <<a>>
<1>1. CASE s = {}
  BY <1>1, ZenonT(30), SMTT(60) DEF Slot
<1>2. CASE s # {}
  <2> DEFINE a == CHOOSE x \in s : TRUE
  <2>1. a \in s
    BY <1>2
  <2>2. Slot(s) = <<a>>
    BY <1>2 DEF Slot
  <2> HIDE DEF a
  <2> QED BY <2>1, <2>2
<1> QED BY <1>1, <1>2, ZenonT(30), SMTT(60)

LEMMA ConcatNone ==
  ASSUME NEW a
  PROVE  <<>> \o <<a>> = <<a>> /\ <<a>> \o <<>> = <<a>>
BY SMTT(60)

LEMMA AutoDialsAll ==
  ASSUME NEW ips \in SUBSET Addr, \A a, b \in ips : Family(a) = Family(b) => a = b,
         policy.direct.mode = "auto"
  PROVE  ips \subseteq Dialled(Preferred(ips), Len(Preferred(ips)) = 2)
<1> DEFINE four == ips \intersect Addr4
           six == ips \intersect Addr6
           w == Preferred(ips)
<1>1. w = Slot(four) \o Slot(six)
  BY ZenonT(30), SMTT(60) DEF Preferred
<1>2. /\ \A a, b \in four : a = b
      /\ \A a, b \in six : a = b
  BY OutAssumption, ZenonT(30), SMTT(60) DEF Family
<1>3. ips = four \union six
  BY ZenonT(30), SMTT(60) DEF Addr
<1> HIDE DEF w, four, six
<1>4. (four = {} /\ Slot(four) = <<>>) \/ \E a \in four : four = {a} /\ Slot(four) = <<a>>
  BY <1>2, SlotIs, ZenonT(60)
<1>5. (six = {} /\ Slot(six) = <<>>) \/ \E a \in six : six = {a} /\ Slot(six) = <<a>>
  BY <1>2, SlotIs, ZenonT(30), SMTT(60)
<1>6. ips \subseteq Dialled(w, Len(w) = 2)
  <2>1. CASE four = {} /\ six = {}
    BY <1>3, <2>1, ZenonT(30), SMTT(60)
  <2>2. CASE four = {} /\ Slot(four) = <<>> /\ six # {}
    <3>1. PICK a : six = {a} /\ Slot(six) = <<a>>
      BY <1>5, <2>2
    <3>2. w = <<a>>
      BY <1>1, <2>2, <3>1, ConcatNone, ZenonT(60)
    <3> QED BY <1>3, <2>2, <3>1, <3>2, SMTT(60) DEF Dialled
  <2>3. CASE four # {} /\ six = {} /\ Slot(six) = <<>>
    <3>1. PICK a : four = {a} /\ Slot(four) = <<a>>
      BY <1>4, <2>3
    <3>2. w = <<a>>
      BY <1>1, <2>3, <3>1, ConcatNone, ZenonT(60)
    <3> QED BY <1>3, <2>3, <3>1, <3>2, SMTT(60) DEF Dialled
  <2>4. CASE four # {} /\ six # {}
    <3>1. PICK a : four = {a} /\ Slot(four) = <<a>>
      BY <1>4, <2>4, ZenonT(30), SMTT(60)
    <3>2. PICK b : six = {b} /\ Slot(six) = <<b>>
      BY <1>5, <2>4
    <3>3. w = <<a>> \o <<b>>
      BY <1>1, <3>1, <3>2, ZenonT(60)
    <3>4. Len(w) = 2 /\ w[1] = a /\ w[2] = b /\ DOMAIN w = 1..2
      BY <3>3, SMTT(60)
    <3>5. a \in Dialled(w, Len(w) = 2) /\ b \in Dialled(w, Len(w) = 2)
      BY <3>4 DEF Dialled
    <3> QED BY <1>3, <3>1, <3>2, <3>5, ZenonT(30), SMTT(60)
  <2> QED BY <1>4, <1>5, <2>1, <2>2, <2>3, <2>4, ZenonT(30), SMTT(60)
<1> QED BY <1>6 DEF w

LEMMA DirectTcpKeeps ==
  ASSUME OutInv, DirectTcp
  PROVE  OutInv'
<1>1. PICK lost \in Unanswered :
        LET ips == Resolve(choice.target.host, lost)
            wanted == Preferred(ips)
            race == policy.direct.mode = "auto" /\ Len(wanted) = 2 IN
        /\ stage' = IF wanted = <<>> THEN "failed" ELSE "dialing"
        /\ dialing' = [all |-> ips,
                       now |-> {wanted[i] : i \in {j \in DOMAIN wanted : race \/ j = 1}}]
  BY ZenonT(60) DEF DirectTcp
<1>2. /\ stage = "tcp"
      /\ UNCHANGED <<policy, zone, up, traffic, dest, choice, socket, packets, reached>>
  BY ZenonT(30), SMTT(60) DEF DirectTcp
<1> DEFINE ips == Resolve(choice.target.host, lost)
           w == Preferred(ips)
<1>3. stage' = (IF w = <<>> THEN "failed" ELSE "dialing") /\ dialing'.all = ips
  BY <1>1, ZenonT(60)
<1>4. policy.direct.mode = "auto" => dialing'.now = Dialled(w, Len(w) = 2)
  BY <1>1, ZenonT(30), SMTT(60) DEF Dialled
<1>5. ips \in SUBSET Addr /\ \A a, b \in ips : Family(a) = Family(b) => a = b
  <2>1. zone \in Zones /\ choice.target.host \in Addr \union DnsNames
    BY ZenonT(30), SMTT(60) DEF OutInv, OutTypes
  <2>2. \A host \in Addr \union DnsNames :
          /\ Resolve(host, lost) \subseteq Addr
          /\ \A a, b \in Resolve(host, lost) : Family(a) = Family(b) => a = b
    BY <2>1, ResolveGives, ZenonT(30), SMTT(60)
  <2> QED BY <2>1, <2>2, ZenonT(30), SMTT(60)
<1> HIDE DEF ips
<1>6. policy.direct.mode = "auto" => ips \subseteq Dialled(w, Len(w) = 2)
  BY <1>5, AutoDialsAll, ZenonT(30), SMTT(60)
<1>7. Dialled(<<>>, Len(<<>>) = 2) = {}
  BY DEF Dialled
<1> HIDE DEF w
<1>8. RaceInv'
  <2>1. CASE w = <<>>
    BY <1>2, <1>3, <1>6, <1>7, <2>1, ZenonT(30), SMTT(60) DEF RaceInv, ConnectsIfReachable
  <2>2. CASE w # <<>>
    BY <1>2, <1>3, <1>4, <1>6, <2>2, ZenonT(30), SMTT(60) DEF RaceInv, ConnectsIfReachable
  <2> QED BY <2>1, <2>2, ZenonT(30), SMTT(60)
<1>9. stage \in Let /\ stage' \in {"failed", "dialing"}
  BY <1>2, <1>3, ZenonT(30), SMTT(60) DEF Let
<1>10. AllowInv'
  BY <1>2, <1>9, RouteKept, ZenonT(30), SMTT(60) DEF OutInv, OnlyUdp
<1>11. OutTypes'
  BY <1>2, <1>9 DEF OutInv, OutTypes, Stages, Let
<1> QED BY <1>8, <1>10, <1>11 DEF OutInv

(* The race goes on with the other dial, or was the last. *)
LEMMA DialEndsKeeps ==
  ASSUME OutInv, NEW a \in Addr, DialEnds(a)
  PROVE  OutInv'
<1>1. /\ stage = "dialing" /\ stage \in Let
      /\ UNCHANGED <<policy, zone, up, traffic, dest, choice, socket, packets>>
  BY DEF DialEnds, Let
<1>2. CASE /\ stage' = "connected" /\ Reach(a, dialing.all)
           /\ dialing' = [dialing EXCEPT !.now = {}]
  <2>1. stage' \notin Let /\ stage' \notin OnlyUdp /\ stage' \in Stages
    BY <1>2 DEF Let, OnlyUdp, Stages
  <2>2. AllowInv'
    BY <1>1, <1>2, <2>1, ReachKept, ZenonT(30), SMTT(60) DEF OutInv
  <2>3. OutTypes' /\ RaceInv'
    BY <1>1, <1>2, <2>1, ZenonT(30), SMTT(60) DEF OutInv, OutTypes, RaceInv, ConnectsIfReachable
  <2> QED BY <2>2, <2>3 DEF OutInv
<1>3. CASE /\ a \notin up /\ dialing' = [dialing EXCEPT !.now = @ \ {a}]
           /\ stage' = IF dialing.now = {a} THEN "failed" ELSE stage
           /\ UNCHANGED reached
  <2>1. stage' \in {"failed", "dialing"}
    BY <1>1, <1>3
  <2>2. AllowInv'
    BY <1>1, <1>3, <2>1, RouteKept, ZenonT(30), SMTT(60) DEF OutInv, OnlyUdp
  <2>3. OutTypes'
    BY <1>1, <2>1 DEF OutInv, OutTypes, Stages, Let
  <2>4. RaceInv'
    BY <1>1, <1>3, <2>1, SMTT(60) DEF OutInv, RaceInv, ConnectsIfReachable
  <2> QED BY <2>2, <2>3, <2>4 DEF OutInv
<1> QED BY <1>2, <1>3 DEF DialEnds

(* A step that opens a socket or sends nothing. *)
LEMMA QuietKeeps ==
  ASSUME OutInv, UNCHANGED <<policy, zone, up, traffic, dest, choice, dialing, reached>>,
         stage \in Let, stage # "dialing", stage' \in {"first", "failed", "session"},
         stage' # "failed" => traffic = "udp"
  PROVE  OutInv'
<1>1. OutTypes'
  BY DEF OutInv, OutTypes, Stages, OnlyUdp
<1>2. stage' \in OnlyUdp => traffic = "udp"
  BY ZenonT(30), SMTT(60) DEF OnlyUdp
<1>3. AllowInv'
  BY <1>2, RouteKept, ZenonT(30), SMTT(60) DEF OutInv
<1>4. stage \notin {"dialing", "failed", "connected"}
  BY ZenonT(30), SMTT(60) DEF Let
<1>5. RaceInv'
  BY <1>4, ZenonT(30), SMTT(60) DEF OutInv, RaceInv, ConnectsIfReachable
<1> QED BY <1>1, <1>3, <1>5, ZenonT(30), SMTT(60) DEF OutInv

LEMMA DirectUdpKeeps ==
  ASSUME OutInv, DirectUdp
  PROVE  OutInv'
<1>1. UNCHANGED <<policy, zone, up, traffic, dest, choice, dialing, reached>> /\ stage = "udp"
  BY ZenonT(30), SMTT(60) DEF DirectUdp
<1>2. stage' \in {"first", "failed"}
  BY ZenonT(30), SMTT(60) DEF DirectUdp
<1>3. stage \in Let /\ traffic = "udp"
  BY <1>1, ZenonT(30), SMTT(60) DEF OutInv, AllowInv, Let, OnlyUdp
<1> QED BY <1>1, <1>2, <1>3, QuietKeeps, ZenonT(30), SMTT(60)

LEMMA ProxyKeeps ==
  ASSUME OutInv,
         HttpConnect \/ ProxyDial \/ ProxyNegotiate \/ ProxyLogin \/ ProxyCommand \/ ProxyReply
  PROVE  OutInv'
<1>1. stage \in {"httpConnect", "proxyDial", "negotiate", "login", "command", "reply"}
  BY DEF HttpConnect, ProxyDial, ProxyNegotiate, ProxyLogin, ProxyCommand, ProxyReply
<1>2. stage \in Let /\ stage \notin {"dialing", "failed", "connected"}
  BY <1>1, ZenonT(30), SMTT(60) DEF Let
<1>3. ASSUME NEW where \in {"failed", "negotiate", "login", "command", "reply"}, Become(where)
      PROVE  OutInv'
  <2>1. where \in Stages /\ where # "dialing" /\ where \notin OnlyUdp
    BY ZenonT(30), SMTT(60) DEF Stages, Let, OnlyUdp
  <2> QED BY <1>2, <1>3, <2>1, BecomeKeeps, ZenonT(30), SMTT(60)
<1>4. CASE /\ stage' = "connected" /\ Reach("proxy", {})
           /\ UNCHANGED <<policy, zone, up, traffic, dest, choice, dialing, socket, packets>>
  BY <1>2, <1>4, ReachKeeps, ZenonT(30), SMTT(60)
<1>5. CASE /\ traffic = "udp" /\ stage' = "first"
           /\ UNCHANGED <<policy, zone, up, traffic, dest, choice, dialing, packets, reached>>
  BY <1>2, <1>5, QuietKeeps, ZenonT(30), SMTT(60)
<1> QED
  BY <1>3, <1>4, <1>5, ZenonT(30), SMTT(60)
  DEF HttpConnect, ProxyDial, ProxyNegotiate, ProxyLogin, ProxyCommand, ProxyReply

LEMMA SendKeeps ==
  ASSUME OutInv, SendFirst \/ SendNext
  PROVE  OutInv'
<1>1. /\ UNCHANGED <<policy, zone, up, traffic, dest, choice, dialing, socket, packets>>
      /\ stage \in {"first", "send"}
      /\ SendTo("session", "failed") \/ SendTo("session", "session")
  BY ZenonT(30), SMTT(60) DEF SendFirst, SendNext
<1>2. stage \in Let /\ stage # "dialing" /\ traffic = "udp"
  BY <1>1, ZenonT(30), SMTT(60) DEF OutInv, AllowInv, Let, OnlyUdp
<1>3. ASSUME NEW ip, NEW ips, Reach(ip, ips), stage' = "session"
      PROVE  OutInv'
  BY <1>1, <1>2, <1>3, ReachKeeps, ZenonT(30), SMTT(60)
<1>4. ASSUME UNCHANGED reached, stage' \in {"session", "failed"}
      PROVE  OutInv'
  BY <1>1, <1>2, <1>4, QuietKeeps, ZenonT(30), SMTT(60)
<1>5. ASSUME NEW failed \in {"session", "failed"}, SendTo("session", failed)
      PROVE  OutInv'
  BY <1>3, <1>4, <1>5, ZenonT(30), SMTT(60) DEF SendTo
<1> QED BY <1>1, <1>5, ZenonT(30), SMTT(60)

LEMMA CheckNextKeeps ==
  ASSUME OutInv, CheckNext
  PROVE  OutInv'
<1>1. PICK lost \in Unanswered :
        /\ choice' = Decide(dest', "udp", Resolve(dest'.host, lost))
        /\ stage' = IF choice'.outbound \in {"reject", "http"} THEN "session" ELSE "send"
  BY ZenonT(30), SMTT(60) DEF CheckNext
<1>2. /\ stage = "session" /\ dest' \in Destinations
      /\ UNCHANGED <<policy, zone, up, traffic, dialing, socket, reached>>
  BY DEF CheckNext
<1> DEFINE ips == Resolve(dest'.host, lost)
<1>3. traffic = "udp" /\ choice' = Decide(dest', traffic, ips)
  BY <1>1, <1>2, ZenonT(60) DEF OutInv, AllowInv, OnlyUdp
<1> HIDE DEF ips
<1>4. /\ stage' \in Let => choice'.outbound # "reject"
      /\ stage' \in {"session", "send"} /\ stage' \in Stages
  BY <1>1, ZenonT(30), SMTT(60) DEF Let, OnlyUdp, Stages
<1>5. dest' \in [host : Addr \union DnsNames, port : Int]
  BY <1>2, OutAssumption, ZenonT(30), SMTT(60)
<1>6. AllowInv' /\ choice'.target.host \in Addr \union DnsNames
  BY <1>2, <1>3, <1>4, <1>5, DecidedAnew, ZenonT(30), SMTT(60) DEF OutInv
<1>7. OutTypes'
  BY <1>2, <1>4, <1>5, <1>6, ZenonT(30), SMTT(60) DEF OutInv, OutTypes
<1>8. RaceInv'
  BY <1>2, <1>4, ZenonT(30), SMTT(60) DEF OutInv, RaceInv, ConnectsIfReachable
<1> QED BY <1>6, <1>7, <1>8 DEF OutInv

LEMMA NextOut == OutInv /\ [OutNext]_outVars => OutInv'
<1> SUFFICES ASSUME OutInv, [OutNext]_outVars PROVE OutInv'
  OBVIOUS
<1>1. CASE DnsChanges
  BY <1>1, DnsChangesKeeps
<1>2. CASE SniffTcp \/ SniffUdp
  BY <1>2, SniffKeeps, ZenonT(30), SMTT(60)
<1>3. CASE Select
  BY <1>3, SelectKeeps
<1>4. CASE DirectTcp
  BY <1>4, DirectTcpKeeps
<1>5. ASSUME NEW a \in Addr, DialEnds(a) PROVE OutInv'
  BY <1>5, DialEndsKeeps, ZenonT(30), SMTT(60)
<1>6. CASE DirectUdp
  BY <1>6, DirectUdpKeeps
<1>7. CASE HttpConnect \/ ProxyDial \/ ProxyNegotiate \/ ProxyLogin \/ ProxyCommand \/ ProxyReply
  BY <1>7, ProxyKeeps, ZenonT(30), SMTT(60)
<1>8. CASE SendFirst \/ SendNext
  BY <1>8, SendKeeps
<1>9. CASE CheckNext
  BY <1>9, CheckNextKeeps
<1>10. CASE UNCHANGED outVars
  <2>1. UNCHANGED <<policy, zone, up, traffic, stage, dest, choice, dialing, reached>>
    BY <1>10, ZenonT(30), SMTT(60) DEF outVars
  <2>2. AllowInv'
    BY <2>1, RouteKept, ZenonT(30), SMTT(60) DEF OutInv, AllowInv
  <2>3. OutTypes' /\ RaceInv'
    BY <2>1 DEF OutInv, OutTypes, RaceInv, ConnectsIfReachable
  <2> QED BY <2>2, <2>3, ZenonT(30), SMTT(60) DEF OutInv
<1> QED BY <1>1, <1>2, <1>3, <1>4, <1>5, <1>6, <1>7, <1>8, <1>9, <1>10, ZenonT(30), SMTT(60) DEF OutNext

(* Whatever the rules, the DNS and the peers do, a connection or datagram  *)
(* leaves only for a destination that AclOutbound::select or check_udp     *)
(* has let through with the addresses it saw.                              *)
THEOREM RejectedStayUnreached == OutInit /\ [][OutNext]_outVars => []RejectedNeverReached
<1>1. OutInit => OutInv
  BY InitOut DEF OutInv
<1>2. OutInv => RejectedNeverReached
  BY AllowImplies, ZenonT(30), SMTT(60) DEF OutInv
<1> QED BY <1>1, <1>2, NextOut, PTL

(* ConfigurableDirect::tcp in auto mode fails only if no address that was  *)
(* resolved accepts: Resolver::resolve gives at most one of each family,   *)
(* both are dialled, and the race is lost only by its last dial.           *)
THEOREM AutoConnects == OutInit /\ [][OutNext]_outVars => []ConnectsIfReachable
<1>1. OutInit => OutInv
  BY InitOut DEF OutInv
<1>2. OutInv => ConnectsIfReachable
  BY ZenonT(30), SMTT(60) DEF OutInv, RaceInv
<1> QED BY <1>1, <1>2, NextOut, PTL

-----------------------------------------------------------------------------
(* LocalProxies.                                                           *)

Unserved == {"greeting", "userpass", "request", "closed"}

(* A peer of a SOCKS5 inbound has shown its credentials when it sends its  *)
(* request, a peer of an HTTP inbound with its request; nothing is written *)
(* before the relay; and only the one source there is is served.           *)
GuardInv ==
  /\ at \in Unserved \union {"opening", "associating", "flush", "relay", "udp"}
  /\ inbound.auth /\ ~proven => at \in Unserved
  /\ inbound.auth /\ ~proven /\ at = "request" => inbound.kind = "http"
  /\ at \in Unserved \ {"closed"} \/ (inbound.auth /\ ~proven) => written = <<>>
  /\ served \subseteq peer /\ (peer = {} \/ \E s \in Sources : peer = {s})

LEMMA ProxyStart == ProxyInit => GuardInv
BY DEF ProxyInit, GuardInv, Unserved

LEMMA ProxyStep == GuardInv /\ [LocalNext]_proxVars => GuardInv'
<1> SUFFICES ASSUME GuardInv, [LocalNext]_proxVars PROVE GuardInv'
  OBVIOUS
<1> USE DEF GuardInv, Unserved
<1>1. CASE Negotiate
  BY <1>1, ZenonT(30), SMTT(60) DEF Negotiate
<1>2. CASE UserPass
  BY <1>2, SMTT(60) DEF UserPass
<1>3. CASE Command
  BY <1>3, ZenonT(30), SMTT(60) DEF Command
<1>4. CASE ReadRequestHead
  BY <1>4, SMTT(60) DEF ReadRequestHead
<1>5. CASE OpenTunnel \/ Flush \/ Associate
  BY <1>5, ZenonT(30), SMTT(60) DEF OpenTunnel, Flush, Associate
<1>6. CASE Shut \/ Abort
  BY <1>6, ZenonT(30), SMTT(60) DEF Shut, Abort
<1>7. CASE Relayed
  BY <1>7, ZenonT(30), SMTT(60) DEF Relayed
<1>8. CASE FromSession
  BY <1>8, ZenonT(30), SMTT(60) DEF FromSession
<1>9. CASE ControlClosed
  BY <1>9, ZenonT(30), SMTT(60) DEF ControlClosed
<1>10. ASSUME NEW s \in Sources, Datagram(s) PROVE GuardInv'
  BY <1>10, ZenonT(30), SMTT(60) DEF Datagram
<1>11. CASE UNCHANGED proxVars
  BY <1>11 DEF proxVars
<1> QED
  BY <1>1, <1>2, <1>3, <1>4, <1>5, <1>6, <1>7, <1>8, <1>9, <1>10, <1>11, ZenonT(60) DEF LocalNext, Handler

(* For any sources, and any number of datagrams and chunks: where          *)
(* credentials are configured nothing is opened without them, and an       *)
(* association serves one address.                                         *)
THEOREM ProxiesStayGuarded == ProxyInit /\ [][LocalNext]_proxVars => []ProxiesGuarded
<1>1. GuardInv => OpenedOnlyWhenProven
  BY ZenonT(30), SMTT(60) DEF GuardInv, OpenedOnlyWhenProven, Unserved
<1>2. GuardInv => OneAddressPerAssociation
  BY DEF GuardInv, OneAddressPerAssociation
<1> QED BY <1>1, <1>2, ProxyStart, ProxyStep, PTL DEF ProxiesGuarded
=============================================================================
