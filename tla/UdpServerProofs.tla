-------------------------- MODULE UdpServerProofs ---------------------------
(***************************************************************************)
(* Proofs about the server's table of UDP sessions (UdpServer), for any    *)
(* number of sessions, tasks and datagrams, and about the database and     *)
(* certificate files that a server loads (Files), for any number of        *)
(* processes.                                                              *)
(***************************************************************************)
EXTENDS UdpServer, Files, TLAPS

(* What the agreement of table and tasks rests on: tokens not handed out   *)
(* yet are unused, a live task has one session, and while the reader is    *)
(* about to insert an entry there is none for that session, because only   *)
(* the reader inserts.                                                     *)
Supported ==
  /\ nextToken \in Nat \ {0}
  /\ \A t \in Tokens : t >= nextToken => task[t].pc = "unused"
  /\ \A t \in Tokens : Live(t) => \E s \in SessionIds : task[t].session = {s}
  /\ reader.pc = "route" =>
       \E s \in SessionIds :
         /\ reader.session = {s}
         /\ reader.existing = {} => sessions[s] = {}

IInv == TypeOK /\ Supported /\ TableMatchesTasks /\ OneTaskPerSession

TaskType == [Tokens -> [pc : TaskPc, session : SUBSET SessionIds, queue : 0..Capacity]]

(* What moving a task changes. *)
LEMMA MovedFacts ==
  ASSUME TypeOK, NEW t \in Tokens, NEW pc \in TaskPc, NEW queue \in 0..Capacity,
         task' = Moved(t, pc, queue)
  PROVE  /\ task' \in TaskType
         /\ task'[t].pc = pc
         /\ \A u \in Tokens : task'[u].session = task[u].session
         /\ \A u \in Tokens \ {t} : task'[u] = task[u]
BY DEF TypeOK, Moved, TaskType

(* Ending a task that is live keeps the invariant: its entry goes with it  *)
(* (remove_server_session followed by return).                             *)
LEMMA FinishKeepsIInv ==
  ASSUME IInv, NEW t \in Tokens, Live(t), Finish(t),
         conn' \in {"open", "closed"}, replies' \in Nat
  PROVE  IInv'
<1>1. PICK s \in SessionIds : task[t].session = {s}
  BY DEF IInv, Supported
<1> USE <1>1 DEF IInv, Finish, Remove
<1>2. sessions' \in [SessionIds -> SUBSET Tokens]
      /\ \A r \in SessionIds :
           sessions'[r] = IF r = s THEN sessions[r] \ {t} ELSE sessions[r]
  BY DEF TypeOK
<1>3. /\ task' \in TaskType
      /\ task'[t].pc = "done"
      /\ \A u \in Tokens : task'[u].session = task[u].session
      /\ \A u \in Tokens \ {t} : task'[u] = task[u]
  <2>1. 0 \in 0..Capacity /\ "done" \in TaskPc
    BY UdpServerAssumption DEF TaskPc
  <2> QED BY <2>1, MovedFacts
<1>4. TypeOK'
  BY <1>2, <1>3 DEF TypeOK, TaskType
<1>5. \A u \in Tokens : Live(u)' <=> (Live(u) /\ u # t)
  BY <1>3 DEF Live
<1>6. Supported'
  BY <1>2, <1>3, <1>5 DEF Supported, Live
<1>7. TableMatchesTasks'
  <2> SUFFICES ASSUME NEW u \in Tokens, NEW r \in SessionIds
               PROVE /\ u \in sessions'[r] => Live(u)' /\ task'[u].session = {r}
                     /\ Live(u)' /\ task'[u].session = {r} /\ reader'.pc # "cleared"
                          => sessions'[r] = {u}
    BY DEF TableMatchesTasks
  <2>1. ASSUME u \in sessions'[r]
        PROVE Live(u)' /\ task'[u].session = {r}
    <3>1. u \in sessions[r] /\ (r = s => u # t)
      BY <2>1, <1>2
    <3>2. Live(u) /\ task[u].session = {r}
      BY <3>1 DEF TableMatchesTasks
    <3>3. u # t
      BY <3>1, <3>2
    <3> QED BY <3>2, <3>3, <1>3, <1>5
  <2>2. ASSUME Live(u)', task'[u].session = {r}, reader'.pc # "cleared"
        PROVE sessions'[r] = {u}
    <3>1. Live(u) /\ u # t /\ task[u].session = {r}
      BY <2>2, <1>3, <1>5
    <3>2. sessions[r] = {u}
      BY <2>2, <3>1 DEF TableMatchesTasks
    <3>3. t \notin sessions[r]
      BY <3>1, <3>2
    <3> QED BY <1>2, <3>2, <3>3
  <2> QED BY <2>1, <2>2
<1>8. OneTaskPerSession'
  BY <1>3, <1>5 DEF OneTaskPerSession
<1> QED BY <1>4, <1>6, <1>7, <1>8

(* A step of a live task that moves it to another live pc and takes        *)
(* nothing but messages from its channel keeps the invariant.              *)
LEMMA AdvanceKeepsIInv ==
  ASSUME IInv, NEW t \in Tokens, Live(t),
         task' \in TaskType,
         \A u \in Tokens : Live(u)' <=> Live(u),
         \A u \in Tokens : task'[u].session = task[u].session,
         \A u \in Tokens : u >= nextToken => task'[u].pc = task[u].pc,
         conn' \in {"open", "closed"}, replies' \in Nat,
         UNCHANGED <<inbox, arrivals, reader, sessions, nextToken>>
  PROVE  IInv'
<1> USE DEF IInv
<1>1. TypeOK'
  BY DEF TypeOK, TaskType
<1>2. Supported'
  BY DEF Supported
<1>3. TableMatchesTasks'
  BY DEF TableMatchesTasks
<1>4. OneTaskPerSession'
  BY ZenonT(30), SMTT(60) DEF OneTaskPerSession
<1> QED BY <1>1, <1>2, <1>3, <1>4

LEMMA StepKeepsIInv ==
  ASSUME IInv, NEW t \in Tokens, NEW from \in TaskPc \ {"unused", "done"},
         NEW to \in TaskPc \ {"unused", "done"}, Step(t, from, to)
  PROVE  IInv'
<1>1. /\ task' \in TaskType
      /\ task'[t].pc = to
      /\ \A u \in Tokens : task'[u].session = task[u].session
      /\ \A u \in Tokens \ {t} : task'[u] = task[u]
  BY MovedFacts DEF Step, IInv, TypeOK
<1>2. /\ \A u \in Tokens : Live(u)' <=> Live(u)
      /\ \A u \in Tokens : u >= nextToken => task'[u].pc = task[u].pc
      /\ Live(t)
  BY <1>1, ZenonT(30), SMTT(60) DEF IInv, Supported, Step, Live
<1> QED BY <1>1, <1>2, AdvanceKeepsIInv DEF Step, IInv, TypeOK

LEMMA TakeKeepsIInv ==
  ASSUME IInv, NEW t \in Tokens, NEW from \in TaskPc \ {"unused", "done"},
         NEW to \in TaskPc \ {"unused", "done"}, TakeMessage(t, from, to)
  PROVE  IInv'
<1>1. PICK pc \in {from, to} : task' = Moved(t, pc, task[t].queue - 1)
  BY DEF TakeMessage
<1>2. task[t].queue - 1 \in 0..Capacity
  BY UdpServerAssumption DEF IInv, TypeOK, TakeMessage
<1>3. /\ task' \in TaskType
      /\ task'[t].pc = pc
      /\ \A u \in Tokens : task'[u].session = task[u].session
      /\ \A u \in Tokens \ {t} : task'[u] = task[u]
  BY <1>1, <1>2, MovedFacts, ZenonT(30), SMTT(60) DEF IInv
<1>4. /\ \A u \in Tokens : Live(u)' <=> Live(u)
      /\ \A u \in Tokens : u >= nextToken => task'[u].pc = task[u].pc
      /\ Live(t)
  BY <1>3 DEF IInv, Supported, TakeMessage, Live
<1> QED BY <1>3, <1>4, AdvanceKeepsIInv DEF TakeMessage, IInv, TypeOK

-----------------------------------------------------------------------------
(* Steps that change neither the table, nor the tasks, nor what the reader *)
(* remembers of the table.                                                 *)
LEMMA QuietKeepsIInv ==
  ASSUME IInv, TypeOK', UNCHANGED <<sessions, nextToken, task>>,
         reader'.pc # "route" \/ reader' = reader,
         reader.pc = "cleared" => reader'.pc = "cleared"
  PROVE  IInv'
<1> USE DEF IInv
<1>1. Supported'
  BY DEF Supported, Live
<1>2. TableMatchesTasks'
  BY DEF TableMatchesTasks, Live
<1>3. OneTaskPerSession'
  BY DEF OneTaskPerSession, Live
<1> QED BY <1>1, <1>2, <1>3

LEMMA ReadKeepsIInv ==
  ASSUME IInv, ReadDatagram
  PROVE  IInv'
<1> USE DEF IInv
<1>0. Head(inbox) \in SessionIds /\ Tail(inbox) \in Seq(SessionIds)
  BY DEF ReadDatagram, TypeOK
<1>1. TypeOK'
  BY <1>0 DEF ReadDatagram, TypeOK, Goto, ReaderPc
<1>2. CASE reader'.pc # "route" \/ reader' = reader
  BY <1>1, <1>2, QuietKeepsIInv DEF ReadDatagram
<1>3. CASE reader' = [pc |-> "route", session |-> {Head(inbox)},
                      existing |-> sessions[Head(inbox)]]
  <2>1. Supported'
    BY <1>0, <1>3 DEF ReadDatagram, Supported, Live
  <2>2. TableMatchesTasks' /\ OneTaskPerSession'
    BY <1>3 DEF ReadDatagram, TableMatchesTasks, OneTaskPerSession, Live
  <2> QED BY <1>1, <2>1, <2>2
<1> QED BY <1>2, <1>3 DEF ReadDatagram, Goto

LEMMA RouteKeepsIInv ==
  ASSUME IInv, RouteToExisting
  PROVE  IInv'
<1> USE DEF IInv
<1>1. PICK t \in reader.existing :
        task' = IF Live(t) /\ task[t].queue < Capacity
                THEN Moved(t, task[t].pc, task[t].queue + 1) ELSE task
  BY DEF RouteToExisting
<1>2. t \in Tokens
  BY DEF TypeOK
<1>3. /\ task' \in TaskType
      /\ \A u \in Tokens : task'[u].session = task[u].session
      /\ \A u \in Tokens : task'[u].pc = task[u].pc
  <2>1. CASE Live(t) /\ task[t].queue < Capacity
    <3>1. task[t].queue + 1 \in 0..Capacity /\ task[t].pc \in TaskPc
      BY <1>2, <2>1, UdpServerAssumption, SMTT(60) DEF TypeOK
    <3> QED BY <1>1, <1>2, <2>1, <3>1, MovedFacts
  <2>2. CASE ~(Live(t) /\ task[t].queue < Capacity)
    BY <1>1, <2>2 DEF TypeOK, TaskType
  <2> QED BY <2>1, <2>2, ZenonT(30), SMTT(60)
<1>4. reader' = [pc |-> "read", session |-> {}, existing |-> {}]
  BY ZenonT(30), SMTT(60) DEF RouteToExisting, Goto
<1>5. TypeOK'
  BY <1>3, <1>4, ZenonT(30), SMTT(60) DEF RouteToExisting, TypeOK, TaskType, ReaderPc
<1>6. Supported'
  BY <1>3, <1>4, ZenonT(30), SMTT(60) DEF RouteToExisting, Supported, Live
<1>7. TableMatchesTasks' /\ OneTaskPerSession'
  BY <1>3, <1>4 DEF RouteToExisting, TableMatchesTasks, OneTaskPerSession, Live
<1> QED BY <1>5, <1>6, <1>7

LEMMA SpawnKeepsIInv ==
  ASSUME IInv, NEW s \in SessionIds, NEW t \in Tokens, SpawnSession(s, t)
  PROVE  IInv'
<1> USE DEF IInv
<1>1. sessions[s] = {} /\ reader.pc = "route" /\ task[t].pc = "unused"
  BY DEF SpawnSession, Supported
<1>2. reader' = [pc |-> "read", session |-> {}, existing |-> {}]
  BY DEF SpawnSession, Goto
<1>3. sessions' \in [SessionIds -> SUBSET Tokens]
      /\ \A r \in SessionIds : sessions'[r] = IF r = s THEN {t} ELSE sessions[r]
  BY DEF SpawnSession, TypeOK
<1>4. /\ task' \in TaskType
      /\ \A u \in Tokens :
           task'[u] = IF u = t THEN [pc |-> "first", session |-> {s}, queue |-> 1] ELSE task[u]
  <2>1. [pc |-> "first", session |-> {s}, queue |-> 1]
          \in [pc : TaskPc, session : SUBSET SessionIds, queue : 0..Capacity]
    BY UdpServerAssumption DEF TaskPc
  <2> QED BY <2>1 DEF SpawnSession, TypeOK, TaskType
<1>5. \A u \in Tokens : Live(u)' <=> (Live(u) \/ u = t)
  BY <1>4 DEF Live
<1>6. \A u \in Tokens : u # t /\ Live(u) => task[u].session # {s}
  <2> SUFFICES ASSUME NEW u \in Tokens, Live(u), task[u].session = {s}
               PROVE FALSE
    OBVIOUS
  <2>1. sessions[s] = {u}
    BY <1>1, ZenonT(30), SMTT(60) DEF TableMatchesTasks
  <2> QED BY <2>1, <1>1
<1>7. TypeOK'
  BY <1>2, <1>3, <1>4, SMTT(60) DEF SpawnSession, TypeOK, TaskType, ReaderPc
<1>8. Supported'
  BY <1>2, <1>3, <1>4, <1>5, SMTT(60) DEF SpawnSession, Supported, Live, Tokens
<1>9. TableMatchesTasks'
  <2> SUFFICES ASSUME NEW u \in Tokens, NEW r \in SessionIds
               PROVE /\ u \in sessions'[r] => Live(u)' /\ task'[u].session = {r}
                     /\ Live(u)' /\ task'[u].session = {r} => sessions'[r] = {u}
    BY ZenonT(30), SMTT(60) DEF TableMatchesTasks
  <2>1. CASE u = t
    BY <2>1, <1>1, <1>3, <1>4, <1>5, SMTT(60) DEF TableMatchesTasks, Live
  <2>2. CASE u # t
    BY <2>2, <1>1, <1>3, <1>4, <1>5, <1>6, SMTT(60) DEF TableMatchesTasks
  <2> QED BY <2>1, <2>2
<1>10. OneTaskPerSession'
  BY <1>4, <1>5, <1>6 DEF OneTaskPerSession
<1> QED BY <1>7, <1>8, <1>9, <1>10, ZenonT(30), SMTT(60)

LEMMA ClearKeepsIInv ==
  ASSUME IInv, ClearTable
  PROVE  IInv'
<1> USE DEF IInv
<1>1. /\ reader' = [pc |-> "cleared", session |-> {}, existing |-> {}]
      /\ \A s \in SessionIds : sessions'[s] = {}
      /\ sessions' \in [SessionIds -> SUBSET Tokens]
  BY ZenonT(30), SMTT(60) DEF ClearTable, Goto
<1>2. TypeOK'
  BY <1>1, ZenonT(30), SMTT(60) DEF ClearTable, TypeOK, ReaderPc
<1>3. Supported'
  BY <1>1, ZenonT(30), SMTT(60) DEF ClearTable, Supported, Live
<1>4. TableMatchesTasks' /\ OneTaskPerSession'
  BY <1>1, ZenonT(30), SMTT(60) DEF ClearTable, TableMatchesTasks, OneTaskPerSession, Live
<1> QED BY <1>2, <1>3, <1>4

(* A packet of the outbound either ends the task or makes it reply. *)
LEMMA RemoteKeepsIInv ==
  ASSUME IInv, NEW t \in Tokens, RemotePacket(t)
  PROVE  IInv'
<1>1. Live(t) /\ replies' \in Nat /\ conn' \in {"open", "closed"}
  BY DEF RemotePacket, Live, IInv, TypeOK
<1>2. CASE Finish(t)
  BY <1>1, <1>2, FinishKeepsIInv, ZenonT(30), SMTT(60)
<1>3. CASE task' = Moved(t, "reply", task[t].queue)
           /\ UNCHANGED <<inbox, arrivals, reader, sessions, nextToken>>
  <2>1. "reply" \in TaskPc /\ task[t].queue \in 0..Capacity
    BY ZenonT(30), SMTT(60) DEF TaskPc, IInv, TypeOK
  <2>2. /\ task' \in TaskType
        /\ task'[t].pc = "reply"
        /\ \A u \in Tokens : task'[u].session = task[u].session
        /\ \A u \in Tokens \ {t} : task'[u] = task[u]
    BY <1>3, <2>1, MovedFacts DEF IInv
  <2>3. /\ \A u \in Tokens : Live(u)' <=> Live(u)
        /\ \A u \in Tokens : u >= nextToken => task'[u].pc = task[u].pc
    BY <1>1, <2>2 DEF IInv, Supported, Live
  <2> QED BY <1>1, <1>3, <2>2, <2>3, AdvanceKeepsIInv
<1> QED BY <1>2, <1>3 DEF RemotePacket

LEMMA InitIInv == Init => IInv
<1> SUFFICES ASSUME Init PROVE IInv
  OBVIOUS
<1> USE DEF Init
<1>1. TypeOK
  BY UdpServerAssumption DEF TypeOK, ReaderPc, TaskPc
<1>2. \A t \in Tokens : ~Live(t)
  BY DEF Live
<1>3. Supported /\ TableMatchesTasks /\ OneTaskPerSession
  BY <1>2 DEF Supported, TableMatchesTasks, OneTaskPerSession
<1> QED BY <1>1, <1>3 DEF IInv

LEMMA NextKeepsIInv == IInv /\ [Next]_vars => IInv'
<1> SUFFICES ASSUME IInv, [Next]_vars PROVE IInv'
  BY ZenonT(30), SMTT(60)
<1>1. CASE UNCHANGED vars
  BY <1>1, ZenonT(30), SMTT(60) DEF vars, IInv, TypeOK, Supported, TableMatchesTasks, OneTaskPerSession, Live
<1>2. ASSUME NEW s \in SessionIds, Arrive(s) PROVE IInv'
  <2>1. TypeOK'
    BY <1>2 DEF Arrive, IInv, TypeOK
  <2> QED BY <1>2, <2>1, QuietKeepsIInv DEF Arrive
<1>3. CASE ConnectionLost
  <2>1. TypeOK'
    BY <1>3, ZenonT(30), SMTT(60) DEF ConnectionLost, IInv, TypeOK
  <2> QED BY <1>3, <2>1, QuietKeepsIInv DEF ConnectionLost
<1>4. CASE AbortReader \/ ReadError
  <2>1. TypeOK'
    BY <1>4 DEF AbortReader, ReadError, Goto, ReaderPc, IInv, TypeOK
  <2> QED BY <1>4, <2>1, QuietKeepsIInv, SMTT(60) DEF AbortReader, ReadError, Goto
<1>5. ASSUME NEW t \in Tokens, RemotePacket(t) PROVE IInv'
  BY <1>5, RemoteKeepsIInv
<1>6. CASE ReadDatagram
  BY <1>6, ReadKeepsIInv
<1>7. CASE RouteToExisting
  BY <1>7, RouteKeepsIInv
<1>8. CASE ClearTable
  BY <1>8, ClearKeepsIInv
<1>9. ASSUME NEW s \in SessionIds, NEW t \in Tokens, SpawnSession(s, t) PROVE IInv'
  BY <1>9, SpawnKeepsIInv
<1>10. ASSUME NEW t \in Tokens, TaskNext(t) \/ IdleTimeout(t) PROVE IInv'
  <2> DEFINE Ends == Live(t) /\ Finish(t) /\ UNCHANGED <<conn, replies>>
  <2>1. CASE Ends
    BY <2>1, FinishKeepsIInv, ZenonT(30), SMTT(60) DEF IInv, TypeOK
  <2>2. CASE StartFails(t) \/ ReplyFails(t) \/ ChannelEnds(t) \/ IdleTimeout(t)
    BY <2>1, <2>2, ZenonT(30), SMTT(60) DEF StartFails, ReplyFails, ChannelEnds, IdleTimeout, Waiting, Live
  <2>3. CASE FirstMessage(t)
    <3>1. CASE TakeMessage(t, "first", "dial")
      BY <3>1, TakeKeepsIInv DEF TaskPc
    <3> QED BY <2>1, <2>3, <3>1 DEF FirstMessage, Live
  <2>4. CASE ClientMessage(t)
    BY <2>4, TakeKeepsIInv DEF ClientMessage, TaskPc
  <2>5. CASE Dial(t) \/ Greet(t) \/ CheckUdp(t) \/ Forward(t) \/ Reply(t)
    BY <2>5, StepKeepsIInv DEF Dial, Greet, CheckUdp, Forward, Reply, TaskPc
  <2> QED BY <1>10, <2>2, <2>3, <2>4, <2>5, ZenonT(30), SMTT(60) DEF TaskNext
<1> QED BY <1>1, <1>2, <1>3, <1>4, <1>5, <1>6, <1>7, <1>8, <1>9, <1>10
     DEF Next, Environment, ReaderNext

-----------------------------------------------------------------------------
(* The state keeps its types; above all no session channel ever holds more *)
(* messages than SESSION_CHANNEL_SIZE (try_send drops the rest).           *)
THEOREM TypeCorrect == Spec => []TypeOK
<1>1. IInv => TypeOK
  BY DEF IInv
<1> QED BY <1>1, InitIInv, NextKeepsIInv, PTL DEF Spec

(* The table of sessions and the session tasks agree in every state,       *)
(* although spawn_server_udp looks an entry up and inserts one in two      *)
(* separate sections of the lock while tasks remove theirs.                *)
THEOREM TableCorrect == Spec => []TableMatchesTasks
<1>1. IInv => TableMatchesTasks
  BY DEF IInv
<1> QED BY <1>1, InitIInv, NextKeepsIInv, PTL DEF Spec

(* No session id is ever served by two run_server_session tasks at once.   *)
THEOREM SessionsExclusive == Spec => []OneTaskPerSession
<1>1. IInv => OneTaskPerSession
  BY DEF IInv
<1> QED BY <1>1, InitIInv, NextKeepsIInv, PTL DEF Spec

-----------------------------------------------------------------------------
(* Files.                                                                  *)

Jobs == {"off", "prepare", "download", "create", "write", "rename", "load", "eab", "cache",
         "absent", "cert", "key"}
Certifying == {"absent", "cert", "key"}
Carrying == {"create", "write", "rename", "cache", "cert", "key"}

FileTypes ==
  /\ disk \in [Paths -> Versions \union {"none", "part"}]
  /\ job \in [Processes -> Jobs]
  /\ fetched \in [Processes -> Versions \union {"none"}]
  /\ overwrite \in [Processes -> BOOLEAN] /\ torn \in BOOLEAN

(* The database is only ever replaced by a complete one, and whoever is    *)
(* about to load it has seen it there or put it there.                     *)
GeoInv ==
  /\ found = TRUE /\ disk["geo"] # "part"
  /\ \A p \in Processes : job[p] \in Carrying => fetched[p] \in Versions
  /\ \A p \in Processes : job[p] = "rename" => disk[p] = fetched[p]
  /\ \A p \in Processes : job[p] = "load" => disk["geo"] # "none"

(* There is one cert command at a time; until it is done the two files are *)
(* visibly incomplete.                                                     *)
CertInv ==
  /\ \A p, q \in Processes : job[p] \in Certifying /\ job[q] \in Certifying => p = q
  /\ \A p \in Processes : job[p] = "key" => disk["cert"] = fetched[p] /\ disk["key"] = "part"
  /\ \A p \in Processes : job[p] = "cert" => overwrite[p] \/ disk["key"] = "none"
  /\ (\A p \in Processes : job[p] \notin {"cert", "key"}) /\ disk["key"] \in Versions =>
       torn \/ disk["cert"] = disk["key"]

FileInv == FileTypes /\ GeoInv /\ CertInv

LEMMA FilesStart == FilesInit => FileInv
<1> SUFFICES ASSUME FilesInit PROVE FileInv
  OBVIOUS
<1>1. FileTypes
  BY Zenon DEF FilesInit, FileTypes, Jobs
<1>2. GeoInv
  BY FilesAssumption DEF FilesInit, GeoInv, Carrying, Paths
<1>3. CertInv
  BY FilesAssumption, ZenonT(30), SMTT(60) DEF FilesInit, CertInv, Certifying, Paths
<1> QED BY <1>1, <1>2, <1>3 DEF FileInv

LEMMA FilesStep == FileInv /\ [FilesNext]_fileVars => FileInv'
<1> SUFFICES ASSUME FileInv, [FilesNext]_fileVars PROVE FileInv'
  OBVIOUS
<1> USE FilesAssumption
<1>0. CASE UNCHANGED fileVars
  BY <1>0 DEF fileVars, FileInv, FileTypes, GeoInv, CertInv
<1>1. ASSUME NEW p \in Processes, Launch(p) PROVE FileInv'
  <2>1. FileTypes'
    BY <1>1, SMTT(30) DEF Launch, Put, FileInv, FileTypes, Jobs, Paths, GeoInv, Carrying
  <2>2. GeoInv'
    BY <1>1, SMTT(60) DEF Launch, Put, FileInv, FileTypes, GeoInv, Carrying, Paths
  <2>3. CertInv'
    BY <1>1, SMTT(60) DEF Launch, Put, FileInv, FileTypes, GeoInv, CertInv, Certifying, Carrying, Paths
  <2> QED BY <2>1, <2>2, <2>3, ZenonT(30), SMTT(60) DEF FileInv
<1>2. ASSUME NEW p \in Processes, Prepare(p) PROVE FileInv'
  BY <1>2, SMTT(60) DEF Prepare, Put, FileInv, FileTypes, GeoInv, CertInv, Jobs, Certifying, Carrying, Paths
<1>3. ASSUME NEW p \in Processes, Download(p) PROVE FileInv'
  BY <1>3, SMTT(60) DEF Download, Put, FileInv, FileTypes, GeoInv, CertInv, Jobs, Certifying, Carrying, Paths
<1>4. ASSUME NEW p \in Processes, CreateTemporary(p) PROVE FileInv'
  <2>1. FileTypes'
    BY <1>4 DEF CreateTemporary, Temporary, Put, FileInv, FileTypes, Jobs, Paths, GeoInv, Carrying
  <2>2. GeoInv'
    BY <1>4, ZenonT(30), SMTT(60) DEF CreateTemporary, Temporary, Put, FileInv, FileTypes, GeoInv, Carrying, Paths
  <2>3. CertInv'
    BY <1>4, ZenonT(30), SMTT(60) DEF CreateTemporary, Temporary, Put, FileInv, FileTypes, GeoInv, CertInv, Certifying, Carrying, Paths
  <2> QED BY <2>1, <2>2, <2>3 DEF FileInv
<1>5. ASSUME NEW p \in Processes, WriteTemporary(p) PROVE FileInv'
  <2>1. FileTypes'
    BY <1>5, ZenonT(30), SMTT(60) DEF WriteTemporary, Temporary, Put, FileInv, FileTypes, Jobs, Paths, GeoInv, Carrying
  <2>2. GeoInv'
    BY <1>5, ZenonT(30), SMTT(60) DEF WriteTemporary, Temporary, Put, FileInv, FileTypes, GeoInv, Carrying, Paths
  <2>3. CertInv'
    BY <1>5 DEF WriteTemporary, Temporary, Put, FileInv, FileTypes, GeoInv, CertInv, Certifying, Carrying, Paths
  <2> QED BY <2>1, <2>2, <2>3 DEF FileInv
<1>6. ASSUME NEW p \in Processes, Rename(p) PROVE FileInv'
  <2>1. FileTypes'
    BY <1>6, Zenon DEF Rename, Temporary, Put, FileInv, FileTypes, Jobs, Paths, GeoInv, Carrying
  <2>2. GeoInv'
    BY <1>6, ZenonT(60) DEF Rename, Temporary, Put, FileInv, FileTypes, GeoInv, Carrying, Paths
  <2>3. CertInv'
    BY <1>6, ZenonT(30), SMTT(60) DEF Rename, Temporary, Put, FileInv, FileTypes, GeoInv, CertInv, Certifying, Carrying, Paths
  <2> QED BY <2>1, <2>2, <2>3 DEF FileInv
<1>7. ASSUME NEW p \in Processes, Load(p) PROVE FileInv'
  <2>1. disk["geo"] \in Versions /\ found = TRUE
    BY <1>7 DEF Load, FileInv, FileTypes, GeoInv, Paths
  <2>2. found' = TRUE
    BY <1>7, <2>1, Zenon DEF Load
  <2>3. job' = [job EXCEPT ![p] = "off"] /\ UNCHANGED <<disk, fetched, overwrite, torn>>
    BY <1>7 DEF Load, Put
  <2>4. FileTypes'
    BY <2>3 DEF FileInv, FileTypes, Jobs
  <2>5. GeoInv'
    BY <2>2, <2>3, ZenonT(30), SMTT(60) DEF FileInv, FileTypes, GeoInv, Carrying
  <2>6. CertInv'
    BY <1>7, <2>3 DEF Load, FileInv, FileTypes, CertInv, Certifying
  <2> QED BY <2>4, <2>5, <2>6 DEF FileInv
<1>8. ASSUME NEW p \in Processes, Eab(p) PROVE FileInv'
  <2>1. CASE job' = [job EXCEPT ![p] = "off"] /\ UNCHANGED <<disk, fetched>>
    BY <1>8, <2>1 DEF Eab, FileInv, FileTypes, GeoInv, CertInv, Jobs, Certifying, Carrying
  <2>2. CASE job' = [job EXCEPT ![p] = "cache"]
    <3>1. PICK v \in Versions : fetched' = [fetched EXCEPT ![p] = v]
      BY <1>8, <2>2, ZenonT(30), SMTT(60) DEF Eab, Put, FileInv, FileTypes
    <3>2. disk' = [disk EXCEPT !["eab"] = "part"] /\ job[p] = "eab"
          /\ UNCHANGED <<overwrite, torn, found>>
      BY <1>8, <2>2, ZenonT(30), SMTT(60) DEF Eab, Put, FileInv, FileTypes
    <3>3. FileTypes'
      BY <2>2, <3>1, <3>2, ZenonT(30), SMTT(60) DEF FileInv, FileTypes, Jobs, Paths
    <3>4. GeoInv'
      BY <2>2, <3>1, <3>2, ZenonT(30), SMTT(60) DEF FileInv, FileTypes, GeoInv, Carrying, Paths
    <3>5. CertInv'
      BY <2>2, <3>1, <3>2, ZenonT(30), SMTT(60) DEF FileInv, FileTypes, CertInv, Certifying, Paths
    <3> QED BY <3>3, <3>4, <3>5 DEF FileInv
  <2> QED BY <1>8, <2>1, <2>2, ZenonT(30), SMTT(60) DEF Eab, Put
<1>9. ASSUME NEW p \in Processes, Cache(p) PROVE FileInv'
  <2>1. FileTypes'
    BY <1>9, ZenonT(30), SMTT(60) DEF Cache, Put, FileInv, FileTypes, Jobs, Paths, GeoInv, Carrying
  <2>2. GeoInv'
    BY <1>9, ZenonT(30), SMTT(60) DEF Cache, Put, FileInv, FileTypes, GeoInv, Carrying, Paths
  <2>3. CertInv'
    BY <1>9 DEF Cache, Put, FileInv, FileTypes, GeoInv, CertInv, Certifying, Carrying, Paths
  <2> QED BY <2>1, <2>2, <2>3 DEF FileInv
<1>10. ASSUME NEW p \in Processes, EnsureAbsent(p) PROVE FileInv'
  <2> DEFINE taken == ~overwrite[p] /\ (disk["cert"] # "none" \/ disk["key"] # "none")
  <2>1. CASE taken
    <3>1. /\ job' = [job EXCEPT ![p] = "off"] /\ job[p] = "absent"
          /\ UNCHANGED <<disk, fetched, overwrite, torn, found>>
      BY <1>10, <2>1, ZenonT(30), SMTT(60) DEF EnsureAbsent, Put
    <3>2. FileTypes'
      BY <3>1, ZenonT(30), SMTT(60) DEF FileInv, FileTypes, Jobs
    <3>3. GeoInv'
      BY <3>1, ZenonT(30), SMTT(60) DEF FileInv, FileTypes, GeoInv, Carrying
    <3>4. CertInv'
      BY <3>1, ZenonT(30), SMTT(60) DEF FileInv, FileTypes, CertInv, Certifying
    <3> QED BY <3>2, <3>3, <3>4, Zenon DEF FileInv
  <2>2. CASE ~taken
    <3>1. PICK v \in Versions : fetched' = [fetched EXCEPT ![p] = v]
      BY <1>10, <2>2 DEF EnsureAbsent
    <3>2. disk' = [disk EXCEPT !["cert"] = "part"] /\ job' = [job EXCEPT ![p] = "cert"]
          /\ job[p] = "absent" /\ UNCHANGED <<overwrite, torn, found>>
      BY <1>10, <2>2 DEF EnsureAbsent, Put
    <3>3. FileTypes'
      BY <3>1, <3>2, ZenonT(30), SMTT(60) DEF FileInv, FileTypes, Jobs, Paths
    <3>4. GeoInv'
      BY <3>1, <3>2, ZenonT(30), SMTT(60) DEF FileInv, FileTypes, GeoInv, Carrying, Paths
    <3>5. CertInv'
      BY <2>2, <3>1, <3>2 DEF FileInv, FileTypes, CertInv, Certifying, Paths
    <3> QED BY <3>3, <3>4, <3>5 DEF FileInv
  <2> QED BY <2>1, <2>2, ZenonT(30), SMTT(60)
<1>11. ASSUME NEW p \in Processes, WriteCert(p) PROVE FileInv'
  <2>1. FileTypes'
    BY <1>11, ZenonT(60) DEF WriteCert, Put, FileInv, FileTypes, Jobs, Paths, GeoInv, Carrying
  <2>2. GeoInv'
    <3>1. disk'["geo"] = disk["geo"] /\ (\A q \in Processes : disk'[q] = disk[q])
          /\ UNCHANGED <<fetched, found>>
      BY <1>11, ZenonT(60) DEF WriteCert, FileInv, FileTypes, Paths
    <3>2. job[p] = "cert" /\ \E w \in {"key", "off"} : job' = [job EXCEPT ![p] = w]
      BY <1>11, ZenonT(30), SMTT(60) DEF WriteCert, Put
    <3> QED BY <3>1, <3>2 DEF FileInv, FileTypes, GeoInv, Carrying
  <2>3. CertInv'
    BY <1>11 DEF WriteCert, Put, FileInv, FileTypes, GeoInv, CertInv, Certifying, Carrying, Paths
  <2> QED BY <2>1, <2>2, <2>3 DEF FileInv
<1>12. ASSUME NEW p \in Processes, WriteKey(p) PROVE FileInv'
  <2>1. disk' = [disk EXCEPT !["key"] = fetched[p]] /\ job' = [job EXCEPT ![p] = "off"]
        /\ job[p] = "key" /\ UNCHANGED <<fetched, overwrite, found>> /\ torn' = FALSE
    BY <1>12 DEF WriteKey, Put
  <2>2. disk["cert"] = fetched[p] /\ \A q \in Processes \ {p} : job[q] \notin Certifying
    BY <2>1 DEF FileInv, CertInv, Certifying
  <2>3. disk'["key"] = fetched[p] /\ disk'["cert"] = fetched[p]
        /\ \A q \in Processes : job'[q] \notin Certifying
    BY <2>1, <2>2 DEF FileInv, FileTypes, Paths, Certifying
  <2>4. FileTypes'
    BY <2>1, ZenonT(60) DEF FileInv, FileTypes, GeoInv, Jobs, Paths, Carrying
  <2>5. GeoInv'
    BY <2>1 DEF FileInv, FileTypes, GeoInv, Carrying, Paths
  <2>6. CertInv'
    BY <2>3, ZenonT(30), SMTT(60) DEF CertInv, Certifying
  <2> QED BY <2>4, <2>5, <2>6 DEF FileInv
<1>13. ASSUME NEW p \in Processes, Die(p) PROVE FileInv'
  <2>1. FileTypes'
    BY <1>13, ZenonT(30), SMTT(60) DEF Die, Put, FileInv, FileTypes, Jobs, Paths, GeoInv, Carrying
  <2>2. GeoInv'
    BY <1>13, ZenonT(30), SMTT(60) DEF Die, Put, FileInv, FileTypes, GeoInv, Carrying, Paths
  <2>3. CertInv'
    BY <1>13 DEF Die, Put, FileInv, FileTypes, GeoInv, CertInv, Certifying, Carrying, Paths
  <2> QED BY <2>1, <2>2, <2>3 DEF FileInv
<1> QED
  BY <1>0, <1>1, <1>2, <1>3, <1>4, <1>5, <1>6, <1>7, <1>8, <1>9, <1>10, <1>11, <1>12, <1>13, ZenonT(30), SMTT(60)
     DEF FilesNext

(* Wherever and however often any number of processes are killed, no       *)
(* server loads a cut-off database, and only an overwriting cert command   *)
(* that was cut short leaves a key beside another key's certificate.       *)
THEOREM FilesStayComplete == FilesInit /\ [][FilesNext]_fileVars => []FilesComplete
<1>1. FileInv => FilesComplete
  BY DEF FileInv, GeoInv, CertInv, FilesComplete
<1> QED BY <1>1, FilesStart, FilesStep, PTL
=============================================================================
