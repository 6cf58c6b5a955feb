---------------------------- MODULE PanelProofs -----------------------------
(***************************************************************************)
(* Proofs about what the panel keeps, for any sets of sessions, handlers,  *)
(* lines, nodes, certificates and servers.                                 *)
(***************************************************************************)
EXTENDS PanelMC, Sequences, FiniteSetTheorems, WellFoundedInduction, TLAPS

-----------------------------------------------------------------------------
(***************************************************************************)
(* The connection of an Agent (HubConn).                                   *)
(***************************************************************************)

\* A handler remembers the session it has dropped exactly until it has shut it.
Dropping ==
  \A a \in Admins : IF admin[a] = "shut" THEN dropped[a] \in Sessions ELSE dropped[a] = None

TableInv == TypeOK /\ Dropping /\ NoDeadEntry /\ NoOrphan

LEMMA TableInit == SessionsNamed /\ Init => TableInv
BY DEF SessionsNamed, Init, TableInv, TypeOK, Dropping, NoDeadEntry, NoOrphan, SessionPlaces, AdminPlaces, None

LEMMA TableSession ==
  ASSUME SessionsNamed, TableInv, NEW s \in Sessions,
         Hello(s) \/ SessionStep(s) \/ ReadError(s) \/ WriteError(s)
  PROVE  TableInv'
<1> USE DEF SessionsNamed, TableInv, TypeOK, Dropping, NoDeadEntry, NoOrphan, SessionPlaces, AdminPlaces, None, SessionAt
<1>1. CASE Hello(s) BY <1>1 DEF Hello
<1>2. CASE RegisterConn(s)
  \* The connection it replaces is shut in the same step.
  <2>1. TypeOK' /\ Dropping'
    BY <1>2 DEF RegisterConn
  <2>2. NoDeadEntry'
    BY <1>2 DEF RegisterConn
  <2>3. NoOrphan'
    BY <1>2 DEF RegisterConn
  <2> QED BY <2>1, <2>2, <2>3
<1>3. CASE Ack(s) BY <1>3 DEF Ack
<1>4. CASE MarkServerOnline(s) BY <1>4 DEF MarkServerOnline
<1>5. CASE UnregisterConn(s)
  \* It takes itself out, or nothing.
  <2>1. TypeOK' /\ Dropping'
    BY <1>5 DEF UnregisterConn
  <2>2. NoDeadEntry'
    BY <1>5 DEF UnregisterConn
  <2>3. NoOrphan'
    BY <1>5 DEF UnregisterConn
  <2> QED BY <2>1, <2>2, <2>3
<1>6. CASE ClearUserLive(s) \/ MarkServerOffline(s)
  <2>1. TypeOK' /\ Dropping'
    BY <1>6 DEF ClearUserLive, MarkServerOffline
  <2>2. NoDeadEntry' /\ NoOrphan'
    BY <1>6 DEF ClearUserLive, MarkServerOffline
  <2> QED BY <2>1, <2>2
<1>7. CASE ReadError(s) BY <1>7 DEF ReadError
<1>8. CASE WriteError(s) BY <1>8 DEF WriteError
<1> QED BY <1>1, <1>2, <1>3, <1>4, <1>5, <1>6, <1>7, <1>8 DEF SessionStep

LEMMA TableAdmin ==
  ASSUME SessionsNamed, TableInv, NEW a \in Admins, Drop(a) \/ ListServers(a) \/ AdminStep(a)
  PROVE  TableInv'
<1> USE DEF SessionsNamed, TableInv, TypeOK, Dropping, NoDeadEntry, NoOrphan, SessionPlaces, AdminPlaces, None, AdminAt
<1>1. CASE Drop(a)
  \* The dropped session is remembered until it is shut.
  <2>1. TypeOK' /\ Dropping' /\ NoDeadEntry'
    BY <1>1 DEF Drop
  <2>2. dropped'[a] = conn /\ \A b \in Admins \ {a} : dropped'[b] = dropped[b]
    BY <1>1 DEF Drop
  <2>3. NoOrphan'
    BY <1>1, <2>2 DEF Drop
  <2> QED BY <2>1, <2>3
<1>2. CASE DropShut(a)
  <2>1. dropped[a] \in Sessions /\ closed' = closed \cup {dropped[a]}
    BY <1>2 DEF DropShut
  <2>2. TypeOK' /\ Dropping' /\ NoDeadEntry'
    BY <1>2, <2>1 DEF DropShut
  <2>3. NoOrphan'
    BY <1>2, <2>1 DEF DropShut
  <2> QED BY <2>2, <2>3
<1>3. CASE DropClear(a) \/ DropOffline(a) \/ ListServers(a) \/ IsOnline(a) \/ Repair(a)
  <2>1. UNCHANGED <<conn, closed, pc, dropped>> /\ online' \in BOOLEAN
    BY <1>3 DEF DropClear, DropOffline, ListServers, IsOnline, Repair
  <2>2. admin[a] # "shut" /\ \E at \in AdminPlaces \ {"shut"} : admin' = [admin EXCEPT ![a] = at]
    BY <1>3 DEF DropClear, DropOffline, ListServers, IsOnline, Repair
  <2>3. TypeOK' /\ Dropping'
    BY <2>1, <2>2
  <2>4. NoDeadEntry' /\ NoOrphan'
    BY <2>1
  <2> QED BY <2>3, <2>4
<1> QED BY <1>1, <1>2, <1>3 DEF AdminStep

LEMMA TableStep == SessionsNamed /\ TableInv /\ [Next]_hubVars => TableInv'
<1> SUFFICES ASSUME SessionsNamed, TableInv, [Next]_hubVars PROVE TableInv'
  OBVIOUS
<1>1. CASE Restart
  BY <1>1 DEF SessionsNamed, Restart, TableInv, TypeOK, Dropping, NoDeadEntry, NoOrphan,
     SessionPlaces, AdminPlaces, None
<1>2. CASE UNCHANGED hubVars
  BY <1>2 DEF hubVars, TableInv, TypeOK, Dropping, NoDeadEntry, NoOrphan
<1> QED BY <1>1, <1>2, TableSession, TableAdmin DEF Next

LEMMA TableAlways == ASSUME SessionsNamed PROVE Spec => []TableInv
<1>1. Init => TableInv
  BY SessionsNamed, TableInit
<1>2. TableInv /\ [Next]_hubVars => TableInv'
  BY SessionsNamed, TableStep
<1> QED BY <1>1, <1>2, PTL DEF Spec

\* The connection table and the sessions keep their types.
THEOREM HubTypeCorrect == ASSUME SessionsNamed PROVE Spec => []TypeOK
<1>1. TableInv => TypeOK
  BY DEF TableInv
<1> QED BY <1>1, SessionsNamed, TableAlways, PTL

\* The table of connections is right in both directions, for any number of
\* sessions: it has no dead entry, and no Agent is left with an open connection
\* that the panel has forgotten.
THEOREM TableRightHolds == ASSUME SessionsNamed PROVE Spec => []TableRight
<1>1. TableInv => TableRight
  BY DEF TableInv, TableRight
<1> QED BY <1>1, SessionsNamed, TableAlways, PTL

-----------------------------------------------------------------------------
(***************************************************************************)
(* Restored tables under live connections (Restore).                       *)
(***************************************************************************)

Rows == [tok : Agents, ver : Nat] \cup {Nobody}
SessionStates == [st : {"off", "hello", "in"}, id : ServerIds \cup {Nobody}, late : BOOLEAN]
HandlerStates == [st : {"idle", "write", "delete", "import"}, id : ServerIds \cup {Nobody}]

RestoreTypes ==
  /\ server \in [ServerIds -> Rows] /\ nextServer \in Nat
  /\ file \in [ServerIds -> Rows] /\ fresh \subseteq Agents
  /\ sess \in [Agents -> SessionStates] /\ table \in [ServerIds -> Agents \cup {Nobody}]
  /\ want \subseteq ServerIds /\ push \in [ServerIds -> Rows] /\ running \in [Agents -> Rows]
  /\ failed \subseteq ServerIds /\ busy \in [Handlers -> HandlerStates]
  /\ \A h \in Handlers : busy[h].st \in {"write", "delete"} => busy[h].id \in ServerIds
  /\ \A x \in Agents : sess[x].st # "off" => sess[x].id \in ServerIds

\* The table of connections and the sessions say the same.
Registered ==
  \A i \in ServerIds, x \in Agents : table[i] = x <=> sess[x].st = "in" /\ sess[x].id = i

\* An id is given out once.
GivenOut == \A i \in ServerIds : server[i] # Nobody => i < nextServer

\* While a backup is being restored every session is late, ...
LateWhileRestoring == B!Restoring => \A x \in Agents : sess[x].st # "off" => sess[x].late

\* ... a session that is not late has the row of its own token, or none, ...
OwnRow ==
  \A x \in Agents : sess[x].st # "off" /\ ~sess[x].late =>
    /\ sess[x].id < nextServer
    /\ server[sess[x].id] # Nobody => server[sess[x].id].tok = x

\* ... and runs what the row says, or somebody is about to see to it: there is
\* a kick, or what pushServer has built is of the row as it is, or was and failed.
Fed(x, i) ==
  \/ i \in want
  \/ push[i] = server[i]
  \/ push[i] = Nobody /\ (running[x] = server[i] \/ i \in failed)

WillRun ==
  \A x \in Agents : sess[x].st = "in" /\ ~sess[x].late /\ server[sess[x].id] # Nobody => Fed(x, sess[x].id)

RestoreInv == RestoreTypes /\ Registered /\ GivenOut /\ LateWhileRestoring /\ OwnRow /\ WillRun

LEMMA SmallRestore ==
  /\ IsFiniteSet(ServerIds) /\ Cardinality(ServerIds) \in Nat /\ ServerIds = 1..Cardinality(ServerIds)
  /\ Nobody \notin Agents /\ Nobody \notin [tok : Agents, ver : Nat]
  /\ SavedServers \in [ServerIds -> Agents \cup {Nobody}] /\ BackupServers \in [ServerIds -> Agents \cup {Nobody}]
  /\ NewTokens \subseteq Agents
<1>1. B!IsFiniteSet(ServerIds) <=> IsFiniteSet(ServerIds)
  BY Zenon DEF B!IsFiniteSet, IsFiniteSet
<1>2. B!Cardinality(ServerIds) = Cardinality(ServerIds)
  BY Zenon DEF B!Cardinality, Cardinality
<1>3. IsFiniteSet(ServerIds)
  BY <1>1, RestoreTables DEF B!RestoreAssumption
<1>4. Cardinality(ServerIds) \in Nat
  BY <1>3, FS_CardinalityType
<1> QED BY <1>2, <1>3, <1>4, RestoreTables DEF B!RestoreAssumption

\* The next id is above every id of the tables it is counted from.
LEMMA NextAfterAbove ==
  ASSUME NEW rows
  PROVE  /\ B!NextAfter(rows) \in Nat
         /\ \A i \in ServerIds : rows[i] # Nobody => i < B!NextAfter(rows)
<1> DEFINE Below == {i \in ServerIds : \E j \in ServerIds : i <= j /\ rows[j] # Nobody}
<1>1. B!NextAfter(rows) = 1 + Cardinality(Below)
  BY Zenon DEF B!NextAfter, B!Cardinality, Cardinality
<1>2. IsFiniteSet(Below) /\ Cardinality(Below) \in Nat
  BY SmallRestore, FS_Subset, FS_CardinalityType
<1>3. ASSUME NEW i \in ServerIds, rows[i] # Nobody PROVE i <= Cardinality(Below)
  <2>1. i \in Nat /\ 1 \in Int /\ i \in Int
    BY SmallRestore
  <2>2. 1..i \subseteq Below
    BY SmallRestore, <1>3, <2>1
  <2>3. Cardinality(1..i) = i
    BY <2>1, FS_Interval
  <2> HIDE DEF Below
  <2>4. Cardinality(1..i) <= Cardinality(Below)
    BY <1>2, <2>2, FS_Subset
  <2> QED BY <2>3, <2>4
<1> HIDE DEF Below
<1> QED BY <1>1, <1>2, <1>3, SmallRestore

LEMMA RestoreBegins == B!Init => RestoreInv
<1> SUFFICES ASSUME B!Init PROVE RestoreInv
  OBVIOUS
<1> USE SmallRestore DEF B!Init, B!Row, B!Off, B!Idle, Rows, SessionStates, HandlerStates
<1>1. nextServer \in Nat /\ GivenOut
  BY NextAfterAbove DEF GivenOut
<1>2. RestoreTypes
  <2>1. server \in [ServerIds -> Rows] /\ file \in [ServerIds -> Rows]
    OBVIOUS
  <2> QED BY <1>1, <2>1 DEF RestoreTypes
<1>3. Registered /\ LateWhileRestoring /\ OwnRow /\ WillRun
  BY DEF Registered, LateWhileRestoring, OwnRow, WillRun
<1> QED BY <1>1, <1>2, <1>3 DEF RestoreInv

LEMMA RestoreDial ==
  ASSUME RestoreInv, NEW x \in Agents, B!Dial(x)
  PROVE  RestoreInv'
<1> USE SmallRestore DEF B!Dial, RestoreInv, Rows, SessionStates
<1>1. RestoreTypes'
  <2>1. PICK i \in ServerIds : sess' = [sess EXCEPT ![x] = [st |-> "hello", id |-> i, late |-> B!Restoring]]
    OBVIOUS
  <2>2. B!Restoring \in BOOLEAN
    BY DEF B!Restoring
  <2>3. sess' \in [Agents -> SessionStates] /\ sess'[x].id = i /\ \A z \in Agents \ {x} : sess'[z] = sess[z]
    BY <2>1, <2>2 DEF RestoreTypes
  <2> QED BY <2>3 DEF RestoreTypes
<1>2. Registered'
  BY DEF Registered, RestoreTypes
<1>3. GivenOut' /\ LateWhileRestoring'
  BY DEF GivenOut, LateWhileRestoring, RestoreTypes, B!Restoring
<1>4. OwnRow'
  BY DEF OwnRow, GivenOut, RestoreTypes
<1>5. WillRun'
  BY DEF WillRun, Fed, RestoreTypes
<1> QED BY <1>1, <1>2, <1>3, <1>4, <1>5

LEMMA RestoreRegister ==
  ASSUME RestoreInv, NEW x \in Agents, B!Register(x)
  PROVE  RestoreInv'
<1> USE SmallRestore DEF B!Register, B!Off, RestoreInv, Rows, SessionStates
<1>1. RestoreTypes'
  BY SMTT(30) DEF RestoreTypes
<1>2. Registered'
  BY DEF Registered, RestoreTypes
<1>3. GivenOut' /\ LateWhileRestoring'
  BY DEF GivenOut, LateWhileRestoring, RestoreTypes, B!Restoring
<1>4. OwnRow'
  BY DEF OwnRow, RestoreTypes
<1>5. WillRun'
  BY DEF WillRun, Fed, RestoreTypes
<1> QED BY <1>1, <1>2, <1>3, <1>4, <1>5

LEMMA RestoreLeave ==
  ASSUME RestoreInv, NEW x \in Agents, B!Leave(x)
  PROVE  RestoreInv'
<1> USE SmallRestore DEF B!Leave, B!Off, RestoreInv, Rows, SessionStates
<1>1. RestoreTypes'
  BY DEF RestoreTypes
<1>2. Registered'
  BY DEF Registered, RestoreTypes
<1>3. GivenOut' /\ LateWhileRestoring'
  BY DEF GivenOut, LateWhileRestoring, RestoreTypes, B!Restoring
<1>4. OwnRow' /\ WillRun'
  BY DEF OwnRow, WillRun, Fed, RestoreTypes
<1> QED BY <1>1, <1>2, <1>3, <1>4

\* What is built is of the row, what is sent was.
LEMMA RestorePush ==
  ASSUME RestoreInv, NEW i \in ServerIds, B!Build(i) \/ B!Send(i) \/ B!SendFails(i)
  PROVE  RestoreInv'
<1> USE SmallRestore DEF B!Build, B!Send, B!SendFails, RestoreInv, Rows, SessionStates
<1>1. RestoreTypes'
  <2>1. CASE B!Build(i)
    <3>1. want' \subseteq ServerIds /\ push' \in [ServerIds -> Rows]
      BY <2>1 DEF RestoreTypes
    <3> QED BY <2>1, <3>1 DEF RestoreTypes
  <2>2. CASE B!Send(i)
    <3>1. push' \in [ServerIds -> Rows] /\ running' \in [Agents -> Rows]
      BY <2>2 DEF RestoreTypes
    <3> QED BY <2>2, <3>1 DEF RestoreTypes
  <2>3. CASE B!SendFails(i)
    <3>1. /\ push' \in [ServerIds -> Rows] /\ running' \in [Agents -> Rows]
          /\ failed' \subseteq ServerIds
      BY <2>3 DEF RestoreTypes
    <3> QED BY <2>3, <3>1 DEF RestoreTypes
  <2> QED BY <2>1, <2>2, <2>3
<1>2. Registered' /\ GivenOut' /\ LateWhileRestoring' /\ OwnRow'
  BY DEF Registered, GivenOut, LateWhileRestoring, OwnRow, B!Restoring
<1>3. ASSUME NEW x \in Agents, sess[x].st = "in", ~sess[x].late, server[sess[x].id] # Nobody
      PROVE  Fed(x, sess[x].id)'
  <2>1. Fed(x, sess[x].id) /\ sess[x].id \in ServerIds /\ table[sess[x].id] = x
    BY <1>3 DEF WillRun, RestoreTypes, Registered
  <2>2. CASE B!Build(i)
    BY <1>3, <2>1, <2>2 DEF Fed, RestoreTypes
  <2>3. CASE B!Send(i)
    <3>1. CASE i = sess[x].id
      BY <2>1, <2>3, <3>1 DEF Fed, RestoreTypes
    <3>2. CASE i # sess[x].id
      BY <2>1, <2>3, <3>2 DEF Fed, RestoreTypes, Registered
    <3> QED BY <3>1, <3>2
  <2>4. CASE B!SendFails(i)
    <3>1. CASE i = sess[x].id
      BY <2>1, <2>4, <3>1 DEF Fed, RestoreTypes
    <3>2. CASE i # sess[x].id
      <4>1. running'[x] = running[x]
        BY <2>1, <2>4, <3>2 DEF RestoreTypes, Registered
      <4> QED BY <2>1, <2>4, <3>2, <4>1 DEF Fed, RestoreTypes
    <3> QED BY <3>1, <3>2
  <2> QED BY <2>2, <2>3, <2>4
<1>4. WillRun'
  BY <1>3 DEF WillRun
<1> QED BY <1>1, <1>2, <1>4

LEMMA RestoreWrite ==
  ASSUME RestoreInv, NEW h \in Handlers, B!Write(h)
  PROVE  RestoreInv'
<1> USE SmallRestore DEF B!Write, B!Idle, RestoreInv
<1>1. RestoreTypes'
  <2> DEFINE i == busy[h].id
  <2>1. i \in ServerIds /\ want' = want \cup {i}
    BY DEF RestoreTypes
  <2>2. server' \in [ServerIds -> Rows]
    <3>1. \A r \in Rows : r # Nobody => [r EXCEPT !.ver = @ + 1] \in Rows
      BY DEF Rows
    <3> QED BY <2>1, <3>1 DEF RestoreTypes
  <2>3. busy' = [busy EXCEPT ![h] = [st |-> "idle", id |-> Nobody]]
    OBVIOUS
  <2>4. /\ busy' \in [Handlers -> HandlerStates]
        /\ \A g \in Handlers : busy'[g].st \in {"write", "delete"} => busy'[g].id \in ServerIds
    BY <2>3 DEF RestoreTypes, HandlerStates
  <2> QED BY <2>1, <2>2, <2>4 DEF RestoreTypes
<1>2. ASSUME NEW j \in ServerIds, server[j] # Nobody
      PROVE  server'[j] # Nobody /\ server'[j].tok = server[j].tok
  <2>1. server[j] \in [tok : Agents, ver : Nat]
    BY <1>2 DEF RestoreTypes, Rows
  <2>2. server'[j] \in {server[j], [server[j] EXCEPT !.ver = @ + 1]}
    BY DEF RestoreTypes
  <2> QED BY <2>1, <2>2, SMTT(30)
<1>3. \A j \in ServerIds : server[j] = Nobody => server'[j] = Nobody
  BY DEF RestoreTypes
<1>4. Registered' /\ GivenOut' /\ LateWhileRestoring'
  BY <1>3 DEF Registered, GivenOut, LateWhileRestoring, B!Restoring
<1>5. OwnRow'
  BY <1>2, <1>3 DEF OwnRow, RestoreTypes
<1>6. WillRun'
  BY <1>3 DEF WillRun, Fed, RestoreTypes
<1> QED BY <1>1, <1>4, <1>5, <1>6

LEMMA RestoreCreate ==
  ASSUME RestoreInv, NEW t \in fresh, B!Create(t)
  PROVE  RestoreInv'
<1> USE SmallRestore DEF B!Create, B!Row, RestoreInv
<1>1. RestoreTypes'
  BY DEF RestoreTypes, Rows
<1>2. Registered' /\ GivenOut' /\ LateWhileRestoring'
  BY DEF RestoreTypes, Registered, GivenOut, LateWhileRestoring, B!Restoring
<1>3. OwnRow'
  BY DEF OwnRow, RestoreTypes
<1>4. WillRun'
  BY DEF WillRun, Fed, OwnRow, RestoreTypes
<1> QED BY <1>1, <1>2, <1>3, <1>4

LEMMA RestoreDrop ==
  ASSUME RestoreInv, NEW h \in Handlers, NEW i \in ServerIds, B!DropServer(h, i)
  PROVE  RestoreInv'
<1> USE SmallRestore DEF B!DropServer, B!Closed, B!Off, RestoreInv
<1>1. RestoreTypes'
  BY DEF RestoreTypes, SessionStates, HandlerStates
<1>2. Registered'
  BY DEF RestoreTypes, Registered, SessionStates
<1>3. GivenOut' /\ LateWhileRestoring'
  BY DEF RestoreTypes, GivenOut, LateWhileRestoring, B!Restoring
<1>4. OwnRow' /\ WillRun'
  BY DEF OwnRow, WillRun, Fed, RestoreTypes
<1> QED BY <1>1, <1>2, <1>3, <1>4

LEMMA RestoreDelete ==
  ASSUME RestoreInv, NEW h \in Handlers, B!DeleteServer(h)
  PROVE  RestoreInv'
<1> USE SmallRestore DEF B!DeleteServer, B!Idle, RestoreInv
<1>1. RestoreTypes'
  <2>1. busy' \in [Handlers -> HandlerStates]
    BY DEF RestoreTypes, HandlerStates
  <2>2. server' \in [ServerIds -> Rows]
    BY DEF RestoreTypes, Rows
  <2> QED BY <2>1, <2>2 DEF RestoreTypes
<1>2. Registered' /\ GivenOut' /\ LateWhileRestoring'
  BY DEF RestoreTypes, Registered, GivenOut, LateWhileRestoring, B!Restoring
<1>3. OwnRow' /\ WillRun'
  BY DEF OwnRow, WillRun, Fed, RestoreTypes
<1> QED BY <1>1, <1>2, <1>3

LEMMA RestoreDropAll ==
  ASSUME RestoreInv, NEW h \in Handlers, B!DropAll(h)
  PROVE  RestoreInv'
<1> USE SmallRestore DEF B!DropAll, B!Closed, B!Off, RestoreInv
<1>1. RestoreTypes'
  <2>1. busy' \in [Handlers -> HandlerStates]
    BY DEF RestoreTypes, HandlerStates
  <2>2. ASSUME NEW x \in Agents
        PROVE  sess'[x] \in SessionStates /\ (sess'[x].st # "off" => sess'[x].id \in ServerIds)
    BY DEF RestoreTypes, SessionStates
  <2>3. sess' \in [Agents -> SessionStates]
    BY <2>2
  <2> QED BY <2>1, <2>2, <2>3 DEF RestoreTypes
<1>2. \A x \in Agents : sess'[x].st # "off" => sess'[x].late /\ sess'[x].st = "hello"
  BY DEF RestoreTypes, Registered, SessionStates
<1>3. Registered'
  BY <1>1, <1>2 DEF RestoreTypes, Registered, SessionStates
<1>4. GivenOut' /\ LateWhileRestoring' /\ OwnRow' /\ WillRun'
  BY <1>2 DEF GivenOut, LateWhileRestoring, OwnRow, WillRun
<1> QED BY <1>1, <1>3, <1>4

LEMMA RestoreImport ==
  ASSUME RestoreInv, NEW h \in Handlers, B!Import(h) \/ B!ImportFails(h)
  PROVE  RestoreInv'
<1> USE SmallRestore DEF B!Import, B!ImportFails, B!Idle, RestoreInv
<1>1. nextServer' \in Nat
  BY NextAfterAbove DEF RestoreTypes
<1>1a. GivenOut'
  BY NextAfterAbove, SMTT(30) DEF GivenOut, RestoreTypes
<1>2. RestoreTypes'
  <2>1. busy' = [busy EXCEPT ![h] = [st |-> "idle", id |-> Nobody]]
    OBVIOUS
  <2>2. /\ busy' \in [Handlers -> HandlerStates]
        /\ \A g \in Handlers : busy'[g].st \in {"write", "delete"} => busy'[g].id \in ServerIds
    BY <2>1 DEF RestoreTypes, HandlerStates
  <2>3. server' \in [ServerIds -> Rows] /\ UNCHANGED <<file, fresh, sess, table, want, push, running, failed>>
    BY DEF RestoreTypes
  <2> QED BY <1>1, <2>2, <2>3 DEF RestoreTypes
<1>3. \A x \in Agents : sess[x].st # "off" => sess[x].late
  BY DEF LateWhileRestoring, B!Restoring
<1>4. Registered' /\ LateWhileRestoring' /\ OwnRow' /\ WillRun'
  BY <1>3 DEF Registered, LateWhileRestoring, OwnRow, WillRun
<1> QED BY <1>1a, <1>2, <1>4

LEMMA RestoreRestart == ASSUME RestoreInv, B!Restart PROVE RestoreInv'
<1> USE SmallRestore DEF B!Restart, B!Off, B!Idle, RestoreInv
<1>1. RestoreTypes'
  BY DEF RestoreTypes, SessionStates, HandlerStates, Rows
<1>2. Registered' /\ GivenOut' /\ LateWhileRestoring' /\ OwnRow' /\ WillRun'
  BY DEF Registered, GivenOut, LateWhileRestoring, OwnRow, WillRun, RestoreTypes
<1> QED BY <1>1, <1>2

\* A handler that reads, a backup that is made, nothing.
LEMMA RestoreReads ==
  ASSUME RestoreInv,
         \/ \E h \in Handlers, i \in ServerIds : B!Edit(h, i)
         \/ B!Export
         \/ UNCHANGED B!restoreVars
  PROVE  RestoreInv'
<1>1. UNCHANGED <<server, nextServer, fresh, sess, table, want, push, running, failed>>
  BY DEF B!Edit, B!Export, B!restoreVars
<1>2. file' \in [ServerIds -> Rows]
  BY DEF RestoreInv, RestoreTypes, B!Edit, B!Export, B!restoreVars
<1>3. /\ busy' \in [Handlers -> HandlerStates]
      /\ \A h \in Handlers : busy'[h].st \in {"write", "delete"} => busy'[h].id \in ServerIds
  <2>1. CASE UNCHANGED busy
    BY <2>1 DEF RestoreInv, RestoreTypes
  <2>2. CASE \E h \in Handlers, i \in ServerIds : B!Edit(h, i)
    <3>1. PICK h \in Handlers, i \in ServerIds : busy' = [busy EXCEPT ![h] = [st |-> "write", id |-> i]]
      BY <2>2 DEF B!Edit
    <3> QED BY <3>1 DEF RestoreInv, RestoreTypes, HandlerStates
  <2> QED BY <2>1, <2>2 DEF B!Export, B!restoreVars
<1>4. RestoreTypes'
  BY <1>1, <1>2, <1>3 DEF RestoreInv, RestoreTypes
<1>5. B!Restoring' => B!Restoring
  BY DEF B!Restoring, B!Edit, B!Export, B!restoreVars, RestoreInv, RestoreTypes
<1>6. Registered' /\ GivenOut' /\ LateWhileRestoring' /\ OwnRow' /\ WillRun'
  BY <1>1, <1>5 DEF RestoreInv, Registered, GivenOut, LateWhileRestoring, OwnRow, WillRun, Fed
<1> QED BY <1>4, <1>6 DEF RestoreInv

LEMMA RestoreStep == RestoreInv /\ [B!Next]_(B!restoreVars) => RestoreInv'
<1> SUFFICES ASSUME RestoreInv, [B!Next]_(B!restoreVars) PROVE RestoreInv'
  OBVIOUS
<1>1. CASE \E x \in Agents : B!Dial(x) \/ B!Register(x) \/ B!Leave(x)
  BY <1>1, RestoreDial, RestoreRegister, RestoreLeave
<1>2. CASE \E i \in ServerIds : B!Build(i) \/ B!Send(i) \/ B!SendFails(i)
  BY <1>2, RestorePush
<1>3. CASE \E t \in fresh : B!Create(t)
  BY <1>3, RestoreCreate
<1>4. CASE \E h \in Handlers : \E i \in ServerIds : B!Edit(h, i) \/ B!DropServer(h, i)
  BY <1>4, RestoreReads, RestoreDrop
<1>5. CASE \E h \in Handlers : B!Write(h) \/ B!DeleteServer(h) \/ B!DropAll(h) \/ B!Import(h) \/ B!ImportFails(h)
  BY <1>5, RestoreWrite, RestoreDelete, RestoreDropAll, RestoreImport
<1>6. CASE B!Export \/ B!Restart \/ UNCHANGED B!restoreVars
  BY <1>6, RestoreReads, RestoreRestart
<1> QED BY <1>1, <1>2, <1>3, <1>4, <1>5, <1>6 DEF B!Next

\* What the tables, the sessions and the pushes of a restored panel can be.
THEOREM RestoreTypeCorrect == B!Spec => []RestoreTypes
<1>1. RestoreInv => RestoreTypes
  BY DEF RestoreInv
<1> QED BY <1>1, RestoreBegins, RestoreStep, PTL DEF B!Spec

\* For any servers, backup and number of handlers: when nothing is left to push,
\* an Agent that did not dial during a restore runs what the tables say of the
\* server with its own token, or the last push to it failed.
THEOREM RestoredRunsHolds == B!Spec => []RestoredRuns
<1>1. RestoreInv => RestoredRuns
  BY SmallRestore DEF RestoreInv, RestoreTypes, OwnRow, WillRun, Fed, RestoredRuns, B!RestoredRuns, B!Quiet
<1> QED BY <1>1, RestoreBegins, RestoreStep, PTL DEF B!Spec

-----------------------------------------------------------------------------
(***************************************************************************)
(* Certificates that renew themselves (Renewal).                           *)
(***************************************************************************)

Domains == Names \cup Broken
Serials == Domains \X {"acme", "upload"} \X Nat
Goroutines == Handlers \cup {Loop}

\* Where a goroutine holds acmeMu, and where it works for a set of domains.
Holding == {"present", "order", "cleanup", "save"}
Working == Holding \cup {"lock"}
Resting == {"idle", "next", "sync", "update", "delete"}

Jobs ==
  [st : Working \cup Resting, id : Certs \cup {Nobody}, names : Domains \cup {Nobody},
   read : C!Row \cup {Nobody}, got : Nat \cup {Nobody}, todo : Seq(Certs), changed : BOOLEAN]

JobFits(j) ==
  /\ j.st \in Working => j.names \in Domains
  /\ j.st = "update" => j.read \in C!Row
  /\ j.st \in {"update", "delete"} => j.id \in Certs

CertTypes ==
  /\ cert \in [Certs -> C!Row \cup {Nobody}] /\ day \in Nat /\ woken \in BOOLEAN
  /\ job \in [Goroutines -> Jobs] /\ acmeMu \in Goroutines \cup {Nobody} /\ txt \subseteq Goroutines
  /\ used \in Certs \cup {Nobody} /\ dirty \in BOOLEAN /\ loaded \in Serials \cup {Nobody}
  /\ messy \in BOOLEAN
  /\ \A g \in Goroutines : JobFits(job[g])

\* The certificate of an inbound is there.
UsedThere == used # Nobody => cert[used] # Nobody

\* The loop goes to sleep only after it has called syncAll for what it renewed.
LoopRests == job[Loop].st = "idle" => ~job[Loop].changed

\* What the Agents have is what is saved, or somebody is about to see to it.
ToldOrWill ==
  used # Nobody /\ loaded # cert[used].ser =>
    dirty \/ (\E h \in Handlers : job[h].st = "sync") \/ job[Loop].changed

\* One goroutine orders at a time, ...
OneOrders == \A g \in Goroutines : job[g].st \in Holding <=> acmeMu = g

\* ... and the TXT records are its own.
OwnRecords == ~messy => \A g \in txt : job[g].st \in {"order", "cleanup"}

RenewalInv == CertTypes /\ UsedThere /\ LoopRests /\ ToldOrWill /\ OneOrders /\ OwnRecords

LEMMA SmallRenewal ==
  /\ IsFiniteSet(Certs) /\ Cardinality(Certs) \in Nat /\ Certs = 1..Cardinality(Certs)
  /\ Nobody \notin Certs /\ Nobody \notin Goroutines /\ Loop \notin Handlers
  /\ Nobody \notin C!Row /\ SavedCerts \in [Certs -> C!Row \cup {Nobody}] /\ Life \in Nat
<1>1. C!IsFiniteSet(Certs) <=> IsFiniteSet(Certs)
  BY Zenon DEF C!IsFiniteSet, IsFiniteSet
<1>2. C!Cardinality(Certs) = Cardinality(Certs)
  BY Zenon DEF C!Cardinality, Cardinality
<1>3. IsFiniteSet(Certs)
  BY <1>1, RenewalTables DEF C!RenewalAssumption
<1>4. Cardinality(Certs) \in Nat
  BY <1>3, FS_CardinalityType
<1> QED BY <1>2, <1>3, <1>4, RenewalTables DEF C!RenewalAssumption, Goroutines

LEMMA RowFields ==
  /\ \A r \in C!Row : r.names \in Domains /\ r.ser \in Serials
  /\ \A d \in Domains, u \in Nat, n \in Nat :
       [src |-> "acme", names |-> d, auto |-> TRUE, until |-> u, ser |-> <<d, "acme", n>>, err |-> FALSE,
        short |-> FALSE] \in C!Row
  /\ \A d \in Domains, u \in Nat, n \in Nat :
       [src |-> "upload", names |-> d, auto |-> FALSE, until |-> u, ser |-> <<d, "upload", n>>, err |-> FALSE,
        short |-> FALSE] \in C!Row
BY DEF C!Row, Domains, Serials

LEMMA IdleJob == C!Idle \in Jobs /\ JobFits(C!Idle) /\ ~C!Idle.changed /\ C!Idle.st = "idle" /\ C!Idle.todo = <<>>
BY DEF C!Idle, Jobs, JobFits, Working, Resting, Holding

\* A set of numbers that is not empty has a least one.
LEMMA LeastOf ==
  ASSUME NEW S, S \subseteq Nat, S # {}
  PROVE  \E n \in S : \A k \in S : n <= k
<1>1. PICK n \in S : \A k \in S : ~(<<k, n>> \in OpToRel(<, Nat))
  BY WFMin, NatLessThanWellFounded
<1>2. \A k \in S : ~(k < n)
  BY <1>1 DEF OpToRel
<1> QED BY <1>2

\* Every rank below the size of a set is the rank of one of its members.
LEMMA RankTaken ==
  ASSUME NEW S, S \subseteq Nat, IsFiniteSet(S), NEW i \in 1..Cardinality(S)
  PROVE  \E c \in S : Cardinality({d \in S : d < c}) = i - 1
<1> DEFINE Below(c) == {d \in S : d < c}
           Missed == {k \in 1..Cardinality(S) : \A c \in S : Cardinality(Below(c)) # k - 1}
<1>1. Cardinality(S) \in Nat
  BY FS_CardinalityType
<1>2. ASSUME Missed # {} PROVE FALSE
  <2>1. PICK k \in Missed : \A n \in Missed : k <= n
    <3> HIDE DEF Below
    <3>1. Missed \subseteq Nat
      BY <1>1
    <3> HIDE DEF Missed
    <3> QED BY <1>2, <3>1, LeastOf
  <2>2. k \in 1..Cardinality(S) /\ k \in Nat /\ \A c \in S : Cardinality(Below(c)) # k - 1
    BY <1>1, <2>1
  <2>3. S # {}
    BY <2>2, FS_EmptySet
  <2>4. CASE k = 1
    <3>1. PICK c \in S : \A d \in S : c <= d
      BY <2>3, LeastOf
    <3>2. \A d \in S : ~(d < c)
      BY <3>1
    <3>3. Below(c) = {}
      BY <3>2
    <3>4. Cardinality(Below(c)) = 0
      BY <3>3, FS_EmptySet
    <3> HIDE DEF Below
    <3> QED BY <2>2, <2>4, <3>4
  <2>5. CASE k > 1
    <3>1. k - 1 \in 1..Cardinality(S) /\ k - 1 < k
      BY <1>1, <2>2, <2>5
    <3>2. k - 1 \notin Missed
      <4> HIDE DEF Missed
      <4> QED BY <2>1, <2>2, <3>1
    <3>3. PICK c \in S : Cardinality(Below(c)) = k - 2
      <4> HIDE DEF Below
      <4> QED BY <2>2, <3>1, <3>2
    <3> DEFINE Least == Below(c) \cup {c}
    <3>4. IsFiniteSet(Below(c)) /\ c \notin Below(c)
      BY FS_Subset
    <3>5. IsFiniteSet(Least) /\ Cardinality(Least) = k - 1
      <4> HIDE DEF Below
      <4> QED BY <2>2, <3>3, <3>4, FS_AddElement
    <3>6. Least # S
      <4> HIDE DEF Least
      <4> QED BY <1>1, <2>2, <3>5
    <3>7. Least \subseteq S
      OBVIOUS
    <3>8. PICK f \in S \ Least : \A d \in S \ Least : f <= d
      <4> HIDE DEF Least
      <4> QED BY <3>6, <3>7, LeastOf
    <3>9. ASSUME NEW d \in S PROVE d < f <=> d \in Least
      <4>1. d \in Nat /\ f \in Nat /\ c \in Nat /\ f \in S /\ ~(f < c) /\ f # c
        BY <3>8
      <4>2. d \notin Least => f <= d
        BY <3>8
      <4>3. d \in Least => d < c \/ d = c
        OBVIOUS
      <4> HIDE DEF Least
      <4> QED BY <4>1, <4>2, <4>3
    <3>10. Below(f) = Least
      BY <3>7, <3>9
    <3> HIDE DEF Least, Below
    <3> QED BY <2>2, <3>5, <3>8, <3>10
  <2> QED BY <2>2, <2>4, <2>5
<1>3. i \notin Missed
  BY <1>2
<1>4. \E c \in S : Cardinality(Below(c)) = i - 1
  <2> HIDE DEF Below
  <2> QED BY <1>3
<1> QED BY <1>4

\* The loop takes ids of saved certificates.
LEMMA InOrderSeq ==
  ASSUME NEW S, S \subseteq Certs
  PROVE  C!InOrder(S) \in Seq(Certs)
<1>1. S \subseteq Nat /\ IsFiniteSet(S) /\ Cardinality(S) \in Nat
  BY SmallRenewal, FS_Subset, FS_CardinalityType
<1>2. C!InOrder(S) = [i \in 1..Cardinality(S) |-> CHOOSE c \in S : Cardinality({d \in S : d < c}) = i - 1]
  BY Zenon DEF C!InOrder, C!Cardinality, Cardinality
<1>3. \A i \in 1..Cardinality(S) : (CHOOSE c \in S : Cardinality({d \in S : d < c}) = i - 1) \in S
  BY <1>1, RankTaken
<1>4. C!InOrder(S) \in [1..Cardinality(S) -> Certs]
  BY <1>2, <1>3
<1> QED BY <1>1, <1>4

\* A new certificate gets an id that is free.
LEMMA FreeIsFree == \A c \in C!Free : c \in Certs /\ cert[c] = Nobody
<1> SUFFICES ASSUME C!Saved # Certs PROVE \A c \in C!Free : c \in Certs /\ cert[c] = Nobody
  BY DEF C!Free
<1>1. Certs \ C!Saved # {} /\ Certs \ C!Saved \subseteq Nat
  BY SmallRenewal DEF C!Saved
<1>2. \E c \in Certs \ C!Saved : \A d \in Certs \ C!Saved : c <= d
  BY <1>1, LeastOf
<1> QED BY <1>2 DEF C!Free, C!Saved

LEMMA RenewalBegins == C!Init => RenewalInv
<1> SUFFICES ASSUME C!Init PROVE RenewalInv
  OBVIOUS
<1>1. job = [g \in Goroutines |-> C!Idle]
  BY DEF C!Init, C!Goroutines, Goroutines
<1>2. \A g \in Goroutines : job[g] = C!Idle
  BY <1>1
<1>3. Loop \in Goroutines
  BY DEF Goroutines
<1>4. CertTypes /\ UsedThere
  <2>1. cert \in [Certs -> C!Row \cup {Nobody}] /\ day \in Nat /\ woken \in BOOLEAN
        /\ acmeMu = Nobody /\ txt = {} /\ dirty = FALSE /\ messy = FALSE
    BY SmallRenewal DEF C!Init
  <2>2. used \in Certs \cup {Nobody} /\ (used # Nobody => cert[used] \in C!Row)
    BY <2>1 DEF C!Init, C!Saved
  <2>3. loaded \in Serials \cup {Nobody}
    BY <2>2, RowFields DEF C!Init
  <2>4. job \in [Goroutines -> Jobs] /\ \A g \in Goroutines : JobFits(job[g])
    BY <1>1, <1>2, IdleJob
  <2> QED BY <2>1, <2>2, <2>3, <2>4, SmallRenewal DEF CertTypes, UsedThere
<1>5. LoopRests /\ ToldOrWill
  BY <1>2, <1>3, IdleJob DEF LoopRests, ToldOrWill, C!Init
<1>6. OneOrders /\ OwnRecords
  BY <1>2, IdleJob, SmallRenewal DEF OneOrders, OwnRecords, C!Init, Holding
<1> QED BY <1>4, <1>5, <1>6 DEF RenewalInv

\* One goroutine goes on.
LEMMA JobTypesStay ==
  ASSUME CertTypes, NEW g \in Goroutines, NEW j \in Jobs, JobFits(j), job' = [job EXCEPT ![g] = j],
         UNCHANGED <<day, loaded>>, cert' \in [Certs -> C!Row \cup {Nobody}], used' \in Certs \cup {Nobody},
         woken' \in BOOLEAN, dirty' \in BOOLEAN, messy' \in BOOLEAN,
         acmeMu' \in Goroutines \cup {Nobody}, txt' \subseteq Goroutines
  PROVE  CertTypes'
<1>1. job' \in [Goroutines -> Jobs]
  BY Zenon DEF CertTypes
<1>2. \A x \in Goroutines : job'[x] = IF x = g THEN j ELSE job[x]
  BY Zenon DEF CertTypes
<1>3. \A x \in Goroutines : JobFits(job'[x])
  BY <1>2, Zenon DEF CertTypes
<1>4. \A x \in Goroutines : JobFits(job[x])'
  BY <1>3, Zenon DEF JobFits
<1> QED BY <1>1, <1>4, Zenon DEF CertTypes

LEMMA ToldStays ==
  ASSUME CertTypes, ToldOrWill, NEW g \in Goroutines, NEW j, job' = [job EXCEPT ![g] = j],
         UNCHANGED <<used, loaded>>, dirty => dirty',
         used # Nobody => cert'[used].ser = cert[used].ser,
         g \in Handlers /\ job[g].st = "sync" => dirty' \/ j.st = "sync",
         g = Loop /\ job[Loop].changed => dirty' \/ j.changed
  PROVE  ToldOrWill'
<1>1. \A x \in Goroutines : job'[x] = IF x = g THEN j ELSE job[x]
  BY Zenon DEF CertTypes
<1>2. Loop \in Goroutines /\ Handlers \subseteq Goroutines
  BY DEF Goroutines
<1>3. ASSUME used # Nobody, loaded # cert'[used].ser, ~dirty'
      PROVE  (\E h \in Handlers : job'[h].st = "sync") \/ job'[Loop].changed
  <2>1. (\E h \in Handlers : job[h].st = "sync") \/ job[Loop].changed
    BY <1>3, Zenon DEF ToldOrWill
  <2>2. ASSUME NEW h \in Handlers, job[h].st = "sync" PROVE job'[h].st = "sync"
    BY <1>1, <1>2, <1>3, <2>2, Zenon
  <2>3. ASSUME job[Loop].changed PROVE job'[Loop].changed
    BY <1>1, <1>2, <1>3, <2>3, Zenon
  <2> QED BY <2>1, <2>2, <2>3, Zenon
<1>4. used' = used /\ loaded' = loaded
  OBVIOUS
<1> QED BY <1>3, <1>4, Zenon DEF ToldOrWill

\* A step away from the orders.
LEMMA RestStep ==
  ASSUME RenewalInv, NEW g \in Goroutines, NEW j \in Jobs, JobFits(j), job' = [job EXCEPT ![g] = j],
         job[g].st \notin Holding, j.st \notin Holding,
         UNCHANGED <<cert, day, acmeMu, txt, used, loaded, messy>>, woken' \in BOOLEAN, dirty' \in BOOLEAN,
         dirty => dirty',
         g \in Handlers /\ job[g].st = "sync" => dirty' \/ j.st = "sync",
         g = Loop /\ job[Loop].changed => dirty' \/ j.changed,
         g = Loop /\ j.st = "idle" => ~j.changed
  PROVE  RenewalInv'
<1>1. CertTypes /\ UsedThere /\ LoopRests /\ ToldOrWill /\ OneOrders /\ OwnRecords
  BY Zenon DEF RenewalInv
<1>2. \A x \in Goroutines : job'[x] = IF x = g THEN j ELSE job[x]
  BY <1>1, Zenon DEF CertTypes
<1>3. Loop \in Goroutines
  BY DEF Goroutines
<1>4. CertTypes'
  BY <1>1, JobTypesStay DEF CertTypes
<1>5. ToldOrWill'
  BY <1>1, ToldStays
<1>6. UsedThere' /\ LoopRests'
  BY <1>1, <1>2, <1>3, Zenon DEF UsedThere, LoopRests
<1>7. OneOrders'
  BY <1>1, <1>2, Zenon DEF OneOrders
<1>8. OwnRecords'
  BY <1>1, <1>2 DEF OwnRecords, CertTypes, Holding
<1> QED BY <1>4, <1>5, <1>6, <1>7, <1>8 DEF RenewalInv

LEMMA RenewalLoop == ASSUME RenewalInv, C!LoopWakes \/ C!LoopNext PROVE RenewalInv'
<1>1. Loop \in Goroutines /\ Loop \notin Handlers /\ job[Loop] \in Jobs /\ JobFits(job[Loop]) /\ dirty \in BOOLEAN
      /\ woken \in BOOLEAN
  BY SmallRenewal DEF RenewalInv, CertTypes, Goroutines
<1>2. CASE C!LoopWakes
  <2> DEFINE ids == C!InOrder({c \in C!Saved : C!IsDue(c)})
             next == IF ids = <<>> THEN C!Idle ELSE [C!Idle EXCEPT !.st = "next", !.todo = ids]
  <2>1. ids \in Seq(Certs)
    BY InOrderSeq DEF C!Saved
  <2>2. job' = [job EXCEPT ![Loop] = next] /\ woken' = FALSE /\ job[Loop].st = "idle"
        /\ UNCHANGED <<cert, day, acmeMu, txt, used, dirty, loaded, messy>>
    BY <1>2 DEF C!LoopWakes, C!Goto, C!At
  <2> HIDE DEF ids
  <2>3. next \in Jobs /\ JobFits(next) /\ ~next.changed /\ next.st \in {"idle", "next"}
    BY <2>1, IdleJob DEF C!Idle, Jobs, JobFits, Working, Resting, Holding
  <2>4. ~job[Loop].changed
    BY <2>2 DEF RenewalInv, LoopRests
  <2> HIDE DEF next
  <2> QED BY <1>1, <2>2, <2>3, <2>4, RestStep DEF Holding
<1>3. CASE C!LoopNext
  <2> DEFINE c == Head(job[Loop].todo)
             rest == [job[Loop] EXCEPT !.todo = Tail(@)]
             next == IF cert[c] = Nobody \/ cert[c].src # "acme" THEN rest
                     ELSE [rest EXCEPT !.st = "lock", !.id = c, !.names = cert[c].names]
  <2>1. job[Loop].st = "next" /\ UNCHANGED <<cert, day, woken, acmeMu, txt, used, loaded, messy>>
    BY <1>3 DEF C!LoopNext, C!At
  <2>2. \/ job' = [job EXCEPT ![Loop] = C!Idle] /\ dirty' = (dirty \/ job[Loop].changed)
        \/ job[Loop].todo # <<>> /\ job' = [job EXCEPT ![Loop] = next] /\ dirty' = dirty
    BY <1>3 DEF C!LoopNext, C!Goto
  <2>3. CASE job' = [job EXCEPT ![Loop] = C!Idle] /\ dirty' = (dirty \/ job[Loop].changed)
    BY <1>1, <2>1, <2>3, IdleJob, RestStep DEF Holding
  <2>4. CASE job[Loop].todo # <<>> /\ job' = [job EXCEPT ![Loop] = next] /\ dirty' = dirty
    <3>1. job[Loop].todo \in Seq(Certs) /\ c \in Certs /\ Tail(job[Loop].todo) \in Seq(Certs)
      BY <1>1, <2>4 DEF Jobs
    <3>2. cert[c] # Nobody => cert[c].names \in Domains
      BY <3>1, RowFields DEF RenewalInv, CertTypes
    <3>3. rest \in Jobs /\ rest.st = "next" /\ rest.changed = job[Loop].changed
      BY <1>1, <2>1, <3>1 DEF Jobs
    <3> HIDE DEF c, rest
    <3>4. next \in Jobs /\ JobFits(next) /\ next.st \in {"next", "lock"} /\ next.changed = job[Loop].changed
      BY <3>1, <3>2, <3>3 DEF Jobs, JobFits, Working, Resting, Holding
    <3> HIDE DEF next
    <3> QED BY <1>1, <2>1, <2>4, <3>4, RestStep DEF Holding
  <2> QED BY <2>2, <2>3, <2>4
<1> QED BY <1>2, <1>3

\* One field of a job.
LEMMA JobFields ==
  ASSUME NEW j \in Jobs
  PROVE  /\ \A s \in Working \cup Resting :
              /\ [j EXCEPT !.st = s] \in Jobs
              /\ [j EXCEPT !.st = s].st = s /\ [j EXCEPT !.st = s].names = j.names
              /\ [j EXCEPT !.st = s].id = j.id /\ [j EXCEPT !.st = s].changed = j.changed
         /\ \A c \in Certs :
              /\ [j EXCEPT !.id = c] \in Jobs
              /\ [j EXCEPT !.id = c].st = j.st /\ [j EXCEPT !.id = c].id = c
         /\ \A d \in Domains :
              /\ [j EXCEPT !.names = d] \in Jobs
              /\ [j EXCEPT !.names = d].st = j.st /\ [j EXCEPT !.names = d].names = d
         /\ \A r \in C!Row :
              /\ [j EXCEPT !.read = r] \in Jobs
              /\ [j EXCEPT !.read = r].st = j.st /\ [j EXCEPT !.read = r].id = j.id
              /\ [j EXCEPT !.read = r].read = r
         /\ \A n \in Nat :
              /\ [j EXCEPT !.got = n] \in Jobs
              /\ [j EXCEPT !.got = n].st = j.st /\ [j EXCEPT !.got = n].names = j.names
              /\ [j EXCEPT !.got = n].id = j.id /\ [j EXCEPT !.got = n].changed = j.changed
BY DEF Jobs

\* The job of a handler that begins.
Begins(j) == j \in Jobs /\ JobFits(j) /\ j.st \notin Holding

LEMMA BegunRenewal ==
  ASSUME NEW c \in Certs, NEW d \in Domains
  PROVE  Begins([C!Idle EXCEPT !.st = "lock", !.id = c, !.names = d])
<1> DEFINE at == [C!Idle EXCEPT !.st = "lock"]
<1>1. at \in Jobs /\ at.st = "lock"
  BY IdleJob, JobFields DEF Working, Resting
<1>2. [at EXCEPT !.id = c] \in Jobs /\ [at EXCEPT !.id = c].st = "lock" /\ [at EXCEPT !.id = c].id = c
  <2> HIDE DEF at
  <2> QED BY <1>1, JobFields
<1> DEFINE there == [at EXCEPT !.id = c]
<1>3. Begins([there EXCEPT !.names = d])
  <2> HIDE DEF at
  <2>1. there \in Jobs /\ there.st = "lock" /\ there.id = c
    BY <1>2
  <2> HIDE DEF there
  <2> QED BY <2>1, JobFields DEF Begins, JobFits, Working, Holding
<1> QED BY <1>3, Zenon

LEMMA BegunIssue ==
  ASSUME NEW d \in Domains
  PROVE  Begins([C!Idle EXCEPT !.st = "lock", !.names = d])
<1> DEFINE at == [C!Idle EXCEPT !.st = "lock"]
<1>1. at \in Jobs /\ at.st = "lock"
  BY IdleJob, JobFields DEF Working, Resting
<1>2. Begins([at EXCEPT !.names = d])
  <2> HIDE DEF at
  <2> QED BY <1>1, JobFields DEF Begins, JobFits, Working, Holding
<1> QED BY <1>2, Zenon

LEMMA BegunUpdate ==
  ASSUME NEW c \in Certs, NEW r \in C!Row
  PROVE  Begins([C!Idle EXCEPT !.st = "update", !.id = c, !.read = r])
<1> DEFINE at == [C!Idle EXCEPT !.st = "update"]
<1>1. at \in Jobs /\ at.st = "update"
  BY IdleJob, JobFields DEF Working, Resting
<1>2. [at EXCEPT !.id = c] \in Jobs /\ [at EXCEPT !.id = c].st = "update" /\ [at EXCEPT !.id = c].id = c
  <2> HIDE DEF at
  <2> QED BY <1>1, JobFields
<1> DEFINE there == [at EXCEPT !.id = c]
<1>3. Begins([there EXCEPT !.read = r])
  <2> HIDE DEF at
  <2>1. there \in Jobs /\ there.st = "update" /\ there.id = c
    BY <1>2
  <2> HIDE DEF there
  <2> QED BY <2>1, JobFields DEF Begins, JobFits, Working, Holding
<1> QED BY <1>3, Zenon

LEMMA BegunDelete ==
  ASSUME NEW c \in Certs
  PROVE  Begins([C!Idle EXCEPT !.st = "delete", !.id = c])
<1> DEFINE at == [C!Idle EXCEPT !.st = "delete"]
<1>1. at \in Jobs /\ at.st = "delete"
  BY IdleJob, JobFields DEF Working, Resting
<1>2. Begins([at EXCEPT !.id = c])
  <2> HIDE DEF at
  <2> QED BY <1>1, JobFields DEF Begins, JobFits, Working, Holding
<1> QED BY <1>2, Zenon

\* A handler begins, or calls syncAll.
LEMMA RenewalHandler ==
  ASSUME RenewalInv, NEW h \in Handlers,
         \/ \E c \in Certs : C!Renew(h, c) \/ C!UpdateRead(h, c) \/ C!DeleteCheck(h, c)
         \/ \E n \in Names : C!IssueNew(h, n)
         \/ C!SyncAll(h)
  PROVE  RenewalInv'
<1>1. h \in Goroutines /\ h # Loop /\ dirty \in BOOLEAN /\ woken \in BOOLEAN
  BY SmallRenewal DEF RenewalInv, CertTypes, Goroutines
<1>2. UNCHANGED <<cert, day, woken, acmeMu, txt, used, loaded, messy>>
  BY DEF C!Renew, C!UpdateRead, C!DeleteCheck, C!IssueNew, C!SyncAll
<1>3. CASE C!SyncAll(h)
  <2>1. job' = [job EXCEPT ![h] = C!Idle] /\ dirty' = TRUE /\ job[h].st = "sync"
    BY <1>3 DEF C!SyncAll, C!Goto, C!At
  <2> QED BY <1>1, <1>2, <2>1, IdleJob, RestStep DEF Holding
<1>4. ASSUME NEW j, Begins(j), C!Goto(h, j), job[h].st = "idle", dirty' = dirty
      PROVE  RenewalInv'
  BY <1>1, <1>2, <1>4, RestStep DEF C!Goto, Holding, Begins
<1>5. ASSUME NEW c \in Certs, C!Renew(h, c) PROVE RenewalInv'
  <2>1. cert[c].names \in Domains /\ job[h].st = "idle" /\ dirty' = dirty
        /\ C!Goto(h, [C!Idle EXCEPT !.st = "lock", !.id = c, !.names = cert[c].names])
    BY <1>5, RowFields DEF C!Renew, C!Begin, C!At, RenewalInv, CertTypes
  <2> QED BY <1>4, <2>1, BegunRenewal
<1>6. ASSUME NEW n \in Names, C!IssueNew(h, n) PROVE RenewalInv'
  <2>1. job[h].st = "idle" /\ dirty' = dirty /\ C!Goto(h, [C!Idle EXCEPT !.st = "lock", !.names = n])
    BY <1>6 DEF C!IssueNew, C!Begin, C!At
  <2> QED BY <1>4, <2>1, BegunIssue DEF Domains
<1>7. ASSUME NEW c \in Certs, C!UpdateRead(h, c) PROVE RenewalInv'
  <2>1. cert[c] \in C!Row /\ job[h].st = "idle" /\ dirty' = dirty
        /\ C!Goto(h, [C!Idle EXCEPT !.st = "update", !.id = c, !.read = cert[c]])
    BY <1>7 DEF C!UpdateRead, C!Begin, C!At, RenewalInv, CertTypes
  <2> QED BY <1>4, <2>1, BegunUpdate
<1>8. ASSUME NEW c \in Certs, C!DeleteCheck(h, c) PROVE RenewalInv'
  <2>1. job[h].st = "idle" /\ dirty' = dirty /\ C!Goto(h, [C!Idle EXCEPT !.st = "delete", !.id = c])
    BY <1>8 DEF C!DeleteCheck, C!Begin, C!At
  <2> QED BY <1>4, <2>1, BegunDelete
<1> QED BY <1>3, <1>5, <1>6, <1>7, <1>8

\* A step of an order, under acmeMu.
LEMMA OrderStep ==
  ASSUME RenewalInv, NEW g \in Goroutines, NEW j \in Jobs, job' = [job EXCEPT ![g] = j],
         job[g].st \in Working, job[g].st = "lock" => acmeMu = Nobody,
         j.st \in Holding, j.names = job[g].names, j.changed = job[g].changed,
         UNCHANGED <<cert, day, woken, used, dirty, loaded>>,
         acmeMu' = g, txt' \subseteq Goroutines, messy' \in BOOLEAN, messy => messy',
         ~messy' => txt' \subseteq txt \cup {g} /\ (g \in txt' => j.st \in {"order", "cleanup"})
  PROVE  RenewalInv'
<1>1. CertTypes /\ UsedThere /\ LoopRests /\ ToldOrWill /\ OneOrders /\ OwnRecords
  BY Zenon DEF RenewalInv
<1>2. \A x \in Goroutines : job'[x] = IF x = g THEN j ELSE job[x]
  BY <1>1, Zenon DEF CertTypes
<1>3. Loop \in Goroutines /\ j.st \notin Resting /\ job[g].st # "sync" /\ JobFits(j)
  BY <1>1 DEF Goroutines, Working, Holding, Resting, CertTypes, JobFits
<1>4. CertTypes'
  BY <1>1, <1>3, JobTypesStay DEF CertTypes
<1>5. ToldOrWill'
  BY <1>1, <1>3, ToldStays
<1>6. UsedThere' /\ LoopRests'
  BY <1>1, <1>2, <1>3 DEF UsedThere, LoopRests, Resting
<1>7. acmeMu \in {g, Nobody}
  BY <1>1 DEF OneOrders, Working
<1>8. OneOrders'
  BY <1>1, <1>2, <1>7, SmallRenewal DEF OneOrders
<1>9. OwnRecords'
  <2>1. ASSUME NEW x \in txt', ~messy' PROVE job'[x].st \in {"order", "cleanup"}
    BY <1>1, <1>2, <2>1 DEF OwnRecords
  <2> QED BY <2>1 DEF OwnRecords
<1> QED BY <1>4, <1>5, <1>6, <1>8, <1>9 DEF RenewalInv

LEMMA RenewalOrder ==
  ASSUME RenewalInv, NEW g \in Goroutines,
         C!Lock(g) \/ C!Present(g) \/ C!PresentFails(g) \/ C!Ordered(g) \/ C!OrderFails(g) \/ C!CleanUp(g)
  PROVE  RenewalInv'
<1> DEFINE To(s) == [job[g] EXCEPT !.st = s]
<1>1. /\ job[g] \in Jobs /\ txt \subseteq Goroutines /\ messy \in BOOLEAN /\ day + Life \in Nat
      /\ job[g].st \in Holding => acmeMu = g
      /\ ~messy /\ g \in txt => job[g].st \in {"order", "cleanup"}
  BY SmallRenewal DEF RenewalInv, CertTypes, OneOrders, OwnRecords
<1>2. \A s \in Holding : To(s) \in Jobs /\ To(s).st = s /\ To(s).names = job[g].names
                         /\ To(s).changed = job[g].changed
  BY <1>1, JobFields DEF Working
<1>3. UNCHANGED <<cert, day, woken, used, dirty, loaded>>
  BY DEF C!Lock, C!Present, C!PresentFails, C!Ordered, C!OrderFails, C!CleanUp
<1>4. CASE C!Lock(g)
  <2>1. job' = [job EXCEPT ![g] = To("present")] /\ acmeMu' = g /\ UNCHANGED <<txt, messy>>
        /\ job[g].st = "lock" /\ acmeMu = Nobody
    BY <1>4 DEF C!Lock, C!Goto, C!At
  <2> HIDE DEF To
  <2> QED BY <1>1, <1>2, <1>3, <2>1, OrderStep DEF Working, Holding
<1>5. CASE C!Present(g)
  <2>1. job' = [job EXCEPT ![g] = To("order")] /\ txt' = txt \cup {g} /\ UNCHANGED <<acmeMu, messy>>
        /\ job[g].st = "present"
    BY <1>5 DEF C!Present, C!Goto, C!At
  <2> HIDE DEF To
  <2> QED BY <1>1, <1>2, <1>3, <2>1, OrderStep DEF Working, Holding
<1>6. CASE C!PresentFails(g)
  <2>1. job' = [job EXCEPT ![g] = To("cleanup")] /\ messy' \in {messy, TRUE} /\ UNCHANGED <<acmeMu, txt>>
        /\ job[g].st = "present"
    BY <1>6 DEF C!PresentFails, C!Goto, C!At
  <2> HIDE DEF To
  <2> QED BY <1>1, <1>2, <1>3, <2>1, OrderStep DEF Working, Holding
<1>7. CASE C!Ordered(g)
  <2> DEFINE done == [To("cleanup") EXCEPT !.got = day + Life]
  <2>1. job' = [job EXCEPT ![g] = done] /\ UNCHANGED <<acmeMu, messy, txt>> /\ job[g].st = "order"
    BY <1>7 DEF C!Ordered, C!Goto, C!At
  <2> HIDE DEF To
  <2>2. done \in Jobs /\ done.st = "cleanup" /\ done.names = job[g].names /\ done.changed = job[g].changed
    BY <1>1, <1>2, JobFields DEF Holding
  <2> HIDE DEF done
  <2> QED BY <1>1, <1>3, <2>1, <2>2, OrderStep DEF Working, Holding
<1>8. CASE C!OrderFails(g)
  <2>1. job' = [job EXCEPT ![g] = To("cleanup")] /\ UNCHANGED <<acmeMu, messy, txt>> /\ job[g].st = "order"
    BY <1>8 DEF C!OrderFails, C!Goto, C!At
  <2> HIDE DEF To
  <2> QED BY <1>1, <1>2, <1>3, <2>1, OrderStep DEF Working, Holding
<1>9. CASE C!CleanUp(g)
  <2>1. job' = [job EXCEPT ![g] = To("save")] /\ acmeMu' = acmeMu /\ job[g].st = "cleanup"
        /\ \/ txt' = txt \ {g} /\ messy' = messy
           \/ txt' = txt /\ messy' = TRUE
    BY <1>9 DEF C!CleanUp, C!Goto, C!At
  <2> HIDE DEF To
  <2> QED BY <1>1, <1>2, <1>3, <2>1, OrderStep DEF Working, Holding
<1> QED BY <1>4, <1>5, <1>6, <1>7, <1>8, <1>9

\* The row is written, or the failure is noted in it.
LEMMA RenewalSave ==
  ASSUME RenewalInv, NEW g \in Goroutines, C!Save(g)
  PROVE  RenewalInv'
<1> DEFINE c == job[g].id
           kept == job[g].got # Nobody /\ IF c = Nobody THEN C!Free # {} ELSE cert[c] # Nobody
           handled == [C!Idle EXCEPT !.st = IF kept THEN "sync" ELSE "idle"]
           looped == [C!Idle EXCEPT !.st = "next", !.todo = job[g].todo, !.changed = job[g].changed \/ kept]
           next == IF g # Loop THEN handled ELSE looped
<1>1. CertTypes /\ UsedThere /\ LoopRests /\ ToldOrWill /\ OneOrders /\ OwnRecords
  BY Zenon DEF RenewalInv
<1>2. /\ job[g].st = "save" /\ acmeMu' = Nobody /\ acmeMu = g
      /\ UNCHANGED <<day, woken, txt, used, dirty, loaded, messy>>
      /\ job[g] \in Jobs /\ JobFits(job[g])
  BY <1>1 DEF C!Save, C!At, CertTypes, OneOrders, Holding
<1>3. kept \in BOOLEAN
  OBVIOUS
<1>4. next \in Jobs /\ JobFits(next) /\ next.st \in {"sync", "idle", "next"}
      /\ (g # Loop => next.st = IF kept THEN "sync" ELSE "idle")
      /\ (g = Loop => next.st = "next" /\ next.changed = (job[g].changed \/ kept))
  <2> HIDE DEF kept
  <2>1. handled \in Jobs /\ handled.st = IF kept THEN "sync" ELSE "idle"
    BY IdleJob, JobFields DEF Resting
  <2>2. job[g].todo \in Seq(Certs) /\ (job[g].changed \/ kept) \in BOOLEAN
    BY <1>2, <1>3 DEF Jobs
  <2>3. looped \in Jobs /\ looped.st = "next" /\ looped.changed = (job[g].changed \/ kept)
    BY <2>2, IdleJob DEF Jobs, Working, Resting
  <2> HIDE DEF handled, looped
  <2> QED BY <2>1, <2>3 DEF JobFits, Working, Holding
<1>5. job' = [job EXCEPT ![g] = next]
  BY DEF C!Save, C!Done, C!Goto
<1>6. kept => /\ C!Issued(g) \in C!Row
              /\ cert' = [d \in Certs |-> IF d = c \/ (c = Nobody /\ d \in C!Free) THEN C!Issued(g) ELSE cert[d]]
  <2>1. job[g].got # Nobody => C!Issued(g) \in C!Row
    BY <1>1, <1>2, RowFields DEF C!Issued, CertTypes, Jobs, JobFits, Working, Holding
  <2> QED BY <2>1 DEF C!Save
<1>7. ~kept => cert' = C!Failed(g)
  BY DEF C!Save
<1> HIDE DEF kept, next
<1>8. /\ cert' \in [Certs -> C!Row \cup {Nobody}]
      /\ \A d \in Certs : cert[d] # Nobody => cert'[d] # Nobody
      /\ ~kept => \A d \in Certs : cert[d] # Nobody => cert'[d].ser = cert[d].ser
  <2>1. CASE kept
    BY <1>1, <1>6, <2>1, SmallRenewal DEF CertTypes
  <2>2. CASE ~kept
    <3>1. CASE cert' = cert
      BY <1>1, <2>2, <3>1 DEF CertTypes
    <3>2. CASE c # Nobody /\ cert[c] # Nobody /\ cert' = [cert EXCEPT ![c].err = TRUE]
      <4>1. c \in Certs /\ cert[c] \in C!Row
        BY <1>1, <1>2, <3>2 DEF CertTypes, Jobs
      <4>2. [cert[c] EXCEPT !.err = TRUE] \in C!Row /\ [cert[c] EXCEPT !.err = TRUE].ser = cert[c].ser
        BY <4>1 DEF C!Row
      <4>3. cert' = [cert EXCEPT ![c] = [cert[c] EXCEPT !.err = TRUE]]
        BY <3>2
      <4> DEFINE noted == [cert[c] EXCEPT !.err = TRUE]
      <4> HIDE DEF noted
      <4> QED BY <1>1, <2>2, <4>1, <4>2, <4>3, SmallRenewal DEF CertTypes, noted
    <3> QED BY <1>7, <2>2, <3>1, <3>2 DEF C!Failed
  <2> QED BY <2>1, <2>2
<1>9. CertTypes'
  BY <1>1, <1>2, <1>4, <1>5, <1>8, JobTypesStay DEF CertTypes
<1>10. \A x \in Goroutines : job'[x] = IF x = g THEN next ELSE job[x]
  BY <1>1, <1>5, Zenon DEF CertTypes
<1>11. UsedThere' /\ LoopRests'
  BY <1>1, <1>2, <1>4, <1>8, <1>10 DEF UsedThere, LoopRests, CertTypes, Goroutines
<1>12. ToldOrWill'
  <2>1. CASE kept
    <3>1. (\E h \in Handlers : job'[h].st = "sync") \/ job'[Loop].changed
      BY <1>4, <1>10, <2>1 DEF Goroutines
    <3> QED BY <3>1 DEF ToldOrWill
  <2>2. CASE ~kept
    <3>1. used # Nobody => cert'[used].ser = cert[used].ser
      BY <1>1, <1>8, <2>2 DEF UsedThere, CertTypes
    <3> QED BY <1>1, <1>2, <1>4, <1>5, <3>1, ToldStays
  <2> QED BY <2>1, <2>2
<1>13. OneOrders'
  BY <1>1, <1>2, <1>4, <1>10, SmallRenewal DEF OneOrders, Holding
<1>14. OwnRecords'
  <2>1. ASSUME NEW x \in txt', ~messy' PROVE job'[x].st \in {"order", "cleanup"}
    <3>1. x \in Goroutines /\ job[x].st \in {"order", "cleanup"}
      BY <1>1, <1>2, <2>1 DEF OwnRecords, CertTypes
    <3> QED BY <1>2, <1>10, <3>1
  <2> QED BY <2>1 DEF OwnRecords
<1> QED BY <1>9, <1>11, <1>12, <1>13, <1>14 DEF RenewalInv

LEMMA Numbers ==
  /\ Due \in Nat /\ Life \in Nat /\ Due < Life /\ MaxFails \in Nat /\ MaxCertRequests \in Nat
  /\ Nobody \notin Nat
  /\ Lives \subseteq Nat
BY RenewalTables DEF C!RenewalAssumption

LEMMA EditedOf ==
  ASSUME NEW q, NEW r \in C!Edited(q)
  PROVE  \/ r = q
         \/ \E n \in Domains : r = C!Renamed(q, n) \/ \E l \in Lives : r = C!Uploaded(q, n, l)
BY DEF C!Edited, Domains

\* What an edit makes of a row is a row: its names are the new ones, and so are
\* the end and the serial when a pair is uploaded.
LEMMA EditedRows ==
  ASSUME NEW q \in C!Row, NEW n \in Domains, day \in Nat
  PROVE  /\ C!Renamed(q, n) \in C!Row
         /\ \A l \in Lives : C!Uploaded(q, n, l) \in C!Row
<1> DEFINE named == [q EXCEPT !.names = n]
<1>1. named \in C!Row
  BY DEF C!Row, Domains
<1>2. \A b \in BOOLEAN : [named EXCEPT !.short = b] \in C!Row
  <2> HIDE DEF named
  <2> QED BY <1>1 DEF C!Row
<1>3. C!Renamed(q, n) \in C!Row
  <2> DEFINE late == q.names \in Broken /\ q.until < day + Due
             hurt == q.short \/ late
  <2>1. C!Renamed(q, n) = [named EXCEPT !.short = hurt]
    <3>1. named.short = q.short
      BY DEF C!Row
    <3>2. C!Renamed(q, n) = [named EXCEPT !.short = @ \/ late]
      BY Zenon DEF C!Renamed
    <3> HIDE DEF late, named
    <3> QED BY <3>1, <3>2
  <2>2. hurt \in BOOLEAN
    BY Zenon
  <2> HIDE DEF hurt
  <2> QED BY <1>2, <2>1, <2>2, Zenon
<1>4. ASSUME NEW l \in Lives PROVE C!Uploaded(q, n, l) \in C!Row
  <2> DEFINE valid == [named EXCEPT !.until = day + l]
             made == [valid EXCEPT !.ser = <<n, "upload", day + l>>]
             clean == [made EXCEPT !.err = FALSE]
  <2>1. day + l \in Nat
    BY Numbers
  <2>2. valid \in C!Row
    <3> HIDE DEF named
    <3> QED BY <1>1, <2>1 DEF C!Row
  <2>3. made \in C!Row
    <3> HIDE DEF valid
    <3> QED BY <2>1, <2>2 DEF C!Row, Domains
  <2>4. clean \in C!Row
    <3> HIDE DEF made
    <3> QED BY <2>3 DEF C!Row
  <2>5. \A b \in BOOLEAN : [clean EXCEPT !.short = b] \in C!Row
    <3> HIDE DEF clean
    <3> QED BY <2>4 DEF C!Row
  <2>6. (l < Due) \in BOOLEAN
    BY Numbers
  <2> QED BY <2>5, <2>6, Zenon DEF C!Uploaded
<1> QED BY <1>3, <1>4, Zenon

LEMMA RenewalUpdate ==
  ASSUME RenewalInv, NEW h \in Handlers, C!UpdateWrite(h)
  PROVE  RenewalInv'
<1> DEFINE next == [C!Idle EXCEPT !.st = "sync"]
<1>1. CertTypes /\ UsedThere /\ LoopRests /\ ToldOrWill /\ OneOrders /\ OwnRecords
  BY Zenon DEF RenewalInv
<1>2. /\ job[h].st = "update" /\ job' = [job EXCEPT ![h] = next]
      /\ UNCHANGED <<day, woken, acmeMu, txt, used, dirty, loaded, messy>>
  BY DEF C!UpdateWrite, C!At, C!Goto
<1>3. h \in Goroutines /\ h # Loop /\ Loop \in Goroutines /\ job[h].id \in Certs /\ job[h].read \in C!Row
  BY <1>1, <1>2, SmallRenewal DEF CertTypes, JobFits, Goroutines
<1>4. next \in Jobs /\ JobFits(next) /\ next.st = "sync"
  <2>1. next \in Jobs /\ next.st = "sync"
    BY IdleJob, JobFields DEF Resting
  <2> HIDE DEF next
  <2> QED BY <2>1 DEF JobFits, Working, Holding
<1> HIDE DEF next
<1>5. \A r \in C!Edited(job[h].read) : r \in C!Row
  <2>1. \A n \in Domains : /\ C!Renamed(job[h].read, n) \in C!Row
                           /\ \A l \in Lives : C!Uploaded(job[h].read, n, l) \in C!Row
    BY <1>1, <1>3, EditedRows DEF CertTypes
  <2> QED BY <1>3, <2>1, EditedOf, Zenon
<1>6. PICK r \in C!Row : cert' = [cert EXCEPT ![job[h].id] = IF @ = Nobody THEN Nobody ELSE r]
  BY <1>5, Zenon DEF C!UpdateWrite
<1>7. cert' \in [Certs -> C!Row \cup {Nobody}] /\ \A d \in Certs : cert[d] # Nobody => cert'[d] # Nobody
  BY <1>1, <1>3, <1>6, SmallRenewal DEF CertTypes
<1>8. CertTypes'
  BY <1>1, <1>2, <1>3, <1>4, <1>7, JobTypesStay DEF CertTypes
<1>9. \A x \in Goroutines : job'[x] = IF x = h THEN next ELSE job[x]
  BY <1>1, <1>2, Zenon DEF CertTypes
<1>10. ToldOrWill'
  BY <1>3, <1>4, <1>9 DEF ToldOrWill
<1>11. UsedThere' /\ LoopRests' /\ OneOrders'
  BY <1>1, <1>2, <1>3, <1>4, <1>7, <1>9 DEF UsedThere, LoopRests, OneOrders, CertTypes, Holding
<1>12. OwnRecords'
  BY <1>1, <1>2, <1>9 DEF OwnRecords, CertTypes
<1> QED BY <1>8, <1>10, <1>11, <1>12 DEF RenewalInv

LEMMA RenewalDelete ==
  ASSUME RenewalInv, NEW h \in Handlers, C!Delete(h)
  PROVE  RenewalInv'
<1>1. CertTypes /\ UsedThere /\ LoopRests /\ ToldOrWill /\ OneOrders /\ OwnRecords
  BY Zenon DEF RenewalInv
<1>2. /\ job[h].st = "delete" /\ job' = [job EXCEPT ![h] = C!Idle]
      /\ cert' = [cert EXCEPT ![job[h].id] = Nobody]
      /\ used' = IF used = job[h].id THEN Nobody ELSE used
      /\ UNCHANGED <<day, woken, acmeMu, txt, dirty, loaded, messy>>
  BY DEF C!Delete, C!At, C!Goto
<1>3. h \in Goroutines /\ h # Loop /\ Loop \in Goroutines /\ job[h].id \in Certs
  BY <1>1, <1>2, SmallRenewal DEF CertTypes, JobFits, Goroutines
<1>4. CertTypes'
  BY <1>1, <1>2, <1>3, IdleJob, JobTypesStay DEF CertTypes
<1>5. \A x \in Goroutines : job'[x] = IF x = h THEN C!Idle ELSE job[x]
  BY <1>1, <1>2, Zenon DEF CertTypes
<1>6. UsedThere'
  BY <1>1, <1>2, <1>3 DEF UsedThere, CertTypes
<1>7. ToldOrWill'
  <2>1. CASE used' = Nobody
    BY <2>1 DEF ToldOrWill
  <2>2. CASE used' # Nobody
    <3>1. used' = used /\ (used # Nobody => cert'[used].ser = cert[used].ser)
      BY <1>1, <1>2, <1>3, <2>2 DEF CertTypes
    <3> QED BY <1>1, <1>2, <1>3, <3>1, ToldStays
  <2> QED BY <2>1, <2>2
<1>8. LoopRests' /\ OneOrders'
  BY <1>1, <1>2, <1>3, <1>5, IdleJob DEF LoopRests, OneOrders, Holding
<1>9. OwnRecords'
  BY <1>1, <1>2, <1>5 DEF OwnRecords, CertTypes
<1> QED BY <1>4, <1>6, <1>7, <1>8, <1>9 DEF RenewalInv

\* Steps that leave the goroutines alone.
LEMMA RenewalOthers ==
  ASSUME RenewalInv,
         \/ \E n \in Names, l \in Lives : C!Create(n, l)
         \/ \E c \in Certs : C!Use(c)
         \/ C!Dispatch \/ C!Tick \/ UNCHANGED C!renewalVars
  PROVE  RenewalInv'
<1>1. CertTypes /\ UsedThere /\ LoopRests /\ ToldOrWill /\ OneOrders /\ OwnRecords
  BY Zenon DEF RenewalInv
<1>2. UNCHANGED <<job, acmeMu, txt, messy>>
  BY DEF C!Create, C!Use, C!Dispatch, C!Tick, C!renewalVars
<1>3. LoopRests' /\ OneOrders' /\ OwnRecords'
  BY <1>1, <1>2 DEF LoopRests, OneOrders, OwnRecords
<1>4. ASSUME NEW n \in Names, NEW l \in Lives, C!Create(n, l) PROVE RenewalInv'
  <2>1. PICK c \in C!Free : cert' = [cert EXCEPT ![c] =
          [src |-> "upload", names |-> n, auto |-> FALSE, until |-> day + l, ser |-> <<n, "upload", day + l>>,
           err |-> FALSE, short |-> FALSE]]
    BY <1>4 DEF C!Create
  <2>2. UNCHANGED <<day, woken, used, dirty, loaded>>
    BY <1>4 DEF C!Create
  <2>3. c \in Certs /\ cert[c] = Nobody /\ day + l \in Nat /\ day \in Nat /\ n \in Domains
    BY <1>1, FreeIsFree, Numbers DEF CertTypes, Domains
  <2>4. PICK r \in C!Row : cert' = [cert EXCEPT ![c] = r]
    BY <2>1, <2>3, RowFields
  <2>5. CertTypes'
    BY <1>1, <1>2, <2>2, <2>3, <2>4 DEF CertTypes, JobFits
  <2>6. UsedThere' /\ ToldOrWill'
    BY <1>1, <1>2, <2>2, <2>3, <2>4, SmallRenewal DEF UsedThere, ToldOrWill, CertTypes
  <2> QED BY <1>3, <2>5, <2>6 DEF RenewalInv
<1>5. ASSUME NEW c \in Certs, C!Use(c) PROVE RenewalInv'
  <2>1. used' = c /\ loaded' = cert[c].ser /\ cert[c] \in C!Row /\ UNCHANGED <<cert, day, woken, dirty>>
    BY <1>1, <1>5 DEF C!Use, CertTypes
  <2>2. loaded' \in Serials
    BY <2>1, RowFields
  <2>3. CertTypes'
    BY <1>1, <1>2, <2>1, <2>2 DEF CertTypes, JobFits
  <2>4. UsedThere' /\ ToldOrWill'
    BY <2>1, SmallRenewal DEF UsedThere, ToldOrWill
  <2> QED BY <1>3, <2>3, <2>4 DEF RenewalInv
<1>6. CASE C!Dispatch
  <2>1. loaded' = (IF used = Nobody THEN loaded ELSE cert[used].ser) /\ dirty' = FALSE
        /\ UNCHANGED <<cert, day, woken, used>>
    BY <1>6 DEF C!Dispatch
  <2>2. used # Nobody => cert[used].ser \in Serials
    BY <1>1, RowFields DEF CertTypes, UsedThere
  <2>3. CertTypes'
    BY <1>1, <1>2, <2>1, <2>2 DEF CertTypes, JobFits
  <2>4. UsedThere' /\ ToldOrWill'
    BY <1>1, <2>1 DEF UsedThere, ToldOrWill
  <2> QED BY <1>3, <2>3, <2>4 DEF RenewalInv
<1>7. CASE C!Tick \/ UNCHANGED C!renewalVars
  <2>1. UNCHANGED <<cert, used, dirty, loaded>> /\ day' \in {day, day + 1} /\ woken' \in {woken, TRUE}
    BY <1>7, Zenon DEF C!Tick, C!renewalVars
  <2>2. CertTypes'
    <3>1. day \in Nat /\ woken \in BOOLEAN
      BY <1>1, Zenon DEF CertTypes
    <3>2. day' \in Nat
      BY <2>1, <3>1
    <3>3. woken' \in BOOLEAN
      BY <2>1, <3>1, Zenon
    <3> QED BY <1>1, <1>2, <2>1, <3>2, <3>3, Zenon DEF CertTypes, JobFits
  <2>3. UsedThere' /\ ToldOrWill'
    BY <1>1, <1>2, <2>1 DEF UsedThere, ToldOrWill
  <2> QED BY <1>3, <2>2, <2>3 DEF RenewalInv
<1> QED BY <1>4, <1>5, <1>6, <1>7

LEMMA RenewalRestart == ASSUME RenewalInv, C!Restart PROVE RenewalInv'
<1>1. CertTypes /\ UsedThere
  BY DEF RenewalInv
<1>2. /\ job' = [g \in Goroutines |-> C!Idle] /\ acmeMu' = Nobody /\ woken' = TRUE /\ dirty' = TRUE
      /\ messy' = (messy \/ txt # {}) /\ UNCHANGED <<cert, day, txt, used, loaded>>
  BY DEF C!Restart, C!Goroutines, Goroutines
<1>3. \A g \in Goroutines : job'[g] = C!Idle
  BY <1>2
<1>4. job' \in [Goroutines -> Jobs] /\ \A g \in Goroutines : JobFits(job'[g])
  BY <1>2, <1>3, IdleJob
<1>5. CertTypes'
  BY <1>1, <1>2, <1>4 DEF CertTypes, JobFits
<1>6. UsedThere' /\ LoopRests' /\ ToldOrWill' /\ OneOrders' /\ OwnRecords'
  BY <1>1, <1>2, <1>3, IdleJob, SmallRenewal
     DEF UsedThere, LoopRests, ToldOrWill, OneOrders, OwnRecords, Goroutines, Holding
<1> QED BY <1>5, <1>6 DEF RenewalInv

LEMMA RenewalStep == RenewalInv /\ [C!Next]_(C!renewalVars) => RenewalInv'
<1> SUFFICES ASSUME RenewalInv, [C!Next]_(C!renewalVars) PROVE RenewalInv'
  OBVIOUS
<1>1. CASE \E g \in C!Goroutines : C!GoroutineStep(g)
  BY <1>1, RenewalOrder, RenewalSave DEF C!GoroutineStep, C!Goroutines, Goroutines
<1>2. CASE \E h \in Handlers : \E c \in Certs : C!Renew(h, c) \/ C!UpdateRead(h, c) \/ C!DeleteCheck(h, c)
  BY <1>2, RenewalHandler
<1>3. CASE \E h \in Handlers : (\E n \in Names : C!IssueNew(h, n)) \/ C!SyncAll(h)
  BY <1>3, RenewalHandler
<1>4. CASE \E h \in Handlers : C!UpdateWrite(h) \/ C!Delete(h)
  BY <1>4, RenewalUpdate, RenewalDelete
<1>5. CASE C!LoopWakes \/ C!LoopNext \/ C!Restart
  BY <1>5, RenewalLoop, RenewalRestart
<1>6. CASE \/ (\E n \in Names, l \in Lives : C!Create(n, l)) \/ (\E c \in Certs : C!Use(c))
           \/ C!Dispatch \/ C!Tick \/ UNCHANGED C!renewalVars
  BY <1>6, RenewalOthers
<1> QED BY <1>1, <1>2, <1>3, <1>4, <1>5, <1>6 DEF C!Next

\* What the certificates, the goroutines and the order under way can be.
THEOREM CertTypeCorrect == C!Spec => []CertTypes
<1>1. RenewalInv => CertTypes
  BY DEF RenewalInv
<1> QED BY <1>1, RenewalBegins, RenewalStep, PTL DEF C!Spec

\* For any certificates, domains and handlers, any number of failures and any
\* running times: no renewal ends in the table only, and none leaves its TXT
\* records behind.
THEOREM ServedHolds == C!Spec => []Served
<1>1. RenewalInv => Served
  <2> SUFFICES ASSUME RenewalInv PROVE C!Served
    BY DEF Served
  <2>1. used # Nobody /\ loaded # cert[used].ser =>
          dirty \/ (\E h \in Handlers : C!At(h, "sync")) \/ job[Loop].changed
    BY DEF RenewalInv, ToldOrWill, C!At
  <2>2. ~messy => txt \subseteq {acmeMu}
    BY DEF RenewalInv, CertTypes, OneOrders, OwnRecords, Holding
  <2> QED BY <2>1, <2>2 DEF C!Served
<1> QED BY <1>1, RenewalBegins, RenewalStep, PTL DEF C!Spec

-----------------------------------------------------------------------------
(***************************************************************************)
(* No certificate that renews itself runs out (Renewal, NeverOver).        *)
(***************************************************************************)

\* ListCertIDsDueRenew takes it, ACME issues it, and no edit put a certificate
\* into it that was due at once.
RenewsItself(r) == r # Nobody /\ r.src = "acme" /\ r.auto /\ r.names \notin Broken /\ ~r.short

\* What can have cost a renewal so far.
Spent == fails + asked

\* On the day d, when n renewals can have been lost: a row has not been due for
\* more days than that, and a safe one for fewer.
InTime(r, d, n) == d + Due <= r.until + n
Safe(r, d, n) == d + Due < r.until + n

\* The loop j is going to renew c, today.
AboutToRenew(c, wakes, j) ==
  \/ wakes
  \/ j.st # "idle" /\ \E i \in DOMAIN j.todo : j.todo[i] = c
  \/ j.id = c /\ j.st \in {"lock", "present", "order"} /\ j.names \notin Broken
  \/ j.id = c /\ j.st \in {"cleanup", "save"} /\ j.got # Nobody

\* What is issued is of today, and what a handler writes back is safe: his own
\* request has been counted since he read it.
JobInTime(j, d, n) ==
  /\ j.got # Nobody => j.st \in {"cleanup", "save"} /\ j.got = d + Life
  /\ j.st = "update" => 0 < n
  /\ j.st = "update" /\ RenewsItself(j.read) => Safe(j.read, d, n)

Counted == fails \in 0..MaxFails /\ asked \in 0..MaxCertRequests

OverInv ==
  /\ RenewalInv /\ Counted
  /\ \A c \in Certs : RenewsItself(cert[c]) =>
       /\ InTime(cert[c], day, Spent)
       /\ Safe(cert[c], day, Spent) \/ AboutToRenew(c, woken, job[Loop])
  /\ \A g \in Goroutines : JobInTime(job[g], day, Spent)

LEMMA StartsInTime == \A c \in Certs : RenewsItself(SavedCerts[c]) => Due <= SavedCerts[c].until
BY RenewalTables DEF C!RenewalAssumption, RenewsItself

LEMMA CountedNat == Counted => fails \in Nat /\ asked \in Nat /\ Spent \in Nat
BY Numbers DEF Counted, Spent

LEMMA UntilNat == \A r : RenewsItself(r) /\ r \in C!Row \cup {Nobody} => r \in C!Row /\ r.until \in Nat
BY DEF RenewsItself, C!Row

\* A fault, or a request, makes every row safe that was in time.
LEMMA MoreSpent ==
  ASSUME NEW r, r.until \in Nat, NEW d \in Nat, NEW n \in Nat, NEW m \in Nat, n <= m
  PROVE  /\ InTime(r, d, n) => InTime(r, d, m)
         /\ Safe(r, d, n) => Safe(r, d, m) /\ InTime(r, d, n)
         /\ InTime(r, d, n) /\ n < m => Safe(r, d, m)
BY Numbers DEF InTime, Safe

LEMMA JobLater ==
  ASSUME NEW j \in Jobs, NEW d \in Nat, NEW n \in Nat, NEW m \in Nat, n <= m, JobInTime(j, d, n)
  PROVE  JobInTime(j, d, m)
<1>1. RenewsItself(j.read) => j.read.until \in Nat
  BY UntilNat DEF Jobs
<1> QED BY <1>1, MoreSpent DEF JobInTime

\* A step of a day: what is saved is safe, or as it was with the loop still to come.
LEMMA OverStep ==
  ASSUME OverInv, RenewalInv', day' = day, Counted', fails <= fails', asked <= asked',
         \A g \in Goroutines : JobInTime(job'[g], day, fails' + asked'),
         \A c \in Certs : RenewsItself(cert'[c]) =>
           \/ Safe(cert'[c], day, fails' + asked')
           \/ /\ RenewsItself(cert[c]) /\ cert'[c].until = cert[c].until
              /\ AboutToRenew(c, woken, job[Loop]) => AboutToRenew(c, woken', job'[Loop])
  PROVE  OverInv'
<1>1. fails \in Nat /\ asked \in Nat /\ fails' \in Nat /\ asked' \in Nat /\ day \in Nat
  BY Numbers DEF OverInv, Counted, RenewalInv, CertTypes
<1>2. fails + asked \in Nat /\ fails' + asked' \in Nat /\ fails + asked <= fails' + asked'
  BY <1>1
<1> DEFINE n == fails + asked
           m == fails' + asked'
<1>3. n = Spent /\ m = Spent'
  BY DEF Spent
<1>4. n \in Nat /\ m \in Nat /\ n <= m
  BY <1>2
<1> HIDE DEF n, m
<1>5. ASSUME NEW c \in Certs, RenewsItself(cert'[c])
      PROVE  /\ InTime(cert'[c], day, m)
             /\ Safe(cert'[c], day, m) \/ AboutToRenew(c, woken', job'[Loop])
  <2>1. cert'[c].until \in Nat /\ (RenewsItself(cert[c]) => cert[c].until \in Nat)
    BY <1>5, UntilNat DEF OverInv, RenewalInv, CertTypes
  <2>2. CASE Safe(cert'[c], day, m)
    BY <1>1, <1>4, <2>1, <2>2, MoreSpent
  <2>3. CASE /\ RenewsItself(cert[c]) /\ cert'[c].until = cert[c].until
             /\ AboutToRenew(c, woken, job[Loop]) => AboutToRenew(c, woken', job'[Loop])
    <3>1. InTime(cert[c], day, n) /\ (Safe(cert[c], day, n) \/ AboutToRenew(c, woken, job[Loop]))
      BY <1>3, <2>3, Zenon DEF OverInv
    <3>2. InTime(cert[c], day, m) /\ (Safe(cert[c], day, n) => Safe(cert[c], day, m))
      BY <1>1, <1>4, <2>1, <2>3, <3>1, MoreSpent
    <3>3. /\ InTime(cert'[c], day, m) <=> InTime(cert[c], day, m)
          /\ Safe(cert'[c], day, m) <=> Safe(cert[c], day, m)
      BY <2>3, Zenon DEF InTime, Safe
    <3> QED BY <2>3, <3>1, <3>2, <3>3, Zenon
  <2> QED BY <1>5, <2>2, <2>3, Zenon DEF m
<1>6. \A g \in Goroutines : JobInTime(job'[g], day, m)
  BY Zenon DEF m
<1>7. \A c \in Certs : RenewsItself(cert'[c]) <=> RenewsItself(cert[c])'
  BY Zenon DEF RenewsItself
<1>8. \A c \in Certs : RenewsItself(cert[c])' =>
         InTime(cert[c], day, Spent)' /\ (Safe(cert[c], day, Spent)' \/ AboutToRenew(c, woken, job[Loop])')
  <2> SUFFICES ASSUME NEW c \in Certs, RenewsItself(cert'[c])
               PROVE  InTime(cert[c], day, Spent)' /\ (Safe(cert[c], day, Spent)' \/ AboutToRenew(c, woken, job[Loop])')
    BY <1>7, Zenon
  <2>1. InTime(cert'[c], day, m) => InTime(cert[c], day, Spent)'
    BY <1>3, Zenon DEF InTime
  <2>2. Safe(cert'[c], day, m) => Safe(cert[c], day, Spent)'
    BY <1>3, Zenon DEF Safe
  <2>3. AboutToRenew(c, woken', job'[Loop]) => AboutToRenew(c, woken, job[Loop])'
    BY Zenon DEF AboutToRenew
  <2> QED BY <1>5, <2>1, <2>2, <2>3, Zenon
<1>9. \A g \in Goroutines : JobInTime(job[g], day, Spent)'
  BY <1>3, <1>6, Zenon DEF JobInTime, RenewsItself, Safe
<1> QED BY <1>8, <1>9, Zenon DEF OverInv

LEMMA AddUp ==
  ASSUME NEW a \in Nat, NEW b \in Nat, NEW c \in Nat, NEW d \in Nat, a <= c, b <= d
  PROVE  a + b \in Nat /\ c + d \in Nat /\ a + b <= c + d
OBVIOUS

\* Jobs of others do not matter for a goroutine that moves on.
LEMMA JobsInTime ==
  ASSUME OverInv, Counted', fails <= fails', asked <= asked',
         NEW g \in Goroutines, NEW j, job' = [job EXCEPT ![g] = j], JobInTime(j, day, fails' + asked')
  PROVE  \A x \in Goroutines : JobInTime(job'[x], day, fails' + asked')
<1>1. fails \in Nat /\ asked \in Nat /\ fails' \in Nat /\ asked' \in Nat /\ day \in Nat
  BY Numbers DEF OverInv, Counted, RenewalInv, CertTypes
<1>2. fails + asked \in Nat /\ fails' + asked' \in Nat /\ fails + asked <= fails' + asked'
  BY <1>1, AddUp, Zenon
<1>3. \A x \in Goroutines : job[x] \in Jobs /\ JobInTime(job[x], day, fails + asked)
  BY Zenon DEF OverInv, RenewalInv, CertTypes, Spent
<1>4. \A x \in Goroutines : JobInTime(job[x], day, fails' + asked')
  BY <1>1, <1>2, <1>3, JobLater
<1>5. \A x \in Goroutines : job'[x] = IF x = g THEN j ELSE job[x]
  BY Zenon DEF OverInv, RenewalInv, CertTypes
<1> QED BY <1>4, <1>5, Zenon

\* A handler goes on, the rows stay.
LEMMA OverHandler ==
  ASSUME OverInv, RenewalInv', UNCHANGED <<cert, day, woken>>, Counted', fails <= fails', asked <= asked',
         NEW g \in Handlers, NEW j, job' = [job EXCEPT ![g] = j], JobInTime(j, day, fails' + asked')
  PROVE  OverInv'
<1>1. g \in Goroutines /\ Loop \in Goroutines /\ g # Loop
  BY SmallRenewal DEF Goroutines
<1>2. \A x \in Goroutines : JobInTime(job'[x], day, fails' + asked')
  BY <1>1, JobsInTime
<1>3. job'[Loop] = job[Loop]
  <2>1. job \in [Goroutines -> Jobs]
    BY DEF OverInv, RenewalInv, CertTypes
  <2> QED BY <1>1, <2>1, Zenon
<1>4. \A c \in Certs : RenewsItself(cert'[c]) =>
        /\ RenewsItself(cert[c]) /\ cert'[c].until = cert[c].until
        /\ AboutToRenew(c, woken, job[Loop]) => AboutToRenew(c, woken', job'[Loop])
  BY <1>3, Zenon
<1> QED BY <1>2, <1>4, OverStep, Zenon

\* The loop goes on, the rows stay.
LEMMA OverLoop ==
  ASSUME OverInv, RenewalInv', UNCHANGED <<cert, day>>, Counted', fails <= fails', asked <= asked',
         NEW j, job' = [job EXCEPT ![Loop] = j], JobInTime(j, day, fails' + asked'),
         \A c \in Certs : RenewsItself(cert[c]) /\ AboutToRenew(c, woken, job[Loop]) =>
           Safe(cert[c], day, fails' + asked') \/ AboutToRenew(c, woken', j)
  PROVE  OverInv'
<1>1. Loop \in Goroutines
  BY DEF Goroutines
<1>2. \A x \in Goroutines : JobInTime(job'[x], day, fails' + asked')
  BY <1>1, JobsInTime
<1>3. job'[Loop] = j
  <2>1. job \in [Goroutines -> Jobs]
    BY DEF OverInv, RenewalInv, CertTypes
  <2> QED BY <1>1, <2>1, Zenon
<1>4. \A c \in Certs : RenewsItself(cert'[c]) =>
        \/ Safe(cert'[c], day, fails' + asked')
        \/ /\ RenewsItself(cert[c]) /\ cert'[c].until = cert[c].until
           /\ AboutToRenew(c, woken, job[Loop]) => AboutToRenew(c, woken', job'[Loop])
  BY <1>3, Zenon
<1> QED BY <1>2, <1>4, OverStep, Zenon

\* The rows that are due, in order, are all of them.
LEMMA InOrderAll ==
  ASSUME NEW S, S \subseteq Certs, NEW c \in S
  PROVE  C!InOrder(S) # <<>> /\ \E i \in DOMAIN C!InOrder(S) : C!InOrder(S)[i] = c
<1> DEFINE Below(d) == {e \in S : e < d}
           k == Cardinality(Below(c)) + 1
<1>1. S \subseteq Nat /\ IsFiniteSet(S) /\ Cardinality(S) \in Nat
  BY SmallRenewal, FS_Subset, FS_CardinalityType
<1>2. C!InOrder(S) = [i \in 1..Cardinality(S) |-> CHOOSE d \in S : Cardinality(Below(d)) = i - 1]
  BY Zenon DEF C!InOrder, C!Cardinality, Cardinality
<1>3. \A d \in S : IsFiniteSet(Below(d)) /\ Cardinality(Below(d)) \in Nat
  BY <1>1, FS_Subset, FS_CardinalityType
<1>4. ASSUME NEW d \in S, NEW e \in S, d < e PROVE Cardinality(Below(d)) < Cardinality(Below(e))
  <2>1. d \in Nat /\ e \in Nat /\ \A x \in S : x \in Nat
    BY <1>1
  <2>1a. Below(d) \subseteq Below(e) /\ d \in Below(e) /\ d \notin Below(d)
    <3>1. \A x \in S : x < d => x < e
      BY <1>4, <2>1
    <3>2. ~(d < d)
      BY <2>1
    <3> QED BY <1>4, <3>1, <3>2, Zenon
  <2>2. Below(d) \in SUBSET Below(e) /\ Below(d) # Below(e)
    BY <2>1a
  <2> HIDE DEF Below
  <2>3. Cardinality(Below(d)) <= Cardinality(Below(e)) /\ Cardinality(Below(d)) # Cardinality(Below(e))
    BY <1>3, <2>2, FS_Subset
  <2> QED BY <1>3, <2>3
<1>5. k \in 1..Cardinality(S)
  <2>1. Below(c) \in SUBSET S /\ Below(c) # S
    BY <1>1
  <2> HIDE DEF Below
  <2>2. Cardinality(Below(c)) <= Cardinality(S) /\ Cardinality(Below(c)) # Cardinality(S)
    BY <1>1, <2>1, FS_Subset
  <2> QED BY <1>1, <1>3, <2>2
<1>6. (CHOOSE d \in S : Cardinality(Below(d)) = k - 1) = c
  <2> HIDE DEF Below
  <2>1. \A d \in S : Cardinality(Below(d)) = k - 1 => d = c
    <3> SUFFICES ASSUME NEW d \in S, Cardinality(Below(d)) = k - 1, d # c PROVE FALSE
      OBVIOUS
    <3>1. d < c \/ c < d
      BY <1>1
    <3> QED BY <1>3, <1>4, <3>1
  <2>2. Cardinality(Below(c)) = k - 1
    BY <1>3
  <2> HIDE DEF k
  <2> QED BY <2>1, <2>2
<1> HIDE DEF k, Below
<1>7. DOMAIN C!InOrder(S) = 1..Cardinality(S) /\ C!InOrder(S)[k] = c
  BY <1>2, <1>5, <1>6
<1> DEFINE s == C!InOrder(S)
<1> HIDE DEF s
<1>8. k \in DOMAIN s /\ s[k] = c
  BY <1>5, <1>7 DEF s
<1>9. s # <<>>
  BY <1>8
<1> QED BY <1>8, <1>9, Zenon DEF s

LEMMA IdleInTime == \A d \in Nat, n \in Nat : JobInTime(C!Idle, d, n)
BY DEF JobInTime, C!Idle

LEMMA OverWakes == ASSUME OverInv, RenewalInv', C!LoopWakes PROVE OverInv'
<1> DEFINE ids == C!InOrder({c \in C!Saved : C!IsDue(c)})
           next == IF ids = <<>> THEN C!Idle ELSE [C!Idle EXCEPT !.st = "next", !.todo = ids]
<1>1. job' = [job EXCEPT ![Loop] = next] /\ job[Loop].st = "idle"
      /\ UNCHANGED <<cert, day, fails, asked>> /\ woken = TRUE
  BY DEF C!LoopWakes, C!Goto, C!At
<1>2. fails \in Nat /\ asked \in Nat /\ day \in Nat /\ Counted' /\ fails + asked = Spent
  <2> HIDE DEF next
  <2> QED BY <1>1, Numbers DEF OverInv, Counted, RenewalInv, CertTypes, Spent
<1>3. next.got = Nobody /\ next.st \in {"idle", "next"} /\ (ids # <<>> => next.st = "next" /\ next.todo = ids)
  <2> HIDE DEF ids
  <2> QED BY DEF C!Idle
<1>4. JobInTime(next, day, fails' + asked')
  BY <1>3, Zenon DEF JobInTime
<1>5. ASSUME NEW c \in Certs, RenewsItself(cert[c]), ~Safe(cert[c], day, fails + asked)
      PROVE  AboutToRenew(c, woken', next)
  <2>1. cert[c].until \in Nat /\ cert[c].until <= day + Due
    BY <1>2, <1>5, UntilNat, Numbers DEF Safe, OverInv, RenewalInv, CertTypes
  <2>2. c \in C!Saved /\ C!IsDue(c)
    BY <1>5, <2>1 DEF RenewsItself, C!Saved, C!IsDue
  <2>3. ids # <<>> /\ \E i \in DOMAIN ids : ids[i] = c
    BY <2>2, InOrderAll DEF C!Saved
  <2> QED BY <1>3, <2>3 DEF AboutToRenew
<1> HIDE DEF next
<1>6. \A c \in Certs : RenewsItself(cert[c]) /\ AboutToRenew(c, woken, job[Loop]) =>
        Safe(cert[c], day, fails' + asked') \/ AboutToRenew(c, woken', next)
  BY <1>1, <1>5, Zenon
<1>7. fails <= fails' /\ asked <= asked'
  BY <1>1, <1>2
<1> QED BY <1>1, <1>2, <1>4, <1>6, <1>7, OverLoop

LEMMA OverNext == ASSUME OverInv, RenewalInv', C!LoopNext PROVE OverInv'
<1> DEFINE c == Head(job[Loop].todo)
           rest == [job[Loop] EXCEPT !.todo = Tail(@)]
           there == [rest EXCEPT !.st = "lock", !.id = c, !.names = cert[c].names]
           next == IF cert[c] = Nobody \/ cert[c].src # "acme" THEN rest ELSE there
<1>1. /\ job[Loop].st = "next" /\ UNCHANGED <<cert, day, woken, fails, asked>>
      /\ \/ job[Loop].todo = <<>> /\ job' = [job EXCEPT ![Loop] = C!Idle]
         \/ job[Loop].todo # <<>> /\ job' = [job EXCEPT ![Loop] = next]
  BY DEF C!LoopNext, C!Goto, C!At
<1>2. fails \in Nat /\ asked \in Nat /\ day \in Nat /\ Counted' /\ fails + asked = Spent
  BY <1>1, Numbers DEF OverInv, Counted, RenewalInv, CertTypes, Spent
<1>3. fails <= fails' /\ asked <= asked' /\ fails' + asked' \in Nat
  BY <1>1, <1>2
<1>4. job[Loop] \in Jobs /\ job[Loop].got = Nobody
  BY <1>1, Numbers DEF OverInv, RenewalInv, CertTypes, JobInTime, Goroutines
<1>5. CASE job[Loop].todo = <<>> /\ job' = [job EXCEPT ![Loop] = C!Idle]
  <2>1. \A x \in Certs : ~AboutToRenew(x, woken, job[Loop]) \/ woken'
    BY <1>1, <1>5 DEF AboutToRenew
  <2>2. \A x \in Certs : RenewsItself(cert[x]) /\ AboutToRenew(x, woken, job[Loop]) =>
          Safe(cert[x], day, fails' + asked') \/ AboutToRenew(x, woken', C!Idle)
    BY <2>1, Zenon DEF AboutToRenew
  <2> QED BY <1>1, <1>2, <1>3, <1>5, <2>2, IdleInTime, OverLoop
<1>6. CASE job[Loop].todo # <<>> /\ job' = [job EXCEPT ![Loop] = next]
  <2>1. job[Loop].todo \in Seq(Certs) /\ c \in Certs
    BY <1>4, <1>6 DEF Jobs
  <2>2. rest.st = "next" /\ rest.got = Nobody /\ rest.todo = Tail(job[Loop].todo) /\ rest \in Jobs
    <3> DEFINE left == Tail(job[Loop].todo)
    <3>1. left \in Seq(Certs) /\ rest = [job[Loop] EXCEPT !.todo = left]
      BY <1>6, <2>1
    <3> HIDE DEF left
    <3>2. rest.st = "next" /\ rest.got = Nobody /\ rest.todo = left /\ rest \in Jobs
      BY <1>1, <1>4, <3>1 DEF Jobs
    <3> QED BY <3>2 DEF left
  <2>3. \A x \in Certs : (\E i \in DOMAIN job[Loop].todo : job[Loop].todo[i] = x) =>
          x = c \/ \E i \in DOMAIN rest.todo : rest.todo[i] = x
    <3> SUFFICES ASSUME NEW x \in Certs, NEW i \in DOMAIN job[Loop].todo, job[Loop].todo[i] = x, x # c
                 PROVE  \E k \in DOMAIN Tail(job[Loop].todo) : Tail(job[Loop].todo)[k] = x
      BY <2>2
    <3>1. i \in 1..Len(job[Loop].todo) /\ i # 1
      BY <2>1
    <3>2. i - 1 \in DOMAIN Tail(job[Loop].todo) /\ Tail(job[Loop].todo)[i - 1] = x
      BY <2>1, <3>1
    <3> QED BY <3>2
  <2> HIDE DEF rest
  <2>4. there.st = "lock" /\ there.id = c /\ there.names = cert[c].names /\ there.got = Nobody
        /\ there.todo = rest.todo
    BY <2>2 DEF Jobs
  <2> HIDE DEF c, there
  <2>5. next.got = Nobody /\ next.st \in {"next", "lock"} /\ next.todo = rest.todo
    BY <2>2, <2>4
  <2>6. JobInTime(next, day, fails' + asked')
    BY <2>5 DEF JobInTime
  <2>7. ASSUME NEW x \in Certs, RenewsItself(cert[x]), AboutToRenew(x, woken, job[Loop])
        PROVE  AboutToRenew(x, woken', next)
    <3>1. CASE woken
      BY <1>1, <3>1 DEF AboutToRenew
    <3>2. CASE \E i \in DOMAIN job[Loop].todo : job[Loop].todo[i] = x
      <4>1. CASE x = c
        <5>1. next = there /\ cert[c].names \notin Broken
          BY <2>7, <4>1 DEF RenewsItself
        <5> QED BY <2>4, <4>1, <5>1 DEF AboutToRenew
      <4>2. CASE x # c
        BY <2>3, <2>5, <3>2, <4>2 DEF AboutToRenew
      <4> QED BY <4>1, <4>2
    <3> QED BY <1>1, <2>7, <3>1, <3>2 DEF AboutToRenew
  <2> HIDE DEF next
  <2> QED BY <1>1, <1>2, <1>3, <1>6, <2>6, <2>7, OverLoop
<1> QED BY <1>1, <1>5, <1>6

\* What a step of a job keeps.
LEMMA JobKeeps ==
  ASSUME NEW j \in Jobs
  PROVE  /\ \A s : LET k == [j EXCEPT !.st = s] IN
              k.st = s /\ k.id = j.id /\ k.names = j.names /\ k.got = j.got /\ k.todo = j.todo /\ k.read = j.read
         /\ \A n : LET k == [j EXCEPT !.got = n] IN
              k.st = j.st /\ k.id = j.id /\ k.names = j.names /\ k.got = n /\ k.todo = j.todo /\ k.read = j.read
BY DEF Jobs

\* A handler begins or ends.
LEMMA OverAsks ==
  ASSUME OverInv, RenewalInv', NEW h \in Handlers,
         \/ \E c \in Certs : C!Renew(h, c) \/ C!UpdateRead(h, c) \/ C!DeleteCheck(h, c)
         \/ \E n \in Names : C!IssueNew(h, n)
         \/ C!SyncAll(h)
  PROVE  OverInv'
<1>1. fails \in Nat /\ asked \in Nat /\ day \in Nat
  BY CountedNat DEF OverInv, RenewalInv, CertTypes
<1>2. UNCHANGED <<cert, day, woken, fails>>
  BY DEF C!Renew, C!UpdateRead, C!DeleteCheck, C!IssueNew, C!SyncAll
<1>3. CASE C!SyncAll(h)
  <2>1. job' = [job EXCEPT ![h] = C!Idle] /\ asked' = asked
    BY <1>3 DEF C!SyncAll, C!Goto
  <2>2. Counted' /\ fails <= fails' /\ asked <= asked' /\ fails' + asked' \in Nat
    BY <1>1, <1>2, <2>1 DEF OverInv, Counted
  <2> QED BY <1>1, <1>2, <2>1, <2>2, IdleInTime, OverHandler
<1>4. ASSUME NEW j, job' = [job EXCEPT ![h] = j], C!Begin(h), JobInTime(j, day, fails' + asked')
      PROVE  OverInv'
  <2>1. Counted' /\ fails <= fails' /\ asked <= asked'
    BY <1>1, <1>2, <1>4, Numbers DEF C!Begin, OverInv, Counted
  <2> QED BY <1>2, <1>4, <2>1, OverHandler
<1>5. ASSUME NEW c \in Certs, C!Renew(h, c) PROVE OverInv'
  <2> DEFINE j == [C!Idle EXCEPT !.st = "lock", !.id = c, !.names = cert[c].names]
  <2>1. job' = [job EXCEPT ![h] = j] /\ C!Begin(h)
    BY <1>5 DEF C!Renew, C!Goto
  <2>2. JobInTime(j, day, fails' + asked')
    BY DEF JobInTime, C!Idle
  <2> HIDE DEF j
  <2> QED BY <1>4, <2>1, <2>2
<1>6. ASSUME NEW n \in Names, C!IssueNew(h, n) PROVE OverInv'
  <2> DEFINE j == [C!Idle EXCEPT !.st = "lock", !.names = n]
  <2>1. job' = [job EXCEPT ![h] = j] /\ C!Begin(h)
    BY <1>6 DEF C!IssueNew, C!Goto
  <2>2. JobInTime(j, day, fails' + asked')
    BY DEF JobInTime, C!Idle
  <2> HIDE DEF j
  <2> QED BY <1>4, <2>1, <2>2
<1>7. ASSUME NEW c \in Certs, C!DeleteCheck(h, c) PROVE OverInv'
  <2> DEFINE j == [C!Idle EXCEPT !.st = "delete", !.id = c]
  <2>1. job' = [job EXCEPT ![h] = j] /\ C!Begin(h)
    BY <1>7 DEF C!DeleteCheck, C!Goto
  <2>2. JobInTime(j, day, fails' + asked')
    BY DEF JobInTime, C!Idle
  <2> HIDE DEF j
  <2> QED BY <1>4, <2>1, <2>2
<1>8. ASSUME NEW c \in Certs, C!UpdateRead(h, c) PROVE OverInv'
  <2> DEFINE j == [C!Idle EXCEPT !.st = "update", !.id = c, !.read = cert[c]]
  <2>1. job' = [job EXCEPT ![h] = j] /\ C!Begin(h)
    BY <1>8 DEF C!UpdateRead, C!Goto
  <2>2. j.got = Nobody /\ j.read = cert[c]
    BY DEF C!Idle
  <2>3. asked' = asked + 1 /\ fails + asked \in Nat /\ fails' + asked' \in Nat /\ fails + asked < fails' + asked'
    BY <1>1, <1>2, <2>1 DEF C!Begin
  <2>4. ASSUME RenewsItself(cert[c]) PROVE Safe(cert[c], day, fails' + asked')
    <3>1. cert[c].until \in Nat
      BY <2>4, UntilNat DEF OverInv, RenewalInv, CertTypes
    <3>2. InTime(cert[c], day, fails + asked)
      BY <2>4, Zenon DEF OverInv, Spent
    <3> QED BY <1>1, <2>3, <3>1, <3>2, MoreSpent
  <2>5. JobInTime(j, day, fails' + asked')
    <3>1. 0 < fails' + asked'
      BY <2>3
    <3> HIDE DEF j
    <3> QED BY <2>2, <2>4, <3>1, Zenon DEF JobInTime
  <2> HIDE DEF j
  <2> QED BY <1>4, <2>1, <2>5
<1> QED BY <1>3, <1>5, <1>6, <1>7, <1>8

LEMMA FaultCounts ==
  \A a, b, c : a \in Nat /\ b \in Nat /\ c \in {a, a + 1} =>
    a <= c /\ b <= b /\ a + b \in Nat /\ c + b \in Nat /\ (c = a + 1 => a + b < c + b)
OBVIOUS

LEMMA RequestCounts ==
  \A a, b, c : a \in Nat /\ b \in Nat /\ c \in {b, b + 1} =>
    a <= a /\ b <= c /\ a + b \in Nat /\ a + c \in Nat /\ a + b <= a + c
OBVIOUS

\* A step of an order: whoever gives up has a fault counted, or a set of
\* domains that is refused for good.
LEMMA OverOrdering ==
  ASSUME OverInv, RenewalInv', UNCHANGED <<cert, day, woken, asked>>, Counted',
         NEW g \in Goroutines, NEW j \in Jobs, job' = [job EXCEPT ![g] = j],
         fails' \in {fails, fails + 1}, JobInTime(j, day, fails' + asked'),
         j.todo = job[g].todo, j.id = job[g].id, j.names = job[g].names, j.st \in Holding,
         \/ fails' = fails + 1
         \/ /\ job[g].st \in {"lock", "present"} /\ j.st \in {"present", "order"}
         \/ j.got # Nobody /\ j.st \in {"cleanup", "save"}
         \/ job[g].st \in {"present", "order"} /\ job[g].names \in Broken
         \/ job[g].st = "cleanup" /\ j.st = "save" /\ j.got = job[g].got
  PROVE  OverInv'
<1>1. fails \in Nat /\ asked \in Nat /\ day \in Nat
  BY CountedNat DEF OverInv, RenewalInv, CertTypes
<1>2. fails <= fails' /\ asked <= asked' /\ fails + asked \in Nat /\ fails' + asked' \in Nat
      /\ (fails' = fails + 1 => fails + asked < fails' + asked')
  <2>1. asked' = asked
    OBVIOUS
  <2>2. /\ fails <= fails' /\ asked <= asked /\ fails + asked \in Nat /\ fails' + asked \in Nat
        /\ fails' = fails + 1 => fails + asked < fails' + asked
    BY <1>1, FaultCounts, Zenon
  <2> QED BY <2>1, <2>2, Zenon
<1>3. CASE g # Loop
  <2>1. g \in Handlers
    BY <1>3 DEF Goroutines
  <2> QED BY <1>2, <2>1, OverHandler
<1>4. CASE g = Loop
  <2>1. ASSUME NEW c \in Certs, RenewsItself(cert[c]), AboutToRenew(c, woken, job[Loop])
        PROVE  Safe(cert[c], day, fails' + asked') \/ AboutToRenew(c, woken', j)
    <3>1. CASE fails' = fails + 1
      <4>1. cert[c].until \in Nat
        BY <2>1, UntilNat DEF OverInv, RenewalInv, CertTypes
      <4>2. InTime(cert[c], day, fails + asked)
        BY <2>1, Zenon DEF OverInv, Spent
      <4> QED BY <1>1, <1>2, <3>1, <4>1, <4>2, MoreSpent
    <3>2. CASE fails' # fails + 1
      <4>1. j.st # "idle"
        BY DEF Holding
      <4> QED BY <1>4, <2>1, <3>2, <4>1 DEF AboutToRenew
    <3> QED BY <3>1, <3>2
  <2> QED BY <1>2, <1>4, <2>1, OverLoop
<1> QED BY <1>3, <1>4

LEMMA OverOrder ==
  ASSUME OverInv, RenewalInv', NEW g \in Goroutines,
         C!Lock(g) \/ C!Present(g) \/ C!PresentFails(g) \/ C!Ordered(g) \/ C!OrderFails(g) \/ C!CleanUp(g)
  PROVE  OverInv'
<1> DEFINE To(s) == [job[g] EXCEPT !.st = s]
<1>1. fails \in Nat /\ asked \in Nat /\ day \in Nat /\ job[g] \in Jobs /\ day + Life \in Nat
  BY CountedNat, Numbers DEF OverInv, RenewalInv, CertTypes
<1>2. UNCHANGED <<cert, day, woken, asked>>
  BY DEF C!Lock, C!Present, C!PresentFails, C!Ordered, C!OrderFails, C!CleanUp
<1>3. fails' \in {fails, fails + 1} /\ Counted'
  <2>1. fails' = fails \/ C!Fault
    BY DEF C!Lock, C!Present, C!PresentFails, C!Ordered, C!OrderFails, C!CleanUp
  <2> QED BY <1>1, <1>2, <2>1, Numbers DEF C!Fault, OverInv, Counted
<1>4. /\ job[g].got # Nobody => job[g].st \in {"cleanup", "save"} /\ job[g].got = day + Life
      /\ JobInTime(job[g], day, Spent)
  BY Zenon DEF OverInv, JobInTime
<1>5. \A s \in Holding : /\ To(s) \in Jobs /\ To(s).st = s /\ To(s).id = job[g].id /\ To(s).names = job[g].names
                         /\ To(s).got = job[g].got /\ To(s).todo = job[g].todo
  BY <1>1, JobFields, JobKeeps DEF Working
<1>6. ASSUME NEW s \in Holding, job[g].got # Nobody => s \in {"cleanup", "save"}
      PROVE  JobInTime(To(s), day, fails' + asked')
  <2>1. To(s).st = s /\ To(s).got = job[g].got /\ s # "update"
    BY <1>5 DEF Holding
  <2> HIDE DEF To
  <2> QED BY <1>4, <1>6, <2>1 DEF JobInTime
<1>7. CASE C!Lock(g)
  <2>1. job[g].st = "lock" /\ job' = [job EXCEPT ![g] = To("present")] /\ fails' = fails
    BY <1>7 DEF C!Lock, C!At, C!Goto
  <2>2. job[g].got = Nobody
    BY <1>4, <2>1
  <2> HIDE DEF To
  <2> QED BY <1>2, <1>3, <1>5, <1>6, <2>1, <2>2, OverOrdering DEF Holding
<1>8. CASE C!Present(g)
  <2>1. job[g].st = "present" /\ job' = [job EXCEPT ![g] = To("order")] /\ fails' = fails
    BY <1>8 DEF C!Present, C!At, C!Goto
  <2>2. job[g].got = Nobody
    BY <1>4, <2>1
  <2> HIDE DEF To
  <2> QED BY <1>2, <1>3, <1>5, <1>6, <2>1, <2>2, OverOrdering DEF Holding
<1>9. CASE C!PresentFails(g) \/ C!OrderFails(g)
  <2>1. job[g].st \in {"present", "order"} /\ job' = [job EXCEPT ![g] = To("cleanup")]
        /\ (job[g].names \in Broken \/ fails' = fails + 1)
    BY <1>9 DEF C!PresentFails, C!OrderFails, C!At, C!Goto, C!Fault
  <2> HIDE DEF To
  <2> QED BY <1>2, <1>3, <1>5, <1>6, <2>1, OverOrdering DEF Holding
<1>10. CASE C!Ordered(g)
  <2> DEFINE done == [To("cleanup") EXCEPT !.got = day + Life]
  <2>1. job[g].st = "order" /\ job' = [job EXCEPT ![g] = done] /\ fails' = fails
    BY <1>10 DEF C!Ordered, C!At, C!Goto
  <2> HIDE DEF To
  <2>2. done \in Jobs /\ done.st = "cleanup" /\ done.id = job[g].id /\ done.names = job[g].names
        /\ done.got = day + Life /\ done.todo = job[g].todo
    BY <1>1, <1>5, JobFields, JobKeeps DEF Holding
  <2> HIDE DEF done
  <2>3. JobInTime(done, day, fails' + asked') /\ done.got # Nobody
    BY <1>1, <2>2, Numbers DEF JobInTime
  <2> QED BY <1>2, <1>3, <2>1, <2>2, <2>3, OverOrdering DEF Holding
<1>11. CASE C!CleanUp(g)
  <2>1. job[g].st = "cleanup" /\ job' = [job EXCEPT ![g] = To("save")]
    BY <1>11 DEF C!CleanUp, C!At, C!Goto
  <2> HIDE DEF To
  <2> QED BY <1>2, <1>3, <1>5, <1>6, <2>1, OverOrdering DEF Holding
<1> QED BY <1>7, <1>8, <1>9, <1>10, <1>11

\* Only the loop is waited for; a handler leaves it as it is.
LEMMA OverSave ==
  ASSUME OverInv, RenewalInv', NEW g \in Goroutines, C!Save(g)
  PROVE  OverInv'
<1> DEFINE c == job[g].id
           kept == job[g].got # Nobody /\ IF c = Nobody THEN C!Free # {} ELSE cert[c] # Nobody
           handled == [C!Idle EXCEPT !.st = IF kept THEN "sync" ELSE "idle"]
           looped == [C!Idle EXCEPT !.st = "next", !.todo = job[g].todo, !.changed = job[g].changed \/ kept]
           next == IF g # Loop THEN handled ELSE looped
<1>1. /\ job[g].st = "save" /\ UNCHANGED <<day, woken, fails, asked>>
      /\ job[g] \in Jobs /\ job \in [Goroutines -> Jobs]
      /\ cert \in [Certs -> C!Row \cup {Nobody}]
  BY DEF C!Save, C!At, OverInv, RenewalInv, CertTypes
<1>2. fails \in Nat /\ asked \in Nat /\ day \in Nat
  BY CountedNat DEF OverInv, RenewalInv, CertTypes
<1>3. Counted' /\ fails <= fails' /\ asked <= asked' /\ fails + asked \in Nat /\ fails' + asked' = fails + asked
  BY <1>1, <1>2 DEF OverInv, Counted
<1>4. next.got = Nobody /\ next.st \in {"sync", "idle", "next"}
      /\ (g = Loop => next.st = "next" /\ next.todo = job[g].todo)
  <2> HIDE DEF kept
  <2> QED BY DEF C!Idle
<1>5. job' = [job EXCEPT ![g] = next]
  BY DEF C!Save, C!Done, C!Goto
<1>6. kept => cert' = [d \in Certs |-> IF d = c \/ (c = Nobody /\ d \in C!Free) THEN C!Issued(g) ELSE cert[d]]
  BY DEF C!Save
<1>7. ~kept => cert' = C!Failed(g)
  BY DEF C!Save
<1>8. kept => /\ C!Issued(g).until = day + Life
              /\ Safe(C!Issued(g), day, fails' + asked')
  <2> SUFFICES ASSUME job[g].got # Nobody
               PROVE  C!Issued(g).until = day + Life /\ Safe(C!Issued(g), day, fails' + asked')
    OBVIOUS
  <2>1. job[g].got = day + Life
    BY DEF OverInv, JobInTime
  <2>2. C!Issued(g).until = day + Life
    BY <2>1 DEF C!Issued
  <2> QED BY <1>2, <1>3, <2>2, Numbers DEF Safe
<1> HIDE DEF next
<1>9. JobInTime(next, day, fails' + asked')
  BY <1>4 DEF JobInTime
<1>10. \A x \in Goroutines : JobInTime(job'[x], day, fails' + asked')
  BY <1>3, <1>5, <1>9, JobsInTime
<1>11. ASSUME NEW d \in Certs, RenewsItself(cert'[d]), ~Safe(cert'[d], day, fails' + asked')
       PROVE  /\ RenewsItself(cert[d]) /\ cert'[d].until = cert[d].until
              /\ kept => d # c
  <2>1. CASE kept
    <3> HIDE DEF kept, c
    <3>1. cert'[d] = IF d = c \/ (c = Nobody /\ d \in C!Free) THEN C!Issued(g) ELSE cert[d]
      BY <1>6, <2>1
    <3> QED BY <1>8, <1>11, <2>1, <3>1
  <2>2. CASE ~kept
    <3>1. CASE cert'[d] = cert[d]
      BY <1>11, <2>2, <3>1
    <3>2. CASE cert'[d] # cert[d]
      <4>1. c # Nobody /\ cert[c] # Nobody /\ cert' = [cert EXCEPT ![c] = [cert[c] EXCEPT !.err = TRUE]]
        BY <1>7, <2>2, <3>2 DEF C!Failed
      <4>2. c \in Certs /\ cert[c] \in C!Row
        BY <1>1, <4>1 DEF Jobs
      <4> DEFINE noted == [cert[c] EXCEPT !.err = TRUE]
      <4>3. noted.src = cert[c].src /\ noted.auto = cert[c].auto /\ noted.names = cert[c].names
            /\ noted.until = cert[c].until /\ noted.short = cert[c].short
        BY <4>2 DEF C!Row
      <4>4. d = c /\ cert'[d] = noted
        BY <1>1, <3>2, <4>1, <4>2
      <4> HIDE DEF noted, kept, c
      <4> QED BY <1>11, <2>2, <4>1, <4>3, <4>4 DEF RenewsItself
    <3> QED BY <3>1, <3>2
  <2> QED BY <2>1, <2>2
<1>12. ASSUME NEW d \in Certs, RenewsItself(cert[d]), kept => d # c, AboutToRenew(d, woken, job[Loop])
       PROVE  AboutToRenew(d, woken', job'[Loop])
  <2>1. CASE g # Loop
    <3>1. job'[Loop] = job[Loop] /\ woken' = woken
      BY <1>1, <1>5, <2>1 DEF Goroutines
    <3> QED BY <1>12, <3>1, Zenon
  <2>2. CASE g = Loop
    <3>1. job'[Loop] = next /\ woken' = woken
      BY <1>1, <1>5, <2>2, Zenon
    <3>2. ~(job[Loop].id = d /\ job[Loop].got # Nobody)
      <4> SUFFICES ASSUME job[Loop].id = d, job[Loop].got # Nobody PROVE kept /\ d = c
        BY <1>12
      <4> QED BY <1>12, <2>2, SmallRenewal DEF RenewsItself
    <3>3. woken \/ \E i \in DOMAIN job[Loop].todo : job[Loop].todo[i] = d
      BY <1>1, <1>12, <2>2, <3>2 DEF AboutToRenew
    <3> QED BY <1>4, <2>2, <3>1, <3>3 DEF AboutToRenew
  <2> QED BY <2>1, <2>2
<1> HIDE DEF kept, c
<1>13. \A d \in Certs : RenewsItself(cert'[d]) =>
         \/ Safe(cert'[d], day, fails' + asked')
         \/ /\ RenewsItself(cert[d]) /\ cert'[d].until = cert[d].until
            /\ AboutToRenew(d, woken, job[Loop]) => AboutToRenew(d, woken', job'[Loop])
  BY <1>11, <1>12, Zenon
<1> QED BY <1>1, <1>3, <1>10, <1>13, OverStep

LEMMA OverUpdate ==
  ASSUME OverInv, RenewalInv', NEW h \in Handlers, C!UpdateWrite(h)
  PROVE  OverInv'
<1> DEFINE next == [C!Idle EXCEPT !.st = "sync"]
<1>1. /\ job[h].st = "update" /\ job' = [job EXCEPT ![h] = next]
      /\ UNCHANGED <<day, woken, fails, asked>>
  BY DEF C!UpdateWrite, C!At, C!Goto
<1>2. /\ h \in Goroutines /\ h # Loop /\ Loop \in Goroutines /\ job \in [Goroutines -> Jobs]
      /\ job[h].id \in Certs /\ job[h].read \in C!Row /\ cert \in [Certs -> C!Row \cup {Nobody}]
  BY <1>1, SmallRenewal DEF OverInv, RenewalInv, CertTypes, JobFits, Goroutines
<1>3. fails \in Nat /\ asked \in Nat /\ day \in Nat
  BY CountedNat DEF OverInv, RenewalInv, CertTypes
<1>4. Counted' /\ fails <= fails' /\ asked <= asked' /\ fails + asked \in Nat /\ fails' + asked' = fails + asked
  BY <1>1, <1>3 DEF OverInv, Counted
<1>5. next.got = Nobody /\ next.st = "sync"
  BY DEF C!Idle
<1> HIDE DEF next
<1>6. \A x \in Goroutines : JobInTime(job'[x], day, fails' + asked')
  <2>1. JobInTime(next, day, fails' + asked')
    BY <1>5 DEF JobInTime
  <2> QED BY <1>1, <1>2, <1>4, <2>1, JobsInTime
<1>7. PICK r \in C!Edited(job[h].read) :
             cert' = [cert EXCEPT ![job[h].id] = IF @ = Nobody THEN Nobody ELSE r]
  BY Zenon DEF C!UpdateWrite
<1>8. RenewsItself(r) => Safe(r, day, fails' + asked')
  <2> DEFINE q == job[h].read
             n == fails' + asked'
  <2>0. n \in Nat /\ 0 < n /\ (RenewsItself(q) => Safe(q, day, n)) /\ q \in C!Row /\ q.until \in Nat
    <3>1. JobInTime(job[h], day, fails + asked)
      BY <1>2, Zenon DEF OverInv, Spent
    <3>2. fails' + asked' = fails + asked /\ fails + asked \in Nat
      BY <1>4
    <3>3. q \in C!Row /\ q.until \in Nat
      BY <1>2 DEF C!Row
    <3>4. 0 < fails + asked /\ (RenewsItself(q) => Safe(q, day, fails + asked))
      BY <1>1, <3>1, Zenon DEF JobInTime
    <3> QED BY <3>2, <3>3, <3>4, Zenon
  <2> HIDE DEF n
  <2>1. CASE r = q
    BY <2>0, <2>1, Zenon DEF n
  <2>2. ASSUME NEW d \in Domains, r = C!Renamed(q, d), RenewsItself(r) PROVE Safe(r, day, n)
    <3>1. r.src = q.src /\ r.auto = q.auto /\ r.until = q.until
          /\ r.short = (q.short \/ (q.names \in Broken /\ q.until < day + Due))
      <4> HIDE DEF q
      <4> QED BY <2>0, <2>2 DEF C!Renamed, C!Row
    <3>2. CASE q.names \in Broken
      <4>1. ~(q.until < day + Due)
        BY <2>2, <3>1, <3>2, Zenon DEF RenewsItself
      <4> HIDE DEF q
      <4> QED BY <1>3, <2>0, <3>1, <4>1, Numbers DEF Safe
    <3>3. CASE q.names \notin Broken
      <4>1. q # Nobody
        BY <2>0, SmallRenewal
      <4>2. Safe(q, day, n)
        BY <2>0, <2>2, <3>1, <3>3, <4>1, Zenon DEF RenewsItself
      <4> QED BY <3>1, <4>2, Zenon DEF Safe
    <3> QED BY <3>2, <3>3
  <2>3. ASSUME NEW d \in Domains, NEW l \in Lives, r = C!Uploaded(q, d, l), RenewsItself(r) PROVE Safe(r, day, n)
    <3>1. r.until = day + l /\ r.short = (l < Due)
      <4> HIDE DEF q
      <4> QED BY <2>0, <2>3 DEF C!Uploaded, C!Row
    <3>2. ~(l < Due)
      BY <2>3, <3>1, Zenon DEF RenewsItself
    <3> HIDE DEF q
    <3> QED BY <1>3, <2>0, <3>1, <3>2, Numbers DEF Safe
  <2> HIDE DEF q
  <2>4. \/ r = q
        \/ \E d \in Domains : r = C!Renamed(q, d) \/ \E l \in Lives : r = C!Uploaded(q, d, l)
    BY <1>7, EditedOf, Zenon DEF q
  <2> QED BY <2>1, <2>2, <2>3, <2>4, Zenon DEF n
<1>9. ASSUME NEW d \in Certs, RenewsItself(cert'[d])
      PROVE  Safe(cert'[d], day, fails' + asked') \/ cert'[d] = cert[d]
  BY <1>2, <1>7, <1>8, <1>9 DEF RenewsItself
<1>10. job'[Loop] = job[Loop] /\ woken' = woken
  BY <1>1, <1>2, Zenon
<1>11. \A d \in Certs : RenewsItself(cert'[d]) =>
         \/ Safe(cert'[d], day, fails' + asked')
         \/ /\ RenewsItself(cert[d]) /\ cert'[d].until = cert[d].until
            /\ AboutToRenew(d, woken, job[Loop]) => AboutToRenew(d, woken', job'[Loop])
  BY <1>9, <1>10, Zenon
<1> QED BY <1>1, <1>4, <1>6, <1>11, OverStep

\* A row goes, or one comes that does not renew itself.
LEMMA OverGone ==
  ASSUME OverInv, RenewalInv', (\E h \in Handlers : C!Delete(h)) \/ \E n \in Names, l \in Lives : C!Create(n, l)
  PROVE  OverInv'
<1>1. fails \in Nat /\ asked \in Nat /\ day \in Nat /\ cert \in [Certs -> C!Row \cup {Nobody}]
  BY CountedNat DEF OverInv, RenewalInv, CertTypes
<1>2. /\ UNCHANGED <<day, woken, fails>> /\ asked' \in {asked, asked + 1} /\ Counted'
      /\ fails <= fails' /\ asked <= asked' /\ fails' + asked' \in Nat
  <2>1. UNCHANGED <<day, woken, fails>> /\ asked' \in {asked, asked + 1} /\ asked' \in 0..MaxCertRequests
    BY <1>1, Numbers DEF C!Delete, C!Create, OverInv, Counted
  <2>2. fails' = fails
    BY <2>1
  <2>3. Counted'
    BY <2>1, <2>2 DEF OverInv, Counted
  <2>4. fails <= fails /\ asked <= asked' /\ fails + asked' \in Nat
    BY <1>1, <2>1, RequestCounts, Zenon
  <2> QED BY <2>1, <2>2, <2>3, <2>4, Zenon
<1>3. \A x \in Goroutines : JobInTime(job'[x], day, fails' + asked')
  <2>1. CASE \E h \in Handlers : C!Delete(h)
    <3>1. PICK h \in Handlers : job' = [job EXCEPT ![h] = C!Idle]
      BY <2>1 DEF C!Delete, C!Goto
    <3>2. h \in Goroutines
      BY DEF Goroutines
    <3> QED BY <1>1, <1>2, <3>1, <3>2, IdleInTime, JobsInTime
  <2>2. CASE job' = job
    <3>1. \A x \in Goroutines : job[x] \in Jobs /\ JobInTime(job[x], day, fails + asked)
      BY Zenon DEF OverInv, RenewalInv, CertTypes, Spent
    <3>2. fails + asked \in Nat /\ fails' + asked' \in Nat /\ fails + asked <= fails' + asked'
      <4>1. fails' = fails
        BY <1>2
      <4>2. fails + asked \in Nat /\ fails + asked' \in Nat /\ fails + asked <= fails + asked'
        BY <1>1, <1>2, RequestCounts, Zenon
      <4> QED BY <4>1, <4>2, Zenon
    <3> QED BY <1>1, <2>2, <3>1, <3>2, JobLater
  <2> QED BY <2>1, <2>2 DEF C!Create
<1>4. woken' = woken /\ job'[Loop] = job[Loop]
  <2>1. ASSUME NEW h \in Handlers, C!Delete(h) PROVE job'[Loop] = job[Loop]
    BY <2>1, SmallRenewal DEF C!Delete, C!Goto, OverInv, RenewalInv, CertTypes, Goroutines
  <2> QED BY <1>2, <2>1 DEF C!Create
<1>5. ASSUME NEW d \in Certs, RenewsItself(cert'[d]) PROVE cert'[d] = cert[d]
  <2>1. ASSUME NEW h \in Handlers, C!Delete(h) PROVE cert'[d] = cert[d]
    BY <1>1, <1>5, <2>1 DEF C!Delete, RenewsItself
  <2>2. ASSUME NEW n \in Names, NEW l \in Lives, C!Create(n, l) PROVE cert'[d] = cert[d]
    <3>1. PICK c \in C!Free : cert' = [cert EXCEPT ![c] =
            [src |-> "upload", names |-> n, auto |-> FALSE, until |-> day + l,
             ser |-> <<n, "upload", day + l>>, err |-> FALSE, short |-> FALSE]]
      BY <2>2 DEF C!Create
    <3> QED BY <1>1, <1>5, <3>1 DEF RenewsItself
  <2> QED BY <2>1, <2>2
<1>6. \A d \in Certs : RenewsItself(cert'[d]) =>
        /\ RenewsItself(cert[d]) /\ cert'[d].until = cert[d].until
        /\ AboutToRenew(d, woken, job[Loop]) => AboutToRenew(d, woken', job'[Loop])
  BY <1>4, <1>5, Zenon
<1> QED BY <1>2, <1>3, <1>6, OverStep

\* Steps that leave goroutines and rows alone.
LEMMA OverOthers ==
  ASSUME OverInv, RenewalInv', (\E c \in Certs : C!Use(c)) \/ C!Dispatch \/ UNCHANGED C!renewalVars
  PROVE  OverInv'
<1>1. fails \in Nat /\ asked \in Nat /\ day \in Nat
  BY CountedNat DEF OverInv, RenewalInv, CertTypes
<1>2. /\ UNCHANGED <<cert, day, woken, fails, job>> /\ asked' \in {asked, asked + 1} /\ Counted'
      /\ fails <= fails' /\ asked <= asked' /\ fails' + asked' \in Nat
  <2>1. UNCHANGED <<cert, day, woken, fails, job>>
    BY DEF C!Use, C!Dispatch, C!renewalVars
  <2>2. asked' \in {asked, asked + 1} /\ asked' \in 0..MaxCertRequests
    BY <1>1, Numbers DEF C!Use, C!Dispatch, C!renewalVars, OverInv, Counted
  <2>3. fails' = fails
    BY <2>1
  <2>4. Counted'
    BY <2>2, <2>3 DEF OverInv, Counted
  <2>5. fails <= fails /\ asked <= asked' /\ fails + asked' \in Nat
    BY <1>1, <2>2, RequestCounts, Zenon
  <2> QED BY <2>1, <2>2, <2>3, <2>4, <2>5, Zenon
<1>3. \A x \in Goroutines : JobInTime(job'[x], day, fails' + asked')
  <2>1. \A x \in Goroutines : job[x] \in Jobs /\ JobInTime(job[x], day, fails + asked)
    BY Zenon DEF OverInv, RenewalInv, CertTypes, Spent
  <2>2. fails + asked \in Nat /\ fails' + asked' \in Nat /\ fails + asked <= fails' + asked'
    <3>1. fails' = fails
      BY <1>2
    <3>2. fails + asked \in Nat /\ fails + asked' \in Nat /\ fails + asked <= fails + asked'
      BY <1>1, <1>2, RequestCounts, Zenon
    <3> QED BY <3>1, <3>2, Zenon
  <2> QED BY <1>1, <1>2, <2>1, <2>2, JobLater
<1>4. \A d \in Certs : RenewsItself(cert'[d]) =>
        /\ RenewsItself(cert[d]) /\ cert'[d].until = cert[d].until
        /\ AboutToRenew(d, woken, job[Loop]) => AboutToRenew(d, woken', job'[Loop])
  BY <1>2, Zenon
<1> QED BY <1>2, <1>3, <1>4, OverStep

\* After a restart the loop wakes.
LEMMA OverRestart == ASSUME OverInv, RenewalInv', C!Restart PROVE OverInv'
<1>1. fails \in Nat /\ asked \in Nat /\ day \in Nat
  BY CountedNat DEF OverInv, RenewalInv, CertTypes
<1>2. UNCHANGED <<cert, day, fails>> /\ asked' = asked + 1 /\ asked < MaxCertRequests /\ woken' = TRUE
      /\ job' = [g \in Goroutines |-> C!Idle]
  BY DEF C!Restart, C!Goroutines, Goroutines
<1>3. Counted' /\ fails <= fails' /\ asked <= asked' /\ fails' + asked' \in Nat
  BY <1>1, <1>2, Numbers DEF OverInv, Counted
<1>4. \A x \in Goroutines : JobInTime(job'[x], day, fails' + asked')
  BY <1>1, <1>2, <1>3, IdleInTime
<1>5. \A d \in Certs : RenewsItself(cert'[d]) =>
        /\ RenewsItself(cert[d]) /\ cert'[d].until = cert[d].until
        /\ AboutToRenew(d, woken, job[Loop]) => AboutToRenew(d, woken', job'[Loop])
  BY <1>2, Zenon DEF AboutToRenew
<1> QED BY <1>2, <1>3, <1>4, <1>5, OverStep

\* A day ends when the loop has gone through what was due: then all rows are
\* safe, and in time on the next.
LEMMA OverTick == ASSUME OverInv, RenewalInv', C!Tick PROVE OverInv'
<1>1. fails \in Nat /\ asked \in Nat /\ day \in Nat /\ Spent \in Nat
  BY CountedNat DEF OverInv, RenewalInv, CertTypes
<1>2. /\ day' = day + 1 /\ woken' = TRUE /\ UNCHANGED <<cert, job, fails, asked>> /\ ~woken
      /\ \A g \in Goroutines : job[g].st = "idle"
  BY DEF C!Tick, C!At, C!Goroutines, Goroutines
<1>3. Spent' = Spent /\ Counted'
  BY <1>2 DEF Spent, OverInv, Counted
<1>4. Loop \in Goroutines
  BY DEF Goroutines
<1>5. ASSUME NEW c \in Certs, RenewsItself(cert[c]) PROVE InTime(cert[c], day + 1, Spent)
  <2>1. ~AboutToRenew(c, woken, job[Loop])
    BY <1>2, <1>4 DEF AboutToRenew
  <2>2. Safe(cert[c], day, Spent) /\ cert[c].until \in Nat
    BY <1>5, <2>1, UntilNat DEF OverInv, RenewalInv, CertTypes
  <2> QED BY <1>1, <2>2, Numbers DEF Safe, InTime
<1>6. \A g \in Goroutines : job[g].got = Nobody
  BY <1>2 DEF OverInv, JobInTime
<1>7. \A g \in Goroutines : JobInTime(job[g], day, Spent)'
  BY <1>2, <1>6 DEF JobInTime
<1>8. \A c \in Certs : RenewsItself(cert[c])' =>
        InTime(cert[c], day, Spent)' /\ (Safe(cert[c], day, Spent)' \/ AboutToRenew(c, woken, job[Loop])')
  BY <1>2, <1>3, <1>5, Zenon DEF RenewsItself, InTime, AboutToRenew
<1> QED BY <1>3, <1>7, <1>8, Zenon DEF OverInv

LEMMA OverBegins == C!Init => OverInv
<1> SUFFICES ASSUME C!Init PROVE OverInv
  OBVIOUS
<1>1. RenewalInv
  BY RenewalBegins
<1>2. cert = SavedCerts /\ day = 0 /\ woken = TRUE /\ fails = 0 /\ asked = 0
      /\ job = [g \in Goroutines |-> C!Idle]
  BY DEF C!Init, C!Goroutines, Goroutines
<1>3. Counted /\ Spent = 0
  BY <1>2, Numbers DEF Counted, Spent
<1>4. \A c \in Certs : RenewsItself(cert[c]) =>
        InTime(cert[c], day, Spent) /\ AboutToRenew(c, woken, job[Loop])
  <2> SUFFICES ASSUME NEW c \in Certs, RenewsItself(cert[c])
               PROVE  InTime(cert[c], day, Spent) /\ AboutToRenew(c, woken, job[Loop])
    OBVIOUS
  <2>1. Due <= cert[c].until /\ cert[c].until \in Nat
    BY <1>1, <1>2, StartsInTime, UntilNat DEF RenewalInv, CertTypes
  <2> QED BY <1>2, <1>3, <2>1, Numbers DEF InTime, AboutToRenew
<1>5. \A g \in Goroutines : JobInTime(job[g], day, Spent)
  BY <1>2, <1>3, IdleInTime
<1> QED BY <1>1, <1>3, <1>4, <1>5, Zenon DEF OverInv

LEMMA OverNextStep == OverInv /\ [C!Next]_(C!renewalVars) => OverInv'
<1> SUFFICES ASSUME OverInv, [C!Next]_(C!renewalVars) PROVE OverInv'
  OBVIOUS
<1>0. RenewalInv'
  BY RenewalStep DEF OverInv
<1>1. CASE \E g \in C!Goroutines : C!GoroutineStep(g)
  BY <1>0, <1>1, OverOrder, OverSave DEF C!GoroutineStep, C!Goroutines, Goroutines
<1>2. CASE \E h \in Handlers : \E c \in Certs : C!Renew(h, c) \/ C!UpdateRead(h, c) \/ C!DeleteCheck(h, c)
  BY <1>0, <1>2, OverAsks
<1>3. CASE \E h \in Handlers : (\E n \in Names : C!IssueNew(h, n)) \/ C!SyncAll(h)
  BY <1>0, <1>3, OverAsks
<1>4. CASE \E h \in Handlers : C!UpdateWrite(h)
  BY <1>0, <1>4, OverUpdate
<1>5. CASE (\E h \in Handlers : C!Delete(h)) \/ \E n \in Names, l \in Lives : C!Create(n, l)
  BY <1>0, <1>5, OverGone
<1>6. CASE C!LoopWakes \/ C!LoopNext \/ C!Restart \/ C!Tick
  BY <1>0, <1>6, OverWakes, OverNext, OverRestart, OverTick
<1>7. CASE (\E c \in Certs : C!Use(c)) \/ C!Dispatch \/ UNCHANGED C!renewalVars
  BY <1>0, <1>7, OverOthers
<1> QED BY <1>1, <1>2, <1>3, <1>4, <1>5, <1>6, <1>7 DEF C!Next

\* No certificate that renews itself runs out (renewDueCerts), for any number
\* of certificates and handlers and any validity, as long as the orders that
\* fail and the requests are fewer than the rounds of the loop in which a
\* certificate is due.
THEOREM NeverOverHolds ==
  ASSUME MaxFails + MaxCertRequests < Due
  PROVE  C!Spec => []NeverOver
<1>1. OverInv => NeverOver
  <2> SUFFICES ASSUME OverInv, NEW c \in C!Saved, RenewsItself(cert[c]) PROVE cert[c].until > day
    BY Zenon DEF NeverOver, C!NeverOver, C!Saved, RenewsItself
  <2>1. c \in Certs /\ InTime(cert[c], day, fails + asked)
    BY DEF C!Saved, OverInv, Spent
  <2>2. cert[c].until \in Nat /\ day \in Nat
    BY <2>1, UntilNat DEF OverInv, RenewalInv, CertTypes
  <2>3. fails \in 0..MaxFails /\ asked \in 0..MaxCertRequests
    BY DEF OverInv, Counted
  <2> QED BY <2>1, <2>2, <2>3, Numbers DEF InTime
<1> QED BY <1>1, OverBegins, OverNextStep, PTL DEF C!Spec

-----------------------------------------------------------------------------
(***************************************************************************)
(* Lines that customers have (Lines).                                      *)
(***************************************************************************)

Requests ==
  [st : {"idle", "checked", "push", "again", "busy", "unbound"},
   kind : {"none", "create", "update", "delete", "drop", "package"},
   id : LineIds \cup {Nobody}, srv : Servers \cup {Nobody}, new : L!Line \cup {Nobody},
   todo : SUBSET Servers, all : SUBSET Servers, err : BOOLEAN, busy : SUBSET Ports]

RequestFits(o) ==
  /\ o.kind \in {"create", "update"} => o.new \in L!Line
  /\ o.kind \in {"update", "delete"} => o.id \in LineIds

\* What the last pushes told the servers is left out.
LineTypes ==
  /\ row \in [LineIds -> L!Line \cup {Nobody}] /\ nextId \in Nat /\ alive \subseteq Servers
  /\ pkg \in L!Package \cup {Nobody} /\ held \in BOOLEAN /\ overlap \in BOOLEAN
  /\ op \in [Handlers -> Requests]
  /\ \A h \in Handlers : RequestFits(op[h])

\* An id of a line is given out once.
LinesGivenOut == \A l \in LineIds : row[l] # Nobody => l < nextId

\* What a request has checked.
StillGood(o) ==
  /\ o.kind = "update" /\ o.new.chain => o.new.exit # Nobody /\ L!Path(o.new) \subseteq L!Saved(row)
  /\ o.kind = "delete" => o.id \notin L!Sold /\ ~L!PointedAt(o.id)
  /\ o.kind = "drop" => ~L!ServerInUse(o.srv)

\* As long as nobody wrote in between, it still holds.
ChecksHold == ~overlap => \A h \in Handlers : op[h].st = "checked" => StillGood(op[h])

LinesInv == LineTypes /\ LinesGivenOut /\ ChecksHold

LEMMA SmallLines ==
  /\ LineIds \subseteq Nat /\ Nobody \notin LineIds /\ Uri \notin LineIds /\ Nobody # Uri /\ Nobody \notin L!Line
  /\ SavedLines \in [LineIds -> L!Line \cup {Nobody}] /\ SavedPackage \in L!Package
  /\ Cardinality(L!Saved(SavedLines)) \in Nat
  /\ L!Saved(SavedLines) = 1..Cardinality(L!Saved(SavedLines))
  /\ L!Cardinality(L!Saved(SavedLines)) = Cardinality(L!Saved(SavedLines))
<1>1. L!IsFiniteSet(LineIds) <=> IsFiniteSet(LineIds)
  BY Zenon DEF L!IsFiniteSet, IsFiniteSet
<1>2. L!Cardinality(L!Saved(SavedLines)) = Cardinality(L!Saved(SavedLines))
  BY Zenon DEF L!Cardinality, Cardinality
<1>3. IsFiniteSet(LineIds)
  BY <1>1, LinesTables DEF L!LinesAssumption
<1>4. Cardinality(L!Saved(SavedLines)) \in Nat
  BY <1>3, FS_Subset, FS_CardinalityType DEF L!Saved
<1>5. L!Saved(SavedLines) = 1..L!Cardinality(L!Saved(SavedLines))
  BY LinesTables, Zenon DEF L!LinesAssumption, L!Saved
<1> QED BY <1>2, <1>4, <1>5, LinesTables DEF L!LinesAssumption

LEMMA IdleRequest == L!Idle \in Requests /\ RequestFits(L!Idle) /\ L!Idle.st = "idle"
BY DEF L!Idle, Requests, RequestFits

LEMMA LinesBegin == L!Init => LinesInv
<1> SUFFICES ASSUME L!Init PROVE LinesInv
  OBVIOUS
<1>1. op = [h \in Handlers |-> L!Idle] /\ row = SavedLines /\ nextId = Cardinality(L!Saved(SavedLines)) + 1
  BY SmallLines DEF L!Init
<1>2. \A h \in Handlers : op[h] = L!Idle
  BY <1>1
<1>3. LineTypes
  <2>1. op \in [Handlers -> Requests]
    BY <1>1, IdleRequest
  <2>2. alive = Servers /\ pkg = SavedPackage /\ held = TRUE /\ overlap = FALSE
    BY Zenon DEF L!Init
  <2>3. \A h \in Handlers : RequestFits(op[h])
    BY <1>2, IdleRequest, Zenon
  <2>4. nextId \in Nat
    BY <1>1, SmallLines
  <2> QED BY <1>1, <2>1, <2>2, <2>3, <2>4, SmallLines, Zenon DEF LineTypes
<1>4. LinesGivenOut
  <2>1. \A l \in LineIds : row[l] # Nobody => l \in L!Saved(SavedLines)
    BY <1>1 DEF L!Saved
  <2> QED BY <1>1, <2>1, SmallLines DEF LinesGivenOut
<1>5. ChecksHold
  BY <1>2, IdleRequest DEF ChecksHold
<1> QED BY <1>3, <1>4, <1>5 DEF LinesInv

\* One request goes on.
LEMMA RequestGoesOn ==
  ASSUME LineTypes, NEW h \in Handlers, NEW o \in Requests, RequestFits(o), op' = [op EXCEPT ![h] = o]
  PROVE  /\ op' \in [Handlers -> Requests]
         /\ \A g \in Handlers : op'[g] = IF g = h THEN o ELSE op[g]
         /\ \A g \in Handlers : RequestFits(op[g])'
<1>1. op' \in [Handlers -> Requests]
  BY Zenon DEF LineTypes
<1>2. \A g \in Handlers : op'[g] = IF g = h THEN o ELSE op[g]
  BY Zenon DEF LineTypes
<1>3. \A g \in Handlers : RequestFits(op'[g])
  BY <1>2, Zenon DEF LineTypes
<1> QED BY <1>1, <1>2, <1>3, Zenon DEF RequestFits

\* A line that differs in being on or off is checked the same way.
Alike(r, q) ==
  \/ r = Nobody /\ q = Nobody
  \/ /\ r # Nobody /\ q # Nobody
     /\ r.srv = q.srv /\ r.chain = q.chain /\ r.exit = q.exit /\ r.hops = q.hops

LEMMA ChecksStay ==
  ASSUME LineTypes, ChecksHold, \A l \in LineIds : Alike(row[l], row'[l]), UNCHANGED <<held, overlap>>,
         held => pkg' = pkg,
         \A h \in Handlers : op'[h].st = "checked" => op[h].st = "checked" /\ op'[h] = op[h]
  PROVE  ChecksHold'
<1>1. L!Saved(row') = L!Saved(row)
  BY DEF L!Saved, Alike
<1>2. \A l \in L!Saved(row) : L!Path(row'[l]) = L!Path(row[l]) /\ row'[l].srv = row[l].srv
  BY DEF L!Saved, Alike, L!Path
<1>3. L!Sold' = L!Sold
  BY <1>1, <1>2 DEF L!Sold
<1>4. ASSUME NEW i PROVE L!PointedAt(i)' <=> L!PointedAt(i)
  BY <1>1, <1>2 DEF L!PointedAt
<1>5. ASSUME NEW s, L!ServerInUse(s)' PROVE L!ServerInUse(s)
  <2>1. CASE held /\ s \in pkg'.servers
    BY <2>1 DEF L!ServerInUse
  <2>2. CASE \E l \in L!Sold' : row'[l].srv = s \/ \E x \in L!Path(row'[l]) : row'[x] # Nobody /\ row'[x].srv = s
    <3>1. PICK l \in L!Sold : row'[l].srv = s \/ \E x \in L!Path(row'[l]) : row'[x] # Nobody /\ row'[x].srv = s
      BY <1>3, <2>2
    <3>2. l \in L!Saved(row) /\ L!Path(row'[l]) = L!Path(row[l]) /\ row'[l].srv = row[l].srv
      BY <1>2, <3>1 DEF L!Sold
    <3>3. L!Path(row[l]) \subseteq LineIds
      BY <3>2 DEF L!Saved, L!Path, LineTypes, L!Line
    <3>4. ASSUME NEW x \in L!Path(row[l]), row'[x] # Nobody PROVE row[x] # Nobody /\ row[x].srv = row'[x].srv
      BY <3>3, <3>4 DEF Alike
    <3> QED BY <3>1, <3>2, <3>4 DEF L!ServerInUse
  <2> QED BY <1>5, <2>1, <2>2 DEF L!ServerInUse
<1>6. ASSUME ~overlap', NEW h \in Handlers, op'[h].st = "checked" PROVE StillGood(op[h])'
  <2>1. op'[h] = op[h] /\ StillGood(op[h])
    BY <1>6 DEF ChecksHold
  <2> QED BY <2>1, <1>1, <1>3, <1>4, <1>5 DEF StillGood
<1> QED BY <1>6 DEF ChecksHold

\* A request that has checked: what it checked holds.
LEMMA LinesCheck ==
  ASSUME LinesInv, NEW h \in Handlers, NEW o \in Requests, RequestFits(o), o.st = "checked",
         op' = [op EXCEPT ![h] = o], UNCHANGED <<row, nextId, alive, pkg, held, overlap>>, StillGood(o)
  PROVE  LinesInv'
<1>1. LineTypes'
  BY RequestGoesOn, Zenon DEF LinesInv, LineTypes
<1>2. LinesGivenOut'
  BY Zenon DEF LinesInv, LinesGivenOut
<1>3. ChecksHold'
  <2>1. ASSUME ~overlap', NEW g \in Handlers, op'[g].st = "checked" PROVE StillGood(op'[g])
    BY <2>1, RequestGoesOn DEF LinesInv, ChecksHold
  <2>2. ASSUME NEW g \in Handlers, StillGood(op'[g]) PROVE StillGood(op[g])'
    <3>1. L!Sold' = L!Sold /\ L!Saved(row') = L!Saved(row)
      BY DEF L!Sold, L!Saved
    <3>2. \A i : L!PointedAt(i)' <=> L!PointedAt(i)
      BY DEF L!PointedAt, L!Saved
    <3>3. \A s : L!ServerInUse(s)' <=> L!ServerInUse(s)
      BY <3>1 DEF L!ServerInUse
    <3> QED BY <2>2, <3>1, <3>2, <3>3 DEF StillGood
  <2> QED BY <2>1, <2>2 DEF ChecksHold
<1> QED BY <1>1, <1>2, <1>3 DEF LinesInv

\* A request that pushes, or is done: the lines stay as they are.
LEMMA LinesAfter ==
  ASSUME LinesInv, NEW h \in Handlers, NEW o \in Requests, RequestFits(o), o.st # "checked",
         op' = [op EXCEPT ![h] = o], UNCHANGED <<row, nextId, alive, held, overlap>>,
         held => pkg' = pkg, pkg' \in L!Package \cup {Nobody}
  PROVE  LinesInv'
<1>1. LineTypes'
  BY RequestGoesOn, Zenon DEF LinesInv, LineTypes
<1>2. LinesGivenOut'
  BY Zenon DEF LinesInv, LinesGivenOut
<1>3. ChecksHold'
  <2>1. \A l \in LineIds : Alike(row[l], row'[l])
    BY DEF Alike
  <2>2. \A g \in Handlers : op'[g].st = "checked" => op[g].st = "checked" /\ op'[g] = op[g]
    BY RequestGoesOn, Zenon DEF LinesInv
  <2> QED BY <2>1, <2>2, ChecksStay DEF LinesInv
<1> QED BY <1>1, <1>2, <1>3 DEF LinesInv

\* The requests as they are checked.
AskedToCreate(s, r) ==
  [[L!Idle EXCEPT !.kind = "create", !.srv = s, !.new = r] EXCEPT !.st = "checked"]
AskedToUpdate(i, s, r) ==
  [[L!Idle EXCEPT !.kind = "update", !.id = i, !.srv = s, !.new = r] EXCEPT !.st = "checked"]
AskedToDelete(i, s, t) ==
  [[L!Idle EXCEPT !.kind = "delete", !.id = i, !.srv = s, !.todo = t] EXCEPT !.st = "checked"]
AskedToDrop(s) ==
  [[L!Idle EXCEPT !.kind = "drop", !.srv = s] EXCEPT !.st = "checked"]
AskedToPackage ==
  [[L!Idle EXCEPT !.kind = "package"] EXCEPT !.st = "checked"]

\* What a request that has checked keeps.
LEMMA CheckedCreate ==
  ASSUME NEW s \in Servers, NEW r \in L!Line
  PROVE  /\ AskedToCreate(s, r) \in Requests /\ AskedToCreate(s, r).st = "checked"
         /\ AskedToCreate(s, r).kind = "create" /\ AskedToCreate(s, r).srv = s /\ AskedToCreate(s, r).new = r
<1> DEFINE byKind == [L!Idle EXCEPT !.kind = "create"]
<1>1. byKind \in Requests /\ byKind.kind = "create"
  BY IdleRequest DEF Requests
<1> HIDE DEF byKind
<1> DEFINE bySrv == [byKind EXCEPT !.srv = s]
<1>2. bySrv \in Requests /\ bySrv.kind = "create" /\ bySrv.srv = s
  BY <1>1 DEF Requests
<1> HIDE DEF bySrv
<1> DEFINE byNew == [bySrv EXCEPT !.new = r]
<1>3. byNew \in Requests /\ byNew.kind = "create" /\ byNew.srv = s /\ byNew.new = r
  BY <1>2 DEF Requests
<1> HIDE DEF byNew
<1>4. AskedToCreate(s, r) = [byNew EXCEPT !.st = "checked"]
  BY Zenon DEF AskedToCreate, byKind, bySrv, byNew
<1> QED BY <1>3, <1>4 DEF Requests

LEMMA CheckedUpdate ==
  ASSUME NEW i \in LineIds, NEW s \in Servers, NEW r \in L!Line
  PROVE  /\ AskedToUpdate(i, s, r) \in Requests /\ AskedToUpdate(i, s, r).st = "checked"
         /\ AskedToUpdate(i, s, r).kind = "update" /\ AskedToUpdate(i, s, r).id = i
         /\ AskedToUpdate(i, s, r).srv = s /\ AskedToUpdate(i, s, r).new = r
<1> DEFINE byKind == [L!Idle EXCEPT !.kind = "update"]
<1>1. byKind \in Requests /\ byKind.kind = "update"
  BY IdleRequest DEF Requests
<1> HIDE DEF byKind
<1> DEFINE byId == [byKind EXCEPT !.id = i]
<1>2. byId \in Requests /\ byId.kind = "update" /\ byId.id = i
  BY <1>1 DEF Requests
<1> HIDE DEF byId
<1> DEFINE bySrv == [byId EXCEPT !.srv = s]
<1>3. bySrv \in Requests /\ bySrv.kind = "update" /\ bySrv.id = i /\ bySrv.srv = s
  BY <1>2 DEF Requests
<1> HIDE DEF bySrv
<1> DEFINE byNew == [bySrv EXCEPT !.new = r]
<1>4. byNew \in Requests /\ byNew.kind = "update" /\ byNew.id = i /\ byNew.srv = s /\ byNew.new = r
  BY <1>3 DEF Requests
<1> HIDE DEF byNew
<1>5. AskedToUpdate(i, s, r) = [byNew EXCEPT !.st = "checked"]
  BY Zenon DEF AskedToUpdate, byKind, byId, bySrv, byNew
<1> QED BY <1>4, <1>5 DEF Requests

LEMMA CheckedDelete ==
  ASSUME NEW i \in LineIds, NEW s \in Servers, NEW t \in SUBSET Servers
  PROVE  /\ AskedToDelete(i, s, t) \in Requests /\ AskedToDelete(i, s, t).st = "checked"
         /\ AskedToDelete(i, s, t).kind = "delete" /\ AskedToDelete(i, s, t).id = i
         /\ AskedToDelete(i, s, t).srv = s
         /\ AskedToDelete(i, s, t).todo = t
<1> DEFINE byKind == [L!Idle EXCEPT !.kind = "delete"]
<1>1. byKind \in Requests /\ byKind.kind = "delete"
  BY IdleRequest DEF Requests
<1> HIDE DEF byKind
<1> DEFINE byId == [byKind EXCEPT !.id = i]
<1>2. byId \in Requests /\ byId.kind = "delete" /\ byId.id = i
  BY <1>1 DEF Requests
<1> HIDE DEF byId
<1> DEFINE bySrv == [byId EXCEPT !.srv = s]
<1>3. bySrv \in Requests /\ bySrv.kind = "delete" /\ bySrv.id = i /\ bySrv.srv = s
  BY <1>2 DEF Requests
<1> HIDE DEF bySrv
<1> DEFINE byTodo == [bySrv EXCEPT !.todo = t]
<1>4. byTodo \in Requests /\ byTodo.kind = "delete" /\ byTodo.id = i /\ byTodo.srv = s /\ byTodo.todo = t
  BY <1>3 DEF Requests
<1> HIDE DEF byTodo
<1>5. AskedToDelete(i, s, t) = [byTodo EXCEPT !.st = "checked"]
  BY Zenon DEF AskedToDelete, byKind, byId, bySrv, byTodo
<1> QED BY <1>4, <1>5 DEF Requests

LEMMA CheckedDrop ==
  ASSUME NEW s \in Servers
  PROVE  /\ AskedToDrop(s) \in Requests /\ AskedToDrop(s).st = "checked" /\ AskedToDrop(s).kind = "drop"
         /\ AskedToDrop(s).srv = s
<1> DEFINE byKind == [L!Idle EXCEPT !.kind = "drop"]
<1>1. byKind \in Requests /\ byKind.kind = "drop"
  BY IdleRequest DEF Requests
<1> HIDE DEF byKind
<1> DEFINE bySrv == [byKind EXCEPT !.srv = s]
<1>2. bySrv \in Requests /\ bySrv.kind = "drop" /\ bySrv.srv = s
  BY <1>1 DEF Requests
<1> HIDE DEF bySrv
<1>3. AskedToDrop(s) = [bySrv EXCEPT !.st = "checked"]
  BY Zenon DEF AskedToDrop, byKind, bySrv
<1> QED BY <1>2, <1>3 DEF Requests

LEMMA CheckedPackage ==
  AskedToPackage \in Requests /\ AskedToPackage.st = "checked" /\ AskedToPackage.kind = "package"
<1> DEFINE byKind == [L!Idle EXCEPT !.kind = "package"]
<1>1. byKind \in Requests /\ byKind.kind = "package"
  BY IdleRequest DEF Requests
<1> HIDE DEF byKind
<1>2. AskedToPackage = [byKind EXCEPT !.st = "checked"]
  BY Zenon DEF AskedToPackage, byKind
<1> QED BY <1>1, <1>2 DEF Requests

\* What a request asks for is a line.
LEMMA AskedLines ==
  /\ \A s \in Servers : L!New(s) \subseteq L!Line
  /\ \A q \in L!Line : L!Field(q) \subseteq L!Line
<1>1. ASSUME NEW s \in Servers PROVE L!New(s) \subseteq L!Line
  <2>1. ASSUME NEW p \in Ports, NEW x \in LineIds \cup {Nobody}
        PROVE  [srv |-> s, port |-> p, on |-> TRUE, chain |-> x # Nobody, exit |-> x, hops |-> {}] \in L!Line
    <3> DEFINE leaves == x # Nobody
    <3>1. leaves \in BOOLEAN
      OBVIOUS
    <3> HIDE DEF leaves
    <3>2. [srv |-> s, port |-> p, on |-> TRUE, chain |-> leaves, exit |-> x, hops |-> {}] \in L!Line
      BY <3>1 DEF L!Line
    <3> QED BY <3>2, Zenon DEF leaves
  <2>2. ASSUME NEW r \in L!New(s)
        PROVE  \E p \in Ports : \E x \in LineIds \cup {Nobody} :
                 r = [srv |-> s, port |-> p, on |-> TRUE, chain |-> x # Nobody, exit |-> x, hops |-> {}]
    BY <2>2 DEF L!New
  <2> QED BY <2>1, <2>2
<1>2. ASSUME NEW q \in L!Line, NEW r \in L!Field(q) PROVE r \in L!Line
  <2> DEFINE Switched == {[q EXCEPT !.on = ~@]}
             Moved == {[q EXCEPT !.port = p] : p \in Ports}
             Left == {[q EXCEPT !.exit = x] : x \in LineIds \cup {Uri}}
             Longer == {L!Chained(q, x, y) : x \in LineIds \cup {Uri}, y \in L!Hops}
             Direct == {[q EXCEPT !.chain = FALSE]}
  <2>1. r \in (((Switched \cup Moved) \cup Left) \cup Longer) \cup Direct
    BY DEF L!Field
  <2>2. r \in Switched \/ r \in Moved \/ r \in Left \/ r \in Longer \/ r \in Direct
    <3> HIDE DEF Switched, Moved, Left, Longer, Direct
    <3> QED BY <2>1
  <2>3. CASE r \in Switched
    BY <2>3 DEF L!Line
  <2>4. CASE r \in Moved
    BY <2>4 DEF L!Line
  <2>5. CASE r \in Left
    BY <2>5 DEF L!Line
  <2>6. CASE r \in Longer
    <3>1. PICK x \in LineIds \cup {Uri}, y \in L!Hops : r = L!Chained(q, x, y)
      BY <2>6
    <3>2. y \in SUBSET LineIds
      BY DEF L!Hops
    <3> DEFINE chained == [q EXCEPT !.chain = TRUE]
               left == [chained EXCEPT !.exit = x]
    <3>3. chained \in L!Line
      BY DEF L!Line
    <3>4. left \in L!Line
      <4> HIDE DEF chained
      <4> QED BY <3>3 DEF L!Line
    <3>5. [left EXCEPT !.hops = y] \in L!Line
      <4> HIDE DEF left
      <4> QED BY <3>2, <3>4 DEF L!Line
    <3> QED BY <3>1, <3>5, Zenon DEF L!Chained
  <2>7. CASE r \in Direct
    BY <2>7 DEF L!Line
  <2> QED BY <2>2, <2>3, <2>4, <2>5, <2>6, <2>7
<1> QED BY <1>1, <1>2

LEMMA LinesChecked ==
  ASSUME LinesInv, NEW h \in Handlers,
         \/ \E s \in Servers : (\E r \in L!New(s) : L!CheckCreate(h, s, r)) \/ L!CheckDeleteServer(h, s)
         \/ \E l \in L!Saved(row) : L!CheckDelete(h, l) \/ \E r \in L!Field(row[l]) : L!CheckUpdate(h, l, r)
         \/ L!CheckDeletePackage(h)
  PROVE  LinesInv'
<1>1. UNCHANGED <<row, nextId, alive, pkg, held, overlap>>
  BY DEF L!CheckCreate, L!CheckDeleteServer, L!CheckDelete, L!CheckUpdate, L!CheckDeletePackage
<1>2. ASSUME NEW s \in Servers, NEW r \in L!New(s), L!CheckCreate(h, s, r) PROVE LinesInv'
  <2>1. r \in L!Line
    BY AskedLines
  <2>2. op' = [op EXCEPT ![h] = AskedToCreate(s, r)]
    BY <1>2, Zenon DEF L!CheckCreate, L!Checked, AskedToCreate
  <2>3. RequestFits(AskedToCreate(s, r)) /\ StillGood(AskedToCreate(s, r))
    BY <2>1, CheckedCreate DEF RequestFits, StillGood
  <2>4. AskedToCreate(s, r) \in Requests /\ AskedToCreate(s, r).st = "checked"
    BY <2>1, CheckedCreate
  <2> QED BY <1>1, <2>2, <2>3, <2>4, LinesCheck
<1>3. ASSUME NEW s \in Servers, L!CheckDeleteServer(h, s) PROVE LinesInv'
  <2>1. op' = [op EXCEPT ![h] = AskedToDrop(s)] /\ ~L!ServerInUse(s)
    BY <1>3, Zenon DEF L!CheckDeleteServer, L!Checked, AskedToDrop
  <2>2. RequestFits(AskedToDrop(s)) /\ StillGood(AskedToDrop(s))
    BY <2>1, CheckedDrop DEF RequestFits, StillGood
  <2> QED BY <1>1, <2>1, <2>2, CheckedDrop, LinesCheck
<1>4. ASSUME NEW l \in L!Saved(row), L!CheckDelete(h, l) PROVE LinesInv'
  <2>1. l \in LineIds /\ row[l] \in L!Line
    BY DEF L!Saved, LinesInv, LineTypes
  <2> DEFINE t == {row[l].srv} \cup L!Peers(row[l])
             o == AskedToDelete(l, row[l].srv, t)
  <2>2. t \in SUBSET Servers /\ row[l].srv \in Servers
    BY <2>1 DEF L!Peers, L!Saved, L!Line, LinesInv, LineTypes
  <2>3. op' = [op EXCEPT ![h] = o] /\ l \notin L!Sold /\ ~L!PointedAt(l)
    BY <1>4, Zenon DEF L!CheckDelete, L!Checked, AskedToDelete
  <2> HIDE DEF t
  <2>4. o \in Requests /\ o.st = "checked" /\ o.kind = "delete" /\ o.id = l
    BY <2>1, <2>2, CheckedDelete
  <2> HIDE DEF o
  <2>5. RequestFits(o) /\ StillGood(o)
    BY <2>1, <2>3, <2>4 DEF RequestFits, StillGood
  <2> QED BY <1>1, <2>3, <2>4, <2>5, LinesCheck
<1>5. ASSUME NEW l \in L!Saved(row), NEW r \in L!Field(row[l]), L!CheckUpdate(h, l, r) PROVE LinesInv'
  <2>1. l \in LineIds /\ row[l] \in L!Line
    BY DEF L!Saved, LinesInv, LineTypes
  <2> DEFINE o == AskedToUpdate(l, r.srv, r)
  <2>2. r \in L!Line /\ r.srv \in Servers /\ r.exit \in LineIds \cup {Nobody, Uri} /\ r.hops \subseteq LineIds
    BY <2>1, AskedLines DEF L!Line
  <2>3. op' = [op EXCEPT ![h] = o] /\ L!Acceptable(l, r)
    BY <1>5, Zenon DEF L!CheckUpdate, L!Checked, AskedToUpdate
  <2>4. o \in Requests /\ o.st = "checked" /\ o.kind = "update" /\ o.id = l /\ o.new = r
    BY <2>1, <2>2, CheckedUpdate
  <2> HIDE DEF o
  <2>5. r.chain => r.exit # Nobody /\ L!Path(r) \subseteq L!Saved(row)
    BY <2>2, <2>3 DEF L!Acceptable, L!Path, L!Saved
  <2>6. RequestFits(o) /\ StillGood(o)
    BY <2>1, <2>2, <2>4, <2>5 DEF RequestFits, StillGood
  <2> QED BY <1>1, <2>3, <2>4, <2>6, LinesCheck
<1>6. CASE L!CheckDeletePackage(h)
  <2>1. op' = [op EXCEPT ![h] = AskedToPackage]
    BY <1>6, Zenon DEF L!CheckDeletePackage, L!Checked, AskedToPackage
  <2>2. RequestFits(AskedToPackage) /\ StillGood(AskedToPackage)
    BY CheckedPackage DEF RequestFits, StillGood
  <2> QED BY <1>1, <2>1, <2>2, CheckedPackage, LinesCheck
<1> QED BY <1>2, <1>3, <1>4, <1>5, <1>6

\* Whoever writes while nobody else has checked leaves nobody who has.
LEMMA WritesAlone ==
  ASSUME LinesInv, NEW h \in Handlers, NEW k, L!Writes(h, k)
  PROVE  /\ op[h].st = "checked" /\ op[h].kind = k /\ overlap' \in BOOLEAN
         /\ ~overlap' => ~overlap /\ StillGood(op[h]) /\ \A g \in Handlers \ {h} : op[g].st # "checked"
BY DEF L!Writes, LinesInv, ChecksHold

LEMMA LinesWritten ==
  ASSUME LinesInv, NEW h \in Handlers, NEW o \in Requests, RequestFits(o), o.st # "checked",
         op' = [op EXCEPT ![h] = o], NEW k, L!Writes(h, k),
         row' \in [LineIds -> L!Line \cup {Nobody}], nextId' \in Nat, alive' \subseteq Servers,
         pkg' \in L!Package \cup {Nobody}, held' \in BOOLEAN, LinesGivenOut'
  PROVE  LinesInv'
<1>1. LineTypes'
  BY WritesAlone, RequestGoesOn, Zenon DEF LinesInv, LineTypes
<1>2. ChecksHold'
  <2>1. ASSUME ~overlap', NEW g \in Handlers PROVE op'[g].st # "checked"
    BY <2>1, WritesAlone, RequestGoesOn DEF LinesInv
  <2> QED BY <2>1, Zenon DEF ChecksHold
<1> QED BY <1>1, <1>2 DEF LinesInv

LEMMA PushNextIs ==
  ASSUME LineTypes, NEW h \in Handlers, NEW which \in SUBSET Servers, L!PushNext(h, which)
  PROVE  \E o \in Requests : o.st # "checked" /\ RequestFits(o) /\ op' = [op EXCEPT ![h] = o]
<1> DEFINE state == IF which = {} THEN "idle" ELSE "push"
           at == [op[h] EXCEPT !.st = state]
           left == [at EXCEPT !.todo = which]
           o == [left EXCEPT !.all = which]
<1>1. op[h] \in Requests /\ RequestFits(op[h]) /\ state \in {"idle", "push"} /\ op \in [Handlers -> Requests]
  BY DEF LineTypes
<1>2. op' = [op EXCEPT ![h].st = state, ![h].todo = which, ![h].all = which]
  BY Zenon DEF L!PushNext
<1> HIDE DEF state
<1>3. at \in Requests /\ at.st = state /\ at.kind = op[h].kind /\ at.id = op[h].id /\ at.new = op[h].new
  BY <1>1 DEF Requests
<1>4. op' = [op EXCEPT ![h] = o]
  BY <1>1, <1>2
<1> HIDE DEF at
<1>5. left \in Requests /\ left.st = state /\ left.kind = op[h].kind /\ left.id = op[h].id /\ left.new = op[h].new
  BY <1>3 DEF Requests
<1> HIDE DEF left
<1>6. o \in Requests /\ o.st = state /\ o.kind = op[h].kind /\ o.id = op[h].id /\ o.new = op[h].new
  BY <1>5 DEF Requests
<1> HIDE DEF o
<1> QED BY <1>1, <1>4, <1>6 DEF RequestFits

LEMMA ProvisionIs ==
  ASSUME LineTypes, NEW h \in Handlers, NEW which \in SUBSET Servers, L!Provision(h, which)
  PROVE  \E o \in Requests : o.st # "checked" /\ RequestFits(o) /\ op' = [op EXCEPT ![h] = o]
<1>1. CASE L!PushNext(h, which)
  BY <1>1, PushNextIs
<1>2. CASE op' = [op EXCEPT ![h] = L!Idle]
  BY <1>2, IdleRequest
<1> QED BY <1>1, <1>2 DEF L!Provision

LEMMA TargetsServers ==
  ASSUME LineTypes, NEW r \in L!Line
  PROVE  L!Targets(r) \subseteq Servers /\ L!Peers(r) \subseteq Servers
BY DEF LineTypes, L!Targets, L!Peers, L!Saved, L!Line

LEMMA WithoutFacts ==
  ASSUME LineTypes, NEW S
  PROVE  /\ L!Without(S) \in [LineIds -> L!Line \cup {Nobody}]
         /\ \A l \in LineIds : L!Without(S)[l] # Nobody <=> l \notin S /\ row[l] # Nobody
         /\ \A l \in LineIds : l \notin S /\ row[l] # Nobody /\ row[l].exit \notin S => L!Without(S)[l] = row[l]
<1>1. ASSUME NEW l \in LineIds, row[l] # Nobody PROVE [row[l] EXCEPT !.exit = Nobody] \in L!Line
  BY <1>1 DEF LineTypes, L!Line
<1>2. \A l \in LineIds : L!Without(S)[l] =
        IF l \in S \/ row[l] = Nobody THEN Nobody
        ELSE IF row[l].exit \in S THEN [row[l] EXCEPT !.exit = Nobody] ELSE row[l]
  BY DEF L!Without
<1>3. \A l \in LineIds : row[l] # Nobody => row[l] \in L!Line
  BY DEF LineTypes
<1>4. L!Without(S) = [l \in LineIds |-> L!Without(S)[l]]
  BY DEF L!Without
<1>5. \A l \in LineIds : L!Without(S)[l] \in L!Line \cup {Nobody}
  BY <1>1, <1>2, <1>3, Zenon
<1>6. L!Without(S) \in [LineIds -> L!Line \cup {Nobody}]
  BY <1>4, <1>5, Zenon
<1>7. \A l \in LineIds : L!Without(S)[l] # Nobody <=> l \notin S /\ row[l] # Nobody
  BY <1>1, <1>2, <1>3, SmallLines, Zenon
<1> QED BY <1>2, <1>6, <1>7, Zenon

LEMMA PackageLoses ==
  ASSUME LineTypes, NEW S, NEW T, L!Unnamed(S, T)
  PROVE  pkg' \in L!Package \cup {Nobody}
<1>1. CASE pkg = Nobody
  BY <1>1 DEF L!Unnamed
<1>2. CASE pkg # Nobody
  <2>1. pkg \in L!Package /\ pkg' = [lines |-> pkg.lines \ S, servers |-> pkg.servers \ T]
    BY <1>2 DEF L!Unnamed, LineTypes
  <2> QED BY <2>1 DEF L!Package
<1> QED BY <1>1, <1>2

\* What a step may not do to the lines customers have.
PathsKept ==
  ~overlap' => \A l \in L!Sold : L!PathOk(row, l) => row'[l] # Nobody /\ L!PathOk(row', l)

LEMMA KeptAlike ==
  ASSUME LineTypes, \A l \in LineIds : Alike(row[l], row'[l])
  PROVE  PathsKept
<1>1. L!Saved(row') = L!Saved(row)
  BY DEF L!Saved, Alike
<1>2. ASSUME NEW l \in L!Sold, L!PathOk(row, l) PROVE row'[l] # Nobody /\ L!PathOk(row', l)
  <2>1. l \in LineIds /\ row[l] # Nobody
    BY DEF L!Sold, L!Saved
  <2>2. row'[l] # Nobody /\ row'[l].chain = row[l].chain /\ row'[l].exit = row[l].exit /\ row'[l].hops = row[l].hops
    BY <2>1 DEF Alike
  <2> QED BY <1>1, <1>2, <2>2 DEF L!PathOk, L!Path
<1> QED BY <1>2 DEF PathsKept

\* Lines that stay as they are, with landings that stay.
LEMMA KeptSame ==
  ASSUME LineTypes,
         ~overlap' => \A l \in L!Sold : /\ row'[l] = row[l]
                                        /\ \A x \in L!Path(row[l]) : row[x] # Nobody => row'[x] # Nobody
  PROVE  PathsKept
<1>1. ASSUME ~overlap', NEW l \in L!Sold, L!PathOk(row, l) PROVE row'[l] # Nobody /\ L!PathOk(row', l)
  <2>1. l \in LineIds /\ row[l] # Nobody /\ row'[l] = row[l]
    BY <1>1 DEF L!Sold, L!Saved
  <2>2. ASSUME row[l].chain PROVE row[l].exit # Nobody /\ L!Path(row[l]) \subseteq L!Saved(row')
    BY <1>1, <2>2 DEF L!PathOk, L!Saved
  <2> QED BY <2>1, <2>2 DEF L!PathOk
<1> QED BY <1>1 DEF PathsKept

LEMMA LinesCreated ==
  ASSUME LinesInv, NEW h \in Handlers, L!Create(h)
  PROVE  LinesInv' /\ PathsKept
<1> DEFINE r == op[h].new
<1>1. L!Writes(h, "create") /\ UNCHANGED <<alive, pkg, held>>
  BY DEF L!Create
<1>2. r \in L!Line
  BY <1>1, WritesAlone DEF LinesInv, LineTypes, RequestFits
<1>3. CASE nextId \in LineIds /\ row' = [row EXCEPT ![nextId] = r] /\ nextId' = nextId + 1 /\ L!Provision(h, L!Targets(r))
  <2>1. PICK o \in Requests : o.st # "checked" /\ RequestFits(o) /\ op' = [op EXCEPT ![h] = o]
    <3> HIDE DEF r
    <3>1. LineTypes /\ L!Targets(r) \in SUBSET Servers
      BY <1>2, TargetsServers DEF LinesInv
    <3> QED BY <1>3, <3>1, ProvisionIs
  <2>2. row' \in [LineIds -> L!Line \cup {Nobody}] /\ nextId' \in Nat /\ alive' \subseteq Servers
        /\ pkg' \in L!Package \cup {Nobody} /\ held' \in BOOLEAN
    BY <1>1, <1>2, <1>3 DEF LinesInv, LineTypes
  <2>3. \A l \in LineIds : row'[l] = IF l = nextId THEN r ELSE row[l]
    BY <1>3 DEF LinesInv, LineTypes
  <2>4. LinesGivenOut'
    BY <1>3, <2>3, SmallLines DEF LinesInv, LinesGivenOut, LineTypes
  <2>5. LinesInv'
    BY <1>1, <2>1, <2>2, <2>4, LinesWritten
  <2>6. \A l \in LineIds : row[l] # Nobody => row'[l] = row[l]
    BY <1>3, <2>3, SmallLines DEF LinesInv, LinesGivenOut, LineTypes
  <2>7. \A l \in L!Sold : l \in LineIds /\ row[l] # Nobody /\ L!Path(row[l]) \subseteq LineIds
    BY DEF L!Sold, L!Saved, L!Path, LinesInv, LineTypes, L!Line
  <2> QED BY <2>5, <2>6, <2>7, KeptSame DEF LinesInv
<1>4. CASE op' = [op EXCEPT ![h] = L!Idle] /\ UNCHANGED <<row, nextId>>
  <2>1. row' \in [LineIds -> L!Line \cup {Nobody}] /\ nextId' \in Nat /\ alive' \subseteq Servers
        /\ pkg' \in L!Package \cup {Nobody} /\ held' \in BOOLEAN /\ LinesGivenOut'
    BY <1>1, <1>4 DEF LinesInv, LineTypes, LinesGivenOut
  <2>2. LinesInv'
    BY <1>1, <1>4, <2>1, IdleRequest, LinesWritten
  <2>3. \A l \in LineIds : Alike(row[l], row'[l])
    BY <1>4 DEF Alike
  <2> QED BY <2>2, <2>3, KeptAlike DEF LinesInv
<1> QED BY <1>3, <1>4, Zenon DEF L!Create

LEMMA LinesUpdated ==
  ASSUME LinesInv, NEW h \in Handlers, L!Update(h)
  PROVE  LinesInv' /\ PathsKept
<1> DEFINE r == op[h].new
           i == op[h].id
<1>1. L!Writes(h, "update") /\ UNCHANGED <<nextId, alive, pkg, held>>
  BY DEF L!Update
<1>2. r \in L!Line /\ i \in LineIds
  BY <1>1, WritesAlone DEF LinesInv, LineTypes, RequestFits
<1>3. CASE row' = [row EXCEPT ![i] = IF @ = Nobody THEN Nobody ELSE r] /\ L!Provision(h, L!Targets(r))
  <2>1. PICK o \in Requests : o.st # "checked" /\ RequestFits(o) /\ op' = [op EXCEPT ![h] = o]
    <3> HIDE DEF r
    <3>1. LineTypes /\ L!Targets(r) \in SUBSET Servers
      BY <1>2, TargetsServers DEF LinesInv
    <3> QED BY <1>3, <3>1, ProvisionIs
  <2>2. \A l \in LineIds : row'[l] = IF l = i /\ row[l] # Nobody THEN r ELSE row[l]
    <3> HIDE DEF r, i
    <3> QED BY <1>2, <1>3 DEF LinesInv, LineTypes
  <2>3. row' \in [LineIds -> L!Line \cup {Nobody}]
    <3> DEFINE q == IF row[i] = Nobody THEN Nobody ELSE r
    <3>1. row' = [row EXCEPT ![i] = q] /\ q \in L!Line \cup {Nobody}
      BY <1>2, <1>3
    <3> HIDE DEF q
    <3> QED BY <3>1, Zenon DEF LinesInv, LineTypes
  <2>4. nextId' \in Nat /\ alive' \subseteq Servers /\ pkg' \in L!Package \cup {Nobody} /\ held' \in BOOLEAN
    BY <1>1 DEF LinesInv, LineTypes
  <2>5. LinesGivenOut'
    BY <1>1, <2>2 DEF LinesInv, LinesGivenOut
  <2>6. LinesInv'
    BY <1>1, <2>1, <2>3, <2>4, <2>5, LinesWritten
  <2>7. ASSUME ~overlap', NEW l \in L!Sold, L!PathOk(row, l) PROVE row'[l] # Nobody /\ L!PathOk(row', l)
    <3>1. l \in LineIds /\ row[l] # Nobody
      BY DEF L!Sold, L!Saved
    <3>2. L!Saved(row') = L!Saved(row) /\ r # Nobody
      BY <1>2, <2>2, SmallLines DEF L!Saved
    <3>3. CASE l = i
      <4>1. r.chain => r.exit # Nobody /\ L!Path(r) \subseteq L!Saved(row)
        BY <1>1, <2>7, WritesAlone DEF StillGood
      <4> QED BY <2>2, <3>1, <3>2, <3>3, <4>1 DEF L!PathOk
    <3>4. CASE l # i
      BY <2>2, <2>7, <3>1, <3>2, <3>4 DEF L!PathOk
    <3> QED BY <3>3, <3>4
  <2> QED BY <2>6, <2>7 DEF PathsKept
<1>4. CASE op' = [op EXCEPT ![h] = L!Idle] /\ UNCHANGED row
  <2>1. row' \in [LineIds -> L!Line \cup {Nobody}] /\ nextId' \in Nat /\ alive' \subseteq Servers
        /\ pkg' \in L!Package \cup {Nobody} /\ held' \in BOOLEAN /\ LinesGivenOut'
    BY <1>1, <1>4 DEF LinesInv, LineTypes, LinesGivenOut
  <2>2. LinesInv'
    BY <1>1, <1>4, <2>1, IdleRequest, LinesWritten
  <2>3. \A l \in LineIds : Alike(row[l], row'[l])
    BY <1>4 DEF Alike
  <2> QED BY <2>2, <2>3, KeptAlike DEF LinesInv
<1> QED BY <1>3, <1>4, Zenon DEF L!Update

LEMMA LinesDeleted ==
  ASSUME LinesInv, NEW h \in Handlers, L!Delete(h)
  PROVE  LinesInv' /\ PathsKept
<1> DEFINE i == op[h].id
<1>1. L!Writes(h, "delete") /\ UNCHANGED <<nextId, alive, held>> /\ row' = L!Without({i})
      /\ L!Unnamed({i}, {}) /\ L!Provision(h, op[h].todo)
  BY DEF L!Delete
<1>2. i \in LineIds /\ op[h].todo \in SUBSET Servers
  BY <1>1, WritesAlone DEF LinesInv, LineTypes, RequestFits, Requests
<1>3. PICK o \in Requests : o.st # "checked" /\ RequestFits(o) /\ op' = [op EXCEPT ![h] = o]
  BY <1>1, <1>2, ProvisionIs DEF LinesInv
<1>4. /\ row' \in [LineIds -> L!Line \cup {Nobody}]
      /\ \A l \in LineIds : row'[l] # Nobody <=> l # i /\ row[l] # Nobody
      /\ \A l \in LineIds : l # i /\ row[l] # Nobody /\ row[l].exit # i => row'[l] = row[l]
  BY <1>1, WithoutFacts DEF LinesInv
<1>5. pkg' \in L!Package \cup {Nobody}
  BY <1>1, PackageLoses DEF LinesInv
<1>6. nextId' \in Nat /\ alive' \subseteq Servers /\ held' \in BOOLEAN /\ LinesGivenOut'
  BY <1>1, <1>4 DEF LinesInv, LineTypes, LinesGivenOut
<1>7. LinesInv'
  BY <1>1, <1>3, <1>4, <1>5, <1>6, LinesWritten
<1>8. ASSUME ~overlap', NEW l \in L!Sold
      PROVE  row'[l] = row[l] /\ \A x \in L!Path(row[l]) : row[x] # Nobody => row'[x] # Nobody
  <2>1. l \in LineIds /\ row[l] # Nobody /\ l \in L!Saved(row) /\ L!Path(row[l]) \subseteq LineIds
    BY DEF L!Sold, L!Saved, L!Path, LinesInv, LineTypes, L!Line
  <2>2. i \notin L!Sold /\ ~L!PointedAt(i)
    BY <1>1, <1>8, WritesAlone DEF StillGood
  <2>3. i \notin L!Path(row[l])
    BY <2>1, <2>2 DEF L!PointedAt
  <2>4. row[l].exit # i
    BY <1>2, <2>3, SmallLines DEF L!Path
  <2> QED BY <1>4, <2>1, <2>2, <2>3, <2>4
<1> QED BY <1>7, <1>8, KeptSame DEF LinesInv

LEMMA LinesDropped ==
  ASSUME LinesInv, NEW h \in Handlers, L!DeleteServer(h)
  PROVE  LinesInv' /\ PathsKept
<1> DEFINE s == op[h].srv
           gone == {l \in L!Saved(row) : row[l].srv = s}
<1>1. L!Writes(h, "drop") /\ UNCHANGED <<nextId, held>> /\ alive' = alive \ {s} /\ row' = L!Without(gone)
      /\ L!Unnamed(gone, {s}) /\ op' = [op EXCEPT ![h] = L!Idle]
  BY DEF L!DeleteServer
<1>2. \A l : l \in gone <=> l \in LineIds /\ row[l] # Nobody /\ row[l].srv = s
  BY DEF L!Saved
<1> HIDE DEF gone
<1>3. /\ row' \in [LineIds -> L!Line \cup {Nobody}]
      /\ \A l \in LineIds : row'[l] # Nobody <=> l \notin gone /\ row[l] # Nobody
      /\ \A l \in LineIds : l \notin gone /\ row[l] # Nobody /\ row[l].exit \notin gone => row'[l] = row[l]
  BY <1>1, WithoutFacts DEF LinesInv
<1>4. pkg' \in L!Package \cup {Nobody}
  BY <1>1, PackageLoses DEF LinesInv
<1>5. nextId' \in Nat /\ alive' \subseteq Servers /\ held' \in BOOLEAN /\ LinesGivenOut'
  BY <1>1, <1>3 DEF LinesInv, LineTypes, LinesGivenOut
<1>6. LinesInv'
  BY <1>1, <1>3, <1>4, <1>5, IdleRequest, LinesWritten
<1>7. ASSUME ~overlap', NEW l \in L!Sold
      PROVE  row'[l] = row[l] /\ \A x \in L!Path(row[l]) : row[x] # Nobody => row'[x] # Nobody
  <2>1. l \in LineIds /\ row[l] # Nobody /\ L!Path(row[l]) \subseteq LineIds
    BY DEF L!Sold, L!Saved, L!Path, LinesInv, LineTypes, L!Line
  <2>2. ~L!ServerInUse(s)
    BY <1>1, <1>7, WritesAlone DEF StillGood
  <2>3. row[l].srv # s /\ \A x \in L!Path(row[l]) : row[x] # Nobody => row[x].srv # s
    BY <2>2 DEF L!ServerInUse
  <2>4. row[l].exit \notin gone
    BY <1>2, <2>3, SmallLines DEF L!Path
  <2> QED BY <1>2, <1>3, <2>1, <2>3, <2>4
<1> QED BY <1>6, <1>7, KeptSame DEF LinesInv

LEMMA LinesUnbound ==
  ASSUME LinesInv, NEW h \in Handlers, L!UnbindAll(h)
  PROVE  LinesInv' /\ PathsKept
<1> DEFINE o == [op[h] EXCEPT !.st = "unbound"]
<1>1. L!Writes(h, "package") /\ held' = FALSE /\ UNCHANGED <<row, nextId, alive, pkg>> /\ op' = [op EXCEPT ![h] = o]
  BY DEF L!UnbindAll
<1>2. o \in Requests /\ o.st = "unbound" /\ o.kind = op[h].kind /\ o.id = op[h].id /\ o.new = op[h].new
  BY DEF LinesInv, LineTypes, Requests
<1>3. RequestFits(o)
  BY <1>2 DEF LinesInv, LineTypes, RequestFits
<1> HIDE DEF o
<1>4. row' \in [LineIds -> L!Line \cup {Nobody}] /\ nextId' \in Nat /\ alive' \subseteq Servers
      /\ pkg' \in L!Package \cup {Nobody} /\ held' \in BOOLEAN /\ LinesGivenOut'
  BY <1>1 DEF LinesInv, LineTypes, LinesGivenOut
<1>5. LinesInv'
  BY <1>1, <1>2, <1>3, <1>4, LinesWritten
<1>6. \A l \in LineIds : Alike(row[l], row'[l])
  BY <1>1 DEF Alike
<1> QED BY <1>5, <1>6, KeptAlike DEF LinesInv

LEMMA LinesPackageGone ==
  ASSUME LinesInv, NEW h \in Handlers, L!DeletePackage(h)
  PROVE  LinesInv' /\ PathsKept
<1>1. UNCHANGED <<row, nextId, alive, held, overlap>> /\ op' = [op EXCEPT ![h] = L!Idle]
      /\ (held => pkg' = pkg) /\ pkg' \in L!Package \cup {Nobody}
  BY DEF L!DeletePackage, LinesInv, LineTypes
<1>2. LinesInv'
  BY <1>1, IdleRequest, LinesAfter
<1>3. \A l \in LineIds : Alike(row[l], row'[l])
  BY <1>1 DEF Alike
<1> QED BY <1>2, <1>3, KeptAlike DEF LinesInv

LEMMA LinesPushed ==
  ASSUME LinesInv, NEW h \in Handlers, NEW s \in Servers, L!Push(h, s)
  PROVE  LinesInv' /\ PathsKept
<1> DEFINE can == s \in alive /\ L!Builds(row, s)
           first == op[h].st = "push" /\ ~op[h].err
           ports == L!BusyOn(s)
           Done(answered) ==
             [op[h] EXCEPT !.todo = @ \ {s}, !.err = @ \/ ~answered \/ ports # {},
                           !.busy = IF first /\ answered THEN ports ELSE @]
<1>0. PICK answered \in BOOLEAN :
         op' = [op EXCEPT ![h] = IF Done(answered).todo # {} THEN Done(answered)
                                 ELSE IF Done(answered).st = "push" /\ Done(answered).busy # {}
                                 THEN [Done(answered) EXCEPT !.st = "busy"]
                                 ELSE L!Idle]
  BY Zenon DEF L!Push
<1> DEFINE wrong == op[h].err \/ ~answered \/ ports # {}
           found == IF first /\ answered THEN ports ELSE op[h].busy
           left == op[h].todo \ {s}
           one == [op[h] EXCEPT !.todo = left]
           two == [one EXCEPT !.err = wrong]
           done == [two EXCEPT !.busy = found]
           o == IF left # {} THEN done
                ELSE IF done.st = "push" /\ done.busy # {} THEN [done EXCEPT !.st = "busy"]
                ELSE L!Idle
<1>1. UNCHANGED <<row, nextId, alive, pkg, held, overlap>> /\ op[h].st \in {"push", "again"}
  BY DEF L!Push
<1>2. op[h] \in Requests /\ RequestFits(op[h]) /\ op \in [Handlers -> Requests]
  BY DEF LinesInv, LineTypes
<1>3. op' = [op EXCEPT ![h] = o]
  <2>1. op[h].todo \in SUBSET Servers /\ done.todo = left /\ done.st = op[h].st
    BY <1>2 DEF Requests
  <2> QED BY <1>0, <1>2, <2>1
<1>4. ports \in SUBSET Ports
  BY DEF L!BusyOn, L!On, L!Saved, LinesInv, LineTypes, L!Line
<1>5. left \in SUBSET Servers /\ found \in SUBSET Ports
  BY <1>2, <1>4 DEF Requests
<1>6. wrong \in BOOLEAN
  <2> HIDE DEF ports
  <2> QED BY <1>2 DEF Requests
<1> HIDE DEF wrong, found, left
<1>7. one \in Requests /\ one.st = op[h].st /\ one.kind = op[h].kind /\ one.id = op[h].id /\ one.new = op[h].new
  BY <1>2, <1>5 DEF Requests
<1> HIDE DEF one
<1>8. two \in Requests /\ two.st = op[h].st /\ two.kind = op[h].kind /\ two.id = op[h].id /\ two.new = op[h].new
  BY <1>6, <1>7, Zenon DEF Requests
<1> HIDE DEF two
<1>9. done \in Requests /\ done.st = op[h].st /\ done.kind = op[h].kind /\ done.id = op[h].id /\ done.new = op[h].new
  BY <1>5, <1>8 DEF Requests
<1> HIDE DEF done
<1>10. /\ [done EXCEPT !.st = "busy"] \in Requests /\ [done EXCEPT !.st = "busy"].st = "busy"
       /\ [done EXCEPT !.st = "busy"].kind = op[h].kind /\ [done EXCEPT !.st = "busy"].id = op[h].id
       /\ [done EXCEPT !.st = "busy"].new = op[h].new
  BY <1>9 DEF Requests
<1>11. o \in Requests /\ o.st # "checked" /\ RequestFits(o)
  <2>1. RequestFits(done) /\ RequestFits([done EXCEPT !.st = "busy"])
    BY <1>2, <1>9, <1>10 DEF RequestFits
  <2> QED BY <1>1, <1>9, <1>10, <2>1, IdleRequest
<1> HIDE DEF o
<1>12. LinesInv'
  <2>1. pkg' = pkg /\ pkg' \in L!Package \cup {Nobody}
    BY <1>1 DEF LinesInv, LineTypes
  <2> QED BY <1>1, <1>3, <1>11, <2>1, LinesAfter
<1>13. \A l \in LineIds : Alike(row[l], row'[l])
  BY <1>1 DEF Alike
<1> QED BY <1>12, <1>13, KeptAlike DEF LinesInv

LEMMA LinesSwitchedOff ==
  ASSUME LinesInv, NEW h \in Handlers, L!SwitchOff(h)
  PROVE  LinesInv' /\ PathsKept
<1> DEFINE off == {l \in L!Saved(row) : row[l].srv \in op[h].all /\ row[l].port \in op[h].busy /\ row[l].on}
           one == [op[h] EXCEPT !.st = "again"]
           two == [one EXCEPT !.todo = op[h].all]
           o == IF off = {} THEN L!Idle ELSE two
<1>1. /\ UNCHANGED <<nextId, alive, pkg, held, overlap>> /\ off \subseteq L!Saved(row)
      /\ row' = [l \in LineIds |-> IF l \in off THEN [row[l] EXCEPT !.on = FALSE] ELSE row[l]]
  BY DEF L!SwitchOff
<1>2. op[h] \in Requests /\ RequestFits(op[h]) /\ op \in [Handlers -> Requests]
  BY DEF LinesInv, LineTypes
<1>3. op' = [op EXCEPT ![h] = o]
  BY <1>2 DEF L!SwitchOff
<1> HIDE DEF off
<1>4. one \in Requests /\ one.st = "again" /\ one.kind = op[h].kind /\ one.id = op[h].id /\ one.new = op[h].new
  BY <1>2 DEF Requests
<1> HIDE DEF one
<1>5. two \in Requests /\ two.st = "again" /\ two.kind = op[h].kind /\ two.id = op[h].id /\ two.new = op[h].new
  <2>1. op[h].all \in SUBSET Servers
    BY <1>2 DEF Requests
  <2> QED BY <1>4, <2>1 DEF Requests
<1> HIDE DEF two
<1>6. o \in Requests /\ o.st # "checked" /\ RequestFits(o)
  BY <1>2, <1>5, IdleRequest DEF RequestFits
<1> HIDE DEF o
<1>7. \A l \in LineIds : row'[l] \in L!Line \cup {Nobody} /\ Alike(row[l], row'[l])
  <2>1. ASSUME NEW l \in LineIds, l \in off PROVE row'[l] \in L!Line /\ Alike(row[l], row'[l])
    <3>1. row[l] \in L!Line
      BY <1>1, <2>1 DEF L!Saved, LinesInv, LineTypes
    <3>2. row'[l] = [row[l] EXCEPT !.on = FALSE]
      BY <1>1, <2>1
    <3>3. row'[l] \in L!Line /\ row[l] # Nobody /\ row'[l] # Nobody
      BY <3>1, <3>2, SmallLines DEF L!Line
    <3> QED BY <3>1, <3>2, <3>3 DEF Alike, L!Line
  <2>2. ASSUME NEW l \in LineIds, l \notin off PROVE row'[l] \in L!Line \cup {Nobody} /\ Alike(row[l], row'[l])
    BY <1>1, <2>2 DEF Alike, LinesInv, LineTypes
  <2> QED BY <2>1, <2>2
<1>8. row' \in [LineIds -> L!Line \cup {Nobody}]
  <2>1. row' = [l \in LineIds |-> row'[l]]
    BY <1>1
  <2> QED BY <1>7, <2>1, Zenon
<1>9. LineTypes'
  <2>1. nextId' \in Nat /\ alive' \subseteq Servers /\ pkg' \in L!Package \cup {Nobody} /\ held' \in BOOLEAN /\ overlap' \in BOOLEAN
    BY <1>1 DEF LinesInv, LineTypes
  <2> QED BY <1>3, <1>6, <1>8, <2>1, RequestGoesOn, Zenon DEF LinesInv, LineTypes
<1>10. LinesGivenOut'
  BY <1>1, <1>7 DEF LinesInv, LinesGivenOut, Alike
<1>11. ChecksHold'
  <2>1. \A g \in Handlers : op'[g].st = "checked" => op[g].st = "checked" /\ op'[g] = op[g]
    BY <1>3, <1>6, RequestGoesOn, Zenon DEF LinesInv
  <2> QED BY <1>1, <1>7, <2>1, ChecksStay DEF LinesInv
<1> QED BY <1>7, <1>9, <1>10, <1>11, KeptAlike DEF LinesInv

\* A transaction of its own between the two halves of the others.
LEMMA LinesAtOnce ==
  ASSUME LinesInv, (\E p \in L!Packages : L!SavePackage(p)) \/ L!Bind
  PROVE  LinesInv' /\ PathsKept
<1>1. UNCHANGED <<row, nextId, alive, op>> /\ overlap' = (overlap \/ \E g \in Handlers : op[g].st = "checked")
  BY DEF L!SavePackage, L!Bind, L!AtOnce
<1>2. pkg' \in L!Package \cup {Nobody} /\ held' \in BOOLEAN
  <2>1. ASSUME NEW p \in L!Packages, L!SavePackage(p) PROVE pkg' \in L!Package /\ held' = held
    <3>1. p \in L!Package
      BY DEF L!Packages, L!Package
    <3> QED BY <2>1, <3>1 DEF L!SavePackage
  <2>2. CASE L!Bind
    BY <2>2 DEF L!Bind, LinesInv, LineTypes
  <2> QED BY <2>1, <2>2 DEF LinesInv, LineTypes
<1>3. LineTypes'
  <2>1. overlap' \in BOOLEAN
    BY <1>1, Zenon DEF LinesInv, LineTypes
  <2>2. \A g \in Handlers : RequestFits(op[g])'
    BY <1>1, Zenon DEF LinesInv, LineTypes, RequestFits
  <2> QED BY <1>1, <1>2, <2>1, <2>2, Zenon DEF LinesInv, LineTypes
<1>4. LinesGivenOut'
  BY <1>1, Zenon DEF LinesInv, LinesGivenOut
<1>5. ChecksHold'
  BY <1>1, Zenon DEF ChecksHold
<1>6. \A l \in LineIds : Alike(row[l], row'[l])
  BY <1>1 DEF Alike
<1> QED BY <1>3, <1>4, <1>5, <1>6, KeptAlike DEF LinesInv

\* The dispatcher's own pushes, a panel that starts anew, and other steps.
LEMMA LinesRest ==
  ASSUME LinesInv, UNCHANGED <<row, nextId, alive, pkg, held, overlap>>,
         op' = op \/ op' = [g \in Handlers |-> L!Idle]
  PROVE  LinesInv' /\ PathsKept
<1>1. op' \in [Handlers -> Requests] /\ \A g \in Handlers : RequestFits(op'[g])
  BY IdleRequest DEF LinesInv, LineTypes
<1>2. LineTypes'
  <2>1. \A g \in Handlers : RequestFits(op[g])'
    BY <1>1, Zenon DEF RequestFits
  <2> QED BY <1>1, <2>1, Zenon DEF LinesInv, LineTypes
<1>3. LinesGivenOut'
  BY Zenon DEF LinesInv, LinesGivenOut
<1>4. \A l \in LineIds : Alike(row[l], row'[l])
  BY DEF Alike
<1>5. ChecksHold'
  <2>1. \A g \in Handlers : op'[g].st = "checked" => op[g].st = "checked" /\ op'[g] = op[g]
    BY IdleRequest
  <2> QED BY <1>4, <2>1, ChecksStay DEF LinesInv
<1> QED BY <1>2, <1>3, <1>4, <1>5, KeptAlike DEF LinesInv

LEMMA LinesStep == LinesInv /\ [L!Next]_(L!linesVars) => LinesInv' /\ PathsKept
<1> SUFFICES ASSUME LinesInv, [L!Next]_(L!linesVars) PROVE LinesInv' /\ PathsKept
  OBVIOUS
<1>1. CASE UNCHANGED L!linesVars
  BY <1>1, LinesRest DEF L!linesVars
<1>2. ASSUME NEW h \in Handlers,
             \/ \E s \in Servers : (\E r \in L!New(s) : L!CheckCreate(h, s, r)) \/ L!CheckDeleteServer(h, s)
             \/ \E l \in L!Saved(row) : L!CheckDelete(h, l) \/ \E r \in L!Field(row[l]) : L!CheckUpdate(h, l, r)
             \/ L!CheckDeletePackage(h)
      PROVE  LinesInv' /\ PathsKept
  <2>1. row' = row
    BY <1>2 DEF L!CheckCreate, L!CheckDeleteServer, L!CheckDelete, L!CheckUpdate, L!CheckDeletePackage
  <2>2. \A l \in LineIds : Alike(row[l], row'[l])
    BY <2>1 DEF Alike
  <2>3. LinesInv'
    BY <1>2, LinesChecked
  <2> QED BY <2>2, <2>3, KeptAlike DEF LinesInv
<1>3. ASSUME NEW h \in Handlers,
             \/ L!Create(h) \/ L!Update(h) \/ L!Delete(h) \/ L!DeleteServer(h) \/ L!SwitchOff(h)
             \/ L!UnbindAll(h) \/ L!DeletePackage(h) \/ \E s \in Servers : L!Push(h, s)
      PROVE  LinesInv' /\ PathsKept
  BY <1>3, LinesCreated, LinesUpdated, LinesDeleted, LinesDropped, LinesSwitchedOff, LinesUnbound,
     LinesPackageGone, LinesPushed, Zenon
<1>4. CASE (\E p \in L!Packages : L!SavePackage(p)) \/ L!Bind
  BY <1>4, LinesAtOnce
<1>5. CASE (\E s \in Servers : L!LoopPush(s)) \/ L!Restart
  <2>1. UNCHANGED <<row, nextId, alive, pkg, held, overlap>> /\ (op' = op \/ op' = [g \in Handlers |-> L!Idle])
    BY <1>5 DEF L!LoopPush, L!Restart
  <2> QED BY <2>1, LinesRest
<1> QED BY <1>1, <1>2, <1>3, <1>4, <1>5, Zenon DEF L!Next

\* Every row is a line or nothing, every request carries what its kind needs.
THEOREM LineTypeCorrect == L!Spec => []LineTypes
<1>1. LinesInv => LineTypes
  BY DEF LinesInv
<1> QED BY LinesBegin, LinesStep, <1>1, PTL DEF L!Spec

\* A line that customers have stays and keeps its landings (handlers_inbounds.go,
\* handlers_servers.go, db/delete_use.go): what a request has checked still holds
\* when it writes, as long as nobody wrote in between.
THEOREM SoldPathsStayHolds == L!Spec => SoldPathsStay
<1>1. LinesInv /\ [L!Next]_(L!linesVars) =>
        [~overlap' => \A l \in L!Sold : L!PathOk(row, l) => row'[l] # Nobody /\ L!PathOk(row', l)]_(L!linesVars)
  BY LinesStep DEF PathsKept
<1> QED BY LinesBegin, LinesStep, <1>1, PTL DEF L!Spec, SoldPathsStay, L!SoldPathsStay

\* The landings that an entry dials.
Lands(rows, e) == IF rows[e].chain THEN L!Path(rows[e]) ELSE {}

\* A server has been told what the lines say of it: its lines, where they lead,
\* and at least the chains that come through them.
ToldRight(rows, t, s) ==
  /\ DOMAIN t = L!On(rows, s)
  /\ \A e \in L!On(rows, s) :
       /\ \A d \in t[e].dials : d[1] \in Lands(rows, e)
       /\ \A u \in L!Saved(rows) : rows[u].on /\ rows[u].chain /\ e \in L!Path(rows[u]) => u \in t[e].users

\* Some handler has yet to push a server, or a push due to it did not reach it.
ToPush(s) == s \in missed \/ \E h \in Handlers : op[h].st \in {"push", "again"} /\ s \in op[h].todo

Below(r, n) == \A x \in LineIds : x \in L!Path(r) => x < n

\* What a request knows of the line it is about to write.
RequestKnows(o) ==
  o.st = "checked" =>
    /\ o.kind \in {"create", "update"} => Below(o.new, nextId)
    /\ o.kind = "update" => o.id < nextId /\ (row[o.id] # Nobody => row[o.id].srv = o.new.srv)
    /\ o.kind = "delete" => o.id < nextId /\ (row[o.id] # Nobody => row[o.id].srv \in o.todo)

\* Lines lead to ids given out already, so a landing that is gone stays gone.
LinesKnown == \A l \in L!Saved(row) : row[l].srv \in alive /\ Below(row[l], nextId)

\* A server whose configuration builds has been told, or somebody has yet to push it.
ToldOrToPush == \A s \in alive : L!Builds(row, s) => ToPush(s) \/ ToldRight(row, told[s], s)

RelayInv ==
  /\ LinesInv /\ told = [s \in Servers |-> told[s]]
  /\ LinesKnown /\ ToldOrToPush
  /\ \A h \in Handlers : RequestKnows(op[h])

LEMMA BuiltRight ==
  ASSUME NEW rows \in [LineIds -> L!Line \cup {Nobody}], NEW s
  PROVE  ToldRight(rows, L!Built(rows, s), s)
<1> DEFINE t == L!Built(rows, s)
<1>1. t = [l \in L!On(rows, s) |-> [port |-> rows[l].port, dials |-> L!Dials(rows, l), users |-> L!Users(rows, l)]]
  BY DEF L!Built
<1>2. DOMAIN t = L!On(rows, s)
  BY <1>1
<1>3. ASSUME NEW e \in L!On(rows, s)
      PROVE  /\ \A d \in t[e].dials : d[1] \in Lands(rows, e)
             /\ \A u \in L!Saved(rows) : rows[u].on /\ rows[u].chain /\ e \in L!Path(rows[u]) => u \in t[e].users
  <2>1. t[e].dials = L!Dials(rows, e) /\ t[e].users = L!Users(rows, e)
    BY <1>1
  <2>2. \A d \in L!Dials(rows, e) : d[1] \in Lands(rows, e)
    BY DEF L!Dials, Lands
  <2>3. \A u \in L!Saved(rows) : rows[u].on /\ e \in L!Path(rows[u]) => u \in L!Users(rows, e)
    BY DEF L!Users
  <2> QED BY <2>1, <2>2, <2>3
<1> QED BY <1>2, <1>3, Zenon DEF ToldRight

LEMMA RelayBegin == L!Init => RelayInv
<1> SUFFICES ASSUME L!Init PROVE RelayInv
  OBVIOUS
<1>1. /\ row = SavedLines /\ told = [s \in Servers |-> L!Built(SavedLines, s)] /\ alive = Servers
      /\ op = [h \in Handlers |-> L!Idle]
  BY Zenon DEF L!Init
<1>2. told = [s \in Servers |-> told[s]] /\ \A s \in Servers : told[s] = L!Built(row, s)
  BY <1>1
<1>3. ToldOrToPush
  BY <1>1, <1>2, SmallLines, BuiltRight DEF ToldOrToPush
<1>4. \A h \in Handlers : op[h].st # "checked"
  BY <1>1, IdleRequest
<1>5. nextId = Cardinality(L!Saved(SavedLines)) + 1
  BY SmallLines DEF L!Init
<1>6. LinesKnown
  <2>1. ASSUME NEW l \in L!Saved(row) PROVE row[l].srv \in alive
    BY <1>1, SmallLines DEF L!Saved, L!Line
  <2>2. ASSUME NEW l \in L!Saved(row), NEW x \in LineIds, x \in L!Path(row[l]) PROVE x < nextId
    <3>1. L!Saved(SavedLines) = {k \in LineIds : SavedLines[k] # Nobody}
      BY DEF L!Saved
    <3>2. x \in (SavedLines[l].hops \cup {SavedLines[l].exit}) \cap LineIds
      BY <1>1, <2>2 DEF L!Path
    <3>3. x \in L!Saved(SavedLines)
      BY <1>1, <3>1, <3>2, LinesTables, Zenon DEF L!LinesAssumption
    <3> QED BY <1>5, <3>3, SmallLines
  <2> QED BY <2>1, <2>2 DEF LinesKnown, Below
<1> QED BY <1>2, <1>3, <1>4, <1>6, LinesBegin DEF RelayInv, RequestKnows

\* The invariant after a step in which no request checks, from its parts.
LEMMA RelayAfter ==
  ASSUME RelayInv, LinesInv', told' = [s \in Servers |-> told'[s]], nextId' >= nextId,
         \A l \in L!Saved(row') : row'[l].srv \in alive' /\ Below(row'[l], nextId'),
         \A l \in LineIds : l < nextId /\ row'[l] # Nobody => row[l] # Nobody /\ row'[l].srv = row[l].srv,
         \A h \in Handlers : op'[h].st = "checked" => op'[h] = op[h],
         \A s \in alive' : L!Builds(row', s) => ToPush(s)' \/ ToldRight(row', told'[s], s)
  PROVE  RelayInv'
<1>1. nextId \in Nat /\ nextId' \in Nat /\ LineIds \subseteq Nat
  BY SmallLines DEF RelayInv, LinesInv, LineTypes
<1>2. ASSUME NEW h \in Handlers PROVE RequestKnows(op[h])'
  <2>1. CASE op'[h].st # "checked"
    BY <2>1 DEF RequestKnows
  <2>2. CASE op'[h].st = "checked"
    <3> DEFINE o == op[h]
    <3>1. op'[h] = o /\ o.st = "checked" /\ RequestKnows(o) /\ RequestFits(o)
      BY <2>2 DEF RelayInv, LinesInv, LineTypes
    <3>2. ASSUME o.kind \in {"create", "update"} PROVE \A x \in LineIds : x \in L!Path(o.new) => x < nextId'
      <4>1. \A x \in LineIds : x \in L!Path(o.new) => x < nextId
        BY <3>1, <3>2 DEF RequestKnows, Below
      <4> QED BY <1>1, <4>1
    <3>3. ASSUME o.kind = "update"
          PROVE  o.id < nextId' /\ (row'[o.id] # Nobody => row'[o.id].srv = o.new.srv)
      BY <1>1, <3>1, <3>3 DEF RequestKnows, RequestFits
    <3>4. ASSUME o.kind = "delete"
          PROVE  o.id < nextId' /\ (row'[o.id] # Nobody => row'[o.id].srv \in o.todo)
      BY <1>1, <3>1, <3>4 DEF RequestKnows, RequestFits
    <3> HIDE DEF o
    <3> QED BY <3>1, <3>2, <3>3, <3>4 DEF RequestKnows, Below, o
  <2> QED BY <2>1, <2>2
<1>3. LinesKnown'
  BY DEF LinesKnown, Below, L!Saved, L!Path
<1>4. ToldOrToPush'
  BY DEF ToldOrToPush, ToldRight, ToPush, L!Builds, L!On, L!Saved, L!PathOk, L!Path, Lands
<1> QED BY <1>2, <1>3, <1>4 DEF RelayInv

\* A request that has checked knows its line.
LEMMA RelayCheck ==
  ASSUME RelayInv, LinesInv', NEW h \in Handlers, NEW o \in Requests, op' = [op EXCEPT ![h] = o], o.st = "checked",
         op[h].st = "idle", UNCHANGED <<row, nextId, alive, told, missed>>, RequestKnows(o)
  PROVE  RelayInv'
<1>1. op \in [Handlers -> Requests]
  BY DEF RelayInv, LinesInv, LineTypes
<1>2. \A g \in Handlers : op'[g] = IF g = h THEN o ELSE op[g]
  BY <1>1, Zenon
<1>3. ASSUME NEW g \in Handlers PROVE RequestKnows(op[g])'
  <2>1. RequestKnows(op'[g])
    BY <1>2, Zenon DEF RelayInv
  <2> QED BY <2>1 DEF RequestKnows, Below
<1>4. LinesKnown'
  BY Zenon DEF RelayInv, LinesKnown, Below, L!Saved, L!Path
<1>5. ASSUME NEW s \in Servers, ToPush(s) PROVE ToPush(s)'
  BY <1>2, <1>5 DEF ToPush
<1>6. ToldOrToPush'
  <2>1. ASSUME NEW s \in alive', L!Builds(row', s) PROVE ToPush(s)' \/ ToldRight(row', told'[s], s)
    <3>1. s \in Servers /\ (ToPush(s) \/ ToldRight(row, told[s], s))
      BY <2>1 DEF RelayInv, LinesInv, LineTypes, ToldOrToPush
    <3> QED BY <1>5, <3>1
  <2>2. \A s \in alive' : ToldRight(row', told'[s], s) => ToldRight(row, told[s], s)'
    BY Zenon
  <2>3. \A s \in alive' : L!Builds(row, s)' => L!Builds(row', s)
    BY Zenon
  <2> QED BY <2>1, <2>2, <2>3, Zenon DEF ToldOrToPush
<1>7. told' = [s \in Servers |-> told'[s]]
  BY DEF RelayInv
<1> QED BY <1>3, <1>4, <1>6, <1>7, Zenon DEF RelayInv

LEMMA FieldKeeps ==
  ASSUME NEW q \in L!Line, NEW r \in L!Field(q)
  PROVE  r.srv = q.srv /\ (r.hops = q.hops \/ r.chain)
<1> DEFINE Switched == {[q EXCEPT !.on = ~@]}
           Moved == {[q EXCEPT !.port = p] : p \in Ports}
           Left == {[q EXCEPT !.exit = x] : x \in LineIds \cup {Uri}}
           Longer == {L!Chained(q, x, y) : x \in LineIds \cup {Uri}, y \in L!Hops}
           Direct == {[q EXCEPT !.chain = FALSE]}
<1>1. r \in (((Switched \cup Moved) \cup Left) \cup Longer) \cup Direct
  BY DEF L!Field
<1>2. r \in Switched \/ r \in Moved \/ r \in Left \/ r \in Longer \/ r \in Direct
  <2> HIDE DEF Switched, Moved, Left, Longer, Direct
  <2> QED BY <1>1
<1>3. CASE r \in Switched
  BY <1>3 DEF L!Line
<1>4. CASE r \in Moved
  BY <1>4 DEF L!Line
<1>5. CASE r \in Left
  BY <1>5 DEF L!Line
<1>6. CASE r \in Longer
  <2>1. PICK x \in LineIds \cup {Uri}, y \in L!Hops : r = L!Chained(q, x, y)
    BY <1>6
  <2> DEFINE chained == [q EXCEPT !.chain = TRUE]
             left == [chained EXCEPT !.exit = x]
  <2>2. chained \in L!Line /\ chained.chain /\ chained.srv = q.srv
    BY DEF L!Line
  <2> HIDE DEF chained
  <2>3. left \in L!Line /\ left.chain /\ left.srv = q.srv
    BY <2>2 DEF L!Line
  <2>4. r = [left EXCEPT !.hops = y]
    BY <2>1, Zenon DEF L!Chained, chained
  <2> HIDE DEF left
  <2> QED BY <2>3, <2>4 DEF L!Line
<1>7. CASE r \in Direct
  BY <1>7 DEF L!Line
<1> QED BY <1>2, <1>3, <1>4, <1>5, <1>6, <1>7

\* A line that is accepted leads to ids given out already.
LEMMA AcceptedBelow ==
  ASSUME RelayInv, NEW i, NEW r \in L!Line, L!Acceptable(i, r), r.chain \/ \A x \in r.hops : x < nextId
  PROVE  Below(r, nextId)
<1>1. ASSUME NEW x \in LineIds, x \in L!Path(r) PROVE x < nextId
  <2>1. x \in r.hops \/ x = r.exit
    BY <1>1 DEF L!Path
  <2>2. \A l \in L!Saved(row) : l < nextId
    BY DEF L!Saved, RelayInv, LinesInv, LinesGivenOut
  <2>3. CASE x = r.exit
    BY <1>1, <2>2, <2>3, SmallLines DEF L!Acceptable, L!Saved
  <2>4. CASE x \in r.hops
    BY <2>2, <2>4 DEF L!Acceptable
  <2> QED BY <2>1, <2>3, <2>4
<1> QED BY <1>1 DEF Below

LEMMA RelayChecked ==
  ASSUME RelayInv, LinesInv', NEW h \in Handlers,
         \/ \E s \in Servers : (\E r \in L!New(s) : L!CheckCreate(h, s, r)) \/ L!CheckDeleteServer(h, s)
         \/ \E l \in L!Saved(row) : L!CheckDelete(h, l) \/ \E r \in L!Field(row[l]) : L!CheckUpdate(h, l, r)
         \/ L!CheckDeletePackage(h)
  PROVE  RelayInv'
<1>1. UNCHANGED <<row, nextId, alive, told, missed>> /\ op[h].st = "idle"
  BY DEF L!CheckCreate, L!CheckDeleteServer, L!CheckDelete, L!CheckUpdate, L!CheckDeletePackage, L!Begin, L!Free
<1>2. ASSUME NEW s \in Servers, NEW r \in L!New(s), L!CheckCreate(h, s, r) PROVE RelayInv'
  <2>1. r \in L!Line
    BY AskedLines
  <2>2. op' = [op EXCEPT ![h] = AskedToCreate(s, r)] /\ L!Acceptable(Nobody, r)
    BY <1>2, Zenon DEF L!CheckCreate, L!Checked, AskedToCreate
  <2>3. r.hops = {}
    BY DEF L!New
  <2>4. Below(r, nextId)
    BY <2>1, <2>2, <2>3, AcceptedBelow
  <2> DEFINE o == AskedToCreate(s, r)
  <2>5. o \in Requests /\ o.st = "checked" /\ o.kind = "create" /\ o.new = r
    BY <2>1, CheckedCreate
  <2>6. op' = [op EXCEPT ![h] = o]
    BY <2>2
  <2> HIDE DEF o
  <2>7. RequestKnows(o)
    BY <2>4, <2>5 DEF RequestKnows
  <2> QED BY <1>1, <2>5, <2>6, <2>7, RelayCheck
<1>3. ASSUME NEW s \in Servers, L!CheckDeleteServer(h, s) PROVE RelayInv'
  <2> DEFINE o == AskedToDrop(s)
  <2>1. op' = [op EXCEPT ![h] = o]
    BY <1>3, Zenon DEF L!CheckDeleteServer, L!Checked, AskedToDrop
  <2>2. o \in Requests /\ o.st = "checked" /\ o.kind = "drop"
    BY CheckedDrop
  <2> HIDE DEF o
  <2>3. RequestKnows(o)
    BY <2>2 DEF RequestKnows
  <2> QED BY <1>1, <2>1, <2>2, <2>3, RelayCheck
<1>4. ASSUME NEW l \in L!Saved(row), L!CheckDelete(h, l) PROVE RelayInv'
  <2>1. l \in LineIds /\ row[l] \in L!Line /\ row[l] # Nobody /\ l < nextId
    BY DEF L!Saved, RelayInv, LinesInv, LineTypes, LinesGivenOut
  <2> DEFINE t == {row[l].srv} \cup L!Peers(row[l])
             o == AskedToDelete(l, row[l].srv, t)
  <2>2. t \in SUBSET Servers /\ row[l].srv \in Servers /\ row[l].srv \in t
    <3>1. L!Peers(row[l]) \subseteq Servers
      BY <2>1, TargetsServers DEF RelayInv, LinesInv
    <3> QED BY <2>1, <3>1 DEF L!Line
  <2>3. op' = [op EXCEPT ![h] = o]
    BY <1>4, Zenon DEF L!CheckDelete, L!Checked, AskedToDelete
  <2> HIDE DEF t
  <2>4. o \in Requests /\ o.st = "checked" /\ o.kind = "delete" /\ o.id = l /\ o.todo = t
    BY <2>1, <2>2, CheckedDelete
  <2> HIDE DEF o
  <2>5. RequestKnows(o)
    BY <2>1, <2>2, <2>4 DEF RequestKnows
  <2> QED BY <1>1, <2>3, <2>4, <2>5, RelayCheck
<1>5. ASSUME NEW l \in L!Saved(row), NEW r \in L!Field(row[l]), L!CheckUpdate(h, l, r) PROVE RelayInv'
  <2>1. l \in LineIds /\ row[l] \in L!Line /\ l < nextId
    BY DEF L!Saved, RelayInv, LinesInv, LineTypes, LinesGivenOut
  <2> DEFINE o == AskedToUpdate(l, r.srv, r)
  <2>2. r \in L!Line /\ r.srv \in Servers
    BY <2>1, AskedLines DEF L!Line
  <2>3. op' = [op EXCEPT ![h] = o] /\ L!Acceptable(l, r)
    BY <1>5, Zenon DEF L!CheckUpdate, L!Checked, AskedToUpdate
  <2>4. o \in Requests /\ o.st = "checked" /\ o.kind = "update" /\ o.id = l /\ o.new = r
    BY <2>1, <2>2, CheckedUpdate
  <2> HIDE DEF o
  <2>5. r.srv = row[l].srv /\ (r.hops = row[l].hops \/ r.chain)
    BY <2>1, FieldKeeps
  <2>6. \A x \in row[l].hops : x < nextId
    <3>1. row[l].hops \subseteq LineIds /\ \A x \in row[l].hops : x # Nobody /\ x # Uri
      BY <2>1, SmallLines DEF L!Line
    <3>2. \A x \in row[l].hops : x \in LineIds /\ x \in L!Path(row[l])
      BY <3>1 DEF L!Path
    <3>3. Below(row[l], nextId)
      BY DEF RelayInv, LinesKnown
    <3> QED BY <3>2, <3>3 DEF Below
  <2>7. Below(r, nextId)
    <3>1. r.chain \/ \A x \in r.hops : x < nextId
      BY <2>5, <2>6
    <3> QED BY <2>2, <2>3, <3>1, AcceptedBelow
  <2>8. RequestKnows(o)
    BY <2>1, <2>4, <2>5, <2>7 DEF RequestKnows
  <2> QED BY <1>1, <2>3, <2>4, <2>8, RelayCheck
<1>6. CASE L!CheckDeletePackage(h)
  <2> DEFINE o == AskedToPackage
  <2>1. op' = [op EXCEPT ![h] = o]
    BY <1>6, Zenon DEF L!CheckDeletePackage, L!Checked, AskedToPackage
  <2>2. o \in Requests /\ o.st = "checked" /\ o.kind = "package"
    BY CheckedPackage
  <2> HIDE DEF o
  <2>3. RequestKnows(o)
    BY <2>2 DEF RequestKnows
  <2> QED BY <1>1, <2>1, <2>2, <2>3, RelayCheck
<1> QED BY <1>2, <1>3, <1>4, <1>5, <1>6

\* A handler writes, and has the servers of T before it now: the others are told
\* right if they were.
LEMMA RelayWrites ==
  ASSUME RelayInv, LinesInv', NEW h \in Handlers, NEW T \in SUBSET Servers,
         \A g \in Handlers \ {h} : op'[g] = op[g], op[h].st \notin {"push", "again"}, op'[h].st # "checked",
         T \subseteq missed' \/ (op'[h].st \in {"push", "again"} /\ T \subseteq op'[h].todo),
         missed \subseteq missed', told' = told, alive' \subseteq alive, nextId' >= nextId,
         \A l \in L!Saved(row') : row'[l].srv \in alive' /\ Below(row'[l], nextId'),
         \A l \in LineIds : l < nextId /\ row'[l] # Nobody => row[l] # Nobody /\ row'[l].srv = row[l].srv,
         \A s \in alive' \ T : L!Builds(row', s) =>
           /\ L!Builds(row, s) /\ L!On(row', s) = L!On(row, s)
           /\ \A e \in L!On(row, s) :
                /\ Lands(row', e) = Lands(row, e)
                /\ \A u \in L!Saved(row') : row'[u].on /\ row'[u].chain /\ e \in L!Path(row'[u]) =>
                     u \in L!Saved(row) /\ row[u].on /\ row[u].chain /\ e \in L!Path(row[u])
  PROVE  RelayInv'
<1>1. told' = [s \in Servers |-> told'[s]]
  BY DEF RelayInv
<1>2. \A g \in Handlers : op'[g].st = "checked" => op'[g] = op[g]
  OBVIOUS
<1>3. ASSUME NEW s \in alive', L!Builds(row', s) PROVE ToPush(s)' \/ ToldRight(row', told'[s], s)
  <2>1. CASE s \in T
    BY <2>1 DEF ToPush
  <2>2. CASE s \notin T
    <3>1. L!Builds(row, s) /\ s \in alive
      BY <1>3, <2>2
    <3>2. CASE ToPush(s) /\ s \notin missed
      <4>1. PICK g \in Handlers : op[g].st \in {"push", "again"} /\ s \in op[g].todo
        BY <3>2 DEF ToPush
      <4>2. g # h /\ op'[g] = op[g]
        BY <4>1
      <4> QED BY <4>1, <4>2 DEF ToPush
    <3>3. CASE ToldRight(row, told[s], s)
      BY <1>3, <2>2, <3>3 DEF ToldRight
    <3>4. CASE s \in missed
      BY <3>4 DEF ToPush
    <3> QED BY <3>1, <3>2, <3>3, <3>4 DEF RelayInv, ToldOrToPush
  <2> QED BY <2>1, <2>2
<1> QED BY <1>1, <1>2, <1>3, RelayAfter

LEMMA PushNextTells ==
  ASSUME LineTypes, NEW h \in Handlers, NEW which, which # {}, L!PushNext(h, which)
  PROVE  op'[h].st = "push" /\ op'[h].todo = which /\ \A g \in Handlers \ {h} : op'[g] = op[g]
<1>1. op' = [op EXCEPT ![h].st = "push", ![h].todo = which, ![h].all = which]
  BY Zenon DEF L!PushNext
<1>2. op \in [Handlers -> Requests]
  BY DEF LineTypes
<1> QED BY <1>1, <1>2 DEF Requests

\* What becomes of the servers that a handler has to push now.
LEMMA ProvisionTells ==
  ASSUME LineTypes, NEW h \in Handlers, NEW which, which # {}, L!Provision(h, which)
  PROVE  /\ \A g \in Handlers \ {h} : op'[g] = op[g]
         /\ op'[h].st # "checked" /\ missed \subseteq missed'
         /\ which \subseteq missed' \/ (op'[h].st = "push" /\ which \subseteq op'[h].todo)
<1>1. CASE L!PushNext(h, which) /\ UNCHANGED missed
  BY <1>1, PushNextTells
<1>2. CASE op' = [op EXCEPT ![h] = L!Idle] /\ missed' = missed \cup which
  <2>1. op'[h].st = "idle" /\ \A g \in Handlers \ {h} : op'[g] = op[g]
    BY <1>2, IdleRequest DEF LineTypes
  <2> QED BY <1>2, <2>1
<1> QED BY <1>1, <1>2 DEF L!Provision

\* Rows that stay: what is left is to see who is to be pushed.
LEMMA RowsStay ==
  ASSUME RelayInv, UNCHANGED <<row, nextId, alive>>
  PROVE  /\ \A l \in L!Saved(row') : row'[l].srv \in alive' /\ Below(row'[l], nextId')
         /\ \A l \in LineIds : l < nextId /\ row'[l] # Nobody => row[l] # Nobody /\ row'[l].srv = row[l].srv
         /\ nextId' >= nextId /\ alive' \subseteq alive
<1>1. nextId \in Nat
  BY DEF RelayInv, LinesInv, LineTypes
<1> QED BY <1>1 DEF RelayInv, LinesKnown

\* Handlers that go on without a word to a server.
LEMMA RelayQuiet ==
  ASSUME RelayInv, LinesInv', NEW h \in Handlers, UNCHANGED <<row, nextId, alive, told>>, missed \subseteq missed',
         \A g \in Handlers \ {h} : op'[g] = op[g], op[h].st \notin {"push", "again"}, op'[h].st # "checked"
  PROVE  RelayInv'
<1>1. {} \in SUBSET Servers
  OBVIOUS
<1>2. \A s \in alive' \ {} : L!Builds(row', s) =>
           /\ L!Builds(row, s) /\ L!On(row', s) = L!On(row, s)
           /\ \A e \in L!On(row, s) :
                /\ Lands(row', e) = Lands(row, e)
                /\ \A u \in L!Saved(row') : row'[u].on /\ row'[u].chain /\ e \in L!Path(row'[u]) =>
                     u \in L!Saved(row) /\ row[u].on /\ row[u].chain /\ e \in L!Path(row[u])
  BY Zenon
<1> QED BY <1>1, <1>2, RowsStay, RelayWrites

\* The one line that is written takes its place; the chain it is, if it is one,
\* has the servers of its landings pushed.
LEMMA RelayRow ==
  ASSUME RelayInv, LinesInv', NEW h \in Handlers, NEW i \in LineIds, NEW r \in L!Line, i < nextId',
         \/ nextId' = nextId /\ row[i] # Nobody /\ row[i].srv = r.srv
         \/ nextId' = nextId + 1 /\ i = nextId,
         row' = [row EXCEPT ![i] = r], r.srv \in alive, Below(r, nextId), UNCHANGED <<alive, told>>,
         L!Provision(h, L!Targets(r)), op[h].st = "checked"
  PROVE  RelayInv'
<1> DEFINE T == L!Targets(r)
<1>1. T \in SUBSET Servers /\ r.srv \in T
  BY TargetsServers DEF RelayInv, LinesInv, L!Targets
<1>2. /\ \A g \in Handlers \ {h} : op'[g] = op[g]
      /\ op'[h].st # "checked" /\ missed \subseteq missed'
      /\ T \subseteq missed' \/ (op'[h].st = "push" /\ T \subseteq op'[h].todo)
  <2> HIDE DEF T
  <2>1. T # {} /\ L!Provision(h, T)
    BY <1>1 DEF T
  <2> QED BY <2>1, ProvisionTells DEF RelayInv, LinesInv
<1>3. row \in [LineIds -> L!Line \cup {Nobody}] /\ nextId \in Nat /\ LineIds \subseteq Nat /\ r # Nobody
  BY SmallLines DEF RelayInv, LinesInv, LineTypes
<1>4. \A l \in LineIds : row'[l] = IF l = i THEN r ELSE row[l]
  BY <1>3
<1>5. \A l \in LineIds : row[l] # Nobody => l < nextId
  BY DEF RelayInv, LinesInv, LinesGivenOut
<1>6. \A x \in LineIds : x < nextId => (row'[x] # Nobody <=> row[x] # Nobody)
  BY <1>3, <1>4
<1>7. nextId' >= nextId /\ alive' \subseteq alive
  BY <1>3
<1>8. ASSUME NEW l \in L!Saved(row') PROVE row'[l].srv \in alive' /\ Below(row'[l], nextId')
  <2>1. CASE l = i
    BY <1>3, <1>4, <1>7, <2>1 DEF Below, L!Saved
  <2>2. CASE l # i
    <3>1. l \in L!Saved(row) /\ row'[l] = row[l]
      BY <1>4, <2>2 DEF L!Saved
    <3> QED BY <1>3, <1>7, <3>1 DEF RelayInv, LinesKnown, Below
  <2> QED BY <2>1, <2>2
<1>9. \A l \in LineIds : l < nextId /\ row'[l] # Nobody => row[l] # Nobody /\ row'[l].srv = row[l].srv
  BY <1>3, <1>4
<1>10. ASSUME NEW s \in alive' \ T, L!Builds(row', s)
       PROVE  /\ L!Builds(row, s) /\ L!On(row', s) = L!On(row, s)
              /\ \A e \in L!On(row, s) :
                   /\ Lands(row', e) = Lands(row, e)
                   /\ \A u \in L!Saved(row') : row'[u].on /\ row'[u].chain /\ e \in L!Path(row'[u]) =>
                        u \in L!Saved(row) /\ row[u].on /\ row[u].chain /\ e \in L!Path(row[u])
  <2>1. s # r.srv
    BY <1>1
  <2>2. \A l \in LineIds : l \in L!On(row, s) => l # i /\ row'[l] = row[l] /\ row[l] # Nobody
    BY <1>3, <1>4, <1>5, <2>1 DEF L!On, L!Saved
  <2>3. L!On(row', s) = L!On(row, s)
    BY <1>4, <2>1, <2>2 DEF L!On, L!Saved
  <2>4. \A e \in L!On(row, s) : e \in LineIds /\ e # i /\ row'[e] = row[e] /\ e \in L!Saved(row) /\ row[e].srv = s
    BY <2>2 DEF L!On, L!Saved
  <2>5. ASSUME NEW e \in L!On(row, s) PROVE L!PathOk(row, e)
    <3>1. L!PathOk(row', e)
      BY <1>10, <2>3 DEF L!Builds
    <3>2. ASSUME NEW x \in L!Path(row[e]), x \in L!Saved(row') PROVE x \in L!Saved(row)
      <4>1. Below(row[e], nextId) /\ x \in LineIds
        BY <2>4, <3>2 DEF RelayInv, LinesKnown, L!Saved
      <4> QED BY <1>6, <3>2, <4>1 DEF Below, L!Saved
    <3> QED BY <2>4, <3>1, <3>2 DEF L!PathOk
  <2>6. L!Builds(row, s)
    BY <2>5 DEF L!Builds
  <2>7. \A e \in L!On(row, s) : Lands(row', e) = Lands(row, e)
    BY <2>4 DEF Lands
  <2>8. ASSUME NEW e \in L!On(row, s), NEW u \in L!Saved(row'), row'[u].on, row'[u].chain, e \in L!Path(row'[u])
        PROVE  u \in L!Saved(row) /\ row[u].on /\ row[u].chain /\ e \in L!Path(row[u])
    <3>1. u # i
      <4>1. ASSUME u = i PROVE s \in L!Peers(r)
        <5>1. row'[u] = r
          BY <1>4, <4>1
        <5> QED BY <2>4, <2>8, <5>1 DEF L!Peers
      <4> QED BY <4>1 DEF L!Targets
    <3> QED BY <1>4, <2>8, <3>1 DEF L!Saved
  <2> QED BY <2>3, <2>6, <2>7, <2>8
<1> HIDE DEF T
<1> QED BY <1>1, <1>2, <1>7, <1>8, <1>9, <1>10, RelayWrites

LEMMA RelayCreated ==
  ASSUME RelayInv, LinesInv', NEW h \in Handlers, L!Create(h)
  PROVE  RelayInv'
<1> DEFINE r == op[h].new
<1>1. L!Writes(h, "create") /\ UNCHANGED <<alive, told>>
  BY DEF L!Create
<1>2. op[h].st = "checked" /\ op[h].kind = "create" /\ r \in L!Line /\ Below(r, nextId)
  BY <1>1, WritesAlone DEF RelayInv, LinesInv, LineTypes, RequestFits, RequestKnows
<1>3. CASE /\ nextId \in LineIds /\ row' = [row EXCEPT ![nextId] = r] /\ nextId' = nextId + 1
           /\ L!Provision(h, L!Targets(r)) /\ r.srv \in alive
  <2>1. nextId < nextId'
    BY <1>3 DEF RelayInv, LinesInv, LineTypes
  <2> HIDE DEF r
  <2> QED BY <1>1, <1>2, <1>3, <2>1, RelayRow
<1>4. CASE op' = [op EXCEPT ![h] = L!Idle] /\ UNCHANGED <<row, nextId, missed>>
  <2>1. op'[h].st = "idle" /\ \A g \in Handlers \ {h} : op'[g] = op[g]
    BY <1>4, IdleRequest DEF RelayInv, LinesInv, LineTypes
  <2> QED BY <1>1, <1>2, <1>4, <2>1, RelayQuiet
<1> QED BY <1>3, <1>4, Zenon DEF L!Create

LEMMA RelayUpdated ==
  ASSUME RelayInv, LinesInv', NEW h \in Handlers, L!Update(h)
  PROVE  RelayInv'
<1> DEFINE r == op[h].new
           i == op[h].id
<1>1. L!Writes(h, "update") /\ UNCHANGED <<nextId, alive, told>>
  BY DEF L!Update
<1>2. /\ op[h].st = "checked" /\ op[h].kind = "update" /\ r \in L!Line /\ Below(r, nextId)
      /\ i \in LineIds /\ i < nextId /\ (row[i] # Nobody => row[i].srv = r.srv)
  BY <1>1, WritesAlone DEF RelayInv, LinesInv, LineTypes, RequestFits, RequestKnows
<1>3. CASE row' = [row EXCEPT ![i] = IF @ = Nobody THEN Nobody ELSE r] /\ L!Provision(h, L!Targets(r))
  <2>1. CASE row[i] # Nobody
    <3>1. row' = [row EXCEPT ![i] = r]
      BY <1>2, <1>3, <2>1 DEF RelayInv, LinesInv, LineTypes
    <3>2. r.srv \in alive
      BY <1>2, <2>1 DEF RelayInv, LinesKnown, L!Saved
    <3> HIDE DEF r, i
    <3>3. i < nextId' /\ nextId' = nextId /\ row[i] # Nobody /\ row[i].srv = r.srv
      BY <1>1, <1>2, <2>1
    <3> QED BY <1>1, <1>2, <1>3, <3>1, <3>2, <3>3, RelayRow
  <2>2. CASE row[i] = Nobody
    <3>1. row' = row
      BY <1>2, <1>3, <2>2 DEF RelayInv, LinesInv, LineTypes
    <3>2. L!Targets(r) # {}
      BY DEF L!Targets
    <3>3. /\ \A g \in Handlers \ {h} : op'[g] = op[g]
          /\ op'[h].st # "checked" /\ missed \subseteq missed'
      <4> HIDE DEF r
      <4> QED BY <1>3, <3>2, ProvisionTells DEF RelayInv, LinesInv
    <3> QED BY <1>1, <1>2, <3>1, <3>3, RelayQuiet
  <2> QED BY <2>1, <2>2
<1>4. CASE op' = [op EXCEPT ![h] = L!Idle] /\ UNCHANGED <<row, missed>>
  <2>1. op'[h].st = "idle" /\ \A g \in Handlers \ {h} : op'[g] = op[g]
    BY <1>4, IdleRequest DEF RelayInv, LinesInv, LineTypes
  <2> QED BY <1>1, <1>2, <1>4, <2>1, RelayQuiet
<1> QED BY <1>3, <1>4, Zenon DEF L!Update

\* Lines that are deleted: those that led through them build no more, unless
\* they need them no more.
LEMMA RelayWithout ==
  ASSUME RelayInv, LinesInv', NEW h \in Handlers, NEW S \in SUBSET LineIds, NEW T \in SUBSET Servers,
         row' = L!Without(S), UNCHANGED <<nextId, told>>, alive' \subseteq alive, op[h].st = "checked",
         \A g \in Handlers \ {h} : op'[g] = op[g], op'[h].st # "checked",
         T \subseteq missed' \/ (op'[h].st \in {"push", "again"} /\ T \subseteq op'[h].todo), missed \subseteq missed',
         \A l \in S : row[l] # Nobody => row[l].srv \notin alive' \ T,
         \A l \in L!Saved(row) : l \in S \/ row[l].srv \in alive'
  PROVE  RelayInv'
<1>1. row \in [LineIds -> L!Line \cup {Nobody}] /\ nextId \in Nat
  BY DEF RelayInv, LinesInv, LineTypes
<1>2. \A l \in LineIds : row'[l] =
        IF l \in S \/ row[l] = Nobody THEN Nobody
        ELSE IF row[l].exit \in S THEN [row[l] EXCEPT !.exit = Nobody] ELSE row[l]
  BY DEF L!Without
<1>3. \A l \in LineIds : row'[l] # Nobody <=> l \notin S /\ row[l] # Nobody
  BY WithoutFacts DEF RelayInv, LinesInv
<1>4. ASSUME NEW l \in LineIds, row'[l] # Nobody
      PROVE  /\ row'[l].srv = row[l].srv /\ row'[l].on = row[l].on /\ row'[l].chain = row[l].chain
             /\ L!Path(row'[l]) \subseteq L!Path(row[l])
             /\ row'[l].exit # Nobody => row'[l] = row[l]
  <2>1. row[l] \in L!Line /\ (row'[l] = row[l] \/ row'[l] = [row[l] EXCEPT !.exit = Nobody])
    BY <1>1, <1>2, <1>3, <1>4
  <2> QED BY <2>1 DEF L!Line, L!Path
<1>5. nextId' >= nextId
  BY <1>1
<1>6. ASSUME NEW l \in L!Saved(row') PROVE row'[l].srv \in alive' /\ Below(row'[l], nextId')
  <2>1. l \in LineIds /\ row'[l] # Nobody /\ l \notin S /\ l \in L!Saved(row)
    BY <1>3 DEF L!Saved
  <2>2. Below(row[l], nextId)
    BY <2>1 DEF RelayInv, LinesKnown
  <2> QED BY <1>4, <2>1, <2>2 DEF Below
<1>7. \A l \in LineIds : l < nextId /\ row'[l] # Nobody => row[l] # Nobody /\ row'[l].srv = row[l].srv
  BY <1>3, <1>4
<1>8. ASSUME NEW s \in alive' \ T, L!Builds(row', s)
      PROVE  /\ L!Builds(row, s) /\ L!On(row', s) = L!On(row, s)
             /\ \A e \in L!On(row, s) :
                  /\ Lands(row', e) = Lands(row, e)
                  /\ \A u \in L!Saved(row') : row'[u].on /\ row'[u].chain /\ e \in L!Path(row'[u]) =>
                       u \in L!Saved(row) /\ row[u].on /\ row[u].chain /\ e \in L!Path(row[u])
  <2>1. \A l \in LineIds : row[l] # Nobody /\ row[l].srv = s => l \notin S
    BY <1>8
  <2>2. L!On(row', s) = L!On(row, s)
    BY <1>3, <1>4, <2>1 DEF L!On, L!Saved
  <2>3. ASSUME NEW e \in L!On(row, s)
        PROVE  Lands(row', e) = Lands(row, e) /\ L!PathOk(row, e)
    <3>1. e \in LineIds /\ row[e] # Nobody /\ row'[e] # Nobody /\ row'[e].chain = row[e].chain
      BY <1>3, <1>4, <2>1 DEF L!On, L!Saved
    <3>2. CASE row[e].chain
      <4>1. L!PathOk(row', e)
        BY <1>8, <2>2 DEF L!Builds
      <4>2. row'[e].exit # Nobody /\ L!Path(row'[e]) \subseteq L!Saved(row')
        BY <3>1, <3>2, <4>1 DEF L!PathOk
      <4>3. row'[e] = row[e]
        BY <1>4, <3>1, <4>2
      <4>4. L!Saved(row') \subseteq L!Saved(row)
        BY <1>3 DEF L!Saved
      <4> QED BY <4>2, <4>3, <4>4 DEF Lands, L!PathOk
    <3>3. CASE ~row[e].chain
      BY <3>1, <3>3 DEF Lands, L!PathOk
    <3> QED BY <3>2, <3>3
  <2>4. ASSUME NEW e \in L!On(row, s), NEW u \in L!Saved(row'), row'[u].on, row'[u].chain, e \in L!Path(row'[u])
        PROVE  u \in L!Saved(row) /\ row[u].on /\ row[u].chain /\ e \in L!Path(row[u])
    <3>1. u \in LineIds /\ row'[u] # Nobody /\ row[u] # Nobody
      BY <1>3 DEF L!Saved
    <3> QED BY <1>4, <2>4, <3>1 DEF L!Saved
  <2>5. L!Builds(row, s)
    BY <2>3 DEF L!Builds
  <2> QED BY <2>2, <2>3, <2>4, <2>5
<1>9. op[h].st \notin {"push", "again"} /\ told' = told
  OBVIOUS
<1> QED BY <1>5, <1>6, <1>7, <1>8, <1>9, RelayWrites

LEMMA RelayDeleted ==
  ASSUME RelayInv, LinesInv', NEW h \in Handlers, L!Delete(h)
  PROVE  RelayInv'
<1> DEFINE i == op[h].id
           T == op[h].todo
<1>1. L!Writes(h, "delete") /\ UNCHANGED <<nextId, alive, told>> /\ row' = L!Without({i}) /\ L!Provision(h, T)
  BY DEF L!Delete
<1>2. /\ op[h].st = "checked" /\ op[h].kind = "delete" /\ i \in LineIds /\ T \in SUBSET Servers
      /\ row[i] # Nobody => row[i].srv \in T
  BY <1>1, WritesAlone DEF RelayInv, LinesInv, LineTypes, RequestFits, RequestKnows, Requests
<1>3. /\ \A g \in Handlers \ {h} : op'[g] = op[g]
      /\ op'[h].st # "checked" /\ missed \subseteq missed'
      /\ T \subseteq missed' \/ (op'[h].st \in {"push", "again"} /\ T \subseteq op'[h].todo)
  <2>1. CASE T # {}
    <3> HIDE DEF T
    <3> QED BY <1>1, <2>1, ProvisionTells DEF RelayInv, LinesInv
  <2>2. CASE T = {}
    <3>1. \/ op' = [op EXCEPT ![h].st = "idle", ![h].todo = T, ![h].all = T] /\ missed' = missed
          \/ op' = [op EXCEPT ![h] = L!Idle] /\ missed' = missed \cup T
      BY <1>1, <2>2, Zenon DEF L!Provision, L!PushNext
    <3>2. op \in [Handlers -> Requests]
      BY DEF RelayInv, LinesInv, LineTypes
    <3> HIDE DEF T
    <3> QED BY <2>2, <3>1, <3>2, IdleRequest DEF Requests
  <2> QED BY <2>1, <2>2
<1>4. \A l \in {i} : row[l] # Nobody => row[l].srv \notin alive' \ T
  BY <1>2
<1>5. \A l \in L!Saved(row) : l \in {i} \/ row[l].srv \in alive'
  BY <1>1 DEF RelayInv, LinesKnown
<1>6. {i} \in SUBSET LineIds /\ alive' \subseteq alive
  BY <1>1, <1>2
<1> HIDE DEF i, T
<1> QED BY <1>1, <1>2, <1>3, <1>4, <1>5, <1>6, RelayWithout

LEMMA RelayDropped ==
  ASSUME RelayInv, LinesInv', NEW h \in Handlers, L!DeleteServer(h)
  PROVE  RelayInv'
<1> DEFINE s == op[h].srv
           gone == {l \in L!Saved(row) : row[l].srv = s}
<1>1. L!Writes(h, "drop") /\ UNCHANGED <<nextId, told, missed>> /\ alive' = alive \ {s} /\ row' = L!Without(gone)
      /\ op' = [op EXCEPT ![h] = L!Idle]
  BY DEF L!DeleteServer
<1>2. op[h].st = "checked"
  BY <1>1, WritesAlone DEF RelayInv
<1>3. gone \in SUBSET LineIds /\ (\A l \in gone : row[l].srv \notin alive') /\ alive' \subseteq alive
  BY <1>1 DEF L!Saved
<1>4. \A l \in L!Saved(row) : l \in gone \/ row[l].srv \in alive'
  BY <1>1 DEF RelayInv, LinesKnown
<1>5. op'[h].st = "idle" /\ \A g \in Handlers \ {h} : op'[g] = op[g]
  BY <1>1, IdleRequest DEF RelayInv, LinesInv, LineTypes
<1> DEFINE T == {}
<1>6. T \in SUBSET Servers /\ T \subseteq missed' /\ missed \subseteq missed'
      /\ (\A l \in gone : row[l] # Nobody => row[l].srv \notin alive' \ T)
  BY <1>1, <1>3
<1> HIDE DEF gone, s
<1> QED BY <1>1, <1>2, <1>3, <1>4, <1>5, <1>6, RelayWithout

\* What a push leaves to be done.
LEMMA PushTells ==
  ASSUME LineTypes, NEW h \in Handlers, NEW s \in Servers, L!Push(h, s)
  PROVE  /\ op'[h].st # "checked" /\ \A g \in Handlers \ {h} : op'[g] = op[g]
         /\ op[h].todo \ {s} # {} => op'[h].st = op[h].st /\ op'[h].todo = op[h].todo \ {s}
<1> DEFINE first == op[h].st = "push" /\ ~op[h].err
           Done(answered) ==
             [op[h] EXCEPT !.todo = @ \ {s}, !.err = @ \/ ~answered \/ L!BusyOn(s) # {},
                           !.busy = IF first /\ answered THEN L!BusyOn(s) ELSE @]
<1>0. PICK answered \in BOOLEAN :
         op' = [op EXCEPT ![h] = IF Done(answered).todo # {} THEN Done(answered)
                                 ELSE IF Done(answered).st = "push" /\ Done(answered).busy # {}
                                 THEN [Done(answered) EXCEPT !.st = "busy"]
                                 ELSE L!Idle]
  BY Zenon DEF L!Push
<1> DEFINE wrong == op[h].err \/ ~answered \/ L!BusyOn(s) # {}
           found == IF first /\ answered THEN L!BusyOn(s) ELSE op[h].busy
           left == op[h].todo \ {s}
           one == [op[h] EXCEPT !.todo = left]
           two == [one EXCEPT !.err = wrong]
           done == [two EXCEPT !.busy = found]
           o == IF left # {} THEN done
                ELSE IF done.st = "push" /\ done.busy # {} THEN [done EXCEPT !.st = "busy"]
                ELSE L!Idle
<1>1. op[h] \in Requests /\ op \in [Handlers -> Requests] /\ op[h].st \in {"push", "again"}
  BY DEF LineTypes, L!Push
<1>2. op' = [op EXCEPT ![h] = o]
  <2>1. op[h].todo \in SUBSET Servers /\ done.todo = left /\ done.st = op[h].st
    BY <1>1 DEF Requests
  <2> QED BY <1>0, <1>1, <2>1
<1>3. done.st = op[h].st /\ done.todo = left /\ [done EXCEPT !.st = "busy"].st = "busy"
  BY <1>1 DEF Requests
<1> HIDE DEF done, left
<1>4. o.st # "checked" /\ (left # {} => o.st = op[h].st /\ o.todo = left)
  BY <1>1, <1>3, IdleRequest
<1> HIDE DEF o
<1> QED BY <1>1, <1>2, <1>4 DEF left

LEMMA RelayPushed ==
  ASSUME RelayInv, LinesInv', NEW h \in Handlers, NEW s \in Servers, L!Push(h, s)
  PROVE  RelayInv'
<1>1. UNCHANGED <<row, nextId, alive>> /\ op[h].st \in {"push", "again"}
  BY DEF L!Push
<1>2. PICK sent \in BOOLEAN :
        /\ told' = IF sent THEN [told EXCEPT ![s] = L!Built(row, s)] ELSE told
        /\ missed' = IF sent THEN missed \ {s}
                     ELSE IF s \in alive /\ L!Builds(row, s) THEN missed \cup {s} ELSE missed
  BY Zenon DEF L!Push
<1>3. told' = [t \in Servers |-> told'[t]] /\ \A t \in Servers : t # s => told'[t] = told[t]
  <2>1. told = [t \in Servers |-> told[t]]
    BY DEF RelayInv
  <2> DEFINE b == L!Built(row, s)
  <2>2. told' = told \/ told' = [told EXCEPT ![s] = b]
    BY <1>2
  <2> HIDE DEF b
  <2> QED BY <2>1, <2>2
<1>4. s \in alive /\ L!Builds(row, s) => s \in missed' \/ told'[s] = L!Built(row, s)
  <2>1. told = [t \in Servers |-> told[t]]
    BY DEF RelayInv
  <2> DEFINE b == L!Built(row, s)
  <2>2. s \in alive /\ L!Builds(row, s) => s \in missed' \/ told' = [told EXCEPT ![s] = b]
    BY <1>2
  <2> HIDE DEF b
  <2>3. s \in alive /\ L!Builds(row, s) => s \in missed' \/ told'[s] = b
    BY <2>1, <2>2
  <2> QED BY <2>3 DEF b
<1>5. /\ op'[h].st # "checked" /\ \A g \in Handlers \ {h} : op'[g] = op[g]
      /\ op[h].todo \ {s} # {} => op'[h].st = op[h].st /\ op'[h].todo = op[h].todo \ {s}
  BY PushTells DEF RelayInv, LinesInv
<1>6. ASSUME NEW t \in alive', L!Builds(row', t) PROVE ToPush(t)' \/ ToldRight(row', told'[t], t)
  <2>1. t \in Servers /\ t \in alive /\ L!Builds(row, t)
    BY <1>1, <1>6 DEF RelayInv, LinesInv, LineTypes
  <2>2. CASE t = s /\ t \notin missed'
    <3>1. row \in [LineIds -> L!Line \cup {Nobody}]
      BY DEF RelayInv, LinesInv, LineTypes
    <3>2. ToldRight(row, L!Built(row, t), t)
      BY <3>1, BuiltRight
    <3>3. told'[t] = L!Built(row, t)
      BY <1>4, <2>1, <2>2
    <3> QED BY <1>1, <3>2, <3>3
  <2>5. CASE t \in missed'
    BY <2>5 DEF ToPush
  <2>6. CASE t # s /\ t \in missed
    BY <1>2, <2>6 DEF ToPush
  <2>3. CASE t # s /\ ToPush(t) /\ t \notin missed
    <3>1. PICK g \in Handlers : op[g].st \in {"push", "again"} /\ t \in op[g].todo
      BY <2>3 DEF ToPush
    <3>2. CASE g = h
      <4>1. t \in op[h].todo \ {s}
        BY <2>3, <3>1, <3>2
      <4>2. op'[h].st = op[h].st /\ t \in op'[h].todo
        BY <1>5, <4>1
      <4> QED BY <1>1, <4>2 DEF ToPush
    <3>3. CASE g # h
      BY <1>5, <3>1, <3>3 DEF ToPush
    <3> QED BY <3>2, <3>3
  <2>4. CASE t # s /\ ToldRight(row, told[t], t)
    BY <1>1, <1>3, <2>1, <2>4
  <2> QED BY <2>1, <2>2, <2>3, <2>4, <2>5, <2>6 DEF RelayInv, ToldOrToPush
<1>7. \A g \in Handlers : op'[g].st = "checked" => op'[g] = op[g]
  BY <1>5
<1> QED BY <1>1, <1>3, <1>6, <1>7, RowsStay, RelayAfter

\* Lines that are switched off are on servers that will be pushed again.
LEMMA RelaySwitchedOff ==
  ASSUME RelayInv, LinesInv', NEW h \in Handlers, L!SwitchOff(h)
  PROVE  RelayInv'
<1> DEFINE off == {l \in L!Saved(row) : row[l].srv \in op[h].all /\ row[l].port \in op[h].busy /\ row[l].on}
           T == op[h].all
           one == [op[h] EXCEPT !.st = "again"]
           two == [one EXCEPT !.todo = T]
<1>1. /\ UNCHANGED <<nextId, alive, told, missed>> /\ op[h].st = "busy"
      /\ row' = [l \in LineIds |-> IF l \in off THEN [row[l] EXCEPT !.on = FALSE] ELSE row[l]]
  BY DEF L!SwitchOff
<1>2. op[h] \in Requests /\ op \in [Handlers -> Requests] /\ row \in [LineIds -> L!Line \cup {Nobody}] /\ nextId \in Nat
  BY DEF RelayInv, LinesInv, LineTypes
<1>3. \A l \in off : l \in LineIds /\ row[l] # Nobody /\ row[l].srv \in T
  BY DEF L!Saved
<1>4. CASE off = {}
  <2>1. row' = row
    BY <1>1, <1>2, <1>4
  <2>2. op' = [op EXCEPT ![h] = L!Idle]
    BY <1>4 DEF L!SwitchOff
  <2>3. op'[h].st = "idle" /\ \A g \in Handlers \ {h} : op'[g] = op[g]
    BY <1>2, <2>2, IdleRequest
  <2> HIDE DEF off
  <2> QED BY <1>1, <2>1, <2>3, RelayQuiet
<1>5. CASE off # {}
  <2>1. op' = [op EXCEPT ![h] = two]
    BY <1>2, <1>5 DEF L!SwitchOff
  <2>2. op'[h].st = "again" /\ op'[h].todo = T /\ T \in SUBSET Servers /\ \A g \in Handlers \ {h} : op'[g] = op[g]
    BY <1>2, <2>1 DEF Requests
  <2> HIDE DEF T, off, two
  <2>3. ASSUME NEW l \in LineIds
        PROVE  /\ row'[l] # Nobody <=> row[l] # Nobody
               /\ l \notin off => row'[l] = row[l]
               /\ row[l] # Nobody => /\ row'[l].srv = row[l].srv /\ row'[l].chain = row[l].chain
                                     /\ row'[l].exit = row[l].exit /\ row'[l].hops = row[l].hops
                                     /\ row'[l].on => row[l].on
    <3>1. CASE l \notin off
      BY <1>1, <3>1
    <3>2. CASE l \in off
      <4>1. row[l] \in L!Line /\ row[l] # Nobody /\ row'[l] = [row[l] EXCEPT !.on = FALSE]
        BY <1>1, <1>2, <1>3, <3>2
      <4>2. row'[l] \in L!Line /\ row'[l] # Nobody
        BY <4>1, SmallLines DEF L!Line
      <4> QED BY <3>2, <4>1, <4>2 DEF L!Line
    <3> QED BY <3>1, <3>2
  <2>4. L!Saved(row') = L!Saved(row) /\ \A l \in L!Saved(row) : L!Path(row'[l]) = L!Path(row[l])
    BY <2>3 DEF L!Saved, L!Path
  <2>5. \A l \in L!Saved(row') : row'[l].srv \in alive' /\ Below(row'[l], nextId')
    <3>1. \A l \in L!Saved(row) : row[l].srv \in alive /\ Below(row[l], nextId)
      BY DEF RelayInv, LinesKnown
    <3> QED BY <1>1, <2>3, <2>4, <3>1 DEF Below, L!Saved
  <2>6. \A l \in LineIds : l < nextId /\ row'[l] # Nobody => row[l] # Nobody /\ row'[l].srv = row[l].srv
    BY <2>3
  <2>7. ASSUME NEW s \in alive' \ T, L!Builds(row', s)
        PROVE  /\ L!Builds(row, s) /\ L!On(row', s) = L!On(row, s)
               /\ \A e \in L!On(row, s) :
                    /\ Lands(row', e) = Lands(row, e)
                    /\ \A u \in L!Saved(row') : row'[u].on /\ row'[u].chain /\ e \in L!Path(row'[u]) =>
                         u \in L!Saved(row) /\ row[u].on /\ row[u].chain /\ e \in L!Path(row[u])
    <3>1. \A l \in LineIds : row[l] # Nobody /\ row[l].srv = s => row'[l] = row[l]
      BY <1>3, <2>3, <2>7
    <3>2. L!On(row', s) = L!On(row, s)
      BY <2>3, <3>1 DEF L!On, L!Saved
    <3>3. \A e \in L!On(row, s) : row'[e] = row[e]
      BY <3>1 DEF L!On, L!Saved
    <3>4. L!Builds(row, s)
      BY <2>4, <2>7, <3>2, <3>3 DEF L!Builds, L!PathOk
    <3>5. \A e \in L!On(row, s) : Lands(row', e) = Lands(row, e)
      BY <3>3 DEF Lands
    <3>6. ASSUME NEW e \in L!On(row, s), NEW u \in L!Saved(row'), row'[u].on, row'[u].chain, e \in L!Path(row'[u])
          PROVE  u \in L!Saved(row) /\ row[u].on /\ row[u].chain /\ e \in L!Path(row[u])
      BY <2>3, <2>4, <3>6 DEF L!Saved
    <3> QED BY <3>2, <3>4, <3>5, <3>6
  <2>8. nextId' >= nextId /\ told' = told /\ alive' \subseteq alive /\ op[h].st \notin {"push", "again"} /\ op'[h].st # "checked"
        /\ missed \subseteq missed' /\ (T \subseteq missed' \/ (op'[h].st \in {"push", "again"} /\ T \subseteq op'[h].todo))
    BY <1>1, <1>2, <2>2
  <2> QED BY <2>2, <2>5, <2>6, <2>7, <2>8, RelayWrites
<1> QED BY <1>4, <1>5

\* Steps that leave lines and requests alone.
LEMMA RelayRest ==
  ASSUME RelayInv, LinesInv', UNCHANGED <<row, nextId, alive>>, op' = op, told' = [s \in Servers |-> told'[s]],
         \A s \in Servers : told'[s] = L!Built(row, s) \/ (told'[s] = told[s] /\ (s \in missed => s \in missed'))
  PROVE  RelayInv'
<1>1. ASSUME NEW s \in alive', L!Builds(row', s) PROVE ToPush(s)' \/ ToldRight(row', told'[s], s)
  <2>1. s \in Servers /\ s \in alive /\ L!Builds(row, s) /\ row \in [LineIds -> L!Line \cup {Nobody}]
    BY <1>1 DEF RelayInv, LinesInv, LineTypes
  <2>2. CASE told'[s] = L!Built(row, s)
    BY <2>1, <2>2, BuiltRight
  <2>3. CASE told'[s] = told[s] /\ (s \in missed => s \in missed')
    <3>1. ToPush(s) => ToPush(s)'
      BY <2>3 DEF ToPush
    <3> QED BY <2>1, <2>3, <3>1 DEF RelayInv, ToldOrToPush
  <2> QED BY <2>1, <2>2, <2>3
<1>2. \A g \in Handlers : op'[g].st = "checked" => op'[g] = op[g]
  OBVIOUS
<1> QED BY <1>1, <1>2, RowsStay, RelayAfter

\* A panel that starts anew has missed what its requests had still to push.
LEMMA RelayRestarts ==
  ASSUME RelayInv, LinesInv', L!Restart
  PROVE  RelayInv'
<1> DEFINE pushing == {g \in Handlers : op[g].st \in {"push", "again"}}
           due == UNION {op[h].todo : h \in pushing}
<1>1. /\ UNCHANGED <<row, nextId, alive, told>> /\ op' = [h \in Handlers |-> L!Idle]
      /\ missed' = missed \cup due
  BY Zenon DEF L!Restart
<1>2. \A s : ToPush(s) => s \in missed'
  BY <1>1 DEF ToPush
<1>3. ASSUME NEW s \in alive', L!Builds(row', s) PROVE ToPush(s)' \/ ToldRight(row', told'[s], s)
  <2>1. ToPush(s) => ToPush(s)'
    BY <1>2 DEF ToPush
  <2> QED BY <1>1, <1>3, <2>1 DEF RelayInv, ToldOrToPush
<1>4. told' = [s \in Servers |-> told'[s]] /\ \A h \in Handlers : op'[h].st = "checked" => op'[h] = op[h]
  BY <1>1, IdleRequest DEF RelayInv
<1> HIDE DEF due
<1> QED BY <1>1, <1>3, <1>4, RowsStay, RelayAfter

LEMMA RelayStep == RelayInv /\ [L!Next]_(L!linesVars) => RelayInv'
<1> SUFFICES ASSUME RelayInv, [L!Next]_(L!linesVars) PROVE RelayInv'
  OBVIOUS
<1>1. LinesInv'
  BY LinesStep DEF RelayInv
<1>2. told = [s \in Servers |-> told[s]]
  BY DEF RelayInv
<1>3. CASE UNCHANGED L!linesVars
  <2>1. UNCHANGED <<row, nextId, alive, op, told, missed>>
    BY <1>3 DEF L!linesVars
  <2> QED BY <1>1, <1>2, <2>1, RelayRest
<1>4. ASSUME NEW h \in Handlers,
             \/ \E s \in Servers : (\E r \in L!New(s) : L!CheckCreate(h, s, r)) \/ L!CheckDeleteServer(h, s)
             \/ \E l \in L!Saved(row) : L!CheckDelete(h, l) \/ \E r \in L!Field(row[l]) : L!CheckUpdate(h, l, r)
             \/ L!CheckDeletePackage(h)
      PROVE  RelayInv'
  BY <1>1, <1>4, RelayChecked
<1>5. ASSUME NEW h \in Handlers,
             \/ L!Create(h) \/ L!Update(h) \/ L!Delete(h) \/ L!DeleteServer(h) \/ L!SwitchOff(h)
             \/ \E s \in Servers : L!Push(h, s)
      PROVE  RelayInv'
  BY <1>1, <1>5, RelayCreated, RelayUpdated, RelayDeleted, RelayDropped, RelaySwitchedOff, RelayPushed, Zenon
<1>6. ASSUME NEW h \in Handlers, L!UnbindAll(h) \/ L!DeletePackage(h) PROVE RelayInv'
  <2>1. op \in [Handlers -> Requests]
    BY DEF RelayInv, LinesInv, LineTypes
  <2>2. UNCHANGED <<row, nextId, alive, told, missed>> /\ missed \subseteq missed' /\ op[h].st \in {"checked", "unbound"}
        /\ (op' = [op EXCEPT ![h].st = "unbound"] \/ op' = [op EXCEPT ![h] = L!Idle])
    BY <1>6 DEF L!UnbindAll, L!DeletePackage, L!Writes
  <2>3. op'[h].st # "checked" /\ \A g \in Handlers \ {h} : op'[g] = op[g]
    BY <2>1, <2>2, IdleRequest DEF Requests
  <2> QED BY <1>1, <2>2, <2>3, RelayQuiet
<1>7. CASE (\E p \in L!Packages : L!SavePackage(p)) \/ L!Bind
  <2>1. UNCHANGED <<row, nextId, alive, op, told, missed>>
    BY <1>7 DEF L!SavePackage, L!Bind, L!AtOnce
  <2> QED BY <1>1, <1>2, <2>1, RelayRest
<1>8. ASSUME NEW s \in Servers, L!LoopPush(s) PROVE RelayInv'
  <2> DEFINE b == L!Built(row, s)
  <2>1. UNCHANGED <<row, nextId, alive, op>> /\ told' = [told EXCEPT ![s] = b] /\ missed' = missed \ {s}
    BY <1>8, Zenon DEF L!LoopPush
  <2> HIDE DEF b
  <2>2. told' = [t \in Servers |-> told'[t]]
        /\ \A t \in Servers : (t = s /\ told'[t] = b) \/ (told'[t] = told[t] /\ (t \in missed => t \in missed'))
    BY <1>2, <2>1
  <2>3. \A t \in Servers : told'[t] = L!Built(row, t) \/ (told'[t] = told[t] /\ (t \in missed => t \in missed'))
    BY <2>2, Zenon DEF b
  <2> QED BY <1>1, <2>1, <2>2, <2>3, RelayRest
<1>9. CASE L!Restart
  BY <1>1, <1>9, RelayRestarts
<1> QED BY <1>3, <1>4, <1>5, <1>6, <1>7, <1>8, <1>9, Zenon DEF L!Next

\* A landing admits every chain that dials it (applyTargets, chainPeerServerIDs,
\* forEachRelayTo): when nobody has anything left to push, both servers have been
\* told since the last of the two changed.
THEOREM RelaysAgreeHolds == L!Spec => []RelaysAgree
<1>1. RelayInv => RelaysAgree
  <2> SUFFICES ASSUME RelayInv, L!Quiet, NEW s \in alive \ missed, L!Builds(row, s), NEW e \in DOMAIN told[s],
                      NEW d \in told[s][e].dials, row[d[1]] # Nobody, row[d[1]].on, L!Builds(row, row[d[1]].srv),
                      row[d[1]].srv \notin missed
               PROVE  /\ d[1] \in DOMAIN told[row[d[1]].srv]
                      /\ e \in told[row[d[1]].srv][d[1]].users
    BY DEF RelaysAgree, L!RelaysAgree
  <2>1. \A t \in alive \ missed : ~ToPush(t)
    BY DEF L!Quiet, ToPush
  <2>2. ToldRight(row, told[s], s)
    BY <2>1 DEF RelayInv, ToldOrToPush
  <2>3. e \in L!On(row, s) /\ d[1] \in Lands(row, e)
    BY <2>2 DEF ToldRight
  <2>4. e \in L!Saved(row) /\ row[e].on /\ row[e].chain /\ d[1] \in L!Path(row[e])
    BY <2>3 DEF L!On, Lands
  <2>5. d[1] \in LineIds
    <3>1. row[e] \in L!Line
      BY <2>4 DEF L!Saved, RelayInv, LinesInv, LineTypes
    <3> QED BY <2>4, <3>1 DEF L!Path, L!Line
  <2> DEFINE l == d[1]
             t == row[l].srv
  <2>6. l \in L!On(row, t) /\ t \in alive
    BY <2>5 DEF L!On, L!Saved, RelayInv, LinesKnown
  <2>7. ToldRight(row, told[t], t)
    BY <2>1, <2>6 DEF RelayInv, ToldOrToPush
  <2> QED BY <2>4, <2>6, <2>7 DEF ToldRight
<1> QED BY RelayBegin, RelayStep, <1>1, PTL DEF L!Spec

-----------------------------------------------------------------------------
(***************************************************************************)
(* WireGuard nodes and what Build makes of them (WGPlan).                  *)
(***************************************************************************)

NodeEdits ==
  [st : {"idle", "checked", "push"}, kind : {"none", "create", "update", "delete"},
   id : Nodes \cup {Nobody}, read : W!Row \cup {Nobody}, new : W!Row \cup {Nobody}, todo : SUBSET Servers]

EditFits(o) ==
  /\ o.kind \in {"create", "update"} => o.new \in W!Row
  /\ o.kind \in {"update", "delete"} => o.id \in Nodes /\ o.read \in W!Row

NodeTable == [Nodes -> W!Row \cup {Nobody}]

\* What the last pushes told the servers is left out.
PlanTypes ==
  /\ node \in NodeTable /\ nextNode \in Nat /\ raced \in BOOLEAN /\ stale \in BOOLEAN
  /\ edit \in [Handlers -> NodeEdits]
  /\ \A h \in Handlers : EditFits(edit[h])
  /\ \A s \in Servers : build[s].by # Nobody => build[s].rows \in NodeTable

\* An id of a node is given out once.
NodesGivenOut == \A i \in Nodes : node[i] # Nobody => i < nextNode

\* Any two saved nodes get on, and none leaves through its own server.
AllApart(rows) ==
  \A i \in W!Saved(rows) :
    /\ rows[i].exit # rows[i].srv
    /\ \A j \in W!Saved(rows) \ {i} : W!Apart(rows[i], rows[j])

\* What a request has checked it may still write.
NodeChecked(o) == o.kind \in {"create", "update"} => W!Acceptable(o.id, o.new) /\ (o.kind = "create" => o.id = Nobody)

PlanInv ==
  /\ PlanTypes /\ NodesGivenOut
  /\ ~raced /\ ~stale =>
       /\ AllApart(node)
       /\ \A h \in Handlers : edit[h].st = "checked" => NodeChecked(edit[h])

LEMMA SmallPlan ==
  /\ IsFiniteSet(Nodes) /\ Nodes \subseteq Nat /\ Cap \in Nat
  /\ Nobody \notin Nodes /\ Nobody \notin Servers /\ Nobody \notin W!Slots /\ Nobody \notin W!Row
  /\ SavedNodes \in NodeTable /\ AllApart(SavedNodes)
  /\ Cardinality(W!Saved(SavedNodes)) \in Nat
  /\ W!Saved(SavedNodes) = 1..Cardinality(W!Saved(SavedNodes))
  /\ \A S : W!Cardinality(S) = Cardinality(S)
<1>1. W!IsFiniteSet(Nodes) <=> IsFiniteSet(Nodes)
  BY Zenon DEF W!IsFiniteSet, IsFiniteSet
<1>2. \A S : W!Cardinality(S) = Cardinality(S)
  BY Zenon DEF W!Cardinality, Cardinality
<1>3. IsFiniteSet(Nodes)
  BY <1>1, PlanTables DEF W!WGPlanAssumption
<1>4. Cardinality(W!Saved(SavedNodes)) \in Nat
  BY <1>3, FS_Subset, FS_CardinalityType DEF W!Saved
<1>5. W!Saved(SavedNodes) = 1..W!Cardinality(W!Saved(SavedNodes))
  BY PlanTables, Zenon DEF W!WGPlanAssumption
<1>6. W!Saved(SavedNodes) = 1..Cardinality(W!Saved(SavedNodes))
  BY <1>2, <1>5, Zenon
<1>7. AllApart(SavedNodes)
  BY PlanTables, Zenon DEF W!WGPlanAssumption, AllApart
<1>8. /\ Nodes \subseteq Nat /\ Cap \in Nat
      /\ Nobody \notin Nodes /\ Nobody \notin Servers /\ Nobody \notin W!Slots /\ Nobody \notin W!Row
      /\ SavedNodes \in NodeTable
  BY PlanTables, Zenon DEF W!WGPlanAssumption, NodeTable
<1> QED BY <1>2, <1>3, <1>4, <1>6, <1>7, <1>8, Zenon

\* A node that holds no slot of its own gets a free one, by its rank among
\* those like it (assignWGSlots): there is one for every node of a server.
LEMMA FreeSlot ==
  ASSUME NEW rows \in NodeTable, NEW E \in SUBSET W!Saved(rows), NEW i \in E \ W!Claims(rows, E)
  PROVE  LET free == W!Slots \ {rows[j].slot : j \in W!Claims(rows, E)} IN
         /\ W!Slot(rows, E, i) \in free
         /\ Cardinality({d \in free : d < W!Slot(rows, E, i)}) = Cardinality({j \in E \ W!Claims(rows, E) : j < i})
<1> DEFINE Keep == W!Claims(rows, E)
           Taken == {rows[j].slot : j \in Keep}
           free == W!Slots \ Taken
           rest == E \ Keep
           before == {j \in rest : j < i}
<1>0. E \subseteq Nodes /\ (\A j \in E : rows[j] \in W!Row) /\ Keep \subseteq E /\ i \notin Keep /\ i \in E
  BY DEF W!Saved, NodeTable, W!Claims
<1> HIDE DEF Keep
<1>1. IsFiniteSet(E) /\ IsFiniteSet(Keep) /\ IsFiniteSet(rest) /\ IsFiniteSet(before)
  BY <1>0, SmallPlan, FS_Subset
<1>2. /\ Cardinality(E) \in Nat /\ Cardinality(Keep) \in Nat /\ Cardinality(rest) \in Nat
      /\ Cardinality(before) \in Nat /\ Cardinality(Nodes) \in Nat
  BY <1>1, SmallPlan, FS_CardinalityType
<1>3. Cardinality(E) <= Cardinality(Nodes)
  BY <1>0, SmallPlan, FS_Subset
<1>4. Cardinality(rest) = Cardinality(E) - Cardinality(Keep)
  <2>1. Cardinality(rest) = Cardinality(E) - Cardinality(E \cap Keep)
    BY <1>1, FS_Difference
  <2>2. E \cap Keep = Keep
    BY <1>0
  <2> QED BY <2>1, <2>2
<1>5. Cardinality(before) < Cardinality(rest)
  <2>1. i \in Nat /\ i \in rest /\ i \notin before
    BY <1>0, SmallPlan
  <2>2. before \in SUBSET rest /\ before # rest
    BY <2>1
  <2>3. Cardinality(before) <= Cardinality(rest) /\ Cardinality(before) # Cardinality(rest)
    BY <1>1, <2>2, FS_Subset
  <2> QED BY <1>2, <2>3
<1>6. IsFiniteSet(Taken) /\ Cardinality(Taken) <= Cardinality(Keep)
  <2> DEFINE f == [j \in Keep |-> rows[j].slot]
  <2>1. f \in Surjection(Keep, Taken)
    BY DEF Surjection
  <2> HIDE DEF f, Taken
  <2> QED BY <1>1, <2>1, FS_Surjection
<1>7. W!Slots = 0..(Cardinality(Nodes) - 1)
  BY SmallPlan DEF W!Slots
<1>8. IsFiniteSet(W!Slots) /\ Cardinality(W!Slots) = Cardinality(Nodes) /\ W!Slots \subseteq Nat
  <2>1. 0 \in Int /\ Cardinality(Nodes) - 1 \in Int
    BY <1>2
  <2>2. /\ IsFiniteSet(0..(Cardinality(Nodes) - 1))
        /\ Cardinality(0..(Cardinality(Nodes) - 1)) =
             IF 0 > Cardinality(Nodes) - 1 THEN 0 ELSE (Cardinality(Nodes) - 1) - 0 + 1
    BY <2>1, FS_Interval
  <2> QED BY <1>2, <1>7, <2>2
<1>9. IsFiniteSet(free) /\ Cardinality(free) = Cardinality(W!Slots) - Cardinality(W!Slots \cap Taken)
  BY <1>8, FS_Difference
<1>10. Cardinality(W!Slots \cap Taken) <= Cardinality(Taken) /\ Cardinality(W!Slots \cap Taken) \in Nat
       /\ Cardinality(Taken) \in Nat
  <2>1. IsFiniteSet(W!Slots \cap Taken)
    BY <1>8, FS_Subset
  <2> QED BY <1>6, <2>1, FS_Subset, FS_CardinalityType
<1>11. Cardinality(before) + 1 \in 1..Cardinality(free)
  <2> HIDE DEF free, Taken, rest, before
  <2> QED BY <1>2, <1>3, <1>4, <1>5, <1>6, <1>8, <1>9, <1>10
<1>12. free \subseteq Nat
  BY <1>8
<1>13. \E c \in free : Cardinality({d \in free : d < c}) = Cardinality(before)
  <2> DEFINE k == Cardinality(before) + 1
  <2>1. k \in 1..Cardinality(free) /\ k - 1 = Cardinality(before)
    BY <1>2, <1>11
  <2> HIDE DEF k, free, before
  <2>2. \E c \in free : Cardinality({d \in free : d < c}) = k - 1
    BY <1>9, <1>12, <2>1, RankTaken
  <2> QED BY <2>1, <2>2
<1> DEFINE found == CHOOSE c \in free : Cardinality({d \in free : d < c}) = Cardinality(before)
<1>14. found \in free /\ Cardinality({d \in free : d < found}) = Cardinality(before)
  <2> HIDE DEF free, before
  <2> QED BY <1>13
<1>15. W!Slot(rows, E, i) = CHOOSE c \in free : W!Cardinality({d \in free : d < c}) = W!Cardinality(before)
  BY Zenon DEF W!Slot, Keep
<1>16. W!Slot(rows, E, i) = found
  <2> HIDE DEF free, before
  <2> QED BY <1>15, Zenon DEF W!Cardinality, Cardinality
<1>17. free = W!Slots \ {rows[j].slot : j \in W!Claims(rows, E)} /\ before = {j \in E \ W!Claims(rows, E) : j < i}
  BY Zenon DEF Keep
<1> HIDE DEF free, before, found
<1> QED BY <1>14, <1>16, <1>17, Zenon

LEMMA SlotIsSlot ==
  ASSUME NEW rows \in NodeTable, NEW E \in SUBSET W!Saved(rows), NEW i \in E
  PROVE  W!Slot(rows, E, i) \in W!Slots
<1>1. CASE i \in W!Claims(rows, E)
  <2>1. rows[i].slot \in W!Slots
    BY <1>1 DEF W!Saved, NodeTable, W!Claims, W!Row
  <2> QED BY <1>1, <2>1, Zenon DEF W!Slot
<1>2. CASE i \notin W!Claims(rows, E)
  BY <1>2, FreeSlot
<1> QED BY <1>1, <1>2

\* Nodes that get on pairwise and dial servers with an address can be built
\* (buildWireGuard, checkWGNetworks).
LEMMA ApartBuilds ==
  ASSUME NEW rows \in NodeTable, AllApart(rows), NEW s \in Servers, NEW hosts,
         W!Cardinality(W!Enabled(rows, s)) <= Cap, W!Dialled(rows, s) \subseteq hosts
  PROVE  W!Plannable(rows, s, hosts)
<1> DEFINE E == W!Enabled(rows, s)
           Homes == W!HomeOf(rows, s)
<1>1. \A i \in E : i \in W!Saved(rows) /\ rows[i].srv = s /\ rows[i].on
  BY DEF W!Enabled
<1>2. \A i \in Homes : i \in W!Saved(rows) /\ rows[i].exit = s /\ rows[i].on
  BY DEF W!HomeOf
<1> HIDE DEF E, Homes
<1>3. \A i, j \in W!Saved(rows) : i # j => W!Apart(rows[i], rows[j])
  BY DEF AllApart
<1>4. \A i, j \in Homes : i = j
  <2>1. \A i, j \in Homes : i # j => rows[i].exit = rows[j].exit /\ rows[i].exit # Nobody /\ rows[i].on /\ rows[j].on
    BY <1>2, SmallPlan
  <2> QED BY <1>2, <1>3, <2>1 DEF W!Apart
<1>5. W!Cardinality(Homes) <= 1
  <2>1. CASE Homes = {}
    BY <2>1, SmallPlan, FS_EmptySet
  <2>2. CASE Homes # {}
    <3>1. \E i : Homes = {i}
      <4>1. PICK i : i \in Homes
        BY <2>2
      <4>2. Homes = {i}
        BY <1>4, <4>1
      <4> QED BY <4>2
    <3>2. PICK i : Homes = {i}
      BY <3>1
    <3>3. Cardinality({i}) = 1
      BY FS_Singleton
    <3>4. W!Cardinality(Homes) = Cardinality({i})
      BY <3>2, SmallPlan, Zenon
    <3> QED BY <3>3, <3>4
  <2> QED BY <2>1, <2>2
<1>6. E # {} => Homes = {}
  <2>1. ASSUME NEW i \in E, NEW j \in Homes PROVE FALSE
    <3>1. CASE i = j
      BY <1>1, <1>2, <2>1, <3>1 DEF AllApart
    <3>2. CASE i # j
      <4>1. W!Apart(rows[j], rows[i])
        BY <1>1, <1>2, <1>3, <3>2
      <4> QED BY <1>1, <1>2, <4>1 DEF W!Apart
    <3> QED BY <3>1, <3>2
  <2> QED BY <2>1
<1>7. \A i, j \in E : i # j => rows[i].port # rows[j].port /\ rows[i].net # rows[j].net
  BY <1>1, <1>3 DEF W!Apart
<1>8. W!Slottable(rows, s)
  BY <1>5, <1>6, <1>7, Zenon DEF W!Slottable, W!NetsApart, E, Homes
<1> QED BY <1>7, <1>8, Zenon DEF W!Plannable, E

LEMMA IdleEdit == W!Idle \in NodeEdits /\ EditFits(W!Idle) /\ W!Idle.st = "idle"
BY DEF W!Idle, NodeEdits, EditFits

LEMMA PlanBegin == W!Init => PlanInv
<1> SUFFICES ASSUME W!Init PROVE PlanInv
  OBVIOUS
<1>1. /\ edit = [h \in Handlers |-> W!Idle] /\ node = SavedNodes /\ raced = FALSE /\ stale = FALSE
      /\ build = [s \in Servers |-> W!NoBuild]
  BY Zenon DEF W!Init
<1>2. nextNode = Cardinality(W!Saved(SavedNodes)) + 1
  BY SmallPlan DEF W!Init
<1>3. \A h \in Handlers : edit[h] = W!Idle
  BY <1>1
<1>4. PlanTypes
  <2>1. edit \in [Handlers -> NodeEdits]
    BY <1>1, IdleEdit
  <2>2. \A h \in Handlers : EditFits(edit[h])
    BY <1>3, IdleEdit, Zenon
  <2>3. \A s \in Servers : build[s].by = Nobody
    BY <1>1 DEF W!NoBuild
  <2>4. nextNode \in Nat
    BY <1>2, SmallPlan
  <2> QED BY <1>1, <2>1, <2>2, <2>3, <2>4, SmallPlan, Zenon DEF PlanTypes
<1>5. NodesGivenOut
  <2>1. \A i \in Nodes : node[i] # Nobody => i \in W!Saved(SavedNodes)
    BY <1>1 DEF W!Saved
  <2> QED BY <1>2, <2>1, SmallPlan DEF NodesGivenOut
<1>6. \A h \in Handlers : edit[h].st # "checked"
  BY <1>3, IdleEdit
<1> QED BY <1>1, <1>4, <1>5, <1>6, SmallPlan, Zenon DEF PlanInv

LEMMA EditGoesOn ==
  ASSUME PlanTypes, NEW h \in Handlers, NEW o \in NodeEdits, EditFits(o), edit' = [edit EXCEPT ![h] = o]
  PROVE  /\ edit' \in [Handlers -> NodeEdits]
         /\ \A g \in Handlers : edit'[g] = IF g = h THEN o ELSE edit[g]
         /\ \A g \in Handlers : EditFits(edit'[g])
<1>1. edit' \in [Handlers -> NodeEdits]
  BY Zenon DEF PlanTypes
<1>2. \A g \in Handlers : edit'[g] = IF g = h THEN o ELSE edit[g]
  BY Zenon DEF PlanTypes
<1> QED BY <1>1, <1>2, Zenon DEF PlanTypes

\* The invariant after a step, from its parts.
LEMMA PlanAfter ==
  ASSUME node' \in NodeTable, nextNode' \in Nat, raced' \in BOOLEAN, stale' \in BOOLEAN,
         edit' \in [Handlers -> NodeEdits], \A g \in Handlers : EditFits(edit'[g]),
         \A s \in Servers : build'[s].by # Nobody => build'[s].rows \in NodeTable,
         \A i \in Nodes : node'[i] # Nobody => i < nextNode',
         ~raced' /\ ~stale' => AllApart(node') /\ \A g \in Handlers : edit'[g].st = "checked" => NodeChecked(edit[g])'
  PROVE  PlanInv'
<1>1. \A g \in Handlers : EditFits(edit[g])'
  BY Zenon DEF EditFits
<1>2. PlanTypes'
  BY <1>1, Zenon DEF PlanTypes
<1>3. AllApart(node') => AllApart(node)'
  BY Zenon DEF AllApart, W!Saved, W!Apart
<1> QED BY <1>2, <1>3, Zenon DEF PlanInv, NodesGivenOut

\* What has been checked against the saved nodes stays so while they do.
LEMMA CheckedStays ==
  ASSUME node' = node, NEW g \in Handlers, NodeChecked(edit'[g])
  PROVE  NodeChecked(edit[g])'
BY DEF NodeChecked, W!Acceptable, W!ExitAllowed, W!Others, W!Saved, W!NetsApart

\* A request that has checked.
LEMMA PlanCheck ==
  ASSUME PlanInv, NEW h \in Handlers, NEW o \in NodeEdits, EditFits(o), NodeChecked(o),
         edit' = [edit EXCEPT ![h] = o], UNCHANGED <<node, nextNode, build, raced, stale>>
  PROVE  PlanInv'
<1>1. node' \in NodeTable /\ nextNode' \in Nat /\ raced' \in BOOLEAN /\ stale' \in BOOLEAN
      /\ (\A s \in Servers : build'[s].by # Nobody => build'[s].rows \in NodeTable)
      /\ (\A i \in Nodes : node'[i] # Nobody => i < nextNode')
  BY Zenon DEF PlanInv, PlanTypes, NodesGivenOut
<1>2. edit' \in [Handlers -> NodeEdits] /\ (\A g \in Handlers : EditFits(edit'[g]))
      /\ \A g \in Handlers : edit'[g] = IF g = h THEN o ELSE edit[g]
  BY EditGoesOn, Zenon DEF PlanInv
<1>3. ASSUME ~raced', ~stale' PROVE AllApart(node') /\ \A g \in Handlers : edit'[g].st = "checked" => NodeChecked(edit[g])'
  <2>1. AllApart(node')
    BY <1>3, Zenon DEF PlanInv
  <2>2. \A g \in Handlers : edit'[g].st = "checked" => NodeChecked(edit'[g])
    BY <1>2, <1>3, Zenon DEF PlanInv
  <2> QED BY <2>1, <2>2, CheckedStays, Zenon
<1> QED BY <1>1, <1>2, <1>3, PlanAfter, Zenon

\* What a request asks for is a node.
LEMMA AskedNodes ==
  /\ \A s \in Servers : W!New(s) \subseteq W!Row
  /\ \A q \in W!Row : W!Field(q) \subseteq W!Row
<1>1. ASSUME NEW s \in Servers, NEW r \in W!New(s) PROVE r \in W!Row
  <2>1. PICK n \in Nets, p \in Ports, o \in {TRUE}, x \in Servers \cup {Nobody} :
          r = [srv |-> s, net |-> n, port |-> p, on |-> o, exit |-> x, slot |-> Nobody]
    BY DEF W!New
  <2> QED BY <2>1 DEF W!Row
<1>2. ASSUME NEW q \in W!Row, NEW r \in W!Field(q) PROVE r \in W!Row
  <2> DEFINE Switched == {[q EXCEPT !.on = ~@]}
             Moved == {[q EXCEPT !.port = p] : p \in Ports}
             Renamed == {[q EXCEPT !.net = n] : n \in Nets}
             Left == {[q EXCEPT !.exit = x] : x \in Servers \cup {Nobody}}
             Aged == {[q EXCEPT !.slot = x] : x \in W!Slots \cup {Nobody}}
  <2>1. r \in (((Switched \cup Moved) \cup Renamed) \cup Left) \cup Aged
    BY DEF W!Field
  <2>2. r \in Switched \/ r \in Moved \/ r \in Renamed \/ r \in Left \/ r \in Aged
    <3> HIDE DEF Switched, Moved, Renamed, Left, Aged
    <3> QED BY <2>1
  <2>3. CASE r \in Switched
    BY <2>3 DEF W!Row
  <2>4. CASE r \in Moved
    BY <2>4 DEF W!Row
  <2>5. CASE r \in Renamed
    BY <2>5 DEF W!Row
  <2>6. CASE r \in Left
    BY <2>6 DEF W!Row
  <2>7. CASE r \in Aged
    BY <2>7 DEF W!Row
  <2> QED BY <2>2, <2>3, <2>4, <2>5, <2>6, <2>7
<1> QED BY <1>1, <1>2

\* The requests as they are checked, and as they push.
NodeCreate(r) == [[W!Idle EXCEPT !.kind = "create", !.new = r] EXCEPT !.st = "checked"]
NodeUpdate(i, q, r) == [[W!Idle EXCEPT !.kind = "update", !.id = i, !.read = q, !.new = r] EXCEPT !.st = "checked"]
NodeDelete(i, q) == [[W!Idle EXCEPT !.kind = "delete", !.id = i, !.read = q] EXCEPT !.st = "checked"]
NodePush(t) == [W!Idle EXCEPT !.st = "push", !.todo = t]

LEMMA CheckedNodeCreate ==
  ASSUME NEW r \in W!Row
  PROVE  /\ NodeCreate(r) \in NodeEdits /\ NodeCreate(r).kind = "create"
         /\ NodeCreate(r).id = Nobody /\ NodeCreate(r).new = r
<1> DEFINE byKind == [W!Idle EXCEPT !.kind = "create"]
<1>1. byKind \in NodeEdits /\ byKind.kind = "create" /\ byKind.id = Nobody
  BY IdleEdit DEF NodeEdits, W!Idle
<1> HIDE DEF byKind
<1> DEFINE byNew == [byKind EXCEPT !.new = r]
<1>2. byNew \in NodeEdits /\ byNew.kind = "create" /\ byNew.id = Nobody /\ byNew.new = r
  BY <1>1 DEF NodeEdits
<1> HIDE DEF byNew
<1>3. NodeCreate(r) = [byNew EXCEPT !.st = "checked"]
  BY Zenon DEF NodeCreate, byKind, byNew
<1> QED BY <1>2, <1>3 DEF NodeEdits

LEMMA CheckedNodeUpdate ==
  ASSUME NEW i \in Nodes, NEW q \in W!Row, NEW r \in W!Row
  PROVE  /\ NodeUpdate(i, q, r) \in NodeEdits /\ NodeUpdate(i, q, r).kind = "update" /\ NodeUpdate(i, q, r).id = i
         /\ NodeUpdate(i, q, r).read = q /\ NodeUpdate(i, q, r).new = r
<1> DEFINE byKind == [W!Idle EXCEPT !.kind = "update"]
<1>1. byKind \in NodeEdits /\ byKind.kind = "update"
  BY IdleEdit DEF NodeEdits
<1> HIDE DEF byKind
<1> DEFINE byId == [byKind EXCEPT !.id = i]
<1>2. byId \in NodeEdits /\ byId.kind = "update" /\ byId.id = i
  BY <1>1 DEF NodeEdits
<1> HIDE DEF byId
<1> DEFINE byRead == [byId EXCEPT !.read = q]
<1>3. byRead \in NodeEdits /\ byRead.kind = "update" /\ byRead.id = i /\ byRead.read = q
  BY <1>2 DEF NodeEdits
<1> HIDE DEF byRead
<1> DEFINE byNew == [byRead EXCEPT !.new = r]
<1>4. byNew \in NodeEdits /\ byNew.kind = "update" /\ byNew.id = i /\ byNew.read = q /\ byNew.new = r
  BY <1>3 DEF NodeEdits
<1> HIDE DEF byNew
<1>5. NodeUpdate(i, q, r) = [byNew EXCEPT !.st = "checked"]
  BY Zenon DEF NodeUpdate, byKind, byId, byRead, byNew
<1> QED BY <1>4, <1>5 DEF NodeEdits

LEMMA CheckedNodeDelete ==
  ASSUME NEW i \in Nodes, NEW q \in W!Row
  PROVE  /\ NodeDelete(i, q) \in NodeEdits /\ NodeDelete(i, q).kind = "delete" /\ NodeDelete(i, q).id = i
         /\ NodeDelete(i, q).read = q
<1> DEFINE byKind == [W!Idle EXCEPT !.kind = "delete"]
<1>1. byKind \in NodeEdits /\ byKind.kind = "delete"
  BY IdleEdit DEF NodeEdits
<1> HIDE DEF byKind
<1> DEFINE byId == [byKind EXCEPT !.id = i]
<1>2. byId \in NodeEdits /\ byId.kind = "delete" /\ byId.id = i
  BY <1>1 DEF NodeEdits
<1> HIDE DEF byId
<1> DEFINE byRead == [byId EXCEPT !.read = q]
<1>3. byRead \in NodeEdits /\ byRead.kind = "delete" /\ byRead.id = i /\ byRead.read = q
  BY <1>2 DEF NodeEdits
<1> HIDE DEF byRead
<1>4. NodeDelete(i, q) = [byRead EXCEPT !.st = "checked"]
  BY Zenon DEF NodeDelete, byKind, byId, byRead
<1> QED BY <1>3, <1>4 DEF NodeEdits

LEMMA PushingNode ==
  ASSUME NEW t \in SUBSET Servers
  PROVE  NodePush(t) \in NodeEdits /\ EditFits(NodePush(t)) /\ NodePush(t).st = "push"
<1> DEFINE bySt == [W!Idle EXCEPT !.st = "push"]
<1>1. bySt \in NodeEdits /\ bySt.st = "push" /\ bySt.kind = "none"
  BY IdleEdit DEF NodeEdits, W!Idle
<1> HIDE DEF bySt
<1>2. NodePush(t) = [bySt EXCEPT !.todo = t]
  BY Zenon DEF NodePush, bySt
<1>3. NodePush(t) \in NodeEdits /\ NodePush(t).st = "push" /\ NodePush(t).kind = "none"
  BY <1>1, <1>2 DEF NodeEdits
<1> QED BY <1>3 DEF EditFits

\* The handler goes on to push, or is done when ProvisionAll failed.
LEMMA ProvisionDone ==
  ASSUME NEW h \in Handlers, NEW t \in SUBSET Servers, W!Provision(h, t)
  PROVE  \E o \in NodeEdits : o.st # "checked" /\ EditFits(o) /\ edit' = [edit EXCEPT ![h] = o]
<1>1. CASE edit' = [edit EXCEPT ![h] = NodePush(t)]
  BY <1>1, PushingNode
<1>2. CASE edit' = [edit EXCEPT ![h] = W!Idle]
  BY <1>2, IdleEdit
<1> QED BY <1>1, <1>2, Zenon DEF W!Provision, NodePush

LEMMA PlanChecked ==
  ASSUME PlanInv, NEW h \in Handlers,
         \/ \E s \in Servers : \E r \in W!New(s) : W!CheckCreate(h, s, r)
         \/ \E i \in W!Saved(node) : W!CheckDelete(h, i) \/ \E r \in W!Field(node[i]) : W!CheckUpdate(h, i, r)
  PROVE  PlanInv'
<1>1. UNCHANGED <<node, nextNode, build, raced, stale>>
  BY DEF W!CheckCreate, W!CheckDelete, W!CheckUpdate
<1>2. ASSUME NEW s \in Servers, NEW r \in W!New(s), W!CheckCreate(h, s, r) PROVE PlanInv'
  <2>1. r \in W!Row
    BY AskedNodes
  <2> DEFINE o == NodeCreate(r)
  <2>2. edit' = [edit EXCEPT ![h] = o] /\ W!Acceptable(Nobody, r)
    BY <1>2, Zenon DEF W!CheckCreate, W!Checked, NodeCreate
  <2>3. o \in NodeEdits /\ o.kind = "create" /\ o.id = Nobody /\ o.new = r
    BY <2>1, CheckedNodeCreate
  <2> HIDE DEF o
  <2>4. EditFits(o) /\ NodeChecked(o)
    <3>1. o.kind \notin {"update", "delete"}
      BY <2>3
    <3> QED BY <2>1, <2>2, <2>3, <3>1, Zenon DEF EditFits, NodeChecked
  <2> QED BY <1>1, <2>2, <2>3, <2>4, PlanCheck
<1>3. ASSUME NEW i \in W!Saved(node), W!CheckDelete(h, i) PROVE PlanInv'
  <2>1. i \in Nodes /\ node[i] \in W!Row
    BY DEF W!Saved, PlanInv, PlanTypes, NodeTable
  <2> DEFINE o == NodeDelete(i, node[i])
  <2>2. edit' = [edit EXCEPT ![h] = o]
    BY <1>3, Zenon DEF W!CheckDelete, W!Checked, NodeDelete
  <2>3. o \in NodeEdits /\ o.kind = "delete" /\ o.id = i /\ o.read = node[i]
    BY <2>1, CheckedNodeDelete
  <2> HIDE DEF o
  <2>4. EditFits(o) /\ NodeChecked(o)
    <3>1. o.kind \notin {"create", "update"}
      BY <2>3
    <3> QED BY <2>1, <2>3, <3>1, Zenon DEF EditFits, NodeChecked
  <2> QED BY <1>1, <2>2, <2>3, <2>4, PlanCheck
<1>4. ASSUME NEW i \in W!Saved(node), NEW r \in W!Field(node[i]), W!CheckUpdate(h, i, r) PROVE PlanInv'
  <2>1. i \in Nodes /\ node[i] \in W!Row
    BY DEF W!Saved, PlanInv, PlanTypes, NodeTable
  <2>2. r \in W!Row
    BY <2>1, AskedNodes
  <2> DEFINE o == NodeUpdate(i, node[i], r)
  <2>3. edit' = [edit EXCEPT ![h] = o] /\ W!Acceptable(i, r)
    BY <1>4, Zenon DEF W!CheckUpdate, W!Checked, NodeUpdate
  <2>4. o \in NodeEdits /\ o.kind = "update" /\ o.id = i /\ o.read = node[i] /\ o.new = r
    BY <2>1, <2>2, CheckedNodeUpdate
  <2> HIDE DEF o
  <2>5. EditFits(o) /\ NodeChecked(o)
    <3>1. o.kind # "create"
      BY <2>4
    <3> QED BY <2>1, <2>2, <2>3, <2>4, <3>1, Zenon DEF EditFits, NodeChecked
  <2> QED BY <1>1, <2>3, <2>4, <2>5, PlanCheck
<1> QED BY <1>2, <1>3, <1>4

\* Whoever saves while nobody else has checked leaves nobody who has.
LEMMA SavesAlone ==
  ASSUME PlanInv, NEW h \in Handlers, W!Saves(h)
  PROVE  /\ edit[h].st = "checked" /\ raced' \in BOOLEAN
         /\ ~raced' => ~raced /\ \A g \in Handlers \ {h} : edit[g].st # "checked"
BY DEF W!Saves, PlanInv

\* A row that gets on with all the others takes its place.
LEMMA ApartWith ==
  ASSUME PlanTypes, AllApart(node), NEW i \in Nodes, NEW r \in W!Row, r.exit # r.srv,
         \A j \in W!Saved(node) \ {i} : W!Apart(r, node[j]) /\ W!Apart(node[j], r)
  PROVE  AllApart([node EXCEPT ![i] = r])
<1> DEFINE new == [node EXCEPT ![i] = r]
<1>1. \A j \in Nodes : new[j] = IF j = i THEN r ELSE node[j]
  BY DEF PlanTypes, NodeTable
<1> HIDE DEF new
<1>2. \A j \in W!Saved(new) : j \in Nodes /\ (j # i => j \in W!Saved(node) /\ new[j] = node[j]) /\ (j = i => new[j] = r)
  BY <1>1 DEF W!Saved
<1>3. ASSUME NEW j \in W!Saved(new) PROVE new[j].exit # new[j].srv
  BY <1>2 DEF AllApart
<1>4. ASSUME NEW j \in W!Saved(new), NEW k \in W!Saved(new) \ {j} PROVE W!Apart(new[j], new[k])
  <2>1. CASE j = i
    BY <1>2, <2>1
  <2>2. CASE k = i
    BY <1>2, <2>2
  <2>3. CASE j # i /\ k # i
    BY <1>2, <2>3 DEF AllApart
  <2> QED BY <2>1, <2>2, <2>3
<1>5. AllApart(new)
  BY <1>3, <1>4, Zenon DEF AllApart
<1> QED BY <1>5, Zenon DEF new

\* What the checks of one node accept gets on with all the others
\* (prepareInbound, CheckWireGuardExit).
LEMMA AcceptedApart ==
  ASSUME PlanTypes, NEW i, NEW r \in W!Row, W!Acceptable(i, r)
  PROVE  /\ r.exit # r.srv
         /\ \A j \in W!Saved(node) \ {i} : W!Apart(r, node[j]) /\ W!Apart(node[j], r)
<1>1. r.srv \in Servers /\ r.srv # Nobody
  BY SmallPlan DEF W!Row
<1>2. r.exit # r.srv
  BY <1>1 DEF W!Acceptable, W!ExitAllowed
<1>3. ASSUME NEW j \in W!Saved(node) \ {i} PROVE W!Apart(r, node[j]) /\ W!Apart(node[j], r)
  <2>1. j \in Nodes /\ node[j] \in W!Row
    BY DEF W!Saved, PlanTypes, NodeTable
  <2>2. node[j].srv = r.srv => node[j].port # r.port
    BY DEF W!Acceptable
  <2>3. node[j].on => j \in W!Others(i)
    BY DEF W!Others
  <2>4. r.on /\ node[j].on => (node[j].srv = r.srv => node[j].net # r.net)
    BY <2>3 DEF W!Acceptable
  <2>5. r.on /\ node[j].on => node[j].exit # r.srv
    BY <2>3 DEF W!Acceptable, W!ExitAllowed
  <2>6. node[j].on /\ r.exit # Nobody => node[j].srv # r.exit /\ node[j].exit # r.exit
    BY <2>3 DEF W!Acceptable, W!ExitAllowed
  <2>7. node[j].srv # Nobody
    BY <2>1, SmallPlan DEF W!Row
  <2> QED BY <2>2, <2>4, <2>5, <2>6, <2>7, Zenon DEF W!Apart
<1> QED BY <1>2, <1>3

\* A handler that has written: nobody else has checked, or it raced.
LEMMA PlanWritten ==
  ASSUME PlanInv, NEW h \in Handlers, W!Saves(h), NEW o \in NodeEdits, EditFits(o), o.st # "checked",
         edit' = [edit EXCEPT ![h] = o], build' = build,
         node' \in NodeTable, nextNode' \in Nat, stale' \in BOOLEAN,
         \A i \in Nodes : node'[i] # Nobody => i < nextNode',
         ~raced' /\ ~stale' => AllApart(node')
  PROVE  PlanInv'
<1>1. edit' \in [Handlers -> NodeEdits] /\ (\A g \in Handlers : EditFits(edit'[g]))
      /\ \A g \in Handlers : edit'[g] = IF g = h THEN o ELSE edit[g]
  BY EditGoesOn, Zenon DEF PlanInv
<1>2. \A s \in Servers : build'[s].by # Nobody => build'[s].rows \in NodeTable
  BY Zenon DEF PlanInv, PlanTypes
<1>3. raced' \in BOOLEAN /\ (~raced' => \A g \in Handlers : edit'[g].st # "checked")
  BY <1>1, SavesAlone
<1>4. ~raced' /\ ~stale' => AllApart(node') /\ \A g \in Handlers : edit'[g].st = "checked" => NodeChecked(edit[g])'
  BY <1>3, Zenon
<1> QED BY <1>1, <1>2, <1>3, <1>4, PlanAfter, Zenon

LEMMA TargetsOfNodes ==
  \A q \in W!Row \cup {Nobody}, r \in W!Row : W!Targets(q, r) \in SUBSET Servers
BY DEF W!Targets, W!Row

LEMMA PlanCreated ==
  ASSUME PlanInv, NEW h \in Handlers, W!Create(h)
  PROVE  PlanInv'
<1> DEFINE r == edit[h].new
<1>1. W!Saves(h) /\ UNCHANGED <<build, stale>> /\ edit[h].kind = "create"
  BY DEF W!Create
<1>2. r \in W!Row /\ edit[h].st = "checked"
  BY <1>1, SavesAlone DEF PlanInv, PlanTypes, EditFits
<1>3. CASE /\ nextNode \in Nodes /\ node' = [node EXCEPT ![nextNode] = r] /\ nextNode' = nextNode + 1
           /\ W!Provision(h, W!Targets(Nobody, r))
  <2>2. PICK o \in NodeEdits : o.st # "checked" /\ EditFits(o) /\ edit' = [edit EXCEPT ![h] = o]
    <3>1. W!Targets(Nobody, r) \in SUBSET Servers
      BY <1>2, TargetsOfNodes
    <3> QED BY <1>3, <3>1, ProvisionDone
  <2>3. node' \in NodeTable /\ nextNode' \in Nat /\ stale' \in BOOLEAN
    BY <1>1, <1>2, <1>3 DEF PlanInv, PlanTypes, NodeTable
  <2>4. \A i \in Nodes : node'[i] = IF i = nextNode THEN r ELSE node[i]
    BY <1>3 DEF PlanInv, PlanTypes, NodeTable
  <2>5. \A i \in Nodes : node'[i] # Nobody => i < nextNode'
    BY <1>3, <2>4, SmallPlan DEF PlanInv, PlanTypes, NodesGivenOut
  <2>6. ASSUME ~raced', ~stale' PROVE AllApart(node')
    <3>1. AllApart(node) /\ W!Acceptable(Nobody, r)
      BY <1>1, <1>2, <2>6, SavesAlone DEF PlanInv, NodeChecked
    <3>2. r.exit # r.srv /\ \A j \in W!Saved(node) : W!Apart(r, node[j]) /\ W!Apart(node[j], r)
      <4>1. Nobody \notin W!Saved(node)
        BY SmallPlan DEF W!Saved
      <4> HIDE DEF r
      <4> QED BY <1>2, <3>1, <4>1, AcceptedApart DEF PlanInv
    <3> HIDE DEF r
    <3>3. AllApart([node EXCEPT ![nextNode] = r])
      BY <1>2, <1>3, <3>1, <3>2, ApartWith DEF PlanInv
    <3> QED BY <1>3, <3>3, Zenon
  <2> QED BY <1>1, <2>2, <2>3, <2>5, <2>6, PlanWritten
<1>4. CASE edit' = [edit EXCEPT ![h] = W!Idle] /\ UNCHANGED <<node, nextNode>>
  <2>1. node' \in NodeTable /\ nextNode' \in Nat /\ stale' \in BOOLEAN
        /\ \A i \in Nodes : node'[i] # Nobody => i < nextNode'
    BY <1>1, <1>4 DEF PlanInv, PlanTypes, NodesGivenOut
  <2>2. ~raced' /\ ~stale' => AllApart(node')
    BY <1>1, <1>4, SavesAlone, Zenon DEF PlanInv
  <2> QED BY <1>1, <1>4, <2>1, <2>2, IdleEdit, PlanWritten
<1> QED BY <1>3, <1>4, Zenon DEF W!Create

LEMMA PlanUpdated ==
  ASSUME PlanInv, NEW h \in Handlers, W!Update(h)
  PROVE  PlanInv'
<1> DEFINE r == edit[h].new
           i == edit[h].id
           q == IF node[i] = Nobody THEN Nobody ELSE r
<1>1. /\ W!Saves(h) /\ UNCHANGED <<build, nextNode>> /\ edit[h].kind = "update"
      /\ node' = [node EXCEPT ![i] = IF @ = Nobody THEN Nobody ELSE r]
      /\ stale' = (stale \/ node[i] # edit[h].read)
  BY Zenon DEF W!Update
<1>2. r \in W!Row /\ i \in Nodes /\ edit[h].read \in W!Row /\ edit[h].st = "checked"
  BY <1>1, SavesAlone DEF PlanInv, PlanTypes, EditFits
<1>3. PICK o \in NodeEdits : o.st # "checked" /\ EditFits(o) /\ edit' = [edit EXCEPT ![h] = o]
  <2>1. W!Provision(h, W!Targets(edit[h].read, r))
    BY Zenon DEF W!Update
  <2>2. W!Targets(edit[h].read, r) \in SUBSET Servers
    BY <1>2, TargetsOfNodes
  <2> QED BY <2>1, <2>2, ProvisionDone
<1>5. node' = [node EXCEPT ![i] = q] /\ q \in W!Row \cup {Nobody}
  BY <1>1, <1>2
<1>6. node \in NodeTable /\ nextNode \in Nat /\ stale \in BOOLEAN
  BY DEF PlanInv, PlanTypes
<1>7. nextNode' \in Nat /\ stale' \in BOOLEAN
  BY <1>1, <1>6, Zenon
<1>8. node' \in NodeTable /\ \A k \in Nodes : node'[k] = IF k = i THEN q ELSE node[k]
  <2> HIDE DEF q, r
  <2> QED BY <1>2, <1>5, <1>6, Zenon DEF NodeTable
<1>9. \A k \in Nodes : node'[k] # Nobody => k < nextNode'
  BY <1>1, <1>8 DEF PlanInv, NodesGivenOut
<1>10. ASSUME ~raced', ~stale' PROVE AllApart(node')
  <2>1. AllApart(node) /\ W!Acceptable(i, r)
    BY <1>1, <1>2, <1>10, SavesAlone, Zenon DEF PlanInv, NodeChecked
  <2>2. CASE node[i] = Nobody
    <3>1. node' = node
      BY <1>2, <1>6, <1>8, <2>2 DEF NodeTable
    <3> QED BY <2>1, <3>1, Zenon
  <2>3. CASE node[i] # Nobody
    <3> HIDE DEF r
    <3>1. r.exit # r.srv /\ \A j \in W!Saved(node) \ {i} : W!Apart(r, node[j]) /\ W!Apart(node[j], r)
      BY <1>2, <2>1, AcceptedApart DEF PlanInv
    <3>2. AllApart([node EXCEPT ![i] = r])
      BY <1>2, <2>1, <3>1, ApartWith DEF PlanInv
    <3> QED BY <1>5, <2>3, <3>2, Zenon
  <2> QED BY <2>2, <2>3
<1> QED BY <1>1, <1>3, <1>7, <1>8, <1>9, <1>10, PlanWritten

LEMMA PlanDeleted ==
  ASSUME PlanInv, NEW h \in Handlers, W!Delete(h)
  PROVE  PlanInv'
<1> DEFINE i == edit[h].id
           q == edit[h].read
<1>1. /\ W!Saves(h) /\ UNCHANGED <<build, nextNode>> /\ edit[h].kind = "delete"
      /\ node' = [node EXCEPT ![i] = Nobody] /\ stale' = (stale \/ node[i] # q)
  BY Zenon DEF W!Delete
<1>2. i \in Nodes /\ q \in W!Row
  BY <1>1, SavesAlone DEF PlanInv, PlanTypes, EditFits
<1>3. PICK o \in NodeEdits : o.st # "checked" /\ EditFits(o) /\ edit' = [edit EXCEPT ![h] = o]
  <2>1. W!Provision(h, W!Targets(q, q))
    BY Zenon DEF W!Delete
  <2>2. W!Targets(q, q) \in SUBSET Servers
    BY <1>2, TargetsOfNodes
  <2> QED BY <2>1, <2>2, ProvisionDone
<1>5. node \in NodeTable /\ nextNode \in Nat /\ stale \in BOOLEAN
  BY DEF PlanInv, PlanTypes
<1>6. nextNode' \in Nat /\ stale' \in BOOLEAN
  BY <1>1, <1>5, Zenon
<1>7. node' \in NodeTable /\ \A k \in Nodes : node'[k] = IF k = i THEN Nobody ELSE node[k]
  <2> HIDE DEF i, q
  <2> QED BY <1>1, <1>2, <1>5, Zenon DEF NodeTable
<1>8. \A k \in Nodes : node'[k] # Nobody => k < nextNode'
  BY <1>1, <1>7 DEF PlanInv, NodesGivenOut
<1>9. ASSUME ~raced', ~stale' PROVE AllApart(node')
  <2>1. AllApart(node)
    BY <1>1, <1>9, SavesAlone, Zenon DEF PlanInv
  <2>2. \A k \in W!Saved(node') : k \in W!Saved(node) /\ node'[k] = node[k]
    BY <1>7 DEF W!Saved
  <2> QED BY <2>1, <2>2, Zenon DEF AllApart
<1> QED BY <1>1, <1>3, <1>6, <1>7, <1>8, <1>9, PlanWritten

\* A Build begins with the rows of this moment.
LEMMA PlanBuildStarts ==
  ASSUME PlanInv, NEW s \in Servers, NEW who, W!BuildRead(s, who), edit' = edit
  PROVE  PlanInv'
<1>1. /\ node' \in NodeTable /\ nextNode' \in Nat /\ raced' \in BOOLEAN /\ stale' \in BOOLEAN
      /\ edit' \in [Handlers -> NodeEdits] /\ (\A g \in Handlers : EditFits(edit'[g]))
      /\ \A i \in Nodes : node'[i] # Nobody => i < nextNode'
  BY Zenon DEF W!BuildRead, PlanInv, PlanTypes, NodesGivenOut
<1>2. UNCHANGED <<node, raced, stale>> /\ build' = [build EXCEPT ![s] = [by |-> who, rows |-> node, hosts |-> hosted]]
  BY Zenon DEF W!BuildRead
<1>3. \A t \in Servers : build'[t].by # Nobody => build'[t].rows \in NodeTable
  <2>1. ASSUME NEW t \in Servers PROVE build'[t] = build[t] \/ build'[t].rows = node
    BY <1>2
  <2> QED BY <2>1 DEF PlanInv, PlanTypes
<1>4. ~raced' /\ ~stale' => AllApart(node') /\ \A g \in Handlers : edit'[g].st = "checked" => NodeChecked(edit[g])'
  BY <1>2, CheckedStays, Zenon DEF PlanInv
<1> QED BY <1>1, <1>3, <1>4, PlanAfter, Zenon

\* Nodes that differ in their slot only.
SlotApart(r, q) ==
  r.srv = q.srv /\ r.net = q.net /\ r.port = q.port /\ r.on = q.on /\ r.exit = q.exit

LEMMA PlanBuilt ==
  ASSUME PlanInv, NEW s \in Servers, W!BuildEnd(s)
  PROVE  PlanInv'
<1> DEFINE rows == build[s].rows
           E == W!Enabled(rows, s)
           Set == W!SlotWrites(s)
<1>1. build[s].by # Nobody /\ rows \in NodeTable /\ node \in NodeTable /\ nextNode' = nextNode
      /\ build' = [build EXCEPT ![s] = W!NoBuild]
  BY DEF W!BuildEnd, PlanInv, PlanTypes
<1>2. nextNode \in Nat /\ raced \in BOOLEAN /\ stale \in BOOLEAN /\ edit \in [Handlers -> NodeEdits]
      /\ \A g \in Handlers : EditFits(edit[g])
  BY DEF PlanInv, PlanTypes
<1>3. /\ edit' \in [Handlers -> NodeEdits] /\ (\A g \in Handlers : EditFits(edit'[g]))
      /\ \A g \in Handlers : edit'[g].st = "checked" => edit[g].st = "checked" /\ edit'[g].kind = edit[g].kind
                                                    /\ edit'[g].id = edit[g].id /\ edit'[g].new = edit[g].new
  <2> DEFINE less(g) == [edit[g] EXCEPT !.todo = @ \ {s}]
  <2>1. ASSUME NEW g \in Handlers
        PROVE  /\ less(g) \in NodeEdits /\ EditFits(less(g)) /\ less(g).st = edit[g].st
               /\ less(g).kind = edit[g].kind /\ less(g).id = edit[g].id /\ less(g).new = edit[g].new
    <3> DEFINE o == less(g)
    <3>1. o \in NodeEdits /\ o.st = edit[g].st /\ o.kind = edit[g].kind /\ o.id = edit[g].id
          /\ o.new = edit[g].new /\ o.read = edit[g].read
      BY <1>2 DEF NodeEdits
    <3> HIDE DEF less
    <3>2. EditFits(o)
      BY <1>2, <3>1, Zenon DEF EditFits
    <3> QED BY <3>1, <3>2
  <2>2. edit' = [g \in Handlers |-> IF build[s].by # g THEN edit[g] ELSE IF edit[g].todo = {s} THEN W!Idle ELSE less(g)]
    BY Zenon DEF W!BuildEnd
  <2> HIDE DEF less
  <2>3. \A g \in Handlers : edit'[g] = edit[g] \/ edit'[g] = W!Idle \/ edit'[g] = less(g)
    BY <2>2
  <2>4. \A g \in Handlers : edit'[g] \in NodeEdits /\ EditFits(edit'[g])
    BY <1>2, <2>1, <2>3, IdleEdit, Zenon
  <2>5. edit' \in [Handlers -> NodeEdits]
    BY <2>2, <2>4
  <2>6. \A g \in Handlers : edit'[g].st = "checked" => edit[g].st = "checked" /\ edit'[g].kind = edit[g].kind
                                                    /\ edit'[g].id = edit[g].id /\ edit'[g].new = edit[g].new
    BY <2>1, <2>3, IdleEdit
  <2> QED BY <2>4, <2>5, <2>6
<1>4. \A t \in Servers : build'[t].by # Nobody => build'[t].rows \in NodeTable
  <2>1. ASSUME NEW t \in Servers PROVE build'[t] = build[t] \/ build'[t].by = Nobody
    BY <1>1 DEF W!NoBuild
  <2> QED BY <2>1 DEF PlanInv, PlanTypes
<1>5. ASSUME node' = node, ~raced', ~stale', ~raced, ~stale
      PROVE  AllApart(node') /\ \A g \in Handlers : edit'[g].st = "checked" => NodeChecked(edit[g])'
  <2>1. AllApart(node')
    BY <1>5, Zenon DEF PlanInv
  <2>2. \A g \in Handlers : edit'[g].st = "checked" => NodeChecked(edit'[g])
    BY <1>3, <1>5, Zenon DEF PlanInv, NodeChecked
  <2> QED BY <1>5, <2>1, <2>2, CheckedStays, Zenon
<1> QED
  <2>1. /\ node' = [i \in Nodes |-> IF i \in Set /\ node[i] # Nobody
                                    THEN [rows[i] EXCEPT !.slot = W!Slot(rows, E, i)] ELSE node[i]]
        /\ stale' = (stale \/ \E i \in Set : node[i] # Nobody /\ node[i] # rows[i])
        /\ raced' = (raced \/ (Set # {} /\ \E o \in Handlers : edit[o].st = "checked"))
    BY Zenon DEF W!BuildEnd
  <2>2. Set \subseteq E /\ E \subseteq W!Saved(rows)
    BY Zenon DEF W!SlotWrites, W!Enabled
  <2> HIDE DEF Set, E, rows
  <2>3. ASSUME NEW i \in Set
        PROVE  /\ [rows[i] EXCEPT !.slot = W!Slot(rows, E, i)] \in W!Row
               /\ SlotApart([rows[i] EXCEPT !.slot = W!Slot(rows, E, i)], rows[i])
               /\ rows[i] \in W!Row
    <3>1. i \in E /\ rows[i] \in W!Row
      BY <1>1, <2>2 DEF W!Saved, NodeTable
    <3> DEFINE slot == W!Slot(rows, E, i)
    <3>2. slot \in W!Slots
      BY <1>1, <2>2, <3>1, SlotIsSlot
    <3> HIDE DEF slot
    <3>3. [rows[i] EXCEPT !.slot = slot] \in W!Row /\ SlotApart([rows[i] EXCEPT !.slot = slot], rows[i])
      BY <3>1, <3>2 DEF W!Row, SlotApart
    <3> QED BY <3>1, <3>3, Zenon DEF slot
  <2>4. \A i \in Nodes : /\ node'[i] \in W!Row \cup {Nobody}
                         /\ node'[i] # Nobody <=> node[i] # Nobody
                         /\ i \notin Set => node'[i] = node[i]
                         /\ i \in Set /\ node[i] # Nobody => SlotApart(node'[i], rows[i])
    <3>1. \A i \in Nodes : node[i] \in W!Row \cup {Nobody}
      BY <1>1, Zenon DEF NodeTable
    <3>2. \A i \in Nodes : node'[i] = IF i \in Set /\ node[i] # Nobody
                                      THEN [rows[i] EXCEPT !.slot = W!Slot(rows, E, i)] ELSE node[i]
      BY <2>1, Zenon
    <3> QED BY <2>3, <3>1, <3>2, SmallPlan, Zenon
  <2>5. node' \in NodeTable
    <3>1. node' = [i \in Nodes |-> node'[i]]
      BY <2>1, Zenon
    <3> QED BY <2>4, <3>1, Zenon DEF NodeTable
  <2>6. \A i \in Nodes : node'[i] # Nobody => i < nextNode'
    BY <1>1, <2>4 DEF PlanInv, NodesGivenOut
  <2>7. raced' \in BOOLEAN /\ stale' \in BOOLEAN
    BY <1>2, <2>1, Zenon
  <2>8. ASSUME ~raced', ~stale'
        PROVE  AllApart(node') /\ \A g \in Handlers : edit'[g].st = "checked" => NodeChecked(edit[g])'
    <3>1. ~raced /\ ~stale
      BY <2>1, <2>8
    <3>2. CASE Set = {}
      <4>1. node' = node
        BY <1>1, <2>4, <2>5, <3>2 DEF NodeTable
      <4> QED BY <1>5, <2>8, <3>1, <4>1
    <3>3. CASE Set # {}
      <4>1. \A g \in Handlers : edit'[g].st # "checked"
        BY <1>3, <2>1, <2>8, <3>3
      <4>2. \A i \in Nodes : node[i] # Nobody => SlotApart(node'[i], node[i])
        BY <2>1, <2>4, <2>8 DEF SlotApart
      <4>3. W!Saved(node') = W!Saved(node)
        BY <2>4 DEF W!Saved
      <4>4. \A i \in W!Saved(node) : SlotApart(node'[i], node[i])
        BY <4>2 DEF W!Saved
      <4>5. AllApart(node)
        BY <3>1, Zenon DEF PlanInv
      <4>6. AllApart(node')
        BY <4>3, <4>4, <4>5 DEF AllApart, SlotApart, W!Apart
      <4> QED BY <4>1, <4>6
    <3> QED BY <3>2, <3>3
  <2>9. nextNode' \in Nat
    BY <1>1, <1>2
  <2> QED BY <1>3, <1>4, <2>5, <2>6, <2>7, <2>8, <2>9, PlanAfter

LEMMA PlanKept ==
  ASSUME PlanInv, UNCHANGED <<node, nextNode, edit, build, raced, stale>>
  PROVE  PlanInv'
<1>2. ~raced' /\ ~stale' => AllApart(node') /\ \A g \in Handlers : edit'[g].st = "checked" => NodeChecked(edit[g])'
  BY CheckedStays, Zenon DEF PlanInv
<1>3. /\ node' \in NodeTable /\ nextNode' \in Nat /\ raced' \in BOOLEAN /\ stale' \in BOOLEAN
      /\ edit' \in [Handlers -> NodeEdits] /\ (\A g \in Handlers : EditFits(edit'[g]))
      /\ (\A s \in Servers : build'[s].by # Nobody => build'[s].rows \in NodeTable)
      /\ \A i \in Nodes : node'[i] # Nobody => i < nextNode'
  BY Zenon DEF PlanInv, PlanTypes, NodesGivenOut
<1> QED BY <1>2, <1>3, PlanAfter

LEMMA PlanStep == PlanInv /\ [W!Next]_(W!wgPlanVars) => PlanInv'
<1> SUFFICES ASSUME PlanInv, [W!Next]_(W!wgPlanVars) PROVE PlanInv'
  OBVIOUS
<1>1. CASE UNCHANGED W!wgPlanVars
  <2>1. UNCHANGED <<node, nextNode, edit, build, raced, stale>>
    BY <1>1 DEF W!wgPlanVars
  <2> QED BY <2>1, PlanKept
<1>2. ASSUME NEW h \in Handlers,
             \/ \E s \in Servers : \E r \in W!New(s) : W!CheckCreate(h, s, r)
             \/ \E i \in W!Saved(node) : W!CheckDelete(h, i) \/ \E r \in W!Field(node[i]) : W!CheckUpdate(h, i, r)
      PROVE  PlanInv'
  BY <1>2, PlanChecked
<1>3. ASSUME NEW h \in Handlers, W!Create(h) \/ W!Update(h) \/ W!Delete(h) PROVE PlanInv'
  BY <1>3, PlanCreated, PlanUpdated, PlanDeleted
<1>4. ASSUME NEW s \in Servers, (\E h \in Handlers : W!PushStart(h, s)) \/ W!LoopStart(s) PROVE PlanInv'
  BY <1>4, PlanBuildStarts DEF W!PushStart, W!LoopStart
<1>5. ASSUME NEW s \in Servers, W!BuildEnd(s) PROVE PlanInv'
  BY <1>5, PlanBuilt
<1>6. ASSUME NEW s \in Servers, W!Readdress(s) PROVE PlanInv'
  <2>1. UNCHANGED <<node, nextNode, edit, build, raced, stale>>
    BY <1>6, Zenon DEF W!Readdress
  <2> QED BY <2>1, PlanKept
<1> QED BY <1>1, <1>2, <1>3, <1>4, <1>5, <1>6, Zenon DEF W!Next

\* Every row is a node or nothing, a slot is one of the table of slots, and a
\* Build works on rows that were saved once.
THEOREM PlanTypeCorrect == W!Spec => []PlanTypes
<1>1. PlanInv => PlanTypes
  BY DEF PlanInv
<1> QED BY PlanBegin, PlanStep, <1>1, PTL DEF W!Spec

\* What is saved can be built (CheckWireGuardExit, buildWireGuard) on a server
\* with no more nodes than tunnels that dials none without an address: the
\* checks of one node at a time keep all saved nodes apart, and nodes that are
\* apart are all else that Build asks for.
THEOREM SavedBuildsHolds == W!Spec => []SavedBuilds
<1>1. PlanInv => SavedBuilds
  BY ApartBuilds, Zenon DEF PlanInv, PlanTypes, SavedBuilds, W!SavedBuilds
<1> QED BY PlanBegin, PlanStep, <1>1, PTL DEF W!Spec

-----------------------------------------------------------------------------
(***************************************************************************)
(* The slots of WGPlan: who holds one keeps it.                            *)
(***************************************************************************)

\* The rows of a Build of server s against those of now: none is newer, and who
\* is still saved stays on his server and, on s, holds the same slot.
Follows(rows, s, now, next) ==
  \A i \in Nodes : rows[i] # Nobody =>
    /\ i < next
    /\ now[i] # Nobody => now[i].srv = rows[i].srv /\ (rows[i].srv = s => now[i].slot = rows[i].slot)

\* The tunnels a server was told are those of saved nodes, with a slot each.
Distinct(t, next) ==
  \A i \in DOMAIN t :
    /\ i \in Nodes /\ i < next /\ t[i].slot \in W!Slots
    /\ \A j \in DOMAIN t \ {i} : t[j].slot # t[i].slot

\* A node that is saved still has its tunnel's slot.
Holds(t, s, rows) == \A i \in DOMAIN t : rows[i] # Nobody => rows[i].srv = s /\ rows[i].slot = t[i].slot

\* An update moves no node to another server.
EditKeeps(o) == o.st = "checked" /\ o.kind = "update" => o.new.srv = o.read.srv

\* Every row was written over the one that was read, and every slot was told.
AsTold == ~stale /\ ~reslotted

SlotInv ==
  /\ PlanInv /\ DOMAIN build = Servers /\ DOMAIN built = Servers
  /\ \A h \in Handlers : EditKeeps(edit[h])
  /\ AsTold => \A s \in Servers :
       /\ build[s].by # Nobody => Follows(build[s].rows, s, node, nextNode)
       /\ built[s].kind = "hub" =>
            /\ Distinct(built[s].tunnels, nextNode) /\ Holds(built[s].tunnels, s, node)
            /\ build[s].by # Nobody => Holds(built[s].tunnels, s, build[s].rows)

\* Two nodes of a server never get the same slot (assignWGSlots).
LEMMA SlotsDiffer ==
  ASSUME NEW rows \in NodeTable, NEW E \in SUBSET W!Saved(rows), NEW i \in E, NEW j \in E, i # j
  PROVE  W!Slot(rows, E, i) # W!Slot(rows, E, j)
<1> DEFINE Keep == W!Claims(rows, E)
           free == W!Slots \ {rows[k].slot : k \in Keep}
           rest == E \ Keep
           Before(k) == {l \in rest : l < k}
           Lower(c) == {d \in free : d < c}
<1>1. E \subseteq Nat /\ Nodes \subseteq Nat /\ E \subseteq Nodes /\ IsFiniteSet(E)
  <2>1. E \subseteq Nodes
    BY DEF W!Saved
  <2> QED BY <2>1, SmallPlan, FS_Subset
<1>2. \A k \in Keep : W!Slot(rows, E, k) = rows[k].slot
  BY Zenon DEF W!Slot
<1>3. \A k \in E \ Keep : /\ W!Slot(rows, E, k) \in free
                          /\ Cardinality(Lower(W!Slot(rows, E, k))) = Cardinality(Before(k))
  BY FreeSlot
<1>4. CASE i \in Keep /\ j \in Keep
  <2>1. rows[i].slot # rows[j].slot
    <3>1. i < j \/ j < i
      BY <1>1
    <3> QED BY <1>4, <3>1 DEF W!Claims
  <2> QED BY <1>2, <1>4, <2>1
<1>5. CASE i \in Keep /\ j \notin Keep
  <2> HIDE DEF Keep
  <2> QED BY <1>2, <1>3, <1>5
<1>6. CASE i \notin Keep /\ j \in Keep
  <2> HIDE DEF Keep
  <2> QED BY <1>2, <1>3, <1>6
<1>7. CASE i \notin Keep /\ j \notin Keep
  <2>1. ASSUME NEW k \in rest, NEW l \in rest, k < l
        PROVE  Cardinality(Before(k)) # Cardinality(Before(l))
    <3>1. IsFiniteSet(Before(l)) /\ Before(k) \subseteq Before(l) /\ k \in Before(l) /\ k \notin Before(k)
      <4>1. IsFiniteSet(Before(l))
        BY <1>1, FS_Subset
      <4>2. k \in rest /\ rest \subseteq Nat
        BY <1>1
      <4> HIDE DEF rest
      <4>3. k \in Before(l)
        BY <2>1, <4>2
      <4>4. k \notin Before(k)
        BY <4>2
      <4>5. \A m \in rest : m < k => m < l
        BY <2>1, <4>2
      <4>6. Before(k) \subseteq Before(l)
        BY <4>5, Zenon
      <4> QED BY <4>1, <4>3, <4>4, <4>6
    <3> HIDE DEF Before
    <3> QED BY <3>1, FS_Subset
  <2>2. Cardinality(Before(i)) # Cardinality(Before(j))
    <3>1. i < j \/ j < i
      BY <1>1
    <3> HIDE DEF Before, Keep
    <3> QED BY <1>7, <2>1, <3>1
  <2> HIDE DEF Before, Lower, Keep
  <2> QED BY <1>3, <1>7, <2>2
<1> QED BY <1>4, <1>5, <1>6, <1>7

\* Who loses the slot he holds loses it to an older node that holds it too.
LEMMA SlotTaken ==
  ASSUME NEW rows \in NodeTable, NEW E \in SUBSET W!Saved(rows), NEW i \in E, rows[i].slot # Nobody,
         W!Slot(rows, E, i) # rows[i].slot
  PROVE  \E j \in E : j < i /\ rows[j].slot = rows[i].slot /\ W!Slot(rows, E, j) = rows[i].slot
<1> DEFINE Same == {j \in E : j < i /\ rows[j].slot = rows[i].slot}
<1>1. E \subseteq Nat
  BY SmallPlan DEF W!Saved
<1>2. i \notin W!Claims(rows, E)
  BY Zenon DEF W!Slot
<1>3. Same \subseteq Nat /\ Same # {}
  BY <1>1, <1>2 DEF W!Claims
<1>4. PICK j \in Same : \A k \in Same : j <= k
  BY <1>3, LeastOf, Zenon
<1>5. j \in W!Claims(rows, E)
  <2>1. \A k \in E : k < j => rows[k].slot # rows[j].slot
    BY <1>1, <1>4
  <2> QED BY <1>4, <2>1 DEF W!Claims
<1>6. W!Slot(rows, E, j) = rows[j].slot
  BY <1>5, Zenon DEF W!Slot
<1> QED BY <1>4, <1>6

\* A row that server s is told of: a node of its own, or one it is the home of.
Concerns(r, s) == r # Nobody /\ (r.srv = s \/ r.exit = s)

\* Two tables that tell server s the same, but for the slots.
SameFor(s, a, b) ==
  \A i \in Nodes : Concerns(a[i], s) \/ Concerns(b[i], s) => a[i] # Nobody /\ b[i] # Nobody /\ SlotApart(a[i], b[i])

LEMMA RowWritten ==
  ASSUME NEW rows \in NodeTable, NEW i \in Nodes, NEW q, NEW s \in Servers,
         ~Concerns(rows[i], s), ~Concerns(q, s)
  PROVE  SameFor(s, rows, [rows EXCEPT ![i] = q])
<1> DEFINE new == [rows EXCEPT ![i] = q]
<1>1. \A k \in Nodes : new[k] = IF k = i THEN q ELSE rows[k]
  BY DEF NodeTable
<1> HIDE DEF new
<1>2. SameFor(s, rows, new)
  BY <1>1 DEF SameFor, Concerns, SlotApart
<1> QED BY <1>2, Zenon DEF new

LEMMA SameForItself == \A s, rows : SameFor(s, rows, rows)
BY DEF SameFor, Concerns, SlotApart

\* What is planned for a server follows from the rows it is told of.
LEMMA PlannedHub ==
  ASSUME NEW rows \in NodeTable, NEW s \in Servers
  PROVE  LET E == W!Enabled(rows, s)  t == W!Planned(rows, s) IN
         /\ t.kind = "hub" <=> E # {}
         /\ E # {} => /\ DOMAIN t.tunnels = E
                      /\ \A i \in E : t.tunnels[i].slot = W!Slot(rows, E, i) /\ t.tunnels[i].port = rows[i].port
<1> DEFINE E == W!Enabled(rows, s)
           t == W!Planned(rows, s)
           One(i) == [slot |-> W!Slot(rows, E, i), port |-> rows[i].port, net |-> rows[i].net, exit |-> rows[i].exit]
           Home(i) == [hub |-> rows[i].srv, port |-> rows[i].port, net |-> rows[i].net]
<1>1. t = IF E # {} THEN [kind |-> "hub", tunnels |-> [i \in E |-> One(i)]]
          ELSE IF W!HomeOf(rows, s) # {}
          THEN [kind |-> "home", tunnels |-> [i \in W!HomeOf(rows, s) |-> Home(i)]]
          ELSE W!NoTunnels
  BY Zenon DEF W!Planned
<1>2. \A i : One(i).slot = W!Slot(rows, E, i) /\ One(i).port = rows[i].port
  OBVIOUS
<1>3. CASE E # {}
  <2>1. t.kind = "hub" /\ t.tunnels = [i \in E |-> One(i)]
    <3> HIDE DEF E, t, One
    <3> QED BY <1>1, <1>3
  <2> HIDE DEF E, t, One
  <2>2. DOMAIN t.tunnels = E /\ \A i \in E : t.tunnels[i] = One(i)
    BY <2>1
  <2>3. \A i \in E : t.tunnels[i].slot = W!Slot(rows, E, i) /\ t.tunnels[i].port = rows[i].port
    BY <1>2, <2>2
  <2> QED BY <1>3, <2>1, <2>2, <2>3, Zenon DEF E, t
<1>4. CASE E = {}
  <2>1. t.kind # "hub"
    <3> HIDE DEF E, t, Home
    <3> QED BY <1>1, <1>4 DEF W!NoTunnels
  <2> QED BY <1>4, <2>1, Zenon
<1> QED BY <1>3, <1>4

LEMMA PlannedDistinct ==
  ASSUME NEW rows \in NodeTable, NEW s \in Servers, NEW next, W!Planned(rows, s).kind = "hub",
         \A i \in Nodes : rows[i] # Nobody => i < next
  PROVE  Distinct(W!Planned(rows, s).tunnels, next)
<1> DEFINE E == W!Enabled(rows, s)
           t == W!Planned(rows, s).tunnels
<1>1. DOMAIN t = E /\ \A i \in E : t[i].slot = W!Slot(rows, E, i)
  BY PlannedHub
<1>2. E \in SUBSET W!Saved(rows) /\ \A i \in E : i \in Nodes /\ rows[i] # Nobody
  BY DEF W!Enabled, W!Saved
<1> HIDE DEF E, t
<1>3. \A i \in E : i < next /\ W!Slot(rows, E, i) \in W!Slots
  BY <1>2, SlotIsSlot
<1>4. \A i, j \in E : i # j => W!Slot(rows, E, i) # W!Slot(rows, E, j)
  BY <1>2, SlotsDiffer
<1>5. Distinct(t, next)
  <2>1. \A i \in E : i \in Nodes /\ i < next /\ t[i].slot \in W!Slots
    BY <1>1, <1>2, <1>3
  <2>2. \A i, j \in E : i # j => t[j].slot # t[i].slot
    BY <1>1, <1>4
  <2> QED BY <1>1, <2>1, <2>2 DEF Distinct
<1> QED BY <1>5, Zenon DEF t

LEMMA SlotBegins == W!Init => SlotInv
<1> SUFFICES ASSUME W!Init PROVE SlotInv
  OBVIOUS
<1>1. PlanInv
  BY PlanBegin
<1>2. /\ edit = [h \in Handlers |-> W!Idle] /\ node = SavedNodes /\ build = [s \in Servers |-> W!NoBuild]
      /\ built = [s \in Servers |-> W!Planned(SavedNodes, s)]
  BY Zenon DEF W!Init
<1>3. DOMAIN build = Servers /\ DOMAIN built = Servers /\ (\A s \in Servers : build[s] = W!NoBuild)
      /\ \A s \in Servers : built[s] = W!Planned(node, s)
  BY <1>2
<1>4. \A h \in Handlers : EditKeeps(edit[h])
  <2>1. \A h \in Handlers : edit[h] = W!Idle
    BY <1>2
  <2> QED BY <2>1, IdleEdit DEF EditKeeps
<1>5. \A s \in Servers : build[s].by = Nobody
  BY <1>3 DEF W!NoBuild
<1>6. ASSUME NEW s \in Servers, built[s].kind = "hub"
      PROVE  Distinct(built[s].tunnels, nextNode) /\ Holds(built[s].tunnels, s, node)
  <2> DEFINE E == W!Enabled(node, s)
             t == built[s].tunnels
  <2>1. node \in NodeTable /\ built[s] = W!Planned(node, s)
    BY <1>1, <1>3 DEF PlanInv, PlanTypes
  <2>2. DOMAIN t = E /\ \A i \in E : t[i].slot = W!Slot(node, E, i)
    BY <1>6, <2>1, PlannedHub, Zenon
  <2>3. Distinct(t, nextNode)
    BY <1>1, <1>6, <2>1, PlannedDistinct, Zenon DEF PlanInv, NodesGivenOut
  <2>4. \A i \in W!Saved(SavedNodes) :
          /\ SavedNodes[i].on => SavedNodes[i].slot # Nobody
          /\ \A j \in W!Saved(SavedNodes) \ {i} :
               SavedNodes[i].on /\ SavedNodes[j].on /\ SavedNodes[i].srv = SavedNodes[j].srv
                 => SavedNodes[i].slot # SavedNodes[j].slot
    BY PlanTables, Zenon DEF W!WGPlanAssumption
  <2>5. \A i \in E : i \in W!Claims(node, E)
    <3>1. \A i \in E : i \in W!Saved(SavedNodes) /\ i \in Nat /\ node[i] = SavedNodes[i] /\ node[i].srv = s /\ node[i].on
      BY <1>2, SmallPlan DEF W!Enabled, W!Saved
    <3> HIDE DEF E
    <3> QED BY <2>4, <3>1 DEF W!Claims
  <2>6. \A i \in E : W!Slot(node, E, i) = node[i].slot /\ node[i].srv = s
    <3>1. \A i \in E : node[i].srv = s
      BY DEF W!Enabled
    <3> QED BY <2>5, <3>1, Zenon DEF W!Slot
  <2> HIDE DEF E, t
  <2>7. Holds(t, s, node)
    BY <2>2, <2>6 DEF Holds
  <2> QED BY <2>3, <2>7, Zenon DEF t
<1> QED BY <1>1, <1>3, <1>4, <1>5, <1>6, Zenon DEF SlotInv

LEMMA CheckedSt ==
  /\ \A r : NodeCreate(r).st = "checked"
  /\ \A i, q, r : NodeUpdate(i, q, r).st = "checked"
  /\ \A i, q : NodeDelete(i, q).st = "checked"
BY DEF NodeCreate, NodeUpdate, NodeDelete, W!Idle

\* An update changes one field, and never the server.
LEMMA FieldsKept ==
  ASSUME NEW q \in W!Row, NEW r \in W!Field(q)
  PROVE  r.srv = q.srv
<1> DEFINE Switched == {[q EXCEPT !.on = ~@]}
           Moved == {[q EXCEPT !.port = p] : p \in Ports}
           Renamed == {[q EXCEPT !.net = n] : n \in Nets}
           Left == {[q EXCEPT !.exit = x] : x \in Servers \cup {Nobody}}
           Aged == {[q EXCEPT !.slot = x] : x \in W!Slots \cup {Nobody}}
<1>1. r \in (((Switched \cup Moved) \cup Renamed) \cup Left) \cup Aged
  BY DEF W!Field
<1>2. r \in Switched \/ r \in Moved \/ r \in Renamed \/ r \in Left \/ r \in Aged
  <2> HIDE DEF Switched, Moved, Renamed, Left, Aged
  <2> QED BY <1>1
<1>3. CASE r \in Switched
  BY <1>3 DEF W!Row
<1>4. CASE r \in Moved
  BY <1>4 DEF W!Row
<1>5. CASE r \in Renamed
  BY <1>5 DEF W!Row
<1>6. CASE r \in Left
  BY <1>6 DEF W!Row
<1>7. CASE r \in Aged
  BY <1>7 DEF W!Row
<1> QED BY <1>2, <1>3, <1>4, <1>5, <1>6, <1>7

\* What a request that pushes has before it.
LEMMA PushTodo == \A t : NodePush(t).st = "push" /\ NodePush(t).todo = t
BY DEF NodePush, W!Idle

\* A request that has checked keeps its hands off the rest.
LEMMA NodeChecks ==
  ASSUME PlanInv, NEW h \in Handlers,
         \/ \E s \in Servers : \E r \in W!New(s) : W!CheckCreate(h, s, r)
         \/ \E i \in W!Saved(node) : W!CheckDelete(h, i) \/ \E r \in W!Field(node[i]) : W!CheckUpdate(h, i, r)
  PROVE  /\ UNCHANGED <<node, nextNode, hosted, build, built, stale, unreached, reslotted>>
         /\ edit[h].st = "idle"
         /\ \E o \in NodeEdits : edit' = [edit EXCEPT ![h] = o] /\ EditKeeps(o) /\ o.st = "checked"
<1>1. UNCHANGED <<node, nextNode, hosted, build, built, stale, unreached, reslotted>> /\ edit[h].st = "idle"
  BY DEF W!CheckCreate, W!CheckDelete, W!CheckUpdate, W!Begin, W!Free
<1>2. ASSUME NEW s \in Servers, NEW r \in W!New(s), W!CheckCreate(h, s, r)
      PROVE  \E o \in NodeEdits : edit' = [edit EXCEPT ![h] = o] /\ EditKeeps(o) /\ o.st = "checked"
  <2> DEFINE o == NodeCreate(r)
  <2>1. edit' = [edit EXCEPT ![h] = o]
    BY <1>2, Zenon DEF W!CheckCreate, W!Checked, NodeCreate
  <2>2. o \in NodeEdits /\ o.kind = "create"
    BY AskedNodes, CheckedNodeCreate
  <2>3. o.st = "checked"
    BY CheckedSt
  <2> HIDE DEF o
  <2> QED BY <2>1, <2>2, <2>3 DEF EditKeeps
<1>3. ASSUME NEW i \in W!Saved(node), W!CheckDelete(h, i)
      PROVE  \E o \in NodeEdits : edit' = [edit EXCEPT ![h] = o] /\ EditKeeps(o) /\ o.st = "checked"
  <2> DEFINE o == NodeDelete(i, node[i])
  <2>1. edit' = [edit EXCEPT ![h] = o]
    BY <1>3, Zenon DEF W!CheckDelete, W!Checked, NodeDelete
  <2>2. i \in Nodes /\ node[i] \in W!Row
    BY DEF W!Saved, PlanInv, PlanTypes, NodeTable
  <2>3. o \in NodeEdits /\ o.kind = "delete"
    BY <2>2, CheckedNodeDelete
  <2>4. o.st = "checked"
    BY <2>2, CheckedSt
  <2> HIDE DEF o
  <2> QED BY <2>1, <2>3, <2>4 DEF EditKeeps
<1>4. ASSUME NEW i \in W!Saved(node), NEW r \in W!Field(node[i]), W!CheckUpdate(h, i, r)
      PROVE  \E o \in NodeEdits : edit' = [edit EXCEPT ![h] = o] /\ EditKeeps(o) /\ o.st = "checked"
  <2> DEFINE o == NodeUpdate(i, node[i], r)
  <2>1. edit' = [edit EXCEPT ![h] = o]
    BY <1>4, Zenon DEF W!CheckUpdate, W!Checked, NodeUpdate
  <2>2. i \in Nodes /\ node[i] \in W!Row
    BY DEF W!Saved, PlanInv, PlanTypes, NodeTable
  <2>3. r \in W!Row
    BY <2>2, AskedNodes
  <2>4. o \in NodeEdits /\ o.new = r /\ o.read = node[i]
    BY <2>2, <2>3, CheckedNodeUpdate
  <2>5. o.st = "checked"
    BY <2>2, <2>3, CheckedSt
  <2>6. r.srv = node[i].srv
    BY <2>2, FieldsKept
  <2> HIDE DEF o
  <2> QED BY <2>1, <2>4, <2>5, <2>6 DEF EditKeeps
<1> QED BY <1>1, <1>2, <1>3, <1>4

\* Whoever a written row concerns, or concerned, will be pushed or was missed.
PushesWhom(o) ==
  \A s \in Servers : (o.st = "push" /\ s \in o.todo) \/ s \in unreached' \/ SameFor(s, node, node')

\* A node that stays keeps its server and its slot.
SlotsLeft ==
  \A i \in Nodes : node'[i] # Nobody =>
    \/ i = nextNode
    \/ node[i] # Nobody /\ node'[i].srv = node[i].srv /\ node'[i].slot = node[i].slot

\* Those that a handler has to push it pushes, or they are missed.
LEMMA ProvisionReaches ==
  ASSUME NEW h \in Handlers, NEW t \in SUBSET Servers, W!Provision(h, t)
  PROVE  /\ unreached \subseteq unreached'
         /\ \E o \in NodeEdits : /\ edit' = [edit EXCEPT ![h] = o] /\ o.st \in {"idle", "push"}
                                 /\ \A s \in t : (o.st = "push" /\ s \in o.todo) \/ s \in unreached'
<1>1. CASE edit' = [edit EXCEPT ![h] = NodePush(t)] /\ unreached' = unreached
  BY <1>1, PushingNode, PushTodo
<1>2. CASE edit' = [edit EXCEPT ![h] = W!Idle] /\ unreached' = unreached \cup t
  BY <1>2, IdleEdit
<1> QED BY <1>1, <1>2, Zenon DEF W!Provision, NodePush

\* A request writes one row, tells every server that it concerns or concerned,
\* and leaves a node that stays on its server with its slot.
LEMMA NodeWrites ==
  ASSUME SlotInv, NEW h \in Handlers, W!Create(h) \/ W!Update(h) \/ W!Delete(h)
  PROVE  /\ UNCHANGED <<hosted, build, built>> /\ edit[h].st = "checked" /\ nextNode <= nextNode'
         /\ (~stale' => ~stale) /\ (AsTold' => AsTold) /\ unreached \subseteq unreached'
         /\ \E o \in NodeEdits : /\ edit' = [edit EXCEPT ![h] = o] /\ o.st \in {"idle", "push"}
                                 /\ ~stale' => PushesWhom(o)
         /\ AsTold' => SlotsLeft
<1>0. /\ UNCHANGED <<hosted, build, built>> /\ edit[h].st = "checked"
      /\ node \in NodeTable /\ nextNode \in Nat /\ edit[h] \in NodeEdits /\ EditFits(edit[h]) /\ EditKeeps(edit[h])
  BY DEF W!Create, W!Update, W!Delete, W!Saves, SlotInv, PlanInv, PlanTypes
<1>1. CASE W!Create(h)
  <2> DEFINE r == edit[h].new
             T == W!Targets(Nobody, r)
  <2>1. r \in W!Row /\ stale' = stale /\ reslotted' = reslotted
    BY <1>0, <1>1 DEF W!Create, EditFits
  <2>2. CASE /\ nextNode \in Nodes
             /\ node' = [node EXCEPT ![nextNode] = r] /\ nextNode' = nextNode + 1
             /\ W!Provision(h, T)
    <3>1. T \in SUBSET Servers /\ T = ({r.srv, r.exit} \cup {}) \ {Nobody}
      BY <2>1, TargetsOfNodes DEF W!Targets
    <3> HIDE DEF T
    <3>2. /\ unreached \subseteq unreached'
          /\ \E o \in NodeEdits : /\ edit' = [edit EXCEPT ![h] = o] /\ o.st \in {"idle", "push"}
                                  /\ \A s \in T : (o.st = "push" /\ s \in o.todo) \/ s \in unreached'
      BY <2>2, <3>1, ProvisionReaches
    <3>3. PICK o \in NodeEdits : /\ edit' = [edit EXCEPT ![h] = o] /\ o.st \in {"idle", "push"}
                                 /\ \A s \in T : (o.st = "push" /\ s \in o.todo) \/ s \in unreached'
      BY <3>2
    <3>4. node[nextNode] = Nobody
      BY <1>0, <2>2 DEF SlotInv, PlanInv, NodesGivenOut
    <3>5. ASSUME NEW s \in Servers PROVE s \in T \/ SameFor(s, node, node')
      <4>1. s \notin T => ~Concerns(r, s) /\ ~Concerns(node[nextNode], s)
        BY <3>1, <3>4, SmallPlan DEF Concerns
      <4> HIDE DEF r
      <4> QED BY <1>0, <2>2, <4>1, RowWritten
    <3> HIDE DEF r
    <3>6. \A i \in Nodes : node'[i] = IF i = nextNode THEN r ELSE node[i]
      BY <1>0, <2>2 DEF NodeTable
    <3>7. SlotsLeft
      BY <3>6 DEF SlotsLeft
    <3>8. PushesWhom(o)
      BY <3>3, <3>5, Zenon DEF PushesWhom
    <3>9. nextNode <= nextNode'
      BY <1>0, <2>2
    <3> QED BY <1>0, <2>1, <3>2, <3>3, <3>7, <3>8, <3>9, Zenon DEF AsTold
  <2>3. CASE edit' = [edit EXCEPT ![h] = W!Idle] /\ UNCHANGED <<node, nextNode, unreached>>
    <3>1. \A s : SameFor(s, node, node')
      BY <2>3, SameForItself
    <3>2. SlotsLeft
      BY <2>3, Zenon DEF SlotsLeft
    <3>3. PushesWhom(W!Idle)
      BY <3>1, Zenon DEF PushesWhom
    <3>4. nextNode <= nextNode' /\ W!Idle.st \in {"idle", "push"} /\ unreached \subseteq unreached'
      BY <1>0, <2>3, IdleEdit
    <3> QED BY <1>0, <2>1, <2>3, <3>2, <3>3, <3>4, IdleEdit, Zenon DEF AsTold
  <2> QED BY <1>1, <2>2, <2>3, Zenon DEF W!Create
<1>2. CASE W!Update(h)
  <2> DEFINE r == edit[h].new
             i == edit[h].id
             q == edit[h].read
             T == W!Targets(q, r)
  <2>1. /\ edit[h].kind = "update" /\ nextNode' = nextNode /\ W!Provision(h, T)
        /\ node' = [node EXCEPT ![i] = IF @ = Nobody THEN Nobody ELSE r]
        /\ stale' = (stale \/ node[i] # q) /\ reslotted' = (reslotted \/ r.slot # q.slot)
    BY <1>2, Zenon DEF W!Update
  <2>2. r \in W!Row /\ i \in Nodes /\ q \in W!Row /\ r.srv = q.srv
    BY <1>0, <2>1 DEF EditFits, EditKeeps
  <2>3. T \in SUBSET Servers /\ T = ({r.srv, r.exit} \cup {q.exit}) \ {Nobody}
    BY <2>2, TargetsOfNodes, SmallPlan DEF W!Targets
  <2> HIDE DEF T, i, q, r
  <2>4. ~stale' => ~stale /\ node[i] = q /\ node' = [node EXCEPT ![i] = r]
    BY <2>1, <2>2, SmallPlan
  <2>5. /\ unreached \subseteq unreached'
        /\ \E o \in NodeEdits : /\ edit' = [edit EXCEPT ![h] = o] /\ o.st \in {"idle", "push"}
                                /\ \A s \in T : (o.st = "push" /\ s \in o.todo) \/ s \in unreached'
    BY <2>1, <2>3, ProvisionReaches
  <2>6. PICK o \in NodeEdits : /\ edit' = [edit EXCEPT ![h] = o] /\ o.st \in {"idle", "push"}
                               /\ \A s \in T : (o.st = "push" /\ s \in o.todo) \/ s \in unreached'
    BY <2>5
  <2>7. ASSUME ~stale', NEW s \in Servers PROVE s \in T \/ SameFor(s, node, node')
    <3>1. s \notin T => ~Concerns(r, s) /\ ~Concerns(node[i], s)
      BY <2>2, <2>3, <2>4, <2>7, SmallPlan DEF Concerns
    <3> QED BY <1>0, <2>2, <2>4, <2>7, <3>1, RowWritten
  <2>8. ASSUME AsTold', NEW k \in Nodes, node'[k] # Nobody
        PROVE  node[k] # Nobody /\ node'[k].srv = node[k].srv /\ node'[k].slot = node[k].slot
    <3>1. ~stale' /\ r.slot = q.slot
      BY <2>1, <2>8 DEF AsTold
    <3>2. node'[k] = IF k = i THEN r ELSE node[k]
      BY <1>0, <2>4, <3>1 DEF NodeTable
    <3> QED BY <2>2, <2>4, <2>8, <3>1, <3>2, SmallPlan
  <2>9. (AsTold' => SlotsLeft) /\ (~stale' => PushesWhom(o)) /\ (AsTold' => AsTold)
    BY <2>1, <2>6, <2>7, <2>8, Zenon DEF SlotsLeft, PushesWhom, AsTold
  <2>10. nextNode <= nextNode'
    BY <1>0, <2>1
  <2> QED BY <1>0, <2>4, <2>5, <2>6, <2>9, <2>10, Zenon
<1>3. CASE W!Delete(h)
  <2> DEFINE i == edit[h].id
             q == edit[h].read
             T == W!Targets(q, q)
  <2>1. /\ edit[h].kind = "delete" /\ nextNode' = nextNode /\ node' = [node EXCEPT ![i] = Nobody]
        /\ stale' = (stale \/ node[i] # q) /\ reslotted' = reslotted /\ W!Provision(h, T)
    BY <1>3, Zenon DEF W!Delete
  <2>2. i \in Nodes /\ q \in W!Row
    BY <1>0, <2>1 DEF EditFits
  <2>3. T \in SUBSET Servers /\ T = ({q.srv, q.exit} \cup {q.exit}) \ {Nobody}
    BY <2>2, TargetsOfNodes, SmallPlan DEF W!Targets
  <2> HIDE DEF T, i, q
  <2>4. /\ unreached \subseteq unreached'
        /\ \E o \in NodeEdits : /\ edit' = [edit EXCEPT ![h] = o] /\ o.st \in {"idle", "push"}
                                /\ \A s \in T : (o.st = "push" /\ s \in o.todo) \/ s \in unreached'
    BY <2>1, <2>3, ProvisionReaches
  <2>5. PICK o \in NodeEdits : /\ edit' = [edit EXCEPT ![h] = o] /\ o.st \in {"idle", "push"}
                               /\ \A s \in T : (o.st = "push" /\ s \in o.todo) \/ s \in unreached'
    BY <2>4
  <2>6. ASSUME ~stale', NEW s \in Servers PROVE s \in T \/ SameFor(s, node, node')
    <3>1. s \notin T => ~Concerns(Nobody, s) /\ ~Concerns(node[i], s)
      BY <2>1, <2>3, <2>6, SmallPlan DEF Concerns
    <3> QED BY <1>0, <2>1, <2>2, <3>1, RowWritten
  <2>7. ASSUME NEW k \in Nodes, node'[k] # Nobody PROVE node'[k] = node[k]
    BY <1>0, <2>1, <2>7 DEF NodeTable
  <2>8. (AsTold' => SlotsLeft) /\ (~stale' => PushesWhom(o)) /\ (~stale' => ~stale) /\ (AsTold' => AsTold)
    BY <2>1, <2>5, <2>6, <2>7, Zenon DEF SlotsLeft, PushesWhom, AsTold
  <2>9. nextNode <= nextNode'
    BY <1>0, <2>1
  <2> QED BY <1>0, <2>4, <2>5, <2>8, <2>9, Zenon
<1> QED BY <1>1, <1>2, <1>3

LEMMA SlotAfter ==
  ASSUME PlanInv', DOMAIN build' = Servers, DOMAIN built' = Servers, \A h \in Handlers : EditKeeps(edit'[h]),
         AsTold' => \A s \in Servers :
           /\ build'[s].by # Nobody => Follows(build'[s].rows, s, node', nextNode')
           /\ built'[s].kind = "hub" =>
                /\ Distinct(built'[s].tunnels, nextNode') /\ Holds(built'[s].tunnels, s, node')
                /\ build'[s].by # Nobody => Holds(built'[s].tunnels, s, build'[s].rows)
  PROVE  SlotInv'
<1>1. \A h \in Handlers : EditKeeps(edit[h])'
  BY Zenon DEF EditKeeps
<1>2. \A s \in Servers :
        /\ Follows(build'[s].rows, s, node', nextNode') => Follows(build[s].rows, s, node, nextNode)'
        /\ Distinct(built'[s].tunnels, nextNode') => Distinct(built[s].tunnels, nextNode)'
        /\ Holds(built'[s].tunnels, s, node') => Holds(built[s].tunnels, s, node)'
        /\ Holds(built'[s].tunnels, s, build'[s].rows) => Holds(built[s].tunnels, s, build[s].rows)'
  BY Zenon DEF Follows, Distinct, Holds, W!Slots
<1> QED BY <1>1, <1>2, Zenon DEF SlotInv

\* Rows are written, and nobody builds.
LEMMA SlotWritten ==
  ASSUME SlotInv, PlanInv', UNCHANGED <<build, built>>, AsTold' => AsTold, nextNode <= nextNode',
         NEW h \in Handlers, NEW o \in NodeEdits, EditKeeps(o), edit' = [edit EXCEPT ![h] = o],
         AsTold' => SlotsLeft
  PROVE  SlotInv'
<1>1. \A g \in Handlers : EditKeeps(edit'[g])
  <2>1. \A g \in Handlers : edit'[g] = IF g = h THEN o ELSE edit[g]
    BY DEF SlotInv, PlanInv, PlanTypes
  <2> QED BY <2>1, Zenon DEF SlotInv
<1>2. nextNode \in Nat /\ nextNode' \in Nat /\ Nodes \subseteq Nat
  BY SmallPlan DEF SlotInv, PlanInv, PlanTypes
<1>3. ASSUME AsTold', NEW s \in Servers, NEW rows, Follows(rows, s, node, nextNode)
      PROVE  Follows(rows, s, node', nextNode')
  <2> SUFFICES ASSUME NEW i \in Nodes, rows[i] # Nobody
               PROVE  /\ i < nextNode'
                      /\ node'[i] # Nobody => node'[i].srv = rows[i].srv /\ (rows[i].srv = s => node'[i].slot = rows[i].slot)
    BY DEF Follows
  <2>1. i < nextNode /\ (node[i] # Nobody => node[i].srv = rows[i].srv /\ (rows[i].srv = s => node[i].slot = rows[i].slot))
    BY <1>3 DEF Follows
  <2>2. i < nextNode' /\ i # nextNode
    BY <1>2, <2>1
  <2> QED BY <1>3, <2>1, <2>2 DEF SlotsLeft
<1>4. ASSUME AsTold', NEW s \in Servers, NEW t, Distinct(t, nextNode), Holds(t, s, node)
      PROVE  Distinct(t, nextNode') /\ Holds(t, s, node')
  <2>0. \A i \in Nat : i < nextNode => i < nextNode' /\ i # nextNode
    BY <1>2
  <2>1. \A i \in DOMAIN t : i < nextNode' /\ i \in Nodes /\ i # nextNode
    BY <1>2, <1>4, <2>0, Zenon DEF Distinct
  <2>2. Distinct(t, nextNode')
    BY <1>4, <2>1, Zenon DEF Distinct
  <2>3. Holds(t, s, node')
    BY <1>4, <2>1 DEF Holds, SlotsLeft
  <2> QED BY <2>2, <2>3
<1>5. ASSUME AsTold', NEW s \in Servers
      PROVE  /\ build'[s].by # Nobody => Follows(build'[s].rows, s, node', nextNode')
             /\ built'[s].kind = "hub" =>
                  /\ Distinct(built'[s].tunnels, nextNode') /\ Holds(built'[s].tunnels, s, node')
                  /\ build'[s].by # Nobody => Holds(built'[s].tunnels, s, build'[s].rows)
  <2>1. build'[s] = build[s] /\ built'[s] = built[s] /\ AsTold
    BY <1>5
  <2> QED BY <1>3, <1>4, <1>5, <2>1, Zenon DEF SlotInv
<1>6. DOMAIN build' = Servers /\ DOMAIN built' = Servers
  BY DEF SlotInv
<1> QED BY <1>1, <1>5, <1>6, SlotAfter, Zenon

LEMMA SlotRequests ==
  ASSUME SlotInv, PlanInv', NEW h \in Handlers,
         \/ \E s \in Servers : \E r \in W!New(s) : W!CheckCreate(h, s, r)
         \/ \E i \in W!Saved(node) : W!CheckDelete(h, i) \/ \E r \in W!Field(node[i]) : W!CheckUpdate(h, i, r)
         \/ W!Create(h) \/ W!Update(h) \/ W!Delete(h)
  PROVE  SlotInv'
<1>1. CASE W!Create(h) \/ W!Update(h) \/ W!Delete(h)
  <2>1. /\ UNCHANGED <<build, built>> /\ (AsTold' => AsTold) /\ nextNode <= nextNode' /\ (AsTold' => SlotsLeft)
        /\ \E o \in NodeEdits : edit' = [edit EXCEPT ![h] = o] /\ o.st \in {"idle", "push"}
    BY <1>1, NodeWrites, Zenon
  <2>2. PICK o \in NodeEdits : edit' = [edit EXCEPT ![h] = o] /\ o.st \in {"idle", "push"}
    BY <2>1
  <2>3. EditKeeps(o)
    BY <2>2 DEF EditKeeps
  <2> QED BY <2>1, <2>2, <2>3, SlotWritten
<1>2. CASE \/ \E s \in Servers : \E r \in W!New(s) : W!CheckCreate(h, s, r)
           \/ \E i \in W!Saved(node) : W!CheckDelete(h, i) \/ \E r \in W!Field(node[i]) : W!CheckUpdate(h, i, r)
  <2>1. UNCHANGED <<node, nextNode, build, built, stale, reslotted>>
        /\ \E o \in NodeEdits : edit' = [edit EXCEPT ![h] = o] /\ EditKeeps(o)
    BY <1>2, NodeChecks, Zenon DEF SlotInv
  <2>2. PICK o \in NodeEdits : edit' = [edit EXCEPT ![h] = o] /\ EditKeeps(o)
    BY <2>1
  <2>3. SlotsLeft
    BY <2>1, Zenon DEF SlotsLeft
  <2>4. nextNode <= nextNode' /\ (AsTold' => AsTold)
    BY <2>1 DEF SlotInv, PlanInv, PlanTypes, AsTold
  <2> QED BY <2>1, <2>2, <2>3, <2>4, SlotWritten
<1> QED BY <1>1, <1>2

LEMMA SlotBuildStarts ==
  ASSUME SlotInv, PlanInv', NEW s \in Servers, NEW who, W!BuildRead(s, who), edit' = edit
  PROVE  SlotInv'
<1>1. /\ UNCHANGED <<node, nextNode, built, stale, reslotted>>
      /\ build' = [build EXCEPT ![s] = [by |-> who, rows |-> node, hosts |-> hosted]]
  BY Zenon DEF W!BuildRead
<1>2. DOMAIN build' = Servers /\ DOMAIN built' = Servers /\ (\A h \in Handlers : EditKeeps(edit'[h]))
      /\ \A t \in Servers : built'[t] = built[t]
  BY <1>1 DEF SlotInv
<1>3. \A t \in Servers : build'[t] = build[t] \/ build'[t].rows = node
  BY <1>1
<1>4. \A t \in Servers : Follows(node, t, node, nextNode)
  BY DEF Follows, SlotInv, PlanInv, NodesGivenOut
<1>5. ASSUME AsTold', NEW t \in Servers
      PROVE  /\ build'[t].by # Nobody => Follows(build'[t].rows, t, node', nextNode')
             /\ built'[t].kind = "hub" =>
                  /\ Distinct(built'[t].tunnels, nextNode') /\ Holds(built'[t].tunnels, t, node')
                  /\ build'[t].by # Nobody => Holds(built'[t].tunnels, t, build'[t].rows)
  <2>1. AsTold /\ node' = node /\ nextNode' = nextNode /\ built'[t] = built[t]
    BY <1>1, <1>2, <1>5 DEF AsTold
  <2>2. CASE build'[t] = build[t]
    BY <2>1, <2>2, Zenon DEF SlotInv
  <2>3. CASE build'[t].rows = node
    BY <1>4, <2>1, <2>3, Zenon DEF SlotInv
  <2> QED BY <1>3, <2>2, <2>3
<1> QED BY <1>2, <1>5, SlotAfter, Zenon

\* Who gets a slot that he does not hold.
LEMMA SlotsWritten ==
  ASSUME NEW s
  PROVE  LET rows == build[s].rows  E == W!Enabled(rows, s) IN
         \A i : i \in W!SlotWrites(s) <=> W!Slottable(rows, s) /\ i \in E /\ W!Slot(rows, E, i) # rows[i].slot
BY Zenon DEF W!SlotWrites

\* What a Build leaves: no row comes or goes, those of its server that got a
\* slot have it now, and only what its server was told changes.
LEMMA BuildDone ==
  ASSUME PlanInv, DOMAIN build = Servers, DOMAIN built = Servers, NEW s \in Servers, W!BuildEnd(s)
  PROVE  LET rows == build[s].rows  E == W!Enabled(rows, s) IN
         /\ build[s].by # Nobody /\ rows \in NodeTable /\ UNCHANGED <<nextNode, hosted>>
         /\ (~stale' => ~stale) /\ (AsTold' => AsTold) /\ unreached \subseteq unreached'
         /\ build' = [build EXCEPT ![s] = W!NoBuild]
         /\ \E sent \in BOOLEAN :
              /\ built' = IF sent THEN [built EXCEPT ![s] = W!Planned(rows, s)] ELSE built
              /\ (sent => W!CanBuild(s)) /\ (W!CanBuild(s) /\ ~sent => s \in unreached')
              /\ AsTold' => sent \/ W!SlotWrites(s) \cap DOMAIN built[s].tunnels = {}
         /\ ~stale' => \A i \in Nodes :
              /\ node'[i] # Nobody <=> node[i] # Nobody
              /\ node[i] # Nobody =>
                   /\ SlotApart(node'[i], node[i])
                   /\ node'[i].slot = IF i \in W!SlotWrites(s) THEN W!Slot(rows, E, i) ELSE node[i].slot
<1> DEFINE rows == build[s].rows
           E == W!Enabled(rows, s)
           Set == W!SlotWrites(s)
           Sends(sent) ==
             /\ (sent => W!CanBuild(s)) /\ (W!CanBuild(s) => sent \/ W!MayFail)
             /\ node' = [i \in Nodes |->
                           IF i \in W!SlotWrites(s) /\ node[i] # Nobody
                           THEN [rows[i] EXCEPT !.slot = W!Slot(rows, E, i)] ELSE node[i]]
             /\ stale' = (stale \/ \E i \in W!SlotWrites(s) : node[i] # Nobody /\ node[i] # rows[i])
             /\ raced' = (raced \/ (W!SlotWrites(s) # {} /\ \E o \in Handlers : edit[o].st = "checked"))
             /\ built' = IF sent THEN [built EXCEPT ![s] = W!Planned(rows, s)] ELSE built
             /\ unreached' = IF W!CanBuild(s) /\ ~sent THEN unreached \cup {s} ELSE unreached
             /\ reslotted' = (reslotted \/ (~sent /\ W!SlotWrites(s) \cap DOMAIN built[s].tunnels # {}))
<1>1. build[s].by # Nobody /\ rows \in NodeTable /\ node \in NodeTable /\ UNCHANGED <<nextNode, hosted>>
      /\ build' = [build EXCEPT ![s] = W!NoBuild]
  BY DEF W!BuildEnd, PlanInv, PlanTypes
<1>2. PICK sent \in BOOLEAN : Sends(sent)
  BY Zenon DEF W!BuildEnd
<1>3. /\ unreached \subseteq unreached' /\ (~stale' => ~stale) /\ (AsTold' => AsTold)
      /\ (sent => W!CanBuild(s)) /\ (W!CanBuild(s) /\ ~sent => s \in unreached')
      /\ AsTold' => sent \/ W!SlotWrites(s) \cap DOMAIN built[s].tunnels = {}
      /\ built' = IF sent THEN [built EXCEPT ![s] = W!Planned(rows, s)] ELSE built
  <2>1. unreached \subseteq unreached' /\ (W!CanBuild(s) /\ ~sent => s \in unreached')
    BY <1>2
  <2> QED BY <1>2, <2>1, Zenon DEF AsTold
<1>4. /\ node' = [i \in Nodes |-> IF i \in Set /\ node[i] # Nobody
                                  THEN [rows[i] EXCEPT !.slot = W!Slot(rows, E, i)] ELSE node[i]]
      /\ stale' = (stale \/ \E i \in Set : node[i] # Nobody /\ node[i] # rows[i])
  BY <1>2, Zenon
<1> HIDE DEF Sends
<1>5. \A i : i \in Set => i \in E
  BY SlotsWritten, Zenon
<1>6. E \subseteq Nodes /\ \A i \in E : rows[i] \in W!Row
  BY <1>1 DEF W!Enabled, W!Saved, NodeTable
<1> HIDE DEF Set, E, rows
<1> DEFINE Renumbered(i) == [rows[i] EXCEPT !.slot = W!Slot(rows, E, i)]
<1>7. \A i \in E : /\ Renumbered(i) # Nobody /\ SlotApart(Renumbered(i), rows[i])
                   /\ Renumbered(i).slot = W!Slot(rows, E, i)
  <2> SUFFICES ASSUME NEW i \in E
               PROVE  /\ Renumbered(i) # Nobody /\ SlotApart(Renumbered(i), rows[i])
                      /\ Renumbered(i).slot = W!Slot(rows, E, i)
    OBVIOUS
  <2>1. W!Slot(rows, E, i) \in W!Slots
    BY <1>1, SlotIsSlot, Zenon DEF E, W!Enabled, W!Saved
  <2> DEFINE q == rows[i]
             c == W!Slot(rows, E, i)
  <2>2. q \in W!Row /\ c \in W!Slots
    BY <1>6, <2>1
  <2> HIDE DEF q, c
  <2>3. [q EXCEPT !.slot = c] \in W!Row /\ SlotApart([q EXCEPT !.slot = c], q) /\ [q EXCEPT !.slot = c].slot = c
    BY <2>2 DEF W!Row, SlotApart
  <2>4. [q EXCEPT !.slot = c] # Nobody
    BY <2>3, SmallPlan
  <2> QED BY <2>3, <2>4, Zenon DEF q, c
<1>8. ~stale' => \A i \in Set : node[i] # Nobody => node[i] = rows[i]
  BY <1>4
<1>9. \A i \in Nodes : node'[i] = IF i \in Set /\ node[i] # Nobody THEN Renumbered(i) ELSE node[i]
  BY <1>4, Zenon
<1> HIDE DEF Renumbered
<1>10. ASSUME ~stale', NEW i \in Nodes
       PROVE  /\ node'[i] # Nobody <=> node[i] # Nobody
              /\ node[i] # Nobody => /\ SlotApart(node'[i], node[i])
                                     /\ node'[i].slot = IF i \in Set THEN W!Slot(rows, E, i) ELSE node[i].slot
  <2>1. CASE i \in Set /\ node[i] # Nobody
    <3>1. node'[i] = Renumbered(i) /\ node[i] = rows[i] /\ i \in E
      BY <1>5, <1>8, <1>9, <1>10, <2>1
    <3> QED BY <1>7, <2>1, <3>1
  <2>2. CASE ~(i \in Set /\ node[i] # Nobody)
    <3>1. node'[i] = node[i]
      BY <1>9, <2>2
    <3> QED BY <2>2, <3>1 DEF SlotApart
  <2> QED BY <2>1, <2>2
<1> QED BY <1>1, <1>3, <1>10, Zenon DEF E, Set, rows

\* What is left of a request when a server has been pushed.
LEMMA PushGoesOn ==
  ASSUME PlanInv, NEW s \in Servers, W!BuildEnd(s), NEW h \in Handlers
  PROVE  /\ edit[h].st # "checked" => edit'[h].st # "checked"
         /\ EditKeeps(edit[h]) => EditKeeps(edit'[h])
         /\ build[s].by # h => edit'[h] = edit[h]
         /\ \A t \in Servers \ {s} : edit[h].st = "push" /\ t \in edit[h].todo =>
              edit'[h].st = "push" /\ t \in edit'[h].todo
<1> DEFINE less == [edit[h] EXCEPT !.todo = @ \ {s}]
<1>1. edit'[h] = IF build[s].by # h THEN edit[h] ELSE IF edit[h].todo = {s} THEN W!Idle ELSE less
  BY Zenon DEF W!BuildEnd
<1>2. less.st = edit[h].st /\ less.kind = edit[h].kind /\ less.new = edit[h].new /\ less.read = edit[h].read
      /\ less.todo = edit[h].todo \ {s}
  BY DEF PlanInv, PlanTypes, NodeEdits
<1> HIDE DEF less
<1>3. edit'[h] = edit[h] \/ edit'[h] = less \/ (edit[h].todo = {s} /\ edit'[h] = W!Idle)
  BY <1>1
<1>4. (edit[h].st # "checked" => edit'[h].st # "checked") /\ (EditKeeps(edit[h]) => EditKeeps(edit'[h]))
  BY <1>2, <1>3, IdleEdit DEF EditKeeps
<1>5. \A t \in Servers \ {s} : edit[h].st = "push" /\ t \in edit[h].todo =>
        edit'[h].st = "push" /\ t \in edit'[h].todo
  BY <1>2, <1>3
<1> QED BY <1>1, <1>4, <1>5

\* A Build gives its server's nodes the slots it writes and tells.
LEMMA SlotBuilt ==
  ASSUME SlotInv, PlanInv', NEW s \in Servers, W!BuildEnd(s)
  PROVE  SlotInv'
<1> DEFINE rows == build[s].rows
           E == W!Enabled(rows, s)
           plan == W!Planned(rows, s)
           mine(i) == i \in W!SlotWrites(s)
           Left(sent) ==
             /\ built' = IF sent THEN [built EXCEPT ![s] = plan] ELSE built
             /\ sent => W!CanBuild(s)
             /\ AsTold' => sent \/ W!SlotWrites(s) \cap DOMAIN built[s].tunnels = {}
<1>1. \E sent \in BOOLEAN : Left(sent)
  BY BuildDone, Zenon DEF SlotInv
<1>2. /\ build[s].by # Nobody /\ rows \in NodeTable /\ nextNode' = nextNode /\ (AsTold' => AsTold)
      /\ build' = [build EXCEPT ![s] = W!NoBuild]
      /\ ~stale' => \A i \in Nodes :
           /\ node'[i] # Nobody <=> node[i] # Nobody
           /\ node[i] # Nobody =>
                /\ SlotApart(node'[i], node[i])
                /\ node'[i].slot = IF mine(i) THEN W!Slot(rows, E, i) ELSE node[i].slot
  BY BuildDone, Zenon DEF SlotInv
<1> HIDE DEF Left
<1>3. \A h \in Handlers : EditKeeps(edit'[h])
  BY PushGoesOn, Zenon DEF SlotInv
<1>4. E \in SUBSET W!Saved(rows) /\ \A i \in E : i \in Nodes /\ rows[i] # Nobody /\ rows[i].srv = s
  BY DEF W!Enabled, W!Saved
<1>5. DOMAIN build = Servers /\ DOMAIN built = Servers
  BY DEF SlotInv
<1>6. AsTold => Follows(rows, s, node, nextNode)
  BY <1>2, Zenon DEF SlotInv
<1>7. /\ \A i : mine(i) => i \in E
      /\ \A i \in E : W!CanBuild(s) /\ ~mine(i) => W!Slot(rows, E, i) = rows[i].slot
  <2>1. W!CanBuild(s) => W!Slottable(rows, s)
    BY Zenon DEF W!CanBuild, W!Plannable
  <2> QED BY <2>1, SlotsWritten, Zenon
<1> HIDE DEF rows, E, plan
<1>8. PICK sent \in BOOLEAN : Left(sent)
  BY <1>1
<1>9. DOMAIN build' = Servers /\ DOMAIN built' = Servers /\ (\A t \in Servers \ {s} : build'[t] = build[t] /\ built'[t] = built[t])
      /\ build'[s] = W!NoBuild /\ (sent => built'[s] = plan) /\ (~sent => built'[s] = built[s])
  BY <1>2, <1>5, <1>8 DEF Left
<1>10. ASSUME AsTold', NEW i \in Nodes, node'[i] # Nobody
      PROVE  /\ node[i] # Nobody /\ node'[i].srv = node[i].srv
             /\ mine(i) => i \in E /\ node[i].srv = s /\ node'[i].slot = W!Slot(rows, E, i)
             /\ ~mine(i) => node'[i].slot = node[i].slot
  <2>1. node[i] # Nobody /\ SlotApart(node'[i], node[i])
        /\ node'[i].slot = IF mine(i) THEN W!Slot(rows, E, i) ELSE node[i].slot
    BY <1>2, <1>10, Zenon DEF AsTold
  <2>2. mine(i) => i \in E
    BY <1>7
  <2> HIDE DEF mine
  <2>3. mine(i) => node[i].srv = s
    BY <1>2, <1>4, <1>6, <1>10, <2>1, <2>2 DEF Follows
  <2> QED BY <2>1, <2>2, <2>3 DEF SlotApart
<1>11. ASSUME AsTold', NEW t \in Servers, t # s
      PROVE  /\ build'[t].by # Nobody => Follows(build'[t].rows, t, node', nextNode')
             /\ built'[t].kind = "hub" =>
                  /\ Distinct(built'[t].tunnels, nextNode') /\ Holds(built'[t].tunnels, t, node')
                  /\ build'[t].by # Nobody => Holds(built'[t].tunnels, t, build'[t].rows)
  <2> HIDE DEF mine
  <2>1. build'[t] = build[t] /\ built'[t] = built[t] /\ nextNode' = nextNode /\ AsTold
    BY <1>2, <1>9, <1>11
  <2>2. ASSUME NEW q, Follows(q, t, node, nextNode) PROVE Follows(q, t, node', nextNode')
    BY <1>10, <1>11, <2>1, <2>2 DEF Follows
  <2>3. ASSUME NEW q, Holds(q, t, node), Distinct(q, nextNode) PROVE Holds(q, t, node')
    <3>1. \A i \in DOMAIN q : i \in Nodes
      BY <2>3, Zenon DEF Distinct
    <3> QED BY <1>10, <1>11, <2>3, <3>1 DEF Holds
  <2>4. build[t].by # Nobody => Follows(build[t].rows, t, node, nextNode)
    BY <2>1, Zenon DEF SlotInv
  <2>5. built[t].kind = "hub" =>
          /\ Distinct(built[t].tunnels, nextNode) /\ Holds(built[t].tunnels, t, node)
          /\ build[t].by # Nobody => Holds(built[t].tunnels, t, build[t].rows)
    BY <2>1, Zenon DEF SlotInv
  <2> QED BY <2>1, <2>2, <2>3, <2>4, <2>5, Zenon
<1>12. ASSUME AsTold', built'[s].kind = "hub"
      PROVE  Distinct(built'[s].tunnels, nextNode') /\ Holds(built'[s].tunnels, s, node')
  <2>1. CASE ~sent
    <3>1. built'[s] = built[s] /\ nextNode' = nextNode /\ AsTold
      BY <1>2, <1>9, <1>12, <2>1
    <3>2. Distinct(built[s].tunnels, nextNode) /\ Holds(built[s].tunnels, s, node)
      BY <1>12, <3>1, Zenon DEF SlotInv
    <3> DEFINE q == built[s].tunnels
    <3>3. \A i \in DOMAIN q : i \in Nodes
      BY <3>2, Zenon DEF Distinct
    <3>4. \A i \in DOMAIN q : ~mine(i)
      BY <1>12, <1>8, <2>1 DEF Left
    <3>5. \A i \in Nodes : node'[i] # Nobody => node[i] # Nobody /\ node'[i].srv = node[i].srv /\ (~mine(i) => node'[i].slot = node[i].slot)
      BY <1>10, <1>12, Zenon
    <3> HIDE DEF q, mine
    <3>6. Holds(q, s, node) => Holds(q, s, node')
      BY <3>3, <3>4, <3>5 DEF Holds
    <3> QED BY <3>1, <3>2, <3>6, Zenon DEF q
  <2>2. CASE sent
    <3>1. built'[s] = plan /\ nextNode' = nextNode /\ AsTold /\ plan.kind = "hub"
      BY <1>2, <1>9, <1>12, <2>2
    <3> DEFINE q == plan.tunnels
    <3>2. DOMAIN q = E /\ \A i \in E : q[i].slot = W!Slot(rows, E, i)
      BY <1>2, <3>1, PlannedHub, Zenon DEF E, plan
    <3>3. Distinct(q, nextNode)
      <4>1. \A i \in Nodes : rows[i] # Nobody => i < nextNode
        BY <1>6, <3>1, Zenon DEF Follows
      <4> QED BY <1>2, <3>1, <4>1, PlannedDistinct, Zenon DEF plan
    <3> HIDE DEF q
    <3>4. Holds(q, s, node')
      <4> SUFFICES ASSUME NEW i \in E, node'[i] # Nobody
                   PROVE  node'[i].srv = s /\ node'[i].slot = W!Slot(rows, E, i)
        BY <3>2 DEF Holds
      <4>1. i \in Nodes /\ rows[i] # Nobody /\ rows[i].srv = s
        BY <1>4
      <4>2. node[i] # Nobody /\ node'[i].srv = node[i].srv
        BY <1>10, <1>12, <4>1
      <4>3. node[i].srv = s /\ node[i].slot = rows[i].slot
        BY <1>6, <3>1, <4>1, <4>2 DEF Follows
      <4>4. ~mine(i) => W!Slot(rows, E, i) = rows[i].slot
        BY <1>7, <1>8, <2>2 DEF Left
      <4> HIDE DEF mine
      <4> QED BY <1>10, <1>12, <4>1, <4>2, <4>3, <4>4
    <3> QED BY <3>1, <3>3, <3>4, Zenon DEF q
  <2> QED BY <2>1, <2>2
<1>13. build'[s].by = Nobody
  BY <1>9 DEF W!NoBuild
<1> HIDE DEF mine
<1>14. AsTold' => \A t \in Servers :
         /\ build'[t].by # Nobody => Follows(build'[t].rows, t, node', nextNode')
         /\ built'[t].kind = "hub" =>
              /\ Distinct(built'[t].tunnels, nextNode') /\ Holds(built'[t].tunnels, t, node')
              /\ build'[t].by # Nobody => Holds(built'[t].tunnels, t, build'[t].rows)
  BY <1>11, <1>12, <1>13, Zenon
<1> QED BY <1>3, <1>9, <1>14, SlotAfter, Zenon

LEMMA SlotUnmoved ==
  ASSUME SlotInv, PlanInv', UNCHANGED <<node, nextNode, edit, build, built, stale, reslotted>>
  PROVE  SlotInv'
<1>1. AsTold' => AsTold
  BY DEF AsTold
<1> QED BY <1>1, SlotAfter, Zenon DEF SlotInv

LEMMA SlotStep == SlotInv /\ [W!Next]_(W!wgPlanVars) => SlotInv'
<1> SUFFICES ASSUME SlotInv, [W!Next]_(W!wgPlanVars) PROVE SlotInv'
  OBVIOUS
<1>0. PlanInv'
  BY PlanStep DEF SlotInv
<1>1. CASE UNCHANGED W!wgPlanVars
  <2>1. UNCHANGED <<node, nextNode, edit, build, built, stale, reslotted>>
    BY <1>1 DEF W!wgPlanVars
  <2> QED BY <1>0, <2>1, SlotUnmoved
<1>2. ASSUME NEW h \in Handlers,
             \/ \E s \in Servers : \E r \in W!New(s) : W!CheckCreate(h, s, r)
             \/ \E i \in W!Saved(node) : W!CheckDelete(h, i) \/ \E r \in W!Field(node[i]) : W!CheckUpdate(h, i, r)
             \/ W!Create(h) \/ W!Update(h) \/ W!Delete(h)
      PROVE  SlotInv'
  BY <1>0, <1>2, SlotRequests
<1>3. ASSUME NEW s \in Servers, (\E h \in Handlers : W!PushStart(h, s)) \/ W!LoopStart(s) PROVE SlotInv'
  BY <1>0, <1>3, SlotBuildStarts DEF W!PushStart, W!LoopStart
<1>4. ASSUME NEW s \in Servers, W!BuildEnd(s) PROVE SlotInv'
  BY <1>0, <1>4, SlotBuilt
<1>5. ASSUME NEW s \in Servers, W!Readdress(s) PROVE SlotInv'
  <2>1. UNCHANGED <<node, nextNode, edit, build, built, stale, reslotted>>
    BY <1>5, Zenon DEF W!Readdress
  <2> QED BY <1>0, <2>1, SlotUnmoved
<1> QED BY <1>1, <1>2, <1>3, <1>4, <1>5, Zenon DEF W!Next

\* A node that was told keeps its slot, or an older one has come that holds it.
LEMMA SlotKept ==
  ASSUME SlotInv, [W!Next]_(W!wgPlanVars), AsTold', NEW s \in Servers, built[s].kind = "hub", built'[s].kind = "hub",
         NEW i \in DOMAIN built[s].tunnels \cap DOMAIN built'[s].tunnels
  PROVE  \/ built'[s].tunnels[i].slot = built[s].tunnels[i].slot
         \/ \E j \in DOMAIN built'[s].tunnels \ DOMAIN built[s].tunnels :
              j < i /\ built'[s].tunnels[j].slot = built[s].tunnels[i].slot
<1> DEFINE rows == build[s].rows
           E == W!Enabled(rows, s)
           t == built[s].tunnels
           u == built'[s].tunnels
<1>1. CASE built'[s] = built[s]
  BY <1>1
<1>2. CASE built'[s] # built[s]
  <2>1. W!BuildEnd(s)
    <3>1. ASSUME NEW r \in Servers, W!BuildEnd(r) PROVE r = s
      <4>1. built' = built \/ built' = [built EXCEPT ![r] = W!Planned(build[r].rows, r)]
        BY <3>1, Zenon DEF W!BuildEnd
      <4>2. DOMAIN built = Servers
        BY DEF SlotInv
      <4> DEFINE q == W!Planned(build[r].rows, r)
      <4> HIDE DEF q
      <4>3. built' = built \/ built' = [built EXCEPT ![r] = q]
        BY <4>1, Zenon DEF q
      <4>4. r # s => built'[s] = built[s]
        BY <4>2, <4>3
      <4> QED BY <1>2, <4>4
    <3>2. built' = built \/ \E r \in Servers : W!BuildEnd(r)
      BY DEF W!Next, W!wgPlanVars, W!CheckCreate, W!CheckUpdate, W!CheckDelete, W!Create, W!Update, W!Delete,
             W!PushStart, W!LoopStart, W!BuildRead, W!Readdress
    <3> QED BY <1>2, <3>1, <3>2
  <2>2. /\ build[s].by # Nobody /\ rows \in NodeTable /\ AsTold
        /\ \E sent \in BOOLEAN : built' = IF sent THEN [built EXCEPT ![s] = W!Planned(rows, s)] ELSE built
    BY <2>1, BuildDone, Zenon DEF SlotInv
  <2>3. built'[s] = W!Planned(rows, s)
    BY <1>2, <2>2 DEF SlotInv
  <2>4. DOMAIN u = E /\ \A j \in E : u[j].slot = W!Slot(rows, E, j)
    BY <2>2, <2>3, PlannedHub, Zenon
  <2>5. Distinct(t, nextNode) /\ Holds(t, s, rows)
    BY <2>2, Zenon DEF SlotInv
  <2>6. E \in SUBSET W!Saved(rows) /\ \A j \in E : rows[j] # Nobody
    BY DEF W!Enabled, W!Saved
  <2> HIDE DEF E, rows, t, u
  <2>7. i \in E /\ i \in DOMAIN t
    BY <2>4 DEF t, u
  <2>8. rows[i].slot = t[i].slot /\ t[i].slot \in W!Slots
    <3>1. t[i].slot \in W!Slots
      BY <2>5, <2>7, Zenon DEF Distinct
    <3> QED BY <2>5, <2>6, <2>7, <3>1 DEF Holds
  <2>9. CASE W!Slot(rows, E, i) = rows[i].slot
    BY <2>4, <2>7, <2>8, <2>9 DEF t, u
  <2>10. CASE W!Slot(rows, E, i) # rows[i].slot
    <3>1. rows[i].slot # Nobody
      BY <2>8, SmallPlan
    <3>2. PICK j \in E : j < i /\ rows[j].slot = rows[i].slot /\ W!Slot(rows, E, j) = rows[i].slot
      BY <2>2, <2>6, <2>7, <2>10, <3>1, SlotTaken
    <3>3. j \notin DOMAIN t
      <4> SUFFICES ASSUME j \in DOMAIN t PROVE FALSE
        OBVIOUS
      <4>1. rows[j].slot = t[j].slot
        BY <2>5, <2>6 DEF Holds
      <4>2. i # j
        <5>1. i \in Nat
          BY <2>6, <2>7, SmallPlan DEF W!Saved
        <5> QED BY <3>2, <5>1
      <4>3. t[j].slot # t[i].slot
        BY <2>5, <2>7, <4>2, Zenon DEF Distinct
      <4> QED BY <2>8, <3>2, <4>1, <4>3
    <3>4. j \in DOMAIN u /\ u[j].slot = t[i].slot
      BY <2>4, <2>8, <3>2
    <3> QED BY <3>2, <3>3, <3>4 DEF t, u
  <2> QED BY <2>9, <2>10
<1> QED BY <1>1, <1>2

\* A running tunnel keeps its interface, mark and table (assignWGSlots and what
\* Build saves) while no row is written over another than the one read and no
\* row gets a slot that its server is not told, unless an older node that held
\* them comes back.
THEOREM SlotStaysHolds == W!Spec => SlotStays
<1>1. SlotInv /\ [W!Next]_(W!wgPlanVars) =>
        [~stale' /\ ~reslotted' => \A s \in Servers : built[s].kind = "hub" /\ built'[s].kind = "hub" =>
           \A i \in DOMAIN built[s].tunnels \cap DOMAIN built'[s].tunnels :
             \/ built'[s].tunnels[i].slot = built[s].tunnels[i].slot
             \/ \E j \in DOMAIN built'[s].tunnels \ DOMAIN built[s].tunnels :
                  j < i /\ built'[s].tunnels[j].slot = built[s].tunnels[i].slot]_(W!wgPlanVars)
  BY SlotKept, Zenon DEF AsTold
<1> QED BY SlotBegins, SlotStep, <1>1, PTL DEF W!Spec, SlotStays, W!SlotStays

-----------------------------------------------------------------------------
(***************************************************************************)
(* The two ends of a tunnel of WGPlan: whoever is not told of a row yet    *)
(* will be.                                                                *)
(***************************************************************************)

\* What a server was told agrees with the rows it is told of.
Agrees(s, t, rows) ==
  LET E == W!Enabled(rows, s)  H == W!HomeOf(rows, s) IN
  /\ E # {} => t.kind = "hub" /\ DOMAIN t.tunnels = E /\ \A i \in E : t.tunnels[i].port = rows[i].port
  /\ E = {} /\ H # {} =>
       /\ t.kind = "home" /\ DOMAIN t.tunnels = H
       /\ \A i \in H : t.tunnels[i] = [hub |-> rows[i].srv, port |-> rows[i].port, net |-> rows[i].net]
  /\ E = {} /\ H = {} => t.kind = "none"

\* Build b of server s has read what is planned from these rows, and of the
\* servers it dials the addresses they have.
Current(s, b, rows, hosts) ==
  SameFor(s, b.rows, rows) /\ \A d \in W!Dialled(rows, s) : d \in b.hosts <=> d \in hosts

\* Request o of handler h will have server s built from these rows; b is the
\* Build that goes on there.
WillPush(h, o, s, b, rows, hosts) ==
  /\ o.st = "push" /\ s \in o.todo
  /\ b.by # Nobody /\ b.by = h => Current(s, b, rows, hosts)

\* A server that can be built was told of the rows, or a Build there has read
\* them, unless somebody will push it or it was missed.
UpToDate(s, b, t, edits0, rows, hosts, left) ==
  \/ s \in left
  \/ \E h \in Handlers : WillPush(h, edits0[h], s, b, rows, hosts)
  \/ IF b.by # Nobody THEN Current(s, b, rows, hosts) ELSE W!Plannable(rows, s, hosts) => Agrees(s, t, rows)

\* A Build of a request belongs to one that pushes that server.
BuildsOwn(s, b, edits0) ==
  \A h \in Handlers : b.by # Nobody /\ b.by = h => edits0[h].st = "push" /\ s \in edits0[h].todo

EndsInv ==
  /\ SlotInv
  /\ \A s \in Servers : BuildsOwn(s, build[s], edit)
  /\ ~stale => \A s \in Servers : UpToDate(s, build[s], built[s], edit, node, hosted, unreached)

LEMMA SameForThen ==
  ASSUME NEW s, NEW a, NEW b, NEW c, SameFor(s, a, b), SameFor(s, b, c)
  PROVE  SameFor(s, a, c)
BY DEF SameFor, Concerns, SlotApart

LEMMA SameForBack == ASSUME NEW s, NEW a, NEW b, SameFor(s, a, b) PROVE SameFor(s, b, a)
BY DEF SameFor, SlotApart

\* Tables that tell a server the same can or cannot be built alike.
LEMMA SameRows ==
  ASSUME NEW s \in Servers, NEW a \in NodeTable, NEW b \in NodeTable, SameFor(s, a, b)
  PROVE  /\ W!Enabled(a, s) = W!Enabled(b, s) /\ W!HomeOf(a, s) = W!HomeOf(b, s)
         /\ \A i \in W!Enabled(a, s) \cup W!HomeOf(a, s) : SlotApart(a[i], b[i])
         /\ W!Dialled(a, s) = W!Dialled(b, s)
         /\ \A hosts : W!Plannable(a, s, hosts) <=> W!Plannable(b, s, hosts)
<1>1. ASSUME NEW i \in Nodes
      PROVE  /\ i \in W!Enabled(a, s) <=> i \in W!Enabled(b, s)
             /\ i \in W!HomeOf(a, s) <=> i \in W!HomeOf(b, s)
             /\ i \in W!Enabled(a, s) \/ i \in W!HomeOf(a, s) => SlotApart(a[i], b[i])
  BY SmallPlan DEF SameFor, Concerns, SlotApart, W!Enabled, W!HomeOf, W!Saved
<1>2. W!Enabled(a, s) \subseteq Nodes /\ W!Enabled(b, s) \subseteq Nodes
      /\ W!HomeOf(a, s) \subseteq Nodes /\ W!HomeOf(b, s) \subseteq Nodes
  BY DEF W!Enabled, W!HomeOf, W!Saved
<1>3. W!Enabled(a, s) = W!Enabled(b, s) /\ W!HomeOf(a, s) = W!HomeOf(b, s)
  BY <1>1, <1>2
<1>4. \A i \in W!Enabled(a, s) \cup W!HomeOf(a, s) : SlotApart(a[i], b[i])
  BY <1>1, <1>2
<1>5. W!Dialled(a, s) = W!Dialled(b, s)
  <2> DEFINE E == W!Enabled(a, s)
             H == W!HomeOf(a, s)
  <2>1. /\ W!Dialled(a, s) = IF E # {} THEN {a[i].exit : i \in E} \ {Nobody} ELSE {a[i].srv : i \in H}
        /\ W!Dialled(b, s) = IF E # {} THEN {b[i].exit : i \in E} \ {Nobody} ELSE {b[i].srv : i \in H}
    BY <1>3, Zenon DEF W!Dialled
  <2>2. \A i \in E \cup H : a[i].exit = b[i].exit /\ a[i].srv = b[i].srv
    BY <1>4 DEF SlotApart
  <2> HIDE DEF E, H
  <2>3. {a[i].exit : i \in E} = {b[i].exit : i \in E} /\ {a[i].srv : i \in H} = {b[i].srv : i \in H}
    BY <2>2
  <2> QED BY <2>1, <2>3, Zenon
<1>6. \A hosts : W!Plannable(a, s, hosts) <=> W!Plannable(b, s, hosts)
  <2> DEFINE E == W!Enabled(a, s)
             H == W!HomeOf(a, s)
  <2>1. \A i \in E : a[i].net = b[i].net /\ a[i].port = b[i].port
    BY <1>4 DEF SlotApart
  <2>2. /\ W!Slottable(a, s) <=>
             /\ W!Cardinality(H) <= 1
             /\ E # {} => H = {} /\ W!NetsApart(a, E) /\ W!Cardinality(E) <= Cap
        /\ W!Slottable(b, s) <=>
             /\ W!Cardinality(H) <= 1
             /\ E # {} => H = {} /\ W!NetsApart(b, E) /\ W!Cardinality(E) <= Cap
    BY <1>3, Zenon DEF W!Slottable
  <2>3. \A hosts :
        /\ W!Plannable(a, s, hosts) <=>
             /\ W!Slottable(a, s) /\ W!Dialled(a, s) \subseteq hosts
             /\ \A i, j \in E : i # j => a[i].port # a[j].port
        /\ W!Plannable(b, s, hosts) <=>
             /\ W!Slottable(b, s) /\ W!Dialled(b, s) \subseteq hosts
             /\ \A i, j \in E : i # j => b[i].port # b[j].port
    BY <1>3, Zenon DEF W!Plannable
  <2> HIDE DEF E, H
  <2>4. W!NetsApart(a, E) <=> W!NetsApart(b, E)
    BY <2>1 DEF W!NetsApart
  <2>5. (\A i, j \in E : i # j => a[i].port # a[j].port) <=> (\A i, j \in E : i # j => b[i].port # b[j].port)
    BY <2>1
  <2>6. W!Slottable(a, s) <=> W!Slottable(b, s)
    BY <2>2, <2>4, Zenon
  <2> QED BY <1>5, <2>3, <2>5, <2>6, Zenon
<1> QED BY <1>3, <1>4, <1>5, <1>6

LEMMA AgreesSame ==
  ASSUME NEW s \in Servers, NEW a \in NodeTable, NEW b \in NodeTable, SameFor(s, a, b), NEW t, Agrees(s, t, a)
  PROVE  Agrees(s, t, b)
<1> DEFINE E == W!Enabled(a, s)
           H == W!HomeOf(a, s)
<1>1. W!Enabled(b, s) = E /\ W!HomeOf(b, s) = H /\ \A i \in E \cup H : SlotApart(a[i], b[i])
  BY SameRows
<1>2. /\ E # {} => t.kind = "hub" /\ DOMAIN t.tunnels = E /\ \A i \in E : t.tunnels[i].port = a[i].port
      /\ E = {} /\ H # {} =>
           /\ t.kind = "home" /\ DOMAIN t.tunnels = H
           /\ \A i \in H : t.tunnels[i] = [hub |-> a[i].srv, port |-> a[i].port, net |-> a[i].net]
      /\ E = {} /\ H = {} => t.kind = "none"
  BY Zenon DEF Agrees
<1> HIDE DEF E, H
<1>3. /\ \A i \in E : a[i].port = b[i].port
      /\ \A i \in H : a[i].srv = b[i].srv /\ a[i].port = b[i].port /\ a[i].net = b[i].net
  BY <1>1 DEF SlotApart
<1>4. /\ E # {} => t.kind = "hub" /\ DOMAIN t.tunnels = E /\ \A i \in E : t.tunnels[i].port = b[i].port
      /\ E = {} /\ H # {} =>
           /\ t.kind = "home" /\ DOMAIN t.tunnels = H
           /\ \A i \in H : t.tunnels[i] = [hub |-> b[i].srv, port |-> b[i].port, net |-> b[i].net]
      /\ E = {} /\ H = {} => t.kind = "none"
  BY <1>2, <1>3
<1> QED BY <1>1, <1>4, Zenon DEF Agrees

\* What is planned from some rows agrees with them.
LEMMA PlannedAgrees ==
  ASSUME NEW s \in Servers, NEW rows \in NodeTable
  PROVE  Agrees(s, W!Planned(rows, s), rows)
<1> DEFINE E == W!Enabled(rows, s)
           H == W!HomeOf(rows, s)
           t == W!Planned(rows, s)
           One(i) == [slot |-> W!Slot(rows, E, i), port |-> rows[i].port, net |-> rows[i].net, exit |-> rows[i].exit]
           Home(i) == [hub |-> rows[i].srv, port |-> rows[i].port, net |-> rows[i].net]
<1>1. E # {} => t.kind = "hub" /\ DOMAIN t.tunnels = E /\ \A i \in E : t.tunnels[i].port = rows[i].port
  BY PlannedHub, Zenon
<1>2. t = IF E # {} THEN [kind |-> "hub", tunnels |-> [i \in E |-> One(i)]]
          ELSE IF H # {} THEN [kind |-> "home", tunnels |-> [i \in H |-> Home(i)]]
          ELSE W!NoTunnels
  BY Zenon DEF W!Planned
<1>3. ASSUME E = {}, H # {}
      PROVE  t.kind = "home" /\ DOMAIN t.tunnels = H /\ \A i \in H : t.tunnels[i] = Home(i)
  <2> HIDE DEF E, H, One, Home, t
  <2>1. t.kind = "home" /\ t.tunnels = [i \in H |-> Home(i)]
    BY <1>2, <1>3
  <2> QED BY <2>1
<1>4. E = {} /\ H = {} => t.kind = "none"
  <2> HIDE DEF E, H, One, Home, t
  <2> QED BY <1>2 DEF W!NoTunnels
<1> HIDE DEF t
<1>5. Agrees(s, t, rows)
  BY <1>1, <1>3, <1>4, Zenon DEF Agrees
<1> QED BY <1>5, Zenon DEF t

LEMMA EndsAfter ==
  ASSUME SlotInv', \A s \in Servers : BuildsOwn(s, build'[s], edit'),
         ~stale' => \A s \in Servers : UpToDate(s, build'[s], built'[s], edit', node', hosted', unreached')
  PROVE  EndsInv'
<1>1. \A s \in Servers : BuildsOwn(s, build'[s], edit') => BuildsOwn(s, build[s], edit)'
  BY Zenon DEF BuildsOwn
<1>2. \A s \in Servers : UpToDate(s, build'[s], built'[s], edit', node', hosted', unreached')
                       => UpToDate(s, build[s], built[s], edit, node, hosted, unreached)'
  BY Zenon DEF UpToDate, Agrees, WillPush, Current, SameFor, Concerns, SlotApart, W!Plannable, W!Slottable, W!Dialled,
     W!Enabled, W!HomeOf, W!Saved, W!NetsApart
<1> QED BY <1>1, <1>2, Zenon DEF EndsInv

LEMMA EndsBegin == W!Init => EndsInv
<1> SUFFICES ASSUME W!Init PROVE EndsInv
  OBVIOUS
<1>1. SlotInv
  BY SlotBegins
<1>2. /\ node = SavedNodes /\ build = [s \in Servers |-> W!NoBuild]
      /\ built = [s \in Servers |-> W!Planned(SavedNodes, s)]
  BY Zenon DEF W!Init
<1>3. \A s \in Servers : build[s].by = Nobody
  BY <1>2 DEF W!NoBuild
<1>4. \A s \in Servers : Agrees(s, built[s], node)
  <2>1. \A s \in Servers : built[s] = W!Planned(node, s)
    BY <1>2
  <2> QED BY <1>2, <2>1, SmallPlan, PlannedAgrees, Zenon
<1>5. \A s \in Servers : BuildsOwn(s, build[s], edit)
  BY <1>3, Zenon DEF BuildsOwn
<1>6. \A s \in Servers : UpToDate(s, build[s], built[s], edit, node, hosted, unreached)
  BY <1>3, <1>4, Zenon DEF UpToDate
<1> QED BY <1>1, <1>5, <1>6, Zenon DEF EndsInv

\* A server that a step neither builds nor tells anything new is as up to date
\* as before, if the requests that push it still do.
LEMMA StaysUpToDate ==
  ASSUME EndsInv, PlanInv', ~stale, NEW s \in Servers, build'[s] = build[s], built'[s] = built[s],
         hosted' = hosted, unreached \subseteq unreached', SameFor(s, node, node'),
         \A h \in Handlers : edit[h].st = "push" /\ s \in edit[h].todo => edit'[h].st = "push" /\ s \in edit'[h].todo
  PROVE  UpToDate(s, build'[s], built'[s], edit', node', hosted', unreached')
<1> DEFINE b == build[s]
           t == built[s]
<1>1. node \in NodeTable /\ node' \in NodeTable
  BY DEF EndsInv, SlotInv, PlanInv, PlanTypes
<1>2. UpToDate(s, b, t, edit, node, hosted, unreached)
  BY Zenon DEF EndsInv
<1>3. build'[s] = b /\ built'[s] = t
  OBVIOUS
<1> HIDE DEF b, t
<1>4. W!Dialled(node, s) = W!Dialled(node', s)
      /\ \A hosts : W!Plannable(node, s, hosts) <=> W!Plannable(node', s, hosts)
  BY <1>1, SameRows
<1>5. Current(s, b, node, hosted) => Current(s, b, node', hosted)
  BY <1>4, SameForThen, Zenon DEF Current
<1>6. \A h \in Handlers : WillPush(h, edit[h], s, b, node, hosted) => WillPush(h, edit'[h], s, b, node', hosted)
  BY <1>5, Zenon DEF WillPush
<1>7. Agrees(s, t, node) => Agrees(s, t, node')
  BY <1>1, AgreesSame
<1>8. s \in unreached => s \in unreached'
  OBVIOUS
<1>9. UpToDate(s, b, t, edit', node', hosted, unreached')
  BY <1>2, <1>4, <1>5, <1>6, <1>7, <1>8, Zenon DEF UpToDate
<1> QED BY <1>3, <1>9, Zenon

\* A server that a request pushes, and has not begun to.
LEMMA PushedSoon ==
  ASSUME NEW s, NEW b, NEW t, NEW e, NEW rows, NEW hosts, NEW left, NEW h \in Handlers,
         e[h].st = "push", s \in e[h].todo, b.by = Nobody \/ b.by # h
  PROVE  UpToDate(s, b, t, e, rows, hosts, left)
<1>1. WillPush(h, e[h], s, b, rows, hosts)
  BY Zenon DEF WillPush
<1> QED BY <1>1, Zenon DEF UpToDate

LEMMA EndsWritten ==
  ASSUME EndsInv, PlanInv', SlotInv', NEW h \in Handlers, W!Create(h) \/ W!Update(h) \/ W!Delete(h)
  PROVE  EndsInv'
<1>1. /\ UNCHANGED <<hosted, build, built>> /\ edit[h].st = "checked" /\ (~stale' => ~stale)
      /\ unreached \subseteq unreached'
      /\ \E o \in NodeEdits : edit' = [edit EXCEPT ![h] = o] /\ (~stale' => PushesWhom(o))
  BY NodeWrites, Zenon DEF EndsInv
<1>2. PICK o \in NodeEdits : edit' = [edit EXCEPT ![h] = o] /\ (~stale' => PushesWhom(o))
  BY <1>1
<1>3. edit'[h] = o /\ \A g \in Handlers \ {h} : edit'[g] = edit[g]
  BY <1>2 DEF EndsInv, SlotInv, PlanInv, PlanTypes
<1>4. \A s \in Servers : build[s].by = Nobody \/ build[s].by # h
  BY <1>1 DEF EndsInv, BuildsOwn
<1>5. \A s \in Servers : build'[s] = build[s] /\ built'[s] = built[s]
  BY <1>1
<1>6. \A s \in Servers : BuildsOwn(s, build'[s], edit')
  <2>1. ASSUME NEW s \in Servers, NEW g \in Handlers, build[s].by # Nobody, build[s].by = g
        PROVE  edit'[g].st = "push" /\ s \in edit'[g].todo
    <3>1. edit[g].st = "push" /\ s \in edit[g].todo
      BY <2>1, Zenon DEF EndsInv, BuildsOwn
    <3>2. g # h
      BY <1>4, <2>1
    <3> QED BY <1>3, <3>1, <3>2
  <2> QED BY <1>5, <2>1, Zenon DEF BuildsOwn
<1>7. ASSUME ~stale', NEW s \in Servers PROVE UpToDate(s, build'[s], built'[s], edit', node', hosted', unreached')
  <2>1. CASE SameFor(s, node, node')
    <3>1. \A g \in Handlers : edit[g].st = "push" /\ s \in edit[g].todo => edit'[g].st = "push" /\ s \in edit'[g].todo
      <4>1. edit[h].st # "push"
        BY <1>1
      <4> QED BY <1>3, <4>1, Zenon
    <3>2. ~stale
      BY <1>1, <1>7
    <3> QED BY <1>1, <1>5, <2>1, <3>1, <3>2, StaysUpToDate, Zenon
  <2>2. CASE o.st = "push" /\ s \in o.todo
    <3>1. build'[s].by = Nobody \/ build'[s].by # h
      BY <1>4, <1>5, Zenon
    <3> QED BY <1>3, <2>2, <3>1, PushedSoon, Zenon
  <2>3. CASE s \in unreached'
    BY <2>3, Zenon DEF UpToDate
  <2> QED BY <1>2, <1>7, <2>1, <2>2, <2>3, Zenon DEF PushesWhom
<1> QED BY <1>6, <1>7, EndsAfter, Zenon

LEMMA EndsChecked ==
  ASSUME EndsInv, PlanInv', SlotInv', NEW h \in Handlers,
         \/ \E s \in Servers : \E r \in W!New(s) : W!CheckCreate(h, s, r)
         \/ \E i \in W!Saved(node) : W!CheckDelete(h, i) \/ \E r \in W!Field(node[i]) : W!CheckUpdate(h, i, r)
  PROVE  EndsInv'
<1>1. UNCHANGED <<node, nextNode, hosted, build, built, stale, unreached>> /\ edit[h].st = "idle"
      /\ \E o \in NodeEdits : edit' = [edit EXCEPT ![h] = o]
  BY NodeChecks, Zenon DEF EndsInv, SlotInv
<1>2. \A g \in Handlers \ {h} : edit'[g] = edit[g]
  BY <1>1 DEF EndsInv, SlotInv, PlanInv, PlanTypes
<1>3. \A s \in Servers : build'[s] = build[s] /\ built'[s] = built[s]
  BY <1>1
<1>4. \A g \in Handlers, s \in Servers :
        edit[g].st = "push" /\ s \in edit[g].todo => edit'[g].st = "push" /\ s \in edit'[g].todo
  <2>1. edit[h].st # "push"
    BY <1>1
  <2> QED BY <1>2, <2>1, Zenon
<1>5. \A s \in Servers : BuildsOwn(s, build'[s], edit')
  BY <1>3, <1>4, Zenon DEF BuildsOwn, EndsInv
<1>6. ASSUME ~stale', NEW s \in Servers PROVE UpToDate(s, build'[s], built'[s], edit', node', hosted', unreached')
  <2>1. ~stale /\ SameFor(s, node, node') /\ hosted' = hosted /\ unreached \subseteq unreached'
    BY <1>1, <1>6, SameForItself
  <2> QED BY <1>3, <1>4, <2>1, StaysUpToDate, Zenon
<1> QED BY <1>5, <1>6, EndsAfter, Zenon

\* A Build of a request that pushes, or of the dispatcher, has the rows of now.
LEMMA EndsBuildStarts ==
  ASSUME EndsInv, SlotInv', NEW s \in Servers, (\E h \in Handlers : W!PushStart(h, s)) \/ W!LoopStart(s)
  PROVE  EndsInv'
<1>1. PICK who \in Handlers \cup {"loop"} :
              /\ W!BuildRead(s, who) /\ edit' = edit
              /\ (who \in Handlers => edit[who].st = "push" /\ s \in edit[who].todo)
  <2>1. ASSUME NEW h \in Handlers, W!PushStart(h, s)
        PROVE  W!BuildRead(s, h) /\ edit' = edit /\ edit[h].st = "push" /\ s \in edit[h].todo
    BY <2>1 DEF W!PushStart
  <2>2. ASSUME W!LoopStart(s) PROVE W!BuildRead(s, "loop") /\ edit' = edit
    BY <2>2 DEF W!LoopStart
  <2>3. "loop" \notin Handlers
    BY PlanTables DEF W!WGPlanAssumption
  <2> QED BY <2>1, <2>2, <2>3, Zenon
<1>2. /\ UNCHANGED <<node, hosted, built, stale>> /\ unreached' = unreached \ {s}
      /\ build' = [build EXCEPT ![s] = [by |-> who, rows |-> node, hosts |-> hosted]]
  BY <1>1, Zenon DEF W!BuildRead
<1>3. DOMAIN build = Servers
  BY DEF EndsInv, SlotInv
<1>4. /\ build'[s].by = who /\ build'[s].rows = node /\ build'[s].hosts = hosted
      /\ \A t \in Servers \ {s} : build'[t] = build[t]
  BY <1>2, <1>3
<1>5. \A t \in Servers : BuildsOwn(t, build'[t], edit')
  BY <1>1, <1>4, Zenon DEF BuildsOwn, EndsInv
<1>6. who # Nobody
  BY PlanTables DEF W!WGPlanAssumption
<1>7. ASSUME ~stale', NEW t \in Servers PROVE UpToDate(t, build'[t], built'[t], edit', node', hosted', unreached')
  <2>1. CASE t # s
    <3>1. build'[t] = build[t] /\ built' = built /\ edit' = edit /\ node' = node /\ hosted' = hosted
      BY <1>1, <1>2, <1>4, <2>1
    <3>2. UpToDate(t, build[t], built[t], edit, node, hosted, unreached)
      BY <1>2, <1>7, Zenon DEF EndsInv
    <3>3. t \in unreached => t \in unreached'
      BY <1>2, <2>1
    <3> QED BY <3>1, <3>2, <3>3, Zenon DEF UpToDate
  <2>2. CASE t = s
    <3>1. Current(s, build'[s], node, hosted)
      BY <1>4, SameForItself, Zenon DEF Current
    <3>2. who # Nobody => UpToDate(s, build'[s], built'[s], edit', node, hosted, unreached')
      BY <1>4, <3>1, Zenon DEF UpToDate
    <3> QED BY <1>2, <1>6, <2>2, <3>2, Zenon
  <2> QED BY <2>1, <2>2
<1> QED BY <1>5, <1>7, EndsAfter, Zenon

\* A Build that has read the rows of now tells them; else somebody else pushes.
LEMMA EndsBuilt ==
  ASSUME EndsInv, PlanInv', SlotInv', NEW s \in Servers, W!BuildEnd(s)
  PROVE  EndsInv'
<1> DEFINE rows == build[s].rows
           hosts == build[s].hosts
           plan == W!Planned(rows, s)
           Left(sent) ==
             /\ built' = IF sent THEN [built EXCEPT ![s] = plan] ELSE built
             /\ W!CanBuild(s) /\ ~sent => s \in unreached'
<1>1. /\ build[s].by # Nobody /\ rows \in NodeTable /\ (~stale' => ~stale)
      /\ hosted' = hosted /\ unreached \subseteq unreached'
      /\ build' = [build EXCEPT ![s] = W!NoBuild]
      /\ \E sent \in BOOLEAN : Left(sent)
      /\ ~stale' => \A i \in Nodes : /\ node'[i] # Nobody <=> node[i] # Nobody
                                     /\ node[i] # Nobody => SlotApart(node'[i], node[i])
  BY BuildDone, Zenon DEF EndsInv, SlotInv
<1>2. DOMAIN build = Servers /\ DOMAIN built = Servers /\ node \in NodeTable /\ node' \in NodeTable
  BY DEF EndsInv, SlotInv, PlanInv, PlanTypes
<1>3. W!CanBuild(s) <=> W!Plannable(rows, s, IF W!Enabled(rows, s) = {} THEN hosts ELSE hosted)
  BY Zenon DEF W!CanBuild
<1> HIDE DEF rows, hosts, plan, Left
<1>4. PICK sent \in BOOLEAN : Left(sent)
  BY <1>1
<1>5. /\ \A t \in Servers \ {s} : build'[t] = build[t] /\ built'[t] = built[t]
      /\ build'[s] = W!NoBuild /\ (sent => built'[s] = plan)
  BY <1>1, <1>2, <1>4 DEF Left
<1>6. build'[s].by = Nobody
  BY <1>5 DEF W!NoBuild
<1>7. \A h \in Handlers :
        /\ build[s].by # h => edit'[h] = edit[h]
        /\ \A t \in Servers \ {s} : edit[h].st = "push" /\ t \in edit[h].todo =>
             edit'[h].st = "push" /\ t \in edit'[h].todo
  BY PushGoesOn, Zenon DEF EndsInv, SlotInv
<1>8. \A t \in Servers : BuildsOwn(t, build'[t], edit')
  BY <1>5, <1>6, <1>7, Zenon DEF BuildsOwn, EndsInv
<1>9. ~stale' => \A t : SameFor(t, node, node')
  BY <1>1, Zenon DEF SameFor, Concerns, SlotApart
<1>10. ASSUME ~stale', NEW t \in Servers, t # s
       PROVE  UpToDate(t, build'[t], built'[t], edit', node', hosted', unreached')
  BY <1>1, <1>5, <1>7, <1>9, <1>10, StaysUpToDate, Zenon
<1>11. ASSUME ~stale' PROVE UpToDate(s, build'[s], built'[s], edit', node', hosted', unreached')
  <2>1. UpToDate(s, build[s], built[s], edit, node, hosted, unreached)
    BY <1>1, <1>11, Zenon DEF EndsInv
  <2>2. CASE Current(s, build[s], node, hosted)
    <3>1. SameFor(s, rows, node) /\ \A d \in W!Dialled(node, s) : d \in hosts <=> d \in hosted
      BY <2>2, Zenon DEF Current, rows, hosts
    <3>2. SameFor(s, rows, node')
      BY <1>9, <1>11, <3>1, SameForThen, Zenon
    <3>3. CASE sent
      <4>1. Agrees(s, plan, rows)
        BY <1>1, PlannedAgrees, Zenon DEF plan
      <4>2. Agrees(s, plan, node')
        BY <1>1, <1>2, <3>2, <4>1, AgreesSame
      <4> QED BY <1>5, <1>6, <3>3, <4>2, Zenon DEF UpToDate
    <3>4. CASE ~sent /\ W!CanBuild(s)
      BY <1>4, <3>4, Zenon DEF Left, UpToDate
    <3>5. CASE ~W!CanBuild(s)
      <4>1. W!Plannable(node', s, hosted) => W!Plannable(rows, s, hosted)
        BY <1>1, <1>2, <3>2, SameRows
      <4>2. W!Dialled(rows, s) = W!Dialled(node, s)
        BY <1>1, <1>2, <3>1, SameRows
      <4>3. W!Dialled(rows, s) \subseteq hosted => W!Dialled(rows, s) \subseteq hosts
        BY <3>1, <4>2
      <4>4. W!Plannable(rows, s, hosted) => W!Plannable(rows, s, hosts)
        BY <4>3, Zenon DEF W!Plannable
      <4>5. ~W!Plannable(node', s, hosted)
        BY <1>3, <3>5, <4>1, <4>4, Zenon
      <4> QED BY <1>1, <1>6, <4>5, Zenon DEF UpToDate
    <3> QED BY <3>3, <3>4, <3>5
  <2>3. CASE s \in unreached
    <3>1. s \in unreached'
      BY <1>1, <2>3
    <3> QED BY <3>1, Zenon DEF UpToDate
  <2>4. CASE ~Current(s, build[s], node, hosted) /\ s \notin unreached
    <3>1. PICK h \in Handlers : WillPush(h, edit[h], s, build[s], node, hosted)
      BY <1>1, <2>1, <2>4, Zenon DEF UpToDate
    <3>2. build[s].by # h
      BY <1>1, <2>4, <3>1, Zenon DEF WillPush
    <3>3. edit'[h].st = "push" /\ s \in edit'[h].todo
      BY <1>7, <3>1, <3>2, Zenon DEF WillPush
    <3> QED BY <1>6, <3>3, PushedSoon, Zenon
  <2> QED BY <2>2, <2>3, <2>4
<1> QED BY <1>8, <1>10, <1>11, EndsAfter, Zenon

\* Who dials a server whose address came or went is missed, the others are as
\* up to date as before.
LEMMA EndsReaddressed ==
  ASSUME EndsInv, SlotInv', NEW s \in Servers, W!Readdress(s)
  PROVE  EndsInv'
<1>1. /\ UNCHANGED <<node, edit, build, built, stale>>
      /\ hosted' = (IF s \in hosted THEN hosted \ {s} ELSE hosted \cup {s})
      /\ unreached' = unreached \cup {t \in Servers : s \in W!Dialled(node, t)}
  BY Zenon DEF W!Readdress
<1>2. \A d : d # s => (d \in hosted <=> d \in hosted')
  BY <1>1
<1>3. \A t \in Servers : BuildsOwn(t, build'[t], edit')
  BY <1>1, Zenon DEF EndsInv
<1>4. ASSUME ~stale', NEW t \in Servers PROVE UpToDate(t, build'[t], built'[t], edit', node', hosted', unreached')
  <2>1. UpToDate(t, build[t], built[t], edit, node, hosted, unreached)
    BY <1>1, <1>4, Zenon DEF EndsInv
  <2>2. CASE s \in W!Dialled(node, t)
    <3>1. t \in unreached'
      BY <1>1, <2>2
    <3> QED BY <3>1, Zenon DEF UpToDate
  <2>3. CASE s \notin W!Dialled(node, t)
    <3>1. \A d \in W!Dialled(node, t) : d \in hosted <=> d \in hosted'
      BY <1>2, <2>3, Zenon
    <3>2. \A b : Current(t, b, node, hosted) => Current(t, b, node, hosted')
      BY <3>1, Zenon DEF Current
    <3>3. W!Plannable(node, t, hosted') => W!Plannable(node, t, hosted)
      <4>1. W!Dialled(node, t) \subseteq hosted' => W!Dialled(node, t) \subseteq hosted
        BY <3>1
      <4> QED BY <4>1, Zenon DEF W!Plannable
    <3>4. \A b : \A h \in Handlers : WillPush(h, edit[h], t, b, node, hosted) => WillPush(h, edit[h], t, b, node, hosted')
      BY <3>2, Zenon DEF WillPush
    <3>5. t \in unreached => t \in unreached'
      BY <1>1
    <3>6. UpToDate(t, build[t], built[t], edit, node, hosted', unreached')
      BY <2>1, <3>2, <3>3, <3>4, <3>5, Zenon DEF UpToDate
    <3> QED BY <1>1, <3>6, Zenon
  <2> QED BY <2>2, <2>3
<1> QED BY <1>3, <1>4, EndsAfter, Zenon

LEMMA EndsStep == EndsInv /\ [W!Next]_(W!wgPlanVars) => EndsInv'
<1> SUFFICES ASSUME EndsInv, [W!Next]_(W!wgPlanVars) PROVE EndsInv'
  OBVIOUS
<1>0. PlanInv' /\ SlotInv'
  BY PlanStep, SlotStep DEF EndsInv, SlotInv
<1>1. CASE UNCHANGED W!wgPlanVars
  <2>1. UNCHANGED <<node, hosted, edit, build, built, stale, unreached>>
    BY <1>1 DEF W!wgPlanVars
  <2> QED BY <1>0, <2>1, EndsAfter, Zenon DEF EndsInv
<1>2. ASSUME NEW h \in Handlers,
             \/ \E s \in Servers : \E r \in W!New(s) : W!CheckCreate(h, s, r)
             \/ \E i \in W!Saved(node) : W!CheckDelete(h, i) \/ \E r \in W!Field(node[i]) : W!CheckUpdate(h, i, r)
      PROVE  EndsInv'
  BY <1>0, <1>2, EndsChecked
<1>3. ASSUME NEW h \in Handlers, W!Create(h) \/ W!Update(h) \/ W!Delete(h) PROVE EndsInv'
  BY <1>0, <1>3, EndsWritten
<1>4. ASSUME NEW s \in Servers, (\E h \in Handlers : W!PushStart(h, s)) \/ W!LoopStart(s) PROVE EndsInv'
  BY <1>0, <1>4, EndsBuildStarts
<1>5. ASSUME NEW s \in Servers, W!BuildEnd(s) PROVE EndsInv'
  BY <1>0, <1>5, EndsBuilt
<1>6. ASSUME NEW s \in Servers, W!Readdress(s) PROVE EndsInv'
  BY <1>0, <1>6, EndsReaddressed
<1> QED BY <1>1, <1>2, <1>3, <1>4, <1>5, <1>6, Zenon DEF W!Next

\* With the requests done, whoever can be built and was not missed was told of
\* the rows.
LEMMA QuietAgrees ==
  ASSUME EndsInv, W!Quiet, ~stale, NEW s \in Servers, W!Tellable(s)
  PROVE  Agrees(s, built[s], node)
<1>1. /\ \A h \in Handlers : edit[h].st # "push"
      /\ build[s].by = Nobody
  BY IdleEdit DEF W!Quiet
<1>2. UpToDate(s, build[s], built[s], edit, node, hosted, unreached)
  BY Zenon DEF EndsInv
<1> QED BY <1>1, <1>2, Zenon DEF UpToDate, WillPush, W!Tellable

\* When the requests are done both ends of a tunnel agree (applyTargets,
\* pushServer, buildWireGuard), unless a row was written over another than the
\* one read or an end was missed (a handler ended before its push, the push
\* failed, the address it dials changed) and not built since: whoever writes a
\* row pushes every server that it concerns or concerned, and a Build that was
\* read before holds the lock he waits for.
THEOREM EndsAgreeHolds == W!Spec => []EndsAgree
<1>1. EndsInv => EndsAgree
  <2> SUFFICES ASSUME EndsInv, W!Quiet, ~stale PROVE
        /\ \A s \in Servers : \A i \in W!HomeOf(node, s) :
             W!Tellable(s) /\ W!Enabled(node, s) = {} /\ W!Tellable(node[i].srv) =>
               /\ built[s].kind = "home" /\ DOMAIN built[s].tunnels = {i}
               /\ built[s].tunnels[i] = [hub |-> node[i].srv, port |-> node[i].port, net |-> node[i].net]
               /\ built[node[i].srv].kind = "hub" /\ built[node[i].srv].tunnels[i].port = node[i].port
        /\ \A s \in Servers : W!Tellable(s) /\ built[s].kind = "home" =>
             W!HomeOf(node, s) = DOMAIN built[s].tunnels
    BY Zenon DEF EndsAgree, W!EndsAgree
  <2>1. ASSUME NEW s \in Servers, NEW i \in W!HomeOf(node, s), W!Tellable(s), W!Enabled(node, s) = {},
               W!Tellable(node[i].srv)
        PROVE  /\ built[s].kind = "home" /\ DOMAIN built[s].tunnels = {i}
               /\ built[s].tunnels[i] = [hub |-> node[i].srv, port |-> node[i].port, net |-> node[i].net]
               /\ built[node[i].srv].kind = "hub" /\ built[node[i].srv].tunnels[i].port = node[i].port
    <3> DEFINE hub == node[i].srv
    <3>1. i \in Nodes /\ node[i] \in W!Row /\ node[i].on /\ i \in W!Saved(node) /\ hub \in Servers
      BY DEF W!HomeOf, W!Saved, W!Row, EndsInv, SlotInv, PlanInv, PlanTypes, NodeTable
    <3>2. i \in W!Enabled(node, hub)
      BY <3>1 DEF W!Enabled
    <3>3. Agrees(s, built[s], node) /\ Agrees(hub, built[hub], node)
      <4> HIDE DEF hub
      <4>1. W!Tellable(hub)
        BY <2>1 DEF hub
      <4> QED BY <2>1, <3>1, <4>1, QuietAgrees
    <3>4. W!HomeOf(node, s) = {i}
      <4> DEFINE H == W!HomeOf(node, s)
      <4>1. Cardinality(H) <= 1 /\ IsFiniteSet(H)
        <5>1. W!Cardinality(H) <= 1
          BY <2>1, Zenon DEF W!Tellable, W!Plannable, W!Slottable
        <5>2. H \subseteq Nodes
          BY DEF W!HomeOf, W!Saved
        <5> QED BY <5>1, <5>2, SmallPlan, FS_Subset
      <4> HIDE DEF H
      <4>2. ASSUME NEW j \in H, j # i PROVE FALSE
        <5>1. {i, j} \subseteq H /\ Cardinality({i, j}) = 2
          <6>1. Cardinality({i}) = 1 /\ IsFiniteSet({i})
            BY FS_Singleton
          <6>2. Cardinality({i} \cup {j}) = Cardinality({i}) + 1
            BY <4>2, <6>1, FS_AddElement
          <6>3. {i} \cup {j} = {i, j}
            OBVIOUS
          <6> QED BY <2>1, <4>2, <6>1, <6>2, <6>3 DEF H
        <5>2. Cardinality({i, j}) <= Cardinality(H) /\ Cardinality(H) \in Nat
          BY <4>1, <5>1, FS_Subset, FS_CardinalityType
        <5> QED BY <4>1, <5>1, <5>2
      <4> QED BY <2>1, <4>2 DEF H
    <3>5. /\ built[s].kind = "home" /\ DOMAIN built[s].tunnels = W!HomeOf(node, s)
          /\ built[s].tunnels[i] = [hub |-> node[i].srv, port |-> node[i].port, net |-> node[i].net]
      BY <2>1, <3>3, Zenon DEF Agrees
    <3>6. built[hub].kind = "hub" /\ built[hub].tunnels[i].port = node[i].port
      <4> HIDE DEF hub
      <4> QED BY <3>2, <3>3, Zenon DEF Agrees
    <3> QED BY <3>4, <3>5, <3>6, Zenon
  <2>2. ASSUME NEW s \in Servers, W!Tellable(s), built[s].kind = "home"
        PROVE  W!HomeOf(node, s) = DOMAIN built[s].tunnels
    <3>1. Agrees(s, built[s], node)
      BY <2>2, QuietAgrees
    <3> DEFINE E == W!Enabled(node, s)
               H == W!HomeOf(node, s)
               t == built[s]
    <3>2. /\ E # {} => t.kind = "hub"
          /\ E = {} /\ H # {} => DOMAIN t.tunnels = H
          /\ E = {} /\ H = {} => t.kind = "none"
      BY <3>1, Zenon DEF Agrees
    <3> HIDE DEF E, H
    <3>3. E = {} /\ H # {}
      BY <2>2, <3>2
    <3> QED BY <3>2, <3>3, Zenon DEF H
  <2> QED BY <2>1, <2>2
<1> QED BY EndsBegin, EndsStep, <1>1, PTL DEF W!Spec

-----------------------------------------------------------------------------
(***************************************************************************)
(* The panel as a whole: a step of one of its parts is no step of another. *)
(***************************************************************************)

LEMMA PanelParts ==
  /\ PanelInit => Init /\ L!Init /\ W!Init /\ C!Init /\ B!Init
  /\ [PanelNext]_<<hubVars, lines, nodes, certs, servers, part>> =>
       /\ [Next]_hubVars /\ [L!Next]_(L!linesVars) /\ [W!Next]_(W!wgPlanVars)
       /\ [C!Next]_(C!renewalVars) /\ [B!Next]_(B!restoreVars)
<1>1. PanelInit => Init /\ L!Init /\ W!Init /\ C!Init /\ B!Init
  BY Zenon DEF PanelInit
<1>2. /\ UNCHANGED lines => UNCHANGED L!linesVars
      /\ UNCHANGED nodes => UNCHANGED W!wgPlanVars
      /\ UNCHANGED certs => UNCHANGED C!renewalVars
      /\ UNCHANGED servers => UNCHANGED B!restoreVars
  BY DEF lines, nodes, certs, servers, L!linesVars, W!wgPlanVars, C!renewalVars, B!restoreVars
<1>3. UNCHANGED <<hubVars, lines, nodes, certs, servers, part>> =>
        UNCHANGED hubVars /\ UNCHANGED lines /\ UNCHANGED nodes /\ UNCHANGED certs /\ UNCHANGED servers
  OBVIOUS
<1>4. PanelNext => /\ Next \/ UNCHANGED hubVars
                   /\ L!Next \/ UNCHANGED lines
                   /\ W!Next \/ UNCHANGED nodes
                   /\ C!Next \/ UNCHANGED certs
                   /\ B!Next \/ UNCHANGED servers
  BY DEF PanelNext
<1> QED BY <1>1, <1>2, <1>3, <1>4, Zenon

\* All that the panel's parts promise holds of the panel, whichever part runs.
THEOREM PanelHolds ==
  ASSUME SessionsNamed, MaxFails + MaxCertRequests < Due
  PROVE  PanelSpec =>
           /\ [](TableRight /\ RelaysAgree /\ SavedBuilds /\ EndsAgree /\ NeverOver /\ Served /\ RestoredRuns)
           /\ SoldPathsStay /\ SlotStays
<1>1. PanelSpec => Spec
  BY PanelParts, PTL DEF PanelSpec, Spec
<1>2. PanelSpec => L!Spec
  BY PanelParts, PTL DEF PanelSpec, L!Spec
<1>3. PanelSpec => W!Spec
  BY PanelParts, PTL DEF PanelSpec, W!Spec
<1>4. PanelSpec => C!Spec
  BY PanelParts, PTL DEF PanelSpec, C!Spec
<1>5. PanelSpec => B!Spec
  BY PanelParts, PTL DEF PanelSpec, B!Spec
<1>6. PanelSpec => []TableRight
  BY <1>1, TableRightHolds, PTL
<1>7. PanelSpec => []NeverOver
  BY <1>4, NeverOverHolds, PTL
<1> QED BY <1>2, <1>3, <1>4, <1>5, <1>6, <1>7, RelaysAgreeHolds, SavedBuildsHolds, EndsAgreeHolds, ServedHolds,
           RestoredRunsHolds, SoldPathsStayHolds, SlotStaysHolds, PTL
=============================================================================
