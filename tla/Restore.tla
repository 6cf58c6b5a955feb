------------------------------ MODULE Restore ------------------------------
(***************************************************************************)
(* Tables that change under live connections: a backup is restored         *)
(* (server/handlers_backup.go, db/backup.go), a server is added or         *)
(* deleted (server/handlers_servers.go), while Agents dial and the         *)
(* dispatcher builds and pushes by the id of a row.  An Agent knows its    *)
(* token, everything else goes by the id.                                  *)
(***************************************************************************)
EXTENDS Naturals, FiniteSets

CONSTANTS
  Agents,      \* the token of each Agent
  Ids,         \* ids of servers, 1..n
  Handlers,    \* HTTP handlers
  None,
  Start,       \* the servers at the beginning, [Ids -> token or None]
  File,        \* those of a backup of another panel
  New,         \* tokens that have not been given out yet
  MaxChanges   \* bound on what administrators do

\* The ids are given out in order, and a row is not nothing.
RestoreAssumption ==
  /\ IsFiniteSet(Ids) /\ Ids = 1..Cardinality(Ids)
  /\ None \notin Agents /\ None \notin [tok : Agents, ver : Nat]
  /\ Start \in [Ids -> Agents \cup {None}] /\ File \in [Ids -> Agents \cup {None}]
  /\ New \subseteq Agents

VARIABLES
  row,      \* servers, each with its token and the version of what is to run there
  next,     \* the id the next server gets: sqlite_sequence + 1
  file,     \* a backup: rows as they were
  fresh,    \* tokens no server has had
  sess,     \* the session of each Agent
  table,    \* hub.conns
  want,     \* ids with a kick
  push,     \* what pushServer of an id has built and not sent
  running,  \* what each Agent runs
  failed,   \* ids whose last push to a connection was not confirmed
  op,       \* what each handler is doing
  changes

restoreVars == <<row, next, file, fresh, sess, table, want, push, running, failed, op, changes>>

Row(t) == IF t = None THEN None ELSE [tok |-> t, ver |-> 0]
Off == [st |-> "off", id |-> None, late |-> FALSE]
Idle == [st |-> "idle", id |-> None]
NextAfter(rows) == 1 + Cardinality({i \in Ids : \E j \in Ids : i <= j /\ rows[j] # None})

Init ==
  /\ row = [i \in Ids |-> Row(Start[i])] /\ next = NextAfter(row)
  /\ file = [i \in Ids |-> Row(File[i])] /\ fresh = New
  /\ sess = [a \in Agents |-> Off] /\ table = [i \in Ids |-> None]
  /\ want = {} /\ push = [i \in Ids |-> None] /\ running = [a \in Agents |-> None] /\ failed = {}
  /\ op = [h \in Handlers |-> Idle] /\ changes = 0

Restoring == \E h \in Handlers : op[h].st = "import"

Spend == changes < MaxChanges /\ changes' = changes + 1

-----------------------------------------------------------------------------
\* ServeWS finds the row of the token ...
Dial(a) ==
  /\ sess[a].st = "off"
  /\ \E i \in Ids : row[i] # None /\ row[i].tok = a /\
       sess' = [sess EXCEPT ![a] = [st |-> "hello", id |-> i, late |-> Restoring]]
  /\ UNCHANGED <<row, next, file, fresh, table, want, push, running, failed, op, changes>>

\* ... registers, replacing who is there, and dispatches always.
Register(a) ==
  LET i == sess[a].id IN
  /\ sess[a].st = "hello"
  /\ table' = [table EXCEPT ![i] = a]
  /\ sess' = [b \in Agents |-> IF b = a THEN [sess[a] EXCEPT !.st = "in"] ELSE IF table[i] = b THEN Off ELSE sess[b]]
  /\ want' = want \cup {i}
  /\ UNCHANGED <<row, next, file, fresh, push, running, failed, op, changes>>

Leave(a) ==
  /\ sess[a].st # "off" /\ sess' = [sess EXCEPT ![a] = Off]
  /\ table' = [i \in Ids |-> IF table[i] = a THEN None ELSE table[i]]
  /\ UNCHANGED <<row, next, file, fresh, want, push, running, failed, op, changes>>

\* pushServer: Build reads the row, if there is one, ...
Build(i) ==
  /\ i \in want /\ push[i] = None
  /\ want' = want \ {i} /\ push' = [push EXCEPT ![i] = row[i]]
  /\ UNCHANGED <<row, next, file, fresh, sess, table, running, failed, op, changes>>

\* ... and an attempt finds a connection, whenever that is, or none.
Send(i) ==
  /\ push[i] # None /\ push' = [push EXCEPT ![i] = None]
  /\ running' = [a \in Agents |-> IF table[i] = a THEN push[i] ELSE running[a]]
  /\ failed' = failed \ {i}
  /\ UNCHANGED <<row, next, file, fresh, sess, table, want, op, changes>>

\* All attempts time out or are refused: the error is saved, and the Agent runs
\* what it ran or what it has not answered for.
SendFails(i) ==
  /\ push[i] # None /\ table[i] # None /\ Spend
  /\ push' = [push EXCEPT ![i] = None] /\ failed' = failed \cup {i}
  /\ running' \in {running, [running EXCEPT ![table[i]] = push[i]]}
  /\ UNCHANGED <<row, next, file, fresh, sess, table, want, op>>

-----------------------------------------------------------------------------
\* handleUpdateServer reads the row ...
Edit(h, i) ==
  /\ op[h].st = "idle" /\ Spend /\ row[i] # None
  /\ op' = [op EXCEPT ![h] = [st |-> "write", id |-> i]]
  /\ UNCHANGED <<row, next, file, fresh, sess, table, want, push, running, failed>>

\* ... and writes to what has its id now; the server is kicked.
Write(h) ==
  LET i == op[h].id IN
  /\ op[h].st = "write" /\ op' = [op EXCEPT ![h] = Idle]
  /\ row' = [j \in Ids |-> IF j = i /\ row[i] # None THEN [row[i] EXCEPT !.ver = @ + 1] ELSE row[j]]
  /\ want' = want \cup {i}
  /\ UNCHANGED <<next, file, fresh, sess, table, push, running, failed, changes>>

Create(t) ==
  /\ Spend /\ next \in Ids
  /\ row' = [row EXCEPT ![next] = Row(t)] /\ next' = next + 1 /\ fresh' = fresh \ {t}
  /\ UNCHANGED <<file, sess, table, want, push, running, failed, op>>

\* Drop and DropAll close what is registered.
Closed(S) == [a \in Agents |-> IF sess[a].st = "in" /\ \E i \in S : table[i] = a THEN Off ELSE sess[a]]

\* handleDeleteServer: Drop, then the row.
DropServer(h, i) ==
  /\ op[h].st = "idle" /\ Spend /\ row[i] # None
  /\ op' = [op EXCEPT ![h] = [st |-> "delete", id |-> i]]
  /\ sess' = Closed({i}) /\ table' = [table EXCEPT ![i] = None]
  /\ UNCHANGED <<row, next, file, fresh, want, push, running, failed>>

DeleteServer(h) ==
  /\ op[h].st = "delete" /\ op' = [op EXCEPT ![h] = Idle]
  /\ row' = [row EXCEPT ![op[h].id] = None]
  /\ UNCHANGED <<next, file, fresh, sess, table, want, push, running, failed, changes>>

\* handleBackupDownload: one transaction; what is kept is this file.
Export ==
  /\ Spend /\ ~Restoring /\ file' = row
  /\ UNCHANGED <<row, next, fresh, sess, table, want, push, running, failed, op>>

\* Mutant: the connections stay.
DropAllNone(h) ==
  /\ op[h].st = "idle" /\ ~Restoring /\ Spend
  /\ op' = [op EXCEPT ![h] = [st |-> "import", id |-> None]]
  /\ UNCHANGED <<row, next, file, fresh, sess, table, want, push, running, failed>>

\* restoreFrom, under backupMu.  Who has said hello and not registered is late.
DropAll(h) ==
  /\ op[h].st = "idle" /\ ~Restoring /\ Spend
  /\ op' = [op EXCEPT ![h] = [st |-> "import", id |-> None]]
  /\ sess' = [a \in Agents |-> IF sess[a].st = "hello" THEN [sess[a] EXCEPT !.late = TRUE] ELSE Closed(Ids)[a]]
  /\ table' = [i \in Ids |-> None]
  /\ UNCHANGED <<row, next, file, fresh, want, push, running, failed>>

\* Import is one transaction.
Import(h) ==
  /\ op[h].st = "import" /\ op' = [op EXCEPT ![h] = Idle]
  /\ row' = file /\ next' = NextAfter(file)
  /\ UNCHANGED <<file, fresh, sess, table, want, push, running, failed, changes>>

\* The file does not fit the tables: nothing changes.
ImportFails(h) ==
  /\ op[h].st = "import" /\ op' = [op EXCEPT ![h] = Idle]
  /\ UNCHANGED <<row, next, file, fresh, sess, table, want, push, running, failed, changes>>

\* The panel starts anew, on the tables as they are.
Restart ==
  /\ Spend
  /\ sess' = [a \in Agents |-> Off] /\ table' = [i \in Ids |-> None]
  /\ want' = {} /\ push' = [i \in Ids |-> None] /\ op' = [h \in Handlers |-> Idle]
  /\ UNCHANGED <<row, next, file, fresh, running, failed>>

Next ==
  \/ \E a \in Agents : Dial(a) \/ Register(a) \/ Leave(a)
  \/ \E i \in Ids : Build(i) \/ Send(i) \/ SendFails(i)
  \/ \E t \in fresh : Create(t)
  \/ \E h \in Handlers :
       \/ \E i \in Ids : Edit(h, i) \/ DropServer(h, i)
       \/ Write(h) \/ DeleteServer(h) \/ DropAll(h) \/ Import(h) \/ ImportFails(h)
  \/ Export \/ Restart

Spec == Init /\ [][Next]_restoreVars

-----------------------------------------------------------------------------
Quiet == want = {} /\ (\A i \in Ids : push[i] = None) /\ \A h \in Handlers : op[h] = Idle

\* When nothing is left to push, every connected Agent whose server is in the
\* tables runs what they say of the server with its own token, whatever was
\* restored, deleted, added and given the same id - unless it dialled while a
\* backup was being restored, or its last push failed.
RestoredRuns ==
  Quiet => \A a \in Agents :
    sess[a].st = "in" /\ ~sess[a].late /\ row[sess[a].id] # None =>
      row[sess[a].id].tok = a /\ (running[a] = row[sess[a].id] \/ sess[a].id \in failed)
=============================================================================
