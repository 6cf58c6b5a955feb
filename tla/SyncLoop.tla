------------------------------ MODULE SyncLoop ------------------------------
(***************************************************************************)
(* How the panel dispatches the configuration of ONE server to its Agent:  *)
(* kickSync / syncLoop / pushServer of internal/server/sync.go, with the   *)
(* connection and the answers of the Agent left to the environment.        *)
(*                                                                         *)
(* All state of the code is keyed by the server id (kickWant[id],          *)
(* kickRun[id], pushMu[id], conns[id]), so servers do not interact here.   *)
(* A configuration is the number of the table change it was built from.    *)
(***************************************************************************)
EXTENDS Naturals

CONSTANTS Handlers,    \* goroutines that change tables, kick or push (HTTP, enforceLoop, ServeWS)
          Loops,       \* identities for syncLoop goroutines
          Attempts,    \* how often pushServer calls SendApply (3 in the code)
          Carried,     \* the table changes after which a customer who is no administrator
                       \* has a line on this server, or one that leaves through it
          MaxVersion,  \* bound on table changes
          MaxConn      \* bound on Agent connections

ASSUME DisjointAssumption == Handlers \cap Loops = {}
ASSUME NoneAssumption == "none" \notin Handlers \cup Loops
ASSUME AttemptsAssumption == Attempts \in Nat \ {0}
ASSUME CarriedAssumption == Carried \subseteq Nat
ASSUME BoundsAssumption == MaxVersion \in Nat /\ MaxConn \in Nat

VARIABLES
  db,         \* number of the newest change of the tables corecfg.Build reads
  rev,        \* servers.config_rev, as the change it was built from
  lastErr,    \* servers.last_error is not empty
  kickWant,   \* s.kickWant[id]
  kickRun,    \* s.kickRun[id]
  holder,     \* the goroutine inside pushMu[id], or None
  pc,         \* where each goroutine is
  push,       \* the locals of pushServer: version built, attempt, connection used
  conn,       \* h.conns[id]: the registered connection, or NoConn
  lastConn,   \* connections so far
  confirmed   \* history: what the Agent has acknowledged on conn, 0 for nothing

syncVars == <<db, rev, lastErr, kickWant, kickRun, holder, pc, push, conn, lastConn, confirmed>>

Procs == Handlers \cup Loops
None == "none"
NoConn == 0
Blank == [ver |-> 0, try |-> 0, on |-> NoConn]

\* Inside the mutex of pushServer.
Locked == {"build", "online", "send", "wait", "fail", "clear", "rev"}
Places == {"idle", "hello", "kick", "top", "lock"} \cup Locked

Init ==
  /\ db = 0 /\ rev = 0 /\ lastErr = FALSE
  /\ kickWant = FALSE /\ kickRun = FALSE
  /\ holder = None
  /\ pc = [p \in Procs |-> "idle"]
  /\ push = [p \in Procs |-> Blank]
  /\ conn = NoConn /\ lastConn = 0 /\ confirmed = 0

Goto(p, place) == pc' = [pc EXCEPT ![p] = place]

(***************************************************************************)
(* Work arrives.                                                           *)
(***************************************************************************)

\* A handler commits a table change; next it calls syncServers, or pushServer
\* itself when the reply waits for the result (respondAfterApply).
Change(h, next) ==
  /\ pc[h] = "idle" /\ db < MaxVersion
  /\ db' = db + 1
  /\ Goto(h, next)
  /\ UNCHANGED <<rev, lastErr, kickWant, kickRun, holder, push, conn, lastConn, confirmed>>

\* handleSyncServer, handlePushNft and handlePushWG push what is there; enforceOnce
\* and provisionAndSyncUser may find nothing to change and still sync.
Request(h, next) ==
  /\ pc[h] = "idle"
  /\ Goto(h, next)
  /\ UNCHANGED <<db, rev, lastErr, kickWant, kickRun, holder, push, conn, lastConn, confirmed>>

\* enforceOnce syncs the servers that ProvisionUser named for the users who are no
\* administrators: not one that only has landings or administrators' lines.
Tick(h) == db \in Carried /\ Request(h, "kick")

\* Mutant: a loop goroutine is started whether or not one is running.
KickSyncAlways(h) ==
  /\ pc[h] = "kick"
  /\ kickWant' = TRUE /\ kickRun' = TRUE
  /\ \E l \in Loops : pc[l] = "idle" /\ pc' = [pc EXCEPT ![h] = "idle", ![l] = "top"]
  /\ UNCHANGED <<db, rev, lastErr, holder, push, conn, lastConn, confirmed>>

\* kickSync: leave the wish, and start a loop goroutine unless one is running.
KickSync(h) ==
  /\ pc[h] = "kick"
  /\ kickWant' = TRUE
  /\ kickRun' = TRUE
  /\ \/ kickRun /\ Goto(h, "idle")
     \/ /\ ~kickRun
        /\ \E l \in Loops : pc[l] = "idle" /\ pc' = [pc EXCEPT ![h] = "idle", ![l] = "top"]
  /\ UNCHANGED <<db, rev, lastErr, holder, push, conn, lastConn, confirmed>>

(***************************************************************************)
(* syncLoop.                                                               *)
(***************************************************************************)
LoopTake(l) ==
  /\ pc[l] = "top" /\ kickWant
  /\ kickWant' = FALSE
  /\ Goto(l, "lock")
  /\ UNCHANGED <<db, rev, lastErr, kickRun, holder, push, conn, lastConn, confirmed>>

\* Mutant: the finished loop leaves kickRun set.
LoopExitStillRunning(l) ==
  /\ pc[l] = "top" /\ ~kickWant
  /\ Goto(l, "idle")
  /\ UNCHANGED <<db, rev, lastErr, kickWant, kickRun, holder, push, conn, lastConn, confirmed>>

LoopExit(l) ==
  /\ pc[l] = "top" /\ ~kickWant
  /\ kickRun' = FALSE
  /\ Goto(l, "idle")
  /\ UNCHANGED <<db, rev, lastErr, kickWant, holder, push, conn, lastConn, confirmed>>

(***************************************************************************)
(* pushServer.                                                             *)
(***************************************************************************)
\* Mutant: pushServer without the mutex.
LockFreely(p) ==
  /\ pc[p] = "lock"
  /\ holder' = p
  /\ Goto(p, "build")
  /\ UNCHANGED <<db, rev, lastErr, kickWant, kickRun, push, conn, lastConn, confirmed>>

Lock(p) ==
  /\ pc[p] = "lock" /\ holder = None
  /\ holder' = p
  /\ Goto(p, "build")
  /\ UNCHANGED <<db, rev, lastErr, kickWant, kickRun, push, conn, lastConn, confirmed>>

\* The deferred Unlock; a loop goes round again, a handler is done.
Return(p) ==
  /\ holder' = None
  /\ Goto(p, IF p \in Loops THEN "top" ELSE "idle")
  /\ push' = [push EXCEPT ![p] = Blank]

\* corecfg.Build reads the tables one after the other. What it read first may
\* be changed before it returns: the version is the one at its first read.
Build(p) ==
  /\ pc[p] = "build"
  /\ push' = [push EXCEPT ![p].ver = db]
  /\ Goto(p, "online")
  /\ UNCHANGED <<db, rev, lastErr, kickWant, kickRun, holder, conn, lastConn, confirmed>>

BuildFail(p) ==
  /\ pc[p] = "build"
  /\ lastErr' = TRUE
  /\ Return(p)
  /\ UNCHANGED <<db, rev, kickWant, kickRun, conn, lastConn, confirmed>>

SeeOffline(p) ==
  /\ pc[p] = "online" /\ conn = NoConn
  /\ rev' = push[p].ver
  /\ Return(p)
  /\ UNCHANGED <<db, lastErr, kickWant, kickRun, conn, lastConn, confirmed>>

SeeOnline(p) ==
  /\ pc[p] = "online" /\ conn # NoConn
  /\ push' = [push EXCEPT ![p].try = 1]
  /\ Goto(p, "send")
  /\ UNCHANGED <<db, rev, lastErr, kickWant, kickRun, holder, conn, lastConn, confirmed>>

\* SendApply looks the connection up again and hands the frame to it.
Send(p) ==
  /\ pc[p] = "send" /\ conn # NoConn
  /\ push' = [push EXCEPT ![p].on = conn]
  /\ Goto(p, "wait")
  /\ UNCHANGED <<db, rev, lastErr, kickWant, kickRun, holder, conn, lastConn, confirmed>>

\* transientApplyErr: try again until the attempts are used up.
Retry(p) ==
  /\ \/ /\ push[p].try < Attempts
        /\ push' = [push EXCEPT ![p].try = @ + 1]
        /\ Goto(p, "send")
     \/ /\ push[p].try = Attempts
        /\ Goto(p, "fail")
        /\ UNCHANGED push
  /\ UNCHANGED <<db, rev, lastErr, kickWant, kickRun, holder, conn, lastConn, confirmed>>

SendOffline(p) == pc[p] = "send" /\ conn = NoConn /\ Retry(p)

\* The connection closed before the answer, or the answer took over two minutes.
NoAnswer(p) == pc[p] = "wait" /\ Retry(p)

AckOK(p) ==
  /\ pc[p] = "wait"
  /\ confirmed' = IF push[p].on = conn THEN push[p].ver ELSE confirmed
  /\ Goto(p, "clear")
  /\ UNCHANGED <<db, rev, lastErr, kickWant, kickRun, holder, push, conn, lastConn>>

AckRefused(p) ==
  /\ pc[p] = "wait"
  /\ Goto(p, "fail")
  /\ UNCHANGED <<db, rev, lastErr, kickWant, kickRun, holder, push, conn, lastConn, confirmed>>

\* Mutant: the failed push is not recorded.
FailQuietly(p) ==
  /\ pc[p] = "fail"
  /\ Return(p)
  /\ UNCHANGED <<db, rev, lastErr, kickWant, kickRun, conn, lastConn, confirmed>>

Fail(p) ==
  /\ pc[p] = "fail"
  /\ lastErr' = TRUE
  /\ Return(p)
  /\ UNCHANGED <<db, rev, kickWant, kickRun, conn, lastConn, confirmed>>

ClearError(p) ==
  /\ pc[p] = "clear"
  /\ lastErr' = FALSE
  /\ Goto(p, "rev")
  /\ UNCHANGED <<db, rev, kickWant, kickRun, holder, push, conn, lastConn, confirmed>>

SetRev(p) ==
  /\ pc[p] = "rev"
  /\ rev' = push[p].ver
  /\ Return(p)
  /\ UNCHANGED <<db, lastErr, kickWant, kickRun, conn, lastConn, confirmed>>

(***************************************************************************)
(* Connections, as far as pushServer can see them.                         *)
(***************************************************************************)

\* ServeWS after a good hello: registerConn replaces an older connection.
Register(h) ==
  /\ pc[h] = "idle" /\ lastConn < MaxConn
  /\ lastConn' = lastConn + 1
  /\ conn' = lastConn + 1
  /\ push' = [push EXCEPT ![h].on = lastConn + 1]
  /\ confirmed' = 0
  /\ Goto(h, "hello")
  /\ UNCHANGED <<db, rev, lastErr, kickWant, kickRun, holder>>

\* hello_ack could not be written: ServeWS returns through unregisterConn.
HelloFail(h) ==
  /\ pc[h] = "hello"
  /\ conn' = IF conn = push[h].on THEN NoConn ELSE conn
  /\ push' = [push EXCEPT ![h] = Blank]
  /\ Goto(h, "idle")
  /\ UNCHANGED <<db, rev, lastErr, kickWant, kickRun, holder, lastConn, confirmed>>

\* Mutant: no dispatch for a new connection when the revision looks current.
ReconcileByRev(h) ==
  /\ pc[h] = "hello"
  /\ push' = [push EXCEPT ![h] = Blank]
  /\ Goto(h, IF rev = db THEN "idle" ELSE "kick")
  /\ UNCHANGED <<db, rev, lastErr, kickWant, kickRun, holder, conn, lastConn, confirmed>>

\* reconcileOnConnect always starts a goroutine that calls syncServers.
Reconcile(h) ==
  /\ pc[h] = "hello"
  /\ push' = [push EXCEPT ![h] = Blank]
  /\ Goto(h, "kick")
  /\ UNCHANGED <<db, rev, lastErr, kickWant, kickRun, holder, conn, lastConn, confirmed>>

\* The reader of the registered connection fails, or Drop removes it.
Disconnect ==
  /\ conn # NoConn
  /\ conn' = NoConn
  /\ UNCHANGED <<db, rev, lastErr, kickWant, kickRun, holder, pc, push, lastConn, confirmed>>

\* The panel process ends and starts again; only the database survives.
Restart ==
  /\ kickWant' = FALSE /\ kickRun' = FALSE
  /\ holder' = None
  /\ pc' = [p \in Procs |-> "idle"]
  /\ push' = [p \in Procs |-> Blank]
  /\ conn' = NoConn /\ confirmed' = 0
  /\ UNCHANGED <<db, rev, lastErr, lastConn>>

PushStep(p) ==
  \/ Lock(p) \/ Build(p) \/ BuildFail(p) \/ SeeOffline(p) \/ SeeOnline(p)
  \/ Send(p) \/ SendOffline(p) \/ NoAnswer(p) \/ AckOK(p) \/ AckRefused(p)
  \/ Fail(p) \/ ClearError(p) \/ SetRev(p)

HandlerStep(h) == KickSync(h) \/ HelloFail(h) \/ Reconcile(h)

LoopStep(l) == LoopTake(l) \/ LoopExit(l)

Arrival(h) ==
  \/ \E next \in {"kick", "lock"} : Change(h, next) \/ Request(h, next)
  \/ Register(h)

Next ==
  \/ \E h \in Handlers : Arrival(h) \/ HandlerStep(h)
  \/ \E l \in Loops : LoopStep(l)
  \/ \E p \in Procs : PushStep(p)
  \/ Disconnect
  \/ Restart

Spec == Init /\ [][Next]_syncVars

-----------------------------------------------------------------------------
TypeOK ==
  /\ db \in Nat /\ rev \in Nat /\ lastErr \in BOOLEAN
  /\ kickWant \in BOOLEAN /\ kickRun \in BOOLEAN
  /\ holder \in Procs \cup {None}
  /\ pc \in [Procs -> Places]
  /\ push \in [Procs -> [ver : Nat, try : 0 .. Attempts, on : Nat]]
  /\ conn \in Nat /\ lastConn \in Nat /\ confirmed \in Nat

\* Concurrent dispatches are merged into one queue per machine: a wish always
\* has a loop to serve it, and there are never two loops for the server, however
\* a kick falls against the loop that is just finding nothing left to do.
OneLoop ==
  /\ kickWant => kickRun
  /\ kickRun <=> \E l \in Loops : pc[l] # "idle"
  /\ \A l, m \in Loops : pc[l] # "idle" /\ pc[m] # "idle" => l = m

\* A dispatch that has still to read the tables.
Waiting ==
  \/ kickWant
  \/ \E p \in Procs : pc[p] \in {"kick", "lock"}
  \/ \E p \in Procs : pc[p] = "hello" /\ push[p].on = conn

\* A dispatch between reading the tables and its outcome.
Underway == \E p \in Procs : pc[p] \in {"build", "online", "send", "wait", "fail"}

\* No table change and no reconnect is forgotten: while the server is online and
\* its Agent has not confirmed the newest configuration, either the panel shows
\* an error for it or some goroutine is still going to dispatch.
NothingForgotten ==
  conn # NoConn /\ confirmed # db /\ ~lastErr => Waiting \/ Underway

\* pushServer builds inside the mutex, so a slow push never overtakes a newer one:
\* the recorded revision and what a connection has confirmed only move forward.
PushesInOrder ==
  [][ /\ rev' >= rev
      /\ conn' = conn /\ conn # NoConn => confirmed' >= confirmed ]_syncVars

\* All of the above as one promise: read through what is confirmed and what is
\* still going to be dispatched, the queue, the mutex and the retries implement
\* Delivery.
Promise == INSTANCE Delivery WITH
  want <- db, link <- conn, got <- confirmed, err <- lastErr, owed <- Waiting \/ Underway

Delivers == Promise!Spec

(***************************************************************************)
(* Fairness: every goroutine that can run does, and the mutex is handed to *)
(* each waiter in the end (Go's starvation mode).  Whether the Agent ever  *)
(* answers is the environment's business.                                  *)
(***************************************************************************)
Fairness ==
  /\ \A h \in Handlers : WF_syncVars(HandlerStep(h))
  /\ \A l \in Loops : WF_syncVars(LoopStep(l))
  /\ \A p \in Procs : WF_syncVars(PushStep(p)) /\ SF_syncVars(Lock(p))

FairSpec == Spec /\ Fairness

\* enforceOnce runs every 30 seconds for as long as the panel does, ProvisionUser
\* succeeds again and again for one of the customers it serves here, and of
\* infinitely many builds and of infinitely many applies one is good.
TickFairness ==
  /\ WF_syncVars(\E h \in Handlers : Tick(h))
  /\ SF_syncVars(\E p \in Procs : Build(p))
  /\ SF_syncVars(\E p \in Procs : AckOK(p))

\* Once the tables and the connection stop changing, every change ends up
\* confirmed by the Agent or visible as an error (or the server is offline); and
\* on a server that carries a customer's line even a failed dispatch is repeated
\* by the enforcement tick until the Agent has the newest configuration.  On any
\* other server the error stays until somebody asks again.
Settles ==
  /\ <>[](conn = NoConn \/ confirmed = db \/ lastErr)
  /\ TickFairness => <>[](conn = NoConn \/ confirmed = db \/ db \notin Carried)
=============================================================================
