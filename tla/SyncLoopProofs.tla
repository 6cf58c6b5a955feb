--------------------------- MODULE SyncLoopProofs ---------------------------
(***************************************************************************)
(* Proofs about SyncLoop for any sets of handlers and loops, any number of *)
(* attempts, table changes and connections.                                *)
(***************************************************************************)
EXTENDS SyncLoop, TLAPS

LEMMA TypeInit == Init => TypeOK
<1> SUFFICES ASSUME Init PROVE TypeOK
  OBVIOUS
<1>1. Blank \in [ver : Nat, try : 0 .. Attempts, on : Nat]
  BY AttemptsAssumption DEF Blank, NoConn
<1>2. "idle" \in Places
  BY DEF Places
<1> QED BY <1>1, <1>2 DEF Init, TypeOK, NoConn

LEMMA TypeStep == TypeOK /\ [Next]_syncVars => TypeOK'
<1> SUFFICES ASSUME TypeOK, [Next]_syncVars PROVE TypeOK'
  OBVIOUS
<1> USE AttemptsAssumption DEF TypeOK, Procs, Blank, NoConn, None, Places, Locked, Goto, Return, Retry
<1>1. ASSUME NEW h \in Handlers, Arrival(h) PROVE TypeOK'
  <2>1. ASSUME NEW next \in {"kick", "lock"}, Change(h, next) PROVE TypeOK'
    BY <2>1 DEF Change
  <2>2. ASSUME NEW next \in {"kick", "lock"}, Request(h, next) PROVE TypeOK'
    BY <2>2 DEF Request
  <2>3. CASE Register(h)
    BY <2>3 DEF Register
  <2> QED BY <1>1, <2>1, <2>2, <2>3 DEF Arrival
<1>2. ASSUME NEW h \in Handlers, HandlerStep(h) PROVE TypeOK'
  <2>1. CASE KickSync(h)
    BY <2>1 DEF KickSync
  <2>2. CASE HelloFail(h)
    BY <2>2 DEF HelloFail
  <2>3. CASE Reconcile(h)
    BY <2>3 DEF Reconcile
  <2> QED BY <1>2, <2>1, <2>2, <2>3 DEF HandlerStep
<1>3. ASSUME NEW l \in Loops, LoopStep(l) PROVE TypeOK'
  BY <1>3 DEF LoopStep, LoopTake, LoopExit
<1>4. ASSUME NEW p \in Procs, PushStep(p) PROVE TypeOK'
  <2>1. CASE Lock(p) BY <2>1 DEF Lock
  <2>2. CASE Build(p) BY <2>2 DEF Build
  <2>3. CASE BuildFail(p) BY <2>3 DEF BuildFail
  <2>4. CASE SeeOffline(p) BY <2>4 DEF SeeOffline
  <2>5. CASE SeeOnline(p) BY <2>5 DEF SeeOnline
  <2>6. CASE Send(p) BY <2>6 DEF Send
  <2>7. CASE SendOffline(p) BY <2>7 DEF SendOffline
  <2>8. CASE NoAnswer(p) BY <2>8 DEF NoAnswer
  <2>9. CASE AckOK(p) BY <2>9 DEF AckOK
  <2>10. CASE AckRefused(p) BY <2>10 DEF AckRefused
  <2>11. CASE Fail(p) BY <2>11 DEF Fail
  <2>12. CASE ClearError(p) BY <2>12 DEF ClearError
  <2>13. CASE SetRev(p) BY <2>13 DEF SetRev
  <2> QED BY <1>4, <2>1, <2>2, <2>3, <2>4, <2>5, <2>6, <2>7, <2>8, <2>9, <2>10,
             <2>11, <2>12, <2>13 DEF PushStep
<1>5. CASE Disconnect
  BY <1>5 DEF Disconnect
<1>6. CASE Restart
  <2>1. Blank \in [ver : Nat, try : 0 .. Attempts, on : Nat]
    OBVIOUS
  <2>2. push' \in [Procs -> [ver : Nat, try : 0 .. Attempts, on : Nat]]
    BY <1>6, <2>1 DEF Restart
  <2> QED BY <1>6, <2>2 DEF Restart
<1>7. CASE UNCHANGED syncVars
  BY <1>7 DEF syncVars
<1> QED BY <1>1, <1>2, <1>3, <1>4, <1>5, <1>6, <1>7 DEF Next

\* The variables of the dispatcher keep their types in every execution.
THEOREM TypeCorrect == Spec => []TypeOK
BY TypeInit, TypeStep, PTL DEF Spec

-----------------------------------------------------------------------------
(***************************************************************************)
(* One loop per server.                                                    *)
(***************************************************************************)

\* Goroutines are where their kind can be, and the mutex has at most one owner.
Owner ==
  /\ \A p \in Procs : pc[p] \in Locked <=> holder = p
  /\ \A h \in Handlers : pc[h] # "top"
  /\ \A l \in Loops : pc[l] \notin {"hello", "kick"}

LEMMA OwnerStep == TypeOK /\ Owner /\ [Next]_syncVars => Owner'
<1> SUFFICES ASSUME TypeOK, Owner, [Next]_syncVars PROVE Owner'
  OBVIOUS
<1> USE DisjointAssumption, NoneAssumption
    DEF TypeOK, Owner, Procs, None, Locked, Goto, Return, Retry
<1>1. ASSUME NEW h \in Handlers, Arrival(h) PROVE Owner'
  BY <1>1 DEF Arrival, Change, Request, Register
<1>2. ASSUME NEW h \in Handlers, HandlerStep(h) PROVE Owner'
  BY <1>2 DEF HandlerStep, KickSync, HelloFail, Reconcile
<1>3. ASSUME NEW l \in Loops, LoopStep(l) PROVE Owner'
  BY <1>3 DEF LoopStep, LoopTake, LoopExit
<1>4. ASSUME NEW p \in Procs, PushStep(p) PROVE Owner'
  <2>1. CASE Lock(p) \/ Build(p) \/ BuildFail(p) \/ SeeOffline(p) \/ SeeOnline(p)
    BY <2>1 DEF Lock, Build, BuildFail, SeeOffline, SeeOnline
  <2>2. CASE Send(p) \/ SendOffline(p) \/ NoAnswer(p)
    BY <2>2 DEF Send, SendOffline, NoAnswer
  <2>3. CASE AckOK(p) \/ AckRefused(p) \/ Fail(p) \/ ClearError(p) \/ SetRev(p)
    BY <2>3 DEF AckOK, AckRefused, Fail, ClearError, SetRev
  <2> QED BY <1>4, <2>1, <2>2, <2>3 DEF PushStep
<1>5. CASE Disconnect \/ Restart \/ UNCHANGED syncVars
  BY <1>5 DEF Disconnect, Restart, syncVars
<1> QED BY <1>1, <1>2, <1>3, <1>4, <1>5 DEF Next

\* A push neither starts nor ends a loop goroutine.
LEMMA PushKeepsLoops ==
  ASSUME TypeOK, Owner, NEW p \in Procs, PushStep(p)
  PROVE  /\ kickRun' = kickRun /\ kickWant' = kickWant
         /\ \A l \in Loops : pc'[l] = "idle" <=> pc[l] = "idle"
<1> USE DisjointAssumption DEF TypeOK, Owner, Procs, Goto, Return, Retry
<1>1. CASE Lock(p) \/ Build(p) \/ BuildFail(p) \/ SeeOffline(p) \/ SeeOnline(p)
  BY <1>1 DEF Lock, Build, BuildFail, SeeOffline, SeeOnline
<1>2. CASE Send(p) \/ SendOffline(p) \/ NoAnswer(p)
  BY <1>2 DEF Send, SendOffline, NoAnswer
<1>3. CASE AckOK(p) \/ AckRefused(p) \/ Fail(p) \/ ClearError(p) \/ SetRev(p)
  BY <1>3 DEF AckOK, AckRefused, Fail, ClearError, SetRev
<1> QED BY <1>1, <1>2, <1>3 DEF PushStep

LEMMA OneLoopStep == TypeOK /\ Owner /\ OneLoop /\ [Next]_syncVars => OneLoop'
<1> SUFFICES ASSUME TypeOK, Owner, OneLoop, [Next]_syncVars PROVE OneLoop'
  OBVIOUS
<1> USE DisjointAssumption DEF TypeOK, Owner, OneLoop, Procs, Goto
<1>1. ASSUME NEW h \in Handlers, Arrival(h) PROVE OneLoop'
  BY <1>1 DEF Arrival, Change, Request, Register
<1>2. ASSUME NEW h \in Handlers, HandlerStep(h) PROVE OneLoop'
  <2>1. CASE KickSync(h) /\ kickRun
    BY <2>1 DEF KickSync
  <2>2. CASE KickSync(h) /\ ~kickRun
    \* No loop is running, so the new one is the only one.
    <3>1. PICK l \in Loops : pc[l] = "idle" /\ pc' = [pc EXCEPT ![h] = "idle", ![l] = "top"]
      BY <2>2 DEF KickSync
    <3>2. \A m \in Loops : pc[m] = "idle"
      BY <2>2
    <3>3. pc'[l] = "top" /\ \A m \in Loops \ {l} : pc'[m] = "idle"
      BY <3>1, <3>2
    <3>4. kickWant' = TRUE /\ kickRun' = TRUE
      BY <2>2 DEF KickSync
    <3> QED BY <3>3, <3>4
  <2>3. CASE HelloFail(h) \/ Reconcile(h)
    BY <2>3 DEF HelloFail, Reconcile
  <2> QED BY <1>2, <2>1, <2>2, <2>3 DEF HandlerStep
<1>3. ASSUME NEW l \in Loops, LoopStep(l) PROVE OneLoop'
  BY <1>3 DEF LoopStep, LoopTake, LoopExit
<1>4. ASSUME NEW p \in Procs, PushStep(p) PROVE OneLoop'
  BY <1>4, PushKeepsLoops
<1>5. CASE Disconnect \/ Restart \/ UNCHANGED syncVars
  BY <1>5 DEF Disconnect, Restart, syncVars
<1> QED BY <1>1, <1>2, <1>3, <1>4, <1>5 DEF Next

\* A dispatch wish is always served, by exactly one loop goroutine per server.
THEOREM OneLoopHolds == Spec => []OneLoop
<1>1. Init => TypeOK /\ Owner /\ OneLoop
  BY TypeInit, NoneAssumption DEF Init, Owner, OneLoop, Procs, Locked, None
<1>2. (TypeOK /\ Owner /\ OneLoop) /\ [Next]_syncVars => (TypeOK /\ Owner /\ OneLoop)'
  BY TypeStep, OwnerStep, OneLoopStep
<1> QED BY <1>1, <1>2, PTL DEF Spec

-----------------------------------------------------------------------------
(***************************************************************************)
(* No change is forgotten.  A push may carry an older configuration than   *)
(* the tables hold, or go to a connection that has been replaced; then     *)
(* somebody else must still be waiting to dispatch.  That a push's own     *)
(* success clears the error is why the clause about "clear" is needed.     *)
(***************************************************************************)
Stale(p) ==
  \/ pc[p] \in {"online", "send"} /\ push[p].ver # db
  \/ pc[p] = "wait" /\ (push[p].ver # db \/ push[p].on # conn)
  \/ pc[p] = "clear" /\ confirmed # db

Tracked == conn # NoConn /\ (\E p \in Procs : Stale(p)) => Waiting

TrackInv == TypeOK /\ Owner /\ Tracked /\ NothingForgotten

LEMMA TrackArrival ==
  ASSUME TrackInv, NEW h \in Handlers, Arrival(h)
  PROVE  Tracked' /\ NothingForgotten'
<1> USE DEF TrackInv, TypeOK, Procs, Goto
<1>1. ASSUME NEW next \in {"kick", "lock"}, Change(h, next)
      PROVE  Waiting'
  BY <1>1 DEF Change, Waiting
<1>2. ASSUME NEW next \in {"kick", "lock"}, Request(h, next)
      PROVE  Waiting'
  BY <1>2 DEF Request, Waiting
<1>3. CASE Register(h)
  <2> Waiting'
    BY <1>3 DEF Register, Waiting
  <2> QED BY DEF Tracked, NothingForgotten
<1> QED BY <1>1, <1>2, <1>3 DEF Arrival, Tracked, NothingForgotten

LEMMA TrackHandler ==
  ASSUME TrackInv, NEW h \in Handlers, HandlerStep(h)
  PROVE  Tracked' /\ NothingForgotten'
<1> USE DEF TrackInv, TypeOK, Procs, Goto
<1>1. CASE KickSync(h)
  <2> Waiting'
    BY <1>1 DEF KickSync, Waiting
  <2> QED BY DEF Tracked, NothingForgotten
<1>2. CASE Reconcile(h)
  <2> Waiting'
    BY <1>2 DEF Reconcile, Waiting
  <2> QED BY DEF Tracked, NothingForgotten
<1>3. CASE HelloFail(h)
  \* Only the connection of this hello can be lost; every other hello stays.
  <2> SUFFICES ASSUME conn' # NoConn PROVE Tracked' /\ NothingForgotten'
    BY DEF Tracked, NothingForgotten, NoConn
  <2>1. conn' = conn /\ push[h].on # conn
    BY <1>3 DEF HelloFail
  <2>2. \A p \in Procs \ {h} : pc'[p] = pc[p] /\ push'[p] = push[p]
    BY <1>3 DEF HelloFail
  <2>3. pc[h] = "hello" /\ pc'[h] = "idle"
    BY <1>3 DEF HelloFail
  <2>4. UNCHANGED <<db, lastErr, kickWant, confirmed>>
    BY <1>3 DEF HelloFail
  <2>5. Waiting => Waiting'
    BY <2>1, <2>2, <2>3, <2>4 DEF Waiting
  <2>6. Underway => Underway'
    BY <2>2, <2>3 DEF Underway
  <2>7. \A p \in Procs : Stale(p)' => Stale(p)
    BY <2>1, <2>2, <2>3, <2>4 DEF Stale
  <2> QED BY <2>1, <2>4, <2>5, <2>6, <2>7 DEF Tracked, NothingForgotten
<1> QED BY <1>1, <1>2, <1>3 DEF HandlerStep

LEMMA TrackLoop ==
  ASSUME TrackInv, NEW l \in Loops, LoopStep(l)
  PROVE  Tracked' /\ NothingForgotten'
<1> USE DEF TrackInv, TypeOK, Procs, Goto
<1>1. CASE LoopTake(l)
  <2> Waiting'
    BY <1>1 DEF LoopTake, Waiting
  <2> QED BY DEF Tracked, NothingForgotten
<1>2. CASE LoopExit(l)
  <2>1. Waiting => Waiting'
    BY <1>2 DEF LoopExit, Waiting
  <2>2. Underway => Underway'
    BY <1>2 DEF LoopExit, Underway
  <2>3. \A p \in Procs : Stale(p)' => Stale(p)
    BY <1>2 DEF LoopExit, Stale
  <2> QED BY <1>2, <2>1, <2>2, <2>3 DEF LoopExit, Tracked, NothingForgotten
<1> QED BY <1>1, <1>2 DEF LoopStep

\* While one goroutine holds the mutex, those that wait keep waiting.
LEMMA WaitingStays ==
  ASSUME TrackInv, NEW p \in Procs, PushStep(p), ~Lock(p)
  PROVE  Waiting => Waiting'
<1> USE DEF TrackInv, TypeOK, Procs, Goto, Return, Retry, Waiting
<1>1. CASE Build(p) \/ BuildFail(p) \/ SeeOffline(p) \/ SeeOnline(p)
  BY <1>1 DEF Build, BuildFail, SeeOffline, SeeOnline
<1>2. CASE Send(p) \/ SendOffline(p) \/ NoAnswer(p)
  BY <1>2 DEF Send, SendOffline, NoAnswer
<1>3. CASE AckOK(p) \/ AckRefused(p) \/ Fail(p) \/ ClearError(p) \/ SetRev(p)
  BY <1>3 DEF AckOK, AckRefused, Fail, ClearError, SetRev
<1> QED BY <1>1, <1>2, <1>3 DEF PushStep

\* Only the owner of the mutex can be stale or underway.
LEMMA OnlyOwner ==
  ASSUME TrackInv, NEW p \in Procs, pc[p] \in Locked, NEW q \in Procs \ {p}
  PROVE  pc[q] \notin Locked
BY DEF TrackInv, Owner

LEMMA TrackPush ==
  ASSUME TrackInv, NEW p \in Procs, PushStep(p)
  PROVE  Tracked' /\ NothingForgotten'
<1> USE DEF TrackInv, TypeOK, Procs
<1>1. CASE Lock(p)
  \* Nobody else is inside, so nothing is stale; the push is underway.
  <2>1. \A q \in Procs : pc[q] \notin Locked
    BY <1>1, NoneAssumption DEF Lock, Owner, None
  <2>2. pc' = [pc EXCEPT ![p] = "build"]
    BY <1>1 DEF Lock, Goto
  <2>3. Underway'
    BY <2>2 DEF Underway
  <2>4. \A q \in Procs : ~Stale(q)'
    BY <2>1, <2>2 DEF Stale, Locked
  <2> QED BY <2>3, <2>4 DEF Tracked, NothingForgotten
<1>2. CASE ~Lock(p)
  <2>1. Waiting => Waiting'
    BY <1>2, WaitingStays
  <2>2. pc[p] \in Locked /\ pc' = [pc EXCEPT ![p] = pc'[p]]
        /\ push' = [push EXCEPT ![p] = push'[p]]
        /\ conn' = conn /\ db' = db
    BY <1>2 DEF PushStep, Build, BuildFail, SeeOffline, SeeOnline, Send, SendOffline, NoAnswer,
                AckOK, AckRefused, Fail, ClearError, SetRev, Goto, Return, Retry, Locked
  <2>3. \A q \in Procs \ {p} : pc'[q] = pc[q] /\ pc[q] \notin Locked
    BY <2>2, OnlyOwner
  <2>4. \A q \in Procs \ {p} : ~Stale(q)'
    BY <2>3 DEF Stale, Locked
  <2>5. SUFFICES ASSUME conn # NoConn
        PROVE  /\ Stale(p)' => Waiting'
               /\ confirmed' # db /\ ~lastErr' => Waiting' \/ Underway'
    BY <2>2, <2>4 DEF Tracked, NothingForgotten
  <2>6. CASE Build(p)
    BY <2>6 DEF Build, Goto, Stale, Underway
  <2>7. CASE BuildFail(p)
    BY <2>7, DisjointAssumption DEF BuildFail, Return, Goto, Stale
  <2>8. CASE SeeOffline(p)
    BY <2>5, <2>8 DEF SeeOffline
  <2>9. CASE SeeOnline(p) \/ Send(p) \/ SendOffline(p) \/ NoAnswer(p)
    <3>1. pc'[p] \in {"send", "wait", "fail"}
      BY <2>9 DEF SeeOnline, Send, SendOffline, NoAnswer, Retry, Goto
    <3>2. Underway'
      BY <3>1 DEF Underway
    <3>3. Stale(p)' => Stale(p)
      BY <2>5, <2>9 DEF SeeOnline, Send, SendOffline, NoAnswer, Retry, Goto, Stale, NoConn
    <3> QED BY <2>1, <2>5, <3>2, <3>3 DEF Tracked
  <2>10. CASE AckOK(p)
    <3>1. confirmed' # db => Stale(p)
      BY <2>10 DEF AckOK, Stale
    <3>2. confirmed' # db => Waiting'
      BY <2>1, <2>5, <3>1 DEF Tracked
    <3> QED BY <2>2, <2>10, <3>2 DEF AckOK, Goto, Stale
  <2>11. CASE AckRefused(p)
    BY <2>11 DEF AckRefused, Goto, Stale, Underway
  <2>12. CASE Fail(p)
    BY <2>12 DEF Fail, Return, Goto, Stale
  <2>13. CASE ClearError(p)
    <3>1. confirmed' # db => Stale(p)
      BY <2>13 DEF ClearError, Stale
    <3> QED BY <2>1, <2>2, <2>5, <2>13, <3>1 DEF ClearError, Goto, Stale, Tracked
  <2>14. CASE SetRev(p)
    <3>1. ~Stale(p)'
      BY <2>14 DEF SetRev, Return, Goto, Stale
    <3>2. ~Underway
      BY <2>3, <2>14 DEF SetRev, Underway, Locked
    <3> QED BY <2>1, <2>5, <2>14, <3>1, <3>2 DEF SetRev, NothingForgotten
  <2> QED BY <1>2, <2>6, <2>7, <2>8, <2>9, <2>10, <2>11, <2>12, <2>13, <2>14 DEF PushStep
<1> QED BY <1>1, <1>2

LEMMA TrackEnvironment ==
  ASSUME TrackInv, Disconnect \/ Restart \/ UNCHANGED syncVars
  PROVE  Tracked' /\ NothingForgotten'
<1>1. CASE Disconnect \/ Restart
  BY <1>1 DEF Disconnect, Restart, Tracked, NothingForgotten
<1>2. CASE UNCHANGED syncVars
  BY <1>2 DEF TrackInv, syncVars, Tracked, Stale, NothingForgotten, Waiting, Underway
<1> QED BY <1>1, <1>2

LEMMA TrackStep == TrackInv /\ [Next]_syncVars => TrackInv'
<1> SUFFICES ASSUME TrackInv, [Next]_syncVars PROVE TrackInv'
  OBVIOUS
<1>1. TypeOK' /\ Owner'
  BY TypeStep, OwnerStep DEF TrackInv
<1>2. Tracked' /\ NothingForgotten'
  BY TrackArrival, TrackHandler, TrackLoop, TrackPush, TrackEnvironment DEF Next
<1> QED BY <1>1, <1>2 DEF TrackInv

\* A connected Agent that has not confirmed the newest tables always has a
\* dispatch coming, unless the panel shows an error for its server.
THEOREM NothingForgottenHolds == Spec => []NothingForgotten
<1>1. Init => TrackInv
  <2> SUFFICES ASSUME Init PROVE TrackInv
    OBVIOUS
  <2>1. Owner
    BY NoneAssumption DEF Init, Owner, Procs, Locked, None
  <2> QED BY <2>1, TypeInit DEF Init, TrackInv, Tracked, NothingForgotten
<1>2. TrackInv => NothingForgotten
  BY DEF TrackInv
<1> QED BY <1>1, <1>2, TrackStep, PTL DEF Spec

-----------------------------------------------------------------------------
(***************************************************************************)
(* Pushes do not overtake each other.                                      *)
(***************************************************************************)

\* What is recorded and confirmed is no newer than what the owner of the mutex
\* has built, and that no newer than the tables; connections are numbered upwards.
Bounded ==
  /\ rev <= db /\ confirmed <= db /\ conn <= lastConn
  /\ \A p \in Procs : pc[p] \in Locked \ {"build"} =>
        rev <= push[p].ver /\ confirmed <= push[p].ver /\ push[p].ver <= db

OrderInv == TypeOK /\ Owner /\ Bounded

LEMMA OrderPush ==
  ASSUME OrderInv, NEW p \in Procs, PushStep(p)
  PROVE  Bounded' /\ rev' >= rev /\ confirmed' >= confirmed
<1> USE DisjointAssumption, NoneAssumption
    DEF OrderInv, TypeOK, Owner, Bounded, Procs, None, Locked, Goto, Return, Retry
<1>1. CASE Lock(p) BY <1>1 DEF Lock
<1>2. CASE Build(p) BY <1>2 DEF Build
<1>3. CASE BuildFail(p) BY <1>3 DEF BuildFail
<1>4. CASE SeeOffline(p) BY <1>4 DEF SeeOffline
<1>5. CASE SeeOnline(p) BY <1>5 DEF SeeOnline
<1>6. CASE Send(p) BY <1>6 DEF Send
<1>7. CASE SendOffline(p) \/ NoAnswer(p) BY <1>7 DEF SendOffline, NoAnswer
<1>8. CASE AckOK(p) BY <1>8 DEF AckOK
<1>9. CASE AckRefused(p) BY <1>9 DEF AckRefused
<1>10. CASE Fail(p) BY <1>10 DEF Fail
<1>11. CASE ClearError(p) BY <1>11 DEF ClearError
<1>12. CASE SetRev(p) BY <1>12 DEF SetRev
<1> QED BY <1>1, <1>2, <1>3, <1>4, <1>5, <1>6, <1>7, <1>8, <1>9, <1>10, <1>11, <1>12
        DEF PushStep

LEMMA OrderStep ==
  ASSUME OrderInv, [Next]_syncVars
  PROVE  /\ OrderInv'
         /\ rev' >= rev
         /\ conn' = conn /\ conn # NoConn => confirmed' >= confirmed
<1> DEFINE InOrder == Bounded' /\ rev' >= rev /\ (conn' = conn /\ conn # NoConn => confirmed' >= confirmed)
<1> SUFFICES InOrder
  BY TypeStep, OwnerStep DEF OrderInv
<1> USE DisjointAssumption DEF OrderInv, TypeOK, Bounded, Procs, Goto, Locked
<1>1. ASSUME NEW h \in Handlers, Arrival(h) PROVE InOrder
  <2>1. ASSUME NEW next \in {"kick", "lock"}, Change(h, next) PROVE InOrder
    BY <2>1 DEF Change
  <2>2. ASSUME NEW next \in {"kick", "lock"}, Request(h, next) PROVE InOrder
    BY <2>2 DEF Request
  <2>3. CASE Register(h)
    <3>1. conn' # conn
      BY <2>3 DEF Register
    <3>2. Bounded' /\ rev' = rev
      BY <2>3 DEF Register
    <3> QED BY <3>1, <3>2
  <2> QED BY <1>1, <2>1, <2>2, <2>3 DEF Arrival
<1>2. ASSUME NEW h \in Handlers, HandlerStep(h) PROVE InOrder
  <2>1. CASE KickSync(h)
    BY <2>1 DEF KickSync, Owner
  <2>2. CASE HelloFail(h) \/ Reconcile(h)
    BY <2>2 DEF HelloFail, Reconcile, NoConn
  <2> QED BY <1>2, <2>1, <2>2 DEF HandlerStep
<1>3. ASSUME NEW l \in Loops, LoopStep(l) PROVE InOrder
  BY <1>3 DEF LoopStep, LoopTake, LoopExit
<1>4. ASSUME NEW p \in Procs, PushStep(p) PROVE InOrder
  BY <1>4, OrderPush
<1>5. CASE Disconnect \/ UNCHANGED syncVars
  BY <1>5 DEF Disconnect, syncVars, NoConn
<1>6. CASE Restart
  BY <1>6 DEF Restart, NoConn
<1> QED BY <1>1, <1>2, <1>3, <1>4, <1>5, <1>6 DEF Next

\* No push, however slow, replaces a newer configuration by an older one.
THEOREM PushesInOrderHolds == Spec => PushesInOrder
<1>1. Init => OrderInv
  BY TypeInit, NoneAssumption DEF Init, OrderInv, Owner, Bounded, Procs, Locked, None, NoConn
<1>2. OrderInv /\ [Next]_syncVars => OrderInv'
  BY OrderStep
<1>3. OrderInv /\ [Next]_syncVars =>
        [ /\ rev' >= rev
          /\ conn' = conn /\ conn # NoConn => confirmed' >= confirmed ]_syncVars
  BY OrderStep
<1> QED BY <1>1, <1>2, <1>3, PTL DEF Spec, PushesInOrder

-----------------------------------------------------------------------------
(***************************************************************************)
(* The dispatcher keeps the promise of Delivery.  NothingForgotten, which  *)
(* holds again after every step, says that a debt only ends for one of the *)
(* reasons Delivery allows.                                                *)
(***************************************************************************)
DeliverInv == TrackInv /\ Bounded

LEMMA DeliverPush ==
  ASSUME DeliverInv, NothingForgotten', NEW p \in Procs, PushStep(p)
  PROVE  Promise!Next
<1>1. OrderInv
  BY DEF DeliverInv, TrackInv, OrderInv
<1> USE DEF DeliverInv, TrackInv, TypeOK, Procs, Goto, Return, Retry
<1>2. (Waiting' \/ Underway') \in BOOLEAN
  BY DEF Waiting, Underway
<1>3. CASE Lock(p) \/ Build(p) \/ SeeOnline(p) \/ Send(p) \/ SendOffline(p) \/ NoAnswer(p) \/ AckRefused(p)
  <2>1. pc'[p] \in {"build", "online", "send", "wait", "fail"}
    BY <1>3 DEF Lock, Build, SeeOnline, Send, SendOffline, NoAnswer, AckRefused
  <2>2. UNCHANGED <<db, conn, confirmed, lastErr>>
    BY <1>3 DEF Lock, Build, SeeOnline, Send, SendOffline, NoAnswer, AckRefused
  <2>3. Promise!Ask
    BY <2>1, <2>2 DEF Promise!Ask, Underway
  <2> QED BY <2>3 DEF Promise!Next
<1>4. CASE SeeOffline(p)
  <2>1. Promise!Disconnect
    BY <1>2, <1>4 DEF SeeOffline, Promise!Disconnect, NoConn
  <2> QED BY <2>1 DEF Promise!Next
<1>5. CASE BuildFail(p) \/ Fail(p) \/ ClearError(p) \/ SetRev(p)
  <2>1. UNCHANGED <<db, conn, confirmed>> /\ lastErr' \in BOOLEAN
    BY <1>5 DEF BuildFail, Fail, ClearError, SetRev
  <2>2. ~lastErr' => (Waiting' \/ Underway') \/ confirmed = db \/ conn = NoConn
    BY <2>1 DEF NothingForgotten
  <2>3. Promise!Report
    BY <1>2, <2>1, <2>2 DEF Promise!Report, Promise!MayEnd, NoConn
  <2> QED BY <2>3 DEF Promise!Next
<1>6. CASE AckOK(p)
  <2>1. UNCHANGED <<db, conn, lastErr>>
    BY <1>6 DEF AckOK
  <2>2. confirmed' \in 0 .. db /\ confirmed' >= confirmed
    BY <1>1, <1>6, <2>1, TypeStep, OrderPush DEF Next, Bounded, AckOK
  <2>3. Underway
    BY <1>6 DEF AckOK, Underway
  <2>4. Promise!MayEnd
    BY <2>1 DEF Promise!MayEnd, NothingForgotten, NoConn
  <2>5. Promise!Confirm
    BY <1>2, <2>1, <2>2, <2>3, <2>4 DEF Promise!Confirm
  <2> QED BY <2>5 DEF Promise!Next
<1> QED BY <1>3, <1>4, <1>5, <1>6 DEF PushStep

LEMMA DeliverHandler ==
  ASSUME DeliverInv, NEW h \in Handlers, HandlerStep(h)
  PROVE  Promise!Next \/ UNCHANGED Promise!deliveryVars
<1> USE DEF DeliverInv, TrackInv, TypeOK, Procs, Goto
<1>1. CASE KickSync(h) \/ Reconcile(h)
  <2>1. Waiting'
    BY <1>1 DEF KickSync, Reconcile, Waiting
  <2>2. Promise!Ask
    BY <1>1, <2>1 DEF KickSync, Reconcile, Promise!Ask
  <2> QED BY <2>2 DEF Promise!Next
<1>2. CASE HelloFail(h) /\ conn' = NoConn
  <2>1. Promise!Disconnect
    BY <1>2 DEF HelloFail, Promise!Disconnect, NoConn, Waiting, Underway
  <2> QED BY <2>1 DEF Promise!Next
<1>3. CASE HelloFail(h) /\ conn' # NoConn
  <2>1. conn' = conn /\ push[h].on # conn /\ UNCHANGED <<db, lastErr, kickWant, confirmed>>
    BY <1>3 DEF HelloFail
  <2>2. \A p \in Procs \ {h} : pc'[p] = pc[p] /\ push'[p] = push[p]
    BY <1>3 DEF HelloFail
  <2>3. pc[h] = "hello" /\ pc'[h] = "idle"
    BY <1>3 DEF HelloFail
  <2>4. Waiting' = Waiting
    BY <2>1, <2>2, <2>3 DEF Waiting
  <2>5. Underway' = Underway
    BY <2>2, <2>3 DEF Underway
  <2> QED BY <2>1, <2>4, <2>5 DEF Promise!deliveryVars
<1> QED BY <1>1, <1>2, <1>3 DEF HandlerStep

LEMMA DeliverStep ==
  ASSUME DeliverInv, NothingForgotten', [Next]_syncVars
  PROVE  Promise!Next \/ UNCHANGED Promise!deliveryVars
<1> USE DEF DeliverInv, TrackInv, TypeOK, Procs, Goto
<1>1. ASSUME NEW h \in Handlers, Arrival(h) PROVE Promise!Next
  <2>1. ASSUME NEW next \in {"kick", "lock"}, Change(h, next) PROVE Promise!NewConfig
    BY <2>1 DEF Change, Waiting, Promise!NewConfig
  <2>2. ASSUME NEW next \in {"kick", "lock"}, Request(h, next) PROVE Promise!Ask
    BY <2>2 DEF Request, Waiting, Promise!Ask
  <2>3. CASE Register(h)
    <3>1. Waiting'
      BY <2>3 DEF Register, Waiting
    <3>2. Promise!Connect
      BY <2>3, <3>1 DEF Register, Bounded, Promise!Connect
    <3> QED BY <3>2 DEF Promise!Next
  <2> QED BY <1>1, <2>1, <2>2, <2>3 DEF Arrival, Promise!Next
<1>2. ASSUME NEW l \in Loops, LoopTake(l) PROVE Promise!Next
  BY <1>2 DEF LoopTake, Waiting, Promise!Ask, Promise!Next
<1>3. ASSUME NEW l \in Loops, LoopExit(l) PROVE UNCHANGED Promise!deliveryVars
  <2>1. Waiting' = Waiting /\ Underway' = Underway
    BY <1>3 DEF LoopExit, Waiting, Underway
  <2> QED BY <1>3, <2>1 DEF LoopExit, Promise!deliveryVars
<1>4. CASE Disconnect \/ Restart
  <2>1. (Waiting' \/ Underway') \in BOOLEAN
    BY DEF Waiting, Underway
  <2>2. Promise!Disconnect
    BY <1>4, <2>1 DEF Disconnect, Restart, Promise!Disconnect, NoConn
  <2> QED BY <2>2 DEF Promise!Next
<1>5. CASE UNCHANGED syncVars
  BY <1>5 DEF syncVars, Promise!deliveryVars, Waiting, Underway
<1> QED BY <1>1, <1>2, <1>3, <1>4, <1>5, DeliverHandler, DeliverPush DEF Next, LoopStep

\* kickSync, syncLoop, pushServer and the reconnect handling together implement
\* the promise: every configuration is owed to a connected Agent until it has
\* confirmed it or the panel shows an error.
THEOREM DeliversHolds == Spec => Delivers
<1>1. Init => DeliverInv /\ Promise!Init
  <2> SUFFICES ASSUME Init PROVE DeliverInv /\ Promise!Init
    OBVIOUS
  <2>1. Owner
    BY NoneAssumption DEF Init, Owner, Procs, Locked, None
  <2>2. ~Waiting /\ ~Underway
    BY DEF Init, Waiting, Underway
  <2> QED BY <2>1, <2>2, TypeInit
          DEF Init, DeliverInv, TrackInv, Tracked, NothingForgotten, Bounded, NoConn, Locked, Promise!Init
<1>2. DeliverInv /\ [Next]_syncVars => DeliverInv'
  BY TrackStep, OrderStep DEF DeliverInv, TrackInv, OrderInv
<1>3. DeliverInv /\ [Next]_syncVars => [Promise!Next]_(Promise!deliveryVars)
  BY <1>2, DeliverStep DEF DeliverInv, TrackInv
<1> QED BY <1>1, <1>2, <1>3, PTL DEF Spec, Delivers, Promise!Spec
=============================================================================
