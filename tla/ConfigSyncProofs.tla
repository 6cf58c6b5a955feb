-------------------------- MODULE ConfigSyncProofs --------------------------
(***************************************************************************)
(* Proofs about the whole way of a configuration, for any handlers, loops, *)
(* cores and numbers of changes, connections and frames, as long as the    *)
(* Agent's goroutines start in the order of their frames.                  *)
(***************************************************************************)
EXTENDS ConfigSync, SyncLoopProofs

\* Every step is a step of the dispatcher, or leaves it alone.
LEMMA PanelPart == NextAll => [Next]_syncVars
BY DEF NextAll, SendFrame, GiveUp, TakeOK, TakeRefused, Dial, PanelAlone, PanelRestart, AgentAlone,
       Next, PushStep, LoopStep, Arrival

LEMMA PanelStep == DeliverInv /\ [NextAll]_allVars => DeliverInv'
BY PanelPart, TrackStep, OrderStep DEF allVars, DeliverInv, TrackInv, OrderInv

\* Goroutines that carry a configuration they have read.
Carries(p) == pc[p] \in Locked \ {"build"}

\* What a goroutine carries it carried before, or has just read.
LEMMA Moves ==
  ASSUME TypeOK, Owner, [Next]_syncVars
  PROVE  /\ db' >= db
         /\ \A p \in Procs : Carries(p)' =>
              push'[p].ver = db \/ (Carries(p) /\ push'[p].ver = push[p].ver)
<1> DEFINE Moved == db' >= db /\ \A p \in Procs : Carries(p)' =>
                      push'[p].ver = db \/ (Carries(p) /\ push'[p].ver = push[p].ver)
<1> SUFFICES Moved
  OBVIOUS
<1> USE DEF TypeOK, Owner, Procs, Carries, Locked, Goto, Return, Retry
<1>1. ASSUME NEW h \in Handlers, Arrival(h) PROVE Moved
  BY <1>1 DEF Arrival, Change, Request, Register
<1>2. ASSUME NEW h \in Handlers, HandlerStep(h) PROVE Moved
  BY <1>2 DEF HandlerStep, KickSync, HelloFail, Reconcile
<1>3. ASSUME NEW l \in Loops, LoopStep(l) PROVE Moved
  BY <1>3 DEF LoopStep, LoopTake, LoopExit
<1>4. ASSUME NEW p \in Procs, PushStep(p) PROVE Moved
  <2>1. CASE Lock(p) \/ Build(p) \/ BuildFail(p)
    BY <2>1 DEF Lock, Build, BuildFail
  <2>2. CASE SeeOffline(p) \/ SeeOnline(p)
    BY <2>2 DEF SeeOffline, SeeOnline
  <2>3. CASE Send(p) \/ SendOffline(p) \/ NoAnswer(p)
    BY <2>3 DEF Send, SendOffline, NoAnswer
  <2>4. CASE AckOK(p) \/ AckRefused(p) \/ Fail(p) \/ ClearError(p) \/ SetRev(p)
    BY <2>4 DEF AckOK, AckRefused, Fail, ClearError, SetRev
  <2> QED BY <1>4, <2>1, <2>2, <2>3, <2>4 DEF PushStep
<1>5. CASE Disconnect \/ Restart \/ UNCHANGED syncVars
  BY <1>5 DEF Disconnect, Restart, syncVars
<1> QED BY <1>1, <1>2, <1>3, <1>4, <1>5 DEF Next

\* Steps nobody else sees bring no goroutine to the wait for an answer, confirm
\* nothing, and connect nobody.
LEMMA AloneMoves ==
  ASSUME TypeOK, Owner, PanelAlone
  PROVE  /\ \A p \in Procs : pc'[p] = "wait" => pc[p] = "wait" /\ push'[p].ver = push[p].ver
         /\ confirmed' = confirmed /\ conn' \in {conn, NoConn} /\ lastConn' = lastConn
<1> DEFINE Quiet ==
      /\ \A p \in Procs : pc'[p] = "wait" => pc[p] = "wait" /\ push'[p].ver = push[p].ver
      /\ confirmed' = confirmed /\ conn' \in {conn, NoConn} /\ lastConn' = lastConn
<1> SUFFICES Quiet
  OBVIOUS
<1> USE DEF TypeOK, Owner, Procs, Locked, Goto, Return, Retry
<1>1. ASSUME NEW h \in Handlers, HandlerStep(h) PROVE Quiet
  BY <1>1 DEF HandlerStep, KickSync, HelloFail, Reconcile
<1>2. ASSUME NEW h \in Handlers, NEW next \in {"kick", "lock"}, Change(h, next) \/ Request(h, next)
      PROVE  Quiet
  BY <1>2 DEF Change, Request
<1>3. ASSUME NEW l \in Loops, LoopStep(l) PROVE Quiet
  BY <1>3 DEF LoopStep, LoopTake, LoopExit
<1>4. ASSUME NEW p \in Procs,
             Lock(p) \/ Build(p) \/ BuildFail(p) \/ SeeOffline(p) \/ SeeOnline(p)
      PROVE  Quiet
  BY <1>4 DEF Lock, Build, BuildFail, SeeOffline, SeeOnline
<1>5. ASSUME NEW p \in Procs, SendOffline(p) \/ Fail(p) \/ ClearError(p) \/ SetRev(p)
      PROVE  Quiet
  BY <1>5 DEF SendOffline, Fail, ClearError, SetRev
<1>6. CASE Disconnect
  BY <1>6 DEF Disconnect
<1> QED BY <1>1, <1>2, <1>3, <1>4, <1>5, <1>6 DEF PanelAlone

-----------------------------------------------------------------------------
(***************************************************************************)
(* The inductive invariant.                                                *)
(***************************************************************************)
Begun(j) == job[j].st \in {"bins", "ok", "refused"}
Lives(j) == job[j].st = "sent" \/ Begun(j)

\* The next to decide what a core runs: not begun, or begun last.
Decides(j) == job[j].st = "sent" \/ (Begun(j) /\ job[j].gen = applyGen)

\* Frames are numbered as they are sent; only the newest is waited for.
Frames ==
  /\ Agt!TypeOK
  /\ sends \in 0 .. MaxSends /\ asked \in {0, sends} /\ sess \in Nat
  /\ \A j \in Jobs : job[j].st = "none" <=> j > sends

\* They begin in the order of their numbers, so nothing supersedes the newest.
InTurn ==
  /\ \A i, j \in Jobs : i < j /\ Begun(j) => job[i].st # "sent"
  /\ \A i, j \in Jobs : i < j /\ Begun(i) /\ Begun(j) => job[i].gen < job[j].gen
  /\ \A j \in Jobs : j = sends /\ Begun(j) => job[j].gen = applyGen
  /\ Agt!OkIsInstalled

\* No frame carries anything older than the frames before it, or than what the
\* cores run when its turn comes; no goroutine anything older than both.
Upwards ==
  /\ \A i, j \in Jobs : i < j /\ Lives(i) /\ Lives(j) => job[i].ver <= job[j].ver
  /\ \A j \in Jobs, c \in CoreNames : Decides(j) => runs[c].ver <= job[j].ver
  /\ \A j \in Jobs : job[j].ver <= db
  /\ \A c \in CoreNames : runs[c].ver <= db
  /\ \A p \in Procs : Carries(p) =>
       /\ \A j \in Jobs : job[j].ver <= push[p].ver
       /\ \A c \in CoreNames : runs[c].ver <= push[p].ver

\* The frame waited for is the one the waiting goroutine has sent.
Matched ==
  \A p \in Procs : asked \in Jobs /\ pc[p] = "wait" /\ Lives(asked) => job[asked].ver = push[p].ver

AgentInv == Frames /\ InTurn /\ Upwards /\ Matched /\ ConfirmedIsRunning
WholeInv == DeliverInv /\ AgentInv

-----------------------------------------------------------------------------
LEMMA WholeInit == InitAll => WholeInv
<1> SUFFICES ASSUME InitAll PROVE WholeInv
  OBVIOUS
<1>1. DeliverInv
  <2>1. Owner
    BY NoneAssumption DEF InitAll, Init, Owner, Procs, Locked, None
  <2> QED BY <2>1, TypeInit
          DEF InitAll, Init, DeliverInv, TrackInv, Tracked, NothingForgotten, Bounded, NoConn, Locked
<1>2. /\ \A j \in Jobs : job[j] = [st |-> "none", ver |-> 0, on |-> 0, gen |-> 0]
      /\ \A c \in CoreNames : runs[c] = [ver |-> 0, gen |-> 0]
      /\ applyGen = 0
  BY DEF InitAll, Agt!Init, Agt!NoJob, Agt!Clean
<1>3. Frames
  BY <1>2, SendsAssumption
     DEF InitAll, Frames, Agt!Init, Agt!NoJob, Agt!Clean, Agt!TypeOK, Agt!States, NoConn, Jobs
<1>4. InTurn
  BY <1>2 DEF InTurn, Begun, Agt!OkIsInstalled
<1>5. Upwards
  BY <1>2 DEF Upwards, Lives, Begun, Decides, InitAll, Init, Carries, Locked
<1>6. Matched /\ ConfirmedIsRunning
  BY DEF InitAll, Init, Matched, ConfirmedIsRunning, NoConn
<1> QED BY <1>1, <1>3, <1>4, <1>5, <1>6 DEF WholeInv, AgentInv

\* The types in the form the provers need.
LEMMA Typed ==
  ASSUME WholeInv
  PROVE  /\ TypeOK /\ Owner /\ Bounded
         /\ applyGen \in Nat /\ sends \in Nat /\ sends <= MaxSends /\ sess \in Nat
         /\ job \in [Jobs -> [st : Agt!States, ver : Nat, on : Nat, gen : Nat]]
         /\ runs \in [CoreNames -> [ver : Nat, gen : Nat]]
         /\ \A j \in Jobs : j \in Nat /\ j > 0 /\ job[j].gen <= applyGen
BY SendsAssumption DEF WholeInv, DeliverInv, TrackInv, AgentInv, Frames, Agt!TypeOK, Jobs

-----------------------------------------------------------------------------
(* The panel's steps, the Agent standing still.                            *)

LEMMA StillAgent ==
  ASSUME WholeInv, [Next]_syncVars, UNCHANGED <<sends, applyGen, job, runs>>, sess' \in Nat,
         asked' \in {0, asked}
  PROVE  Frames' /\ InTurn' /\ Upwards'
<1>1. Frames'
  BY Typed DEF WholeInv, AgentInv, Frames, Agt!TypeOK
<1>2. InTurn'
  BY DEF WholeInv, AgentInv, InTurn, Begun, Agt!OkIsInstalled
<1>3. Upwards'
  <2>1. \A p \in Procs : Carries(p)' => push'[p].ver = db \/ (Carries(p) /\ push'[p].ver = push[p].ver)
    BY Moves, Typed
  <2>2. db' >= db /\ db \in Nat /\ db' \in Nat
    BY Moves, Typed, TypeStep DEF TypeOK
  <2>3. \A p \in Procs : Carries(p)' =>
          /\ \A j \in Jobs : job[j].ver <= push'[p].ver
          /\ \A c \in CoreNames : runs[c].ver <= push'[p].ver
    BY <2>1 DEF WholeInv, AgentInv, Upwards
  <2>4. \A j \in Jobs : job[j].ver <= db'
    BY <2>2, Typed DEF WholeInv, AgentInv, Upwards
  <2>5. \A c \in CoreNames : runs[c].ver <= db'
    BY <2>2, Typed DEF WholeInv, AgentInv, Upwards
  <2> QED BY <2>3, <2>4, <2>5 DEF WholeInv, AgentInv, Upwards, Lives, Begun, Decides
<1> QED BY <1>1, <1>2, <1>3

LEMMA AloneAgent == ASSUME WholeInv, PanelAlone PROVE AgentInv'
<1>1. UNCHANGED <<sends, asked, sess, applyGen, job, runs>>
  BY DEF PanelAlone, agentVars
<1>2. [Next]_syncVars
  BY PanelPart DEF NextAll
<1>3. Frames' /\ InTurn' /\ Upwards'
  BY <1>1, <1>2, StillAgent, Typed
<1>4. Matched'
  BY <1>1, AloneMoves, Typed DEF WholeInv, AgentInv, Matched, Lives, Begun
<1>5. ConfirmedIsRunning'
  BY <1>1, AloneMoves, Typed DEF WholeInv, AgentInv, ConfirmedIsRunning
<1> QED BY <1>3, <1>4, <1>5 DEF AgentInv

LEMMA DialAgent == ASSUME WholeInv, NEW h \in Handlers, Dial(h) PROVE AgentInv'
<1>1. UNCHANGED <<sends, asked, applyGen, job, runs>> /\ sess' \in Nat
  BY Typed DEF Dial, TypeOK
<1>2. [Next]_syncVars
  BY PanelPart DEF NextAll
<1>3. Frames' /\ InTurn' /\ Upwards'
  BY <1>1, <1>2, StillAgent
<1>4. Matched'
  <2>1. \A p \in Procs : pc'[p] = "wait" => pc[p] = "wait" /\ push'[p].ver = push[p].ver
    BY Typed DEF Dial, Register, Goto, TypeOK, Procs
  <2> QED BY <1>1, <2>1 DEF WholeInv, AgentInv, Matched, Lives, Begun
<1>5. ConfirmedIsRunning'
  BY <1>1, Typed DEF Dial, Register, ConfirmedIsRunning
<1> QED BY <1>3, <1>4, <1>5 DEF AgentInv

LEMMA RestartAgent == ASSUME WholeInv, PanelRestart PROVE AgentInv'
<1>1. UNCHANGED <<sends, sess, applyGen, job, runs>> /\ asked' = 0
  BY DEF PanelRestart, agentVars
<1>2. [Next]_syncVars
  BY PanelPart DEF NextAll
<1>3. Frames' /\ InTurn' /\ Upwards'
  BY <1>1, <1>2, StillAgent, Typed
<1>4. Matched' /\ ConfirmedIsRunning'
  BY <1>1 DEF PanelRestart, Restart, Matched, ConfirmedIsRunning, Jobs
<1> QED BY <1>3, <1>4 DEF AgentInv

LEMMA GiveUpAgent == ASSUME WholeInv, NEW p \in Procs, GiveUp(p) PROVE AgentInv'
<1>1. UNCHANGED <<sends, sess, applyGen, job, runs>> /\ asked' = 0
  BY DEF GiveUp, agentVars
<1>2. [Next]_syncVars
  BY PanelPart DEF NextAll
<1>3. Frames' /\ InTurn' /\ Upwards'
  BY <1>1, <1>2, StillAgent, Typed
<1>4. Matched' /\ ConfirmedIsRunning'
  BY <1>1 DEF GiveUp, NoAnswer, Retry, Matched, ConfirmedIsRunning, Jobs, WholeInv, AgentInv
<1> QED BY <1>3, <1>4 DEF AgentInv

-----------------------------------------------------------------------------
(* Frames and answers.                                                     *)

LEMMA SendAgent == ASSUME WholeInv, NEW p \in Procs, SendFrame(p) PROVE AgentInv'
<1> DEFINE n == sends + 1
           new == [Agt!NoJob EXCEPT !.st = "sent", !.ver = push[p].ver, !.on = conn]
<1>0. push[p].ver \in Nat /\ conn \in Nat
  BY Typed DEF TypeOK
<1>1. n \in Jobs /\ n \in Nat /\ sends' = n /\ asked' = n
  BY Typed, SendsAssumption DEF SendFrame, Jobs
<1>2. job' = [job EXCEPT ![n] = new] /\ UNCHANGED <<applyGen, runs, sess>>
  BY DEF SendFrame, Agt!Arrive
<1>3. /\ pc[p] = "send" /\ pc' = [pc EXCEPT ![p] = "wait"]
      /\ push' = [push EXCEPT ![p].on = conn]
      /\ UNCHANGED <<db, conn, confirmed>>
  BY DEF SendFrame, Send, Goto
<1>4. Carries(p) /\ push[p].ver \in Nat /\ push[p].ver <= db /\ conn \in Nat
  BY <1>3, Typed DEF Carries, Locked, TypeOK, Bounded
<1>5. \A j \in Jobs \ {n} : job'[j] = job[j]
  BY <1>1, <1>2, Typed
<1>6. /\ job'[n].st = "sent" /\ job'[n].ver = push[p].ver
      /\ job'[n].on = conn /\ job'[n].gen = 0
  BY <1>0, <1>1, <1>2, Typed DEF Agt!NoJob
<1>7. \A j \in Jobs : j > n => job[j].st = "none"
  BY <1>1, Typed DEF WholeInv, AgentInv, Frames
<1>8. Frames'
  <2>1. new \in [st : Agt!States, ver : Nat, on : Nat, gen : 0 .. applyGen]
    <3> DEFINE Record == [st : Agt!States, ver : Nat, on : Nat, gen : 0 .. applyGen]
    <3>1. Agt!NoJob \in Record
      BY Typed DEF Agt!States, Agt!NoJob
    <3>2. "sent" \in Agt!States
      BY DEF Agt!States
    <3> QED BY <1>0, <3>1, <3>2
  <2>2. job' \in [Jobs -> [st : Agt!States, ver : Nat, on : Nat, gen : 0 .. applyGen]]
    BY <1>2, <2>1 DEF WholeInv, AgentInv, Frames, Agt!TypeOK
  <2>3. Agt!TypeOK'
    BY <1>2, <2>2 DEF WholeInv, AgentInv, Frames, Agt!TypeOK
  <2>4. \A j \in Jobs : job'[j].st = "none" <=> j > sends'
    <3>1. \A j \in Jobs : job[j].st = "none" <=> j > sends
      BY DEF WholeInv, AgentInv, Frames
    <3>2. ASSUME NEW j \in Jobs, j # n PROVE j > sends <=> j > n
      <4>1. sends \in Nat
        BY Typed
      <4> QED BY <3>2, <4>1, SendsAssumption DEF Jobs
    <3>3. "sent" # "none" /\ ~(n > sends')
      BY <1>1
    <3> QED BY <1>1, <1>5, <1>6, <3>1, <3>2, <3>3
  <2>5. sends' \in 0 .. MaxSends
    BY <1>1 DEF Jobs
  <2> QED BY <1>1, <1>2, <2>3, <2>4, <2>5, Typed DEF Frames
<1>9. InTurn'
  <2>1. \A j \in Jobs : Begun(j)' => Begun(j) /\ j < n
    BY <1>1, <1>5, <1>6, <1>7, Typed DEF Begun
  <2> QED BY <1>1, <1>2, <1>5, <1>6, <2>1, Typed
          DEF WholeInv, AgentInv, InTurn, Begun, Agt!OkIsInstalled
<1>10. Upwards'
  <2>1. \A j \in Jobs : job[j].ver <= push[p].ver
    BY <1>4 DEF WholeInv, AgentInv, Upwards
  <2>2. \A c \in CoreNames : runs[c].ver <= push[p].ver
    BY <1>4 DEF WholeInv, AgentInv, Upwards
  <2>3. \A j \in Jobs : Lives(j)' => j <= n
    BY <1>1, <1>5, <1>7, Typed DEF Lives, Begun
  <2>4. \A i, j \in Jobs : i < j /\ Lives(i)' /\ Lives(j)' => job'[i].ver <= job'[j].ver
    BY <1>1, <1>5, <1>6, <2>1, <2>3, Typed DEF WholeInv, AgentInv, Upwards, Lives, Begun
  <2>5. \A j \in Jobs, c \in CoreNames : Decides(j)' => runs'[c].ver <= job'[j].ver
    BY <1>2, <1>5, <1>6, <2>2 DEF WholeInv, AgentInv, Upwards, Decides, Begun
  <2>6. \A j \in Jobs : job'[j].ver <= db'
    BY <1>3, <1>4, <1>5, <1>6 DEF WholeInv, AgentInv, Upwards
  <2>7. \A q \in Procs : Carries(q)' => q = p
    BY <1>3, Typed DEF Owner, Carries, Locked
  <2>8. push'[p].ver = push[p].ver
    BY <1>3, Typed DEF TypeOK
  <2>9. \A j \in Jobs : job'[j].ver <= push'[p].ver
    BY <1>4, <1>5, <1>6, <2>1, <2>8
  <2> QED BY <1>2, <1>3, <2>2, <2>4, <2>5, <2>6, <2>7, <2>8, <2>9 DEF WholeInv, AgentInv, Upwards
<1>11. Matched'
  <2>1. \A q \in Procs : pc'[q] = "wait" => q = p
    BY <1>3, Typed DEF Owner, Locked
  <2>2. push'[p].ver = push[p].ver
    BY <1>3, Typed DEF TypeOK
  <2> QED BY <1>1, <1>6, <2>1, <2>2 DEF Matched
<1>12. ConfirmedIsRunning'
  BY <1>2, <1>3 DEF WholeInv, AgentInv, ConfirmedIsRunning
<1> QED BY <1>8, <1>9, <1>10, <1>11, <1>12 DEF AgentInv

\* A goroutine of the Agent that ends takes its claims with it.
LEMMA OverAgent ==
  ASSUME WholeInv, [Next]_syncVars, NEW j \in Jobs, Lives(j),
         job' = [job EXCEPT ![j] = [Agt!NoJob EXCEPT !.st = "over"]],
         UNCHANGED <<sends, sess, applyGen, runs>>, asked' \in {0, asked}
  PROVE  Frames' /\ InTurn' /\ Upwards'
<1> DEFINE over == [st |-> "over", ver |-> 0, on |-> 0, gen |-> 0]
<1>1. job' = [job EXCEPT ![j] = over]
  <2>1. [Agt!NoJob EXCEPT !.st = "over"] = over
    BY DEF Agt!NoJob
  <2> QED BY <2>1
<1>2. job'[j] = over /\ \A k \in Jobs \ {j} : job'[k] = job[k]
  BY <1>1, Typed
<1>3. Frames'
  <2>1. over \in [st : Agt!States, ver : Nat, on : Nat, gen : 0 .. applyGen]
    BY Typed DEF Agt!States
  <2>2. job' \in [Jobs -> [st : Agt!States, ver : Nat, on : Nat, gen : 0 .. applyGen]]
    BY <1>1, <2>1 DEF WholeInv, AgentInv, Frames, Agt!TypeOK
  <2>3. Agt!TypeOK'
    BY <2>2 DEF WholeInv, AgentInv, Frames, Agt!TypeOK
  <2>4. \A k \in Jobs : job'[k].st = "none" <=> k > sends'
    BY <1>2 DEF WholeInv, AgentInv, Frames, Lives, Begun
  <2> QED BY <2>3, <2>4, Typed DEF WholeInv, AgentInv, Frames
<1>4. InTurn'
  BY <1>2 DEF WholeInv, AgentInv, InTurn, Begun, Agt!OkIsInstalled
<1>5. Upwards'
  <2>1. \A p \in Procs : Carries(p)' => push'[p].ver = db \/ (Carries(p) /\ push'[p].ver = push[p].ver)
    BY Moves, Typed
  <2>2. db' >= db /\ db \in Nat /\ db' \in Nat /\ push' \in [Procs -> [ver : Nat, try : 0 .. Attempts, on : Nat]]
    BY Moves, Typed, TypeStep DEF TypeOK
  <2>3. \A k \in Jobs : job'[k].ver = 0 \/ job'[k].ver = job[k].ver
    BY <1>2
  <2>4. \A p \in Procs : Carries(p)' =>
          /\ \A k \in Jobs : job'[k].ver <= push'[p].ver
          /\ \A c \in CoreNames : runs'[c].ver <= push'[p].ver
    BY <2>1, <2>2, <2>3 DEF WholeInv, AgentInv, Upwards
  <2>5. \A k \in Jobs : job'[k].ver <= db'
    BY <2>2, <2>3, Typed DEF WholeInv, AgentInv, Upwards
  <2>6. \A c \in CoreNames : runs'[c].ver <= db'
    BY <2>2, Typed DEF WholeInv, AgentInv, Upwards
  <2>7. \A k \in Jobs : Lives(k)' \/ Decides(k)' => k # j
    BY <1>2 DEF Lives, Begun, Decides
  <2>8. /\ \A i, k \in Jobs : i < k /\ Lives(i)' /\ Lives(k)' => job'[i].ver <= job'[k].ver
        /\ \A k \in Jobs, c \in CoreNames : Decides(k)' => runs'[c].ver <= job'[k].ver
    BY <1>2, <2>7 DEF WholeInv, AgentInv, Upwards, Lives, Begun, Decides
  <2> QED BY <2>4, <2>5, <2>6, <2>8 DEF Upwards
<1> QED BY <1>3, <1>4, <1>5

\* The answer the panel takes is the newest frame's, and says what runs.
LEMMA TakeAgent ==
  ASSUME WholeInv, NEW p \in Procs, TakeOK(p) \/ TakeRefused(p)
  PROVE  AgentInv'
<1>1. asked # 0 /\ asked \in Jobs /\ asked = sends
  BY Typed DEF WholeInv, AgentInv, Frames, TakeOK, TakeRefused, Jobs
<1>2. Lives(asked) /\ Begun(asked)
  BY DEF TakeOK, TakeRefused, Lives, Begun
<1>3. [Next]_syncVars
  BY PanelPart DEF NextAll
<1>4. /\ job' = [job EXCEPT ![asked] = [Agt!NoJob EXCEPT !.st = "over"]]
      /\ UNCHANGED <<sends, sess, applyGen, runs>> /\ asked' = 0
  BY DEF TakeOK, TakeRefused, Agt!Close
<1>5. Frames' /\ InTurn' /\ Upwards'
  BY <1>1, <1>2, <1>3, <1>4, OverAgent
<1>6. Matched'
  BY <1>4 DEF Matched, Jobs
<1>7. ConfirmedIsRunning'
  <2>1. CASE TakeRefused(p)
    BY <1>4, <2>1 DEF TakeRefused, AckRefused, WholeInv, AgentInv, ConfirmedIsRunning
  <2>2. CASE TakeOK(p) /\ push[p].on # conn
    BY <1>4, <2>2 DEF TakeOK, AckOK, WholeInv, AgentInv, ConfirmedIsRunning
  <2>3. CASE TakeOK(p) /\ push[p].on = conn
    <3>1. confirmed' = push[p].ver /\ pc[p] = "wait" /\ job[asked].st = "ok"
      BY <2>3 DEF TakeOK, AckOK
    <3>2. job[asked].ver = push[p].ver
      BY <1>1, <1>2, <3>1 DEF WholeInv, AgentInv, Matched
    <3>3. job[asked].gen = applyGen
      BY <1>1, <1>2 DEF WholeInv, AgentInv, InTurn
    <3>4. \A c \in CoreNames : runs[c] = [ver |-> job[asked].ver, gen |-> job[asked].gen]
      BY <1>1, <3>1, <3>3 DEF WholeInv, AgentInv, InTurn, Agt!OkIsInstalled
    <3>5. runs' = runs /\ \A c \in CoreNames : runs[c].ver \in Nat
      BY <1>4, Typed
    <3> QED BY <3>1, <3>2, <3>4, <3>5 DEF ConfirmedIsRunning
  <2> QED BY <2>1, <2>2, <2>3
<1> QED BY <1>5, <1>6, <1>7 DEF AgentInv

-----------------------------------------------------------------------------
(* The Agent alone.                                                        *)

LEMMA StartAgent ==
  ASSUME InOrder, WholeInv, NEW j \in Jobs, StartJob(j), UNCHANGED <<syncVars, sends, asked>>
  PROVE  AgentInv'
<1> DEFINE begun == [st |-> "bins", ver |-> job[j].ver, on |-> job[j].on, gen |-> applyGen + 1]
<1>1. /\ job[j].st = "sent" /\ applyGen' = applyGen + 1 /\ job' = [job EXCEPT ![j] = begun]
      /\ UNCHANGED <<runs, sess>> /\ \A i \in Jobs : i < j => job[i].st # "sent"
  BY DEF StartJob, Agt!Start
<1>2. job'[j] = begun /\ \A k \in Jobs \ {j} : job'[k] = job[k]
  BY <1>1, Typed
<1>3. UNCHANGED <<db, pc, push, conn, confirmed, sends, asked>>
  BY DEF syncVars
<1>4. \A k \in Jobs : k > j => ~Begun(k)
  BY <1>1 DEF WholeInv, AgentInv, InTurn
<1>5. Frames'
  <2>1. begun \in [st : Agt!States, ver : Nat, on : Nat, gen : 0 .. applyGen']
    BY <1>1, Typed DEF Agt!States
  <2>2. \A k \in Jobs : job'[k] \in [st : Agt!States, ver : Nat, on : Nat, gen : 0 .. applyGen']
    BY <1>1, <1>2, <2>1, Typed
  <2>3. job' \in [Jobs -> [st : Agt!States, ver : Nat, on : Nat, gen : 0 .. applyGen']]
    BY <1>1, <2>2, Typed
  <2>4. runs' \in [CoreNames -> [ver : Nat, gen : 0 .. applyGen']]
    BY <1>1, Typed DEF WholeInv, AgentInv, Frames, Agt!TypeOK
  <2>5. Agt!TypeOK'
    BY <1>1, <2>3, <2>4, Typed DEF Agt!TypeOK
  <2>6. \A k \in Jobs : job'[k].st = "none" <=> k > sends'
    BY <1>1, <1>2, <1>3 DEF WholeInv, AgentInv, Frames
  <2> QED BY <1>1, <1>3, <2>5, <2>6 DEF WholeInv, AgentInv, Frames
<1>6. InTurn'
  <2>1. \A k \in Jobs : Begun(k)' <=> Begun(k) \/ k = j
    BY <1>2 DEF Begun
  <2>2. \A i, k \in Jobs : i < k /\ Begun(k)' => job'[i].st # "sent"
    BY <1>1, <1>2, <2>1 DEF WholeInv, AgentInv, InTurn
  <2>3. \A i, k \in Jobs : i < k /\ Begun(i)' /\ Begun(k)' => job'[i].gen < job'[k].gen
    <3> SUFFICES ASSUME NEW i \in Jobs, NEW k \in Jobs, i < k, Begun(i)', Begun(k)'
                 PROVE  job'[i].gen < job'[k].gen
      OBVIOUS
    <3>1. CASE k = j
      BY <1>2, <3>1, Typed
    <3>2. CASE k # j
      <4>1. Begun(k) /\ i # j
        BY <1>4, <2>1, <3>2
      <4> QED BY <1>2, <2>1, <3>2, <4>1 DEF WholeInv, AgentInv, InTurn
    <3> QED BY <3>1, <3>2
  <2>4. \A k \in Jobs : k = sends' /\ Begun(k)' => job'[k].gen = applyGen'
    <3> SUFFICES ASSUME NEW k \in Jobs, k = sends, Begun(k)' PROVE job'[k].gen = applyGen'
      BY <1>3
    <3>1. j <= sends
      BY <1>1, Typed DEF WholeInv, AgentInv, Frames
    <3>2. k = j
      BY <1>4, <2>1, <3>1, Typed
    <3> QED BY <1>1, <1>2, <3>2
  <2>5. Agt!OkIsInstalled'
    <3>1. \A k \in Jobs : job'[k].st = "ok" => job'[k].gen # applyGen'
      BY <1>1, <1>2, Typed
    <3> QED BY <3>1 DEF Agt!OkIsInstalled
  <2> QED BY <2>2, <2>3, <2>4, <2>5 DEF InTurn
<1>7. Upwards'
  <2>1. \A k \in Jobs : job'[k].ver = job[k].ver /\ (Lives(k)' <=> Lives(k))
    BY <1>1, <1>2 DEF Lives, Begun
  <2>2. \A k \in Jobs : Decides(k)' => Decides(k)
    <3>1. \A k \in Jobs : job[k].gen # applyGen + 1
      BY Typed
    <3> QED BY <1>1, <1>2, <3>1 DEF Decides, Begun
  <2>3. UNCHANGED <<runs, db, pc, push>>
    BY <1>1, <1>3
  <2> QED BY <2>1, <2>2, <2>3 DEF WholeInv, AgentInv, Upwards, Carries
<1>8. Matched'
  <2>1. \A k \in Jobs : job'[k].ver = job[k].ver /\ (Lives(k)' <=> Lives(k))
    BY <1>1, <1>2 DEF Lives, Begun
  <2> QED BY <1>3, <2>1 DEF WholeInv, AgentInv, Matched
<1>9. ConfirmedIsRunning'
  BY <1>1, <1>3 DEF WholeInv, AgentInv, ConfirmedIsRunning
<1> QED BY <1>5, <1>6, <1>7, <1>8, <1>9 DEF AgentInv

\* Every end of a goroutine but a restart's.
LEMMA EndAgent ==
  ASSUME WholeInv, NEW j \in Jobs, Lives(j), Agt!Close(j) \/ Agt!Lose(j),
         UNCHANGED <<syncVars, sends, asked, sess>>
  PROVE  AgentInv'
<1>1. /\ job' = [job EXCEPT ![j] = [Agt!NoJob EXCEPT !.st = "over"]]
      /\ UNCHANGED <<sends, sess, applyGen, runs, asked, db, pc, push, conn, confirmed>>
  BY DEF Agt!Close, Agt!Lose, syncVars
<1>2. Frames' /\ InTurn' /\ Upwards'
  BY <1>1, OverAgent
<1>3. \A k \in Jobs : Lives(k)' => Lives(k) /\ job'[k] = job[k]
  BY <1>1, Typed DEF Agt!NoJob, Lives, Begun
<1>4. Matched' /\ ConfirmedIsRunning'
  BY <1>1, <1>3 DEF WholeInv, AgentInv, Matched, ConfirmedIsRunning
<1> QED BY <1>2, <1>4 DEF AgentInv

\* A superseded goroutine is not the newest, so nobody waits for it.
LEMMA SupersededAgent ==
  ASSUME WholeInv, NEW j \in Jobs, Agt!Superseded(j), UNCHANGED <<syncVars, sends, asked, sess>>
  PROVE  AgentInv'
<1>1. /\ job[j].st = "bins" /\ job[j].gen # applyGen /\ job' = [job EXCEPT ![j].st = "ok"]
      /\ UNCHANGED <<sends, sess, applyGen, runs, asked, db, pc, push, conn, confirmed>>
  BY DEF Agt!Superseded, syncVars
<1>2. /\ job'[j].st = "ok" /\ job'[j].ver = job[j].ver /\ job'[j].gen = job[j].gen
      /\ \A k \in Jobs \ {j} : job'[k] = job[k]
  BY <1>1, Typed
<1>3. \A k \in Jobs : /\ Lives(k)' <=> Lives(k)
                      /\ Begun(k)' <=> Begun(k)
                      /\ Decides(k)' <=> Decides(k)
                      /\ job'[k].ver = job[k].ver /\ job'[k].gen = job[k].gen
                      /\ job'[k].st = "sent" <=> job[k].st = "sent"
                      /\ job'[k].st = "none" <=> job[k].st = "none"
  BY <1>1, <1>2 DEF Lives, Begun, Decides
<1>4. Frames'
  <2>1. job' \in [Jobs -> [st : Agt!States, ver : Nat, on : Nat, gen : 0 .. applyGen]]
    BY <1>1 DEF WholeInv, AgentInv, Frames, Agt!TypeOK, Agt!States
  <2> QED BY <1>1, <1>3, <2>1 DEF WholeInv, AgentInv, Frames, Agt!TypeOK
<1>5. InTurn'
  <2>1. Agt!OkIsInstalled'
    BY <1>1, <1>2 DEF WholeInv, AgentInv, InTurn, Agt!OkIsInstalled
  <2> QED BY <1>1, <1>3, <2>1 DEF WholeInv, AgentInv, InTurn
<1>6. Upwards'
  BY <1>1, <1>3 DEF WholeInv, AgentInv, Upwards, Carries
<1>7. Matched' /\ ConfirmedIsRunning'
  BY <1>1, <1>3 DEF WholeInv, AgentInv, Matched, ConfirmedIsRunning
<1> QED BY <1>4, <1>5, <1>6, <1>7 DEF AgentInv

\* The goroutine that began last installs, and no core goes back.
LEMMA InstallAgent ==
  ASSUME WholeInv, NEW j \in Jobs, NEW refused \in SUBSET CoreNames, Agt!Install(j, refused),
         UNCHANGED <<syncVars, sends, asked, sess>>
  PROVE  AgentInv'
<1> DEFINE took == [ver |-> job[j].ver, gen |-> job[j].gen]
<1>1. /\ job[j].st = "bins" /\ job[j].gen = applyGen
      /\ runs' = [c \in CoreNames |-> IF c \in refused THEN runs[c] ELSE took]
      /\ job' = [job EXCEPT ![j].st = IF refused = {} THEN "ok" ELSE "refused"]
      /\ UNCHANGED <<sends, sess, applyGen, asked, db, pc, push, conn, confirmed>>
  BY DEF Agt!Install, syncVars
<1>2. /\ job'[j].st = (IF refused = {} THEN "ok" ELSE "refused")
      /\ job'[j].ver = job[j].ver /\ job'[j].gen = job[j].gen
      /\ \A k \in Jobs \ {j} : job'[k] = job[k]
  BY <1>1, Typed
<1>3. \A k \in Jobs : /\ Lives(k)' <=> Lives(k)
                      /\ Begun(k)' <=> Begun(k)
                      /\ Decides(k)' <=> Decides(k)
                      /\ job'[k].ver = job[k].ver /\ job'[k].gen = job[k].gen
                      /\ job'[k].st = "sent" <=> job[k].st = "sent"
                      /\ job'[k].st = "none" <=> job[k].st = "none"
  BY <1>1, <1>2 DEF Lives, Begun, Decides
<1>4. Begun(j) /\ Lives(j) /\ Decides(j)
  BY <1>1 DEF Begun, Lives, Decides
<1>5. \A c \in CoreNames : runs'[c].ver >= runs[c].ver /\ runs'[c].ver \in {runs[c].ver, job[j].ver}
  BY <1>1, <1>4, Typed DEF WholeInv, AgentInv, Upwards
<1>6. ASSUME NEW k \in Jobs, Begun(k), job[k].gen = applyGen PROVE k = j
  <2>1. ~(k < j) /\ ~(j < k)
    BY <1>1, <1>4, <1>6, Typed DEF WholeInv, AgentInv, InTurn
  <2> QED BY <2>1, SendsAssumption DEF Jobs
<1>7. Frames'
  <2>1. job' \in [Jobs -> [st : Agt!States, ver : Nat, on : Nat, gen : 0 .. applyGen]]
    BY <1>1 DEF WholeInv, AgentInv, Frames, Agt!TypeOK, Agt!States
  <2>2. runs' \in [CoreNames -> [ver : Nat, gen : 0 .. applyGen]]
    BY <1>1 DEF WholeInv, AgentInv, Frames, Agt!TypeOK
  <2> QED BY <1>1, <1>3, <2>1, <2>2 DEF WholeInv, AgentInv, Frames, Agt!TypeOK
<1>8. InTurn'
  <2>1. ASSUME NEW k \in Jobs, job'[k].st = "ok", job'[k].gen = applyGen', NEW c \in CoreNames
        PROVE  runs'[c] = [ver |-> job'[k].ver, gen |-> job'[k].gen]
    <3>1. k = j
      BY <1>1, <1>3, <1>6, <2>1 DEF Begun
    <3>2. refused = {}
      BY <1>2, <2>1, <3>1
    <3> QED BY <1>1, <1>2, <3>1, <3>2
  <2>2. Agt!OkIsInstalled'
    BY <2>1 DEF Agt!OkIsInstalled
  <2> QED BY <1>1, <1>3, <2>2 DEF WholeInv, AgentInv, InTurn
<1>9. Upwards'
  <2>1. ASSUME NEW k \in Jobs, Decides(k) PROVE job[j].ver <= job[k].ver
    <3>1. CASE Begun(k)
      BY <1>6, <2>1, <3>1, Typed DEF Decides, Begun
    <3>2. CASE job[k].st = "sent"
      <4>1. ~(k < j) /\ k # j
        BY <1>1, <1>4, <3>2 DEF WholeInv, AgentInv, InTurn
      <4>2. j < k
        BY <4>1, SendsAssumption DEF Jobs
      <4> QED BY <1>4, <3>2, <4>2 DEF WholeInv, AgentInv, Upwards, Lives
    <3> QED BY <2>1, <3>1, <3>2 DEF Decides
  <2>2. \A k \in Jobs, c \in CoreNames : Decides(k)' => runs'[c].ver <= job'[k].ver
    BY <1>3, <1>5, <2>1 DEF WholeInv, AgentInv, Upwards
  <2>3. \A c \in CoreNames : runs'[c].ver <= db
    BY <1>5 DEF WholeInv, AgentInv, Upwards
  <2>4. \A p \in Procs : Carries(p) => \A c \in CoreNames : runs'[c].ver <= push[p].ver
    BY <1>5 DEF WholeInv, AgentInv, Upwards
  <2> QED BY <1>1, <1>3, <2>2, <2>3, <2>4 DEF WholeInv, AgentInv, Upwards, Carries
<1>10. Matched'
  BY <1>1, <1>3 DEF WholeInv, AgentInv, Matched
<1>11. ConfirmedIsRunning'
  BY <1>1, <1>5, Typed DEF WholeInv, AgentInv, ConfirmedIsRunning, TypeOK
<1> QED BY <1>7, <1>8, <1>9, <1>10, <1>11 DEF AgentInv

LEMMA AgentEnds ==
  ASSUME WholeInv, Agt!AgentRestart, sess' = NoConn, UNCHANGED <<syncVars, sends, asked>>
  PROVE  AgentInv'
<1>1. /\ applyGen' = 0
      /\ \A j \in Jobs : job'[j].st = (IF job[j].st = "none" THEN "none" ELSE "over") /\ job'[j].ver = 0
      /\ \A c \in CoreNames : runs'[c].ver = 0
      /\ UNCHANGED <<sends, asked, db, pc, push, conn, confirmed>>
  BY DEF Agt!AgentRestart, Agt!NoJob, Agt!Clean, syncVars
<1>2. Frames'
  <2>1. Agt!TypeOK'
    BY DEF Agt!AgentRestart, Agt!NoJob, Agt!Clean, Agt!TypeOK, Agt!States
  <2> QED BY <1>1, <2>1 DEF WholeInv, AgentInv, Frames, NoConn
<1>3. \A j \in Jobs : ~Begun(j)' /\ ~Lives(j)' /\ ~Decides(j)'
  BY <1>1 DEF Begun, Lives, Decides
<1>4. InTurn'
  BY <1>1, <1>3 DEF InTurn, Agt!OkIsInstalled
<1>5. Upwards'
  <2>1. \A p \in Procs : push[p].ver \in Nat
    BY Typed DEF TypeOK
  <2>2. db \in Nat
    BY Typed DEF TypeOK
  <2> QED BY <1>1, <1>3, <2>1, <2>2 DEF Upwards
<1>6. Matched' /\ ConfirmedIsRunning'
  BY <1>1, <1>3 DEF Matched, ConfirmedIsRunning
<1> QED BY <1>2, <1>4, <1>5, <1>6 DEF AgentInv

LEMMA AgentSteps == ASSUME InOrder, WholeInv, AgentAlone PROVE AgentInv'
<1>0. UNCHANGED <<syncVars, sends, asked>>
  BY DEF AgentAlone
<1>1. ASSUME NEW j \in Jobs, StartJob(j) PROVE AgentInv'
  BY <1>0, <1>1, StartAgent
<1>2. ASSUME NEW j \in Jobs, LoseJob(j) PROVE AgentInv'
  BY <1>0, <1>2, EndAgent DEF LoseJob, Agt!Lose, Lives
<1>3. ASSUME NEW j \in Jobs, Work(j) PROVE AgentInv'
  <2>1. CASE Agt!Superseded(j)
    BY <1>0, <1>3, <2>1, SupersededAgent DEF Work
  <2>2. CASE \E refused \in SUBSET CoreNames : Agt!Install(j, refused)
    BY <1>0, <1>3, <2>2, InstallAgent DEF Work
  <2>3. CASE Agt!Close(j)
    BY <1>0, <1>3, <2>3, EndAgent DEF Work, Agt!Close, Lives, Begun
  <2> QED BY <1>3, <2>1, <2>2, <2>3 DEF Work
<1>4. CASE Leave
  <2>1. UNCHANGED <<sends, asked, applyGen, job, runs, db, pc, push, conn, confirmed>> /\ sess' = NoConn
    BY <1>0, <1>4 DEF Leave, syncVars
  <2>2. Frames' /\ InTurn' /\ Upwards'
    BY <1>0, <2>1, StillAgent DEF NoConn
  <2> QED BY <2>1, <2>2 DEF WholeInv, AgentInv, Matched, Lives, Begun, ConfirmedIsRunning
<1>5. CASE Agt!AgentRestart /\ sess' = NoConn
  BY <1>0, <1>5, AgentEnds
<1> QED BY <1>1, <1>2, <1>3, <1>4, <1>5 DEF AgentAlone

LEMMA WholeStep == InOrder /\ WholeInv /\ [NextAll]_allVars => WholeInv'
<1> SUFFICES ASSUME InOrder, WholeInv, [NextAll]_allVars PROVE AgentInv'
  BY PanelStep DEF WholeInv
<1>1. CASE UNCHANGED allVars
  <2>1. UNCHANGED <<sends, asked, sess, applyGen, job, runs, db, pc, push, conn, confirmed>>
    BY <1>1 DEF allVars, agentVars, syncVars
  <2>2. Frames' /\ InTurn' /\ Upwards'
    BY <1>1, <2>1, StillAgent, Typed DEF allVars
  <2> QED BY <2>1, <2>2 DEF WholeInv, AgentInv, Matched, Lives, Begun, ConfirmedIsRunning
<1> QED BY <1>1, SendAgent, GiveUpAgent, TakeAgent, DialAgent, AloneAgent, RestartAgent, AgentSteps
        DEF NextAll

\* When the Agent's goroutines start in the order of their frames, whatever the
\* panel takes for confirmed is running on every core, or something newer is.
THEOREM ConfirmedIsRunningHolds == ASSUME InOrder PROVE SpecAll => []ConfirmedIsRunning
<1>1. WholeInv => ConfirmedIsRunning
  BY DEF WholeInv, AgentInv
<1>2. WholeInv /\ [NextAll]_allVars => WholeInv'
  BY WholeStep
<1> QED BY WholeInit, <1>1, <1>2, PTL DEF SpecAll

\* And when everything is quiet and no error is shown, that is the newest.
THEOREM QuietMeansCurrentHolds == ASSUME InOrder PROVE SpecAll => []QuietMeansCurrent
<1>1. WholeInv => QuietMeansCurrent
  <2> SUFFICES ASSUME WholeInv, conn # NoConn, sess = conn, ~lastErr, ~Waiting, ~Underway,
                      NEW c \in CoreNames
               PROVE  runs[c].ver = db
    BY DEF QuietMeansCurrent
  <2>1. confirmed = db
    BY DEF WholeInv, DeliverInv, TrackInv, NothingForgotten
  <2>2. runs[c].ver >= confirmed
    BY DEF WholeInv, AgentInv, ConfirmedIsRunning
  <2>3. runs[c].ver <= db /\ runs[c].ver \in Nat /\ db \in Nat
    BY Typed DEF WholeInv, AgentInv, Upwards, TypeOK
  <2> QED BY <2>1, <2>2, <2>3
<1>2. WholeInv /\ [NextAll]_allVars => WholeInv'
  BY WholeStep
<1> QED BY WholeInit, <1>1, <1>2, PTL DEF SpecAll

-----------------------------------------------------------------------------
(***************************************************************************)
(* Both ends for themselves, in whatever order the goroutines start: the   *)
(* dispatcher keeps its promise with a real Agent at the other end, and    *)
(* the Agent keeps its own for whatever frames the panel sends.            *)
(***************************************************************************)
LEMMA DispatcherPart == InitAll /\ [][NextAll]_allVars => Spec
<1>1. [NextAll]_allVars => [Next]_syncVars
  BY PanelPart DEF allVars
<1>2. InitAll => Init
  BY DEF InitAll
<1> QED BY <1>1, <1>2, PTL DEF Spec

\* The dispatcher over frames, answers and sessions that end still implements
\* Delivery; so no wish of a handler is forgotten on the way.
THEOREM WholeDelivers == SpecAll => Delivers
BY DispatcherPart, DeliversHolds, PTL DEF SpecAll

\* Generations are handed out once.
Generations ==
  /\ \A j \in Jobs : Begun(j) => job[j].gen <= applyGen
  /\ \A c \in CoreNames : runs[c].gen <= applyGen
  /\ \A j, k \in Jobs : Begun(j) /\ Begun(k) /\ j # k => job[j].gen # job[k].gen

ApplyInv == Agt!TypeOK /\ Generations /\ Agt!OkIsInstalled
NoneLost == applyGen' >= applyGen => \A c \in CoreNames : runs'[c].gen >= runs[c].gen

Numbers == sends \in 0 .. MaxSends /\ asked \in 0 .. sends

LEMMA NumbersKept == Numbers /\ [NextAll]_allVars => Numbers'
BY SendsAssumption DEF Numbers, NextAll, SendFrame, GiveUp, TakeOK, TakeRefused, Dial, PanelAlone, PanelRestart,
   AgentAlone, allVars

\* What a step of the whole is for the Agent.
HandsOver == \E j \in Jobs, ver \in Nat, on \in Nat : Agt!Arrive(j, ver, on)
Stays == UNCHANGED <<applyGen, job, runs>>

LEMMA AgentPart ==
  ASSUME TypeOK, Numbers, [NextAll]_allVars
  PROVE  HandsOver \/ (\E j \in Jobs : Agt!JobStep(j)) \/ Agt!AgentRestart \/ Stays
<1>1. ASSUME NEW p \in Procs, SendFrame(p) PROVE HandsOver
  <2>1. push[p].ver \in Nat /\ conn \in Nat /\ sends + 1 \in Jobs
    BY <1>1, SendsAssumption DEF TypeOK, SendFrame, Numbers, Jobs
  <2> QED BY <1>1, <2>1 DEF SendFrame, HandsOver
<1>2. ASSUME NEW p \in Procs, GiveUp(p) \/ TakeOK(p) \/ TakeRefused(p)
      PROVE  Stays \/ \E j \in Jobs : Agt!JobStep(j)
  <2>1. asked # 0 => asked \in Jobs
    BY SendsAssumption DEF Numbers, Jobs
  <2> QED BY <1>2, <2>1 DEF GiveUp, TakeOK, TakeRefused, agentVars, Stays, Agt!JobStep
<1>3. CASE (\E h \in Handlers : Dial(h)) \/ PanelAlone \/ PanelRestart \/ UNCHANGED allVars
  BY <1>3 DEF Dial, PanelAlone, PanelRestart, allVars, agentVars, Stays
<1>4. CASE AgentAlone
  BY <1>4 DEF AgentAlone, StartJob, LoseJob, Work, Leave, Agt!JobStep, Stays
<1> QED BY <1>1, <1>2, <1>3, <1>4 DEF NextAll

LEMMA JobKeeps ==
  ASSUME ApplyInv, NEW j \in Jobs, Agt!JobStep(j)
  PROVE  ApplyInv' /\ NoneLost
<1> USE DEF ApplyInv, Agt!TypeOK, Agt!States, Agt!NoJob, NoneLost
<1>1. CASE Agt!Start(j)
  <2>1. Agt!TypeOK'
    BY <1>1 DEF Agt!Start
  <2>2. Generations' /\ \A k \in Jobs : Begun(k) => job[k].gen < applyGen'
    BY <1>1 DEF Agt!Start, Generations, Begun
  <2>3. Agt!OkIsInstalled'
    BY <1>1, <2>2 DEF Agt!Start, Agt!OkIsInstalled, Begun
  <2> QED BY <1>1, <2>1, <2>2, <2>3 DEF Agt!Start
<1>2. CASE Agt!Superseded(j)
  <2>1. Agt!TypeOK'
    BY <1>2 DEF Agt!Superseded
  <2>2. Generations'
    BY <1>2 DEF Agt!Superseded, Generations, Begun
  <2>3. Agt!OkIsInstalled'
    BY <1>2 DEF Agt!Superseded, Agt!OkIsInstalled
  <2> QED BY <1>2, <2>1, <2>2, <2>3 DEF Agt!Superseded
<1>3. ASSUME NEW refused \in SUBSET CoreNames, Agt!Install(j, refused)
      PROVE  ApplyInv' /\ NoneLost
  <2>1. Agt!TypeOK'
    BY <1>3 DEF Agt!Install
  <2>2. Generations' /\ \A c \in CoreNames : runs'[c].gen >= runs[c].gen
    BY <1>3 DEF Agt!Install, Generations, Begun
  <2>3. ASSUME NEW k \in Jobs, job'[k].st = "ok", job'[k].gen = applyGen', NEW c \in CoreNames
        PROVE  runs'[c] = [ver |-> job'[k].ver, gen |-> job'[k].gen]
    <3>1. k = j
      BY <1>3, <2>3 DEF Agt!Install, Generations, Begun
    <3>2. refused = {}
      BY <1>3, <2>3, <3>1 DEF Agt!Install
    <3> QED BY <1>3, <3>1, <3>2 DEF Agt!Install
  <2>4. Agt!OkIsInstalled'
    BY <2>3 DEF Agt!OkIsInstalled
  <2> QED BY <1>3, <2>1, <2>2, <2>4 DEF Agt!Install
<1>4. CASE Agt!Close(j) \/ Agt!Lose(j)
  <2>1. Agt!TypeOK'
    <3>1. [Agt!NoJob EXCEPT !.st = "over"] \in [st : Agt!States, ver : Nat, on : Nat, gen : 0 .. applyGen]
      OBVIOUS
    <3>2. job' \in [Jobs -> [st : Agt!States, ver : Nat, on : Nat, gen : 0 .. applyGen]]
      BY <1>4, <3>1 DEF Agt!Close, Agt!Lose
    <3> QED BY <1>4, <3>2 DEF Agt!Close, Agt!Lose
  <2>2. Generations' /\ Agt!OkIsInstalled'
    BY <1>4 DEF Agt!Close, Agt!Lose, Generations, Begun, Agt!OkIsInstalled
  <2> QED BY <1>4, <2>1, <2>2 DEF Agt!Close, Agt!Lose
<1> QED BY <1>1, <1>2, <1>3, <1>4 DEF Agt!JobStep

LEMMA OthersKeep ==
  ASSUME ApplyInv, HandsOver \/ Agt!AgentRestart \/ Stays
  PROVE  ApplyInv' /\ NoneLost
<1> USE DEF ApplyInv, Agt!TypeOK, Agt!States, Agt!NoJob, NoneLost
<1>1. ASSUME NEW j \in Jobs, NEW ver \in Nat, NEW on \in Nat, Agt!Arrive(j, ver, on)
      PROVE  ApplyInv' /\ NoneLost
  <2>1. Agt!TypeOK'
    BY <1>1 DEF Agt!Arrive
  <2>2. Generations' /\ Agt!OkIsInstalled'
    BY <1>1 DEF Agt!Arrive, Generations, Begun, Agt!OkIsInstalled
  <2> QED BY <1>1, <2>1, <2>2 DEF Agt!Arrive
<1>2. CASE Agt!AgentRestart
  <2>1. Agt!TypeOK'
    BY <1>2 DEF Agt!AgentRestart, Agt!Clean
  <2>2. \A j \in Jobs : job'[j].st \in {"none", "over"}
    BY <1>2 DEF Agt!AgentRestart
  <2>3. \A c \in CoreNames : runs'[c].gen = 0
    BY <1>2 DEF Agt!AgentRestart, Agt!Clean
  <2>4. Generations' /\ Agt!OkIsInstalled'
    BY <1>2, <2>2, <2>3 DEF Agt!AgentRestart, Generations, Begun, Agt!OkIsInstalled
  <2>5. NoneLost
    BY <1>2, <2>3 DEF Agt!AgentRestart, Generations
  <2> QED BY <2>1, <2>4, <2>5
<1>3. CASE Stays
  BY <1>3 DEF Stays, Generations, Begun, Agt!OkIsInstalled
<1> QED BY <1>1, <1>2, <1>3 DEF HandsOver

LEMMA ApplyStarts == InitAll => ApplyInv
<1> SUFFICES ASSUME InitAll PROVE ApplyInv
  OBVIOUS
<1>1. Agt!TypeOK
  BY DEF InitAll, Agt!Init, Agt!TypeOK, Agt!NoJob, Agt!Clean, Agt!States
<1>2. /\ \A j \in Jobs : job[j].st = "none"
      /\ \A c \in CoreNames : runs[c].gen = 0
      /\ applyGen = 0
  BY DEF InitAll, Agt!Init, Agt!NoJob, Agt!Clean
<1> QED BY <1>1, <1>2 DEF ApplyInv, Generations, Begun, Agt!OkIsInstalled

\* Whatever frames the panel sends over whatever connections, an acknowledged
\* configuration is installed unless a later Apply has started, and no Apply
\* overwrites what a later one installed.
THEOREM AgentKeepsItsWord == SpecAll => []Agt!OkIsInstalled /\ Agt!NewestStartWins
<1>1. SpecAll => []TypeOK
  BY DispatcherPart, TypeCorrect, PTL DEF SpecAll
<1>2. TypeOK /\ Numbers /\ ApplyInv /\ [NextAll]_allVars => ApplyInv' /\ NoneLost
  BY AgentPart, JobKeeps, OthersKeep
<1>3. ApplyInv => Agt!OkIsInstalled
  BY DEF ApplyInv
<1>4. NoneLost => [applyGen' >= applyGen => \A c \in CoreNames : runs'[c].gen >= runs[c].gen]_(Agt!applyVars)
  BY DEF NoneLost
<1>5. InitAll => Numbers
  BY SendsAssumption DEF InitAll, Numbers
<1> QED BY <1>1, <1>2, <1>3, <1>4, <1>5, NumbersKept, ApplyStarts, PTL DEF SpecAll, Agt!NewestStartWins
=============================================================================
