--------------------------- MODULE RequestsProofs ---------------------------
(***************************************************************************)
(* Proofs about AgentApply for any number of frames and any set of cores,  *)
(* and about HubRPC as the run composes it.                                *)
(***************************************************************************)
EXTENDS RequestsMC, TLAPS

\* Generations are handed out once, so at most one goroutine has the newest.
Started(j) == job[j].st \in {"bins", "ok", "refused"}

Generations ==
  /\ \A j \in Jobs : Started(j) => job[j].gen <= applyGen
  /\ \A c \in CoreNames : runs[c].gen <= applyGen
  /\ \A j, k \in Jobs : Started(j) /\ Started(k) /\ j # k => job[j].gen # job[k].gen

ApplyInv == TypeOK /\ Generations /\ OkIsInstalled

LEMMA ApplyInit == Init => ApplyInv
<1> SUFFICES ASSUME Init PROVE ApplyInv
  OBVIOUS
<1>1. TypeOK
  BY DEF Init, TypeOK, NoJob, Clean, States
<1>2. \A j \in Jobs : job[j].st = "none"
  BY DEF Init, NoJob
<1>3. \A c \in CoreNames : runs[c].gen = 0
  BY DEF Init, Clean
<1> QED BY <1>1, <1>2, <1>3 DEF Init, ApplyInv, Generations, Started, OkIsInstalled

LEMMA ApplyJob ==
  ASSUME ApplyInv, NEW j \in Jobs, JobStep(j)
  PROVE  ApplyInv' /\ applyGen' >= applyGen /\ \A c \in CoreNames : runs'[c].gen >= runs[c].gen
<1> USE DEF ApplyInv, TypeOK, States, NoJob
<1>1. CASE Start(j)
  \* The new generation is larger than every other, and no job with it is done.
  <2>1. TypeOK'
    BY <1>1 DEF Start
  <2>2. Generations' /\ \A k \in Jobs : Started(k) => job[k].gen < applyGen'
    BY <1>1 DEF Start, Generations, Started
  <2>3. OkIsInstalled'
    BY <1>1, <2>2 DEF Start, OkIsInstalled, Started
  <2> QED BY <1>1, <2>1, <2>2, <2>3 DEF Start
<1>2. CASE Superseded(j)
  <2>1. TypeOK'
    BY <1>2 DEF Superseded
  <2>2. Generations'
    BY <1>2 DEF Superseded, Generations, Started
  <2>3. OkIsInstalled'
    BY <1>2 DEF Superseded, OkIsInstalled
  <2> QED BY <1>2, <2>1, <2>2, <2>3 DEF Superseded
<1>3. ASSUME NEW refused \in SUBSET CoreNames, Install(j, refused)
      PROVE  ApplyInv' /\ applyGen' = applyGen /\ \A c \in CoreNames : runs'[c].gen >= runs[c].gen
  <2>1. TypeOK'
    BY <1>3 DEF Install
  <2>2. Generations' /\ \A c \in CoreNames : runs'[c].gen >= runs[c].gen
    BY <1>3 DEF Install, Generations, Started
  <2>3. ASSUME NEW k \in Jobs, job'[k].st = "ok", job'[k].gen = applyGen', NEW c \in CoreNames
        PROVE  runs'[c] = [ver |-> job'[k].ver, gen |-> job'[k].gen]
    \* Only j has the newest generation, and it is done because no core refused.
    <3>1. k = j
      BY <1>3, <2>3 DEF Install, Generations, Started
    <3>2. refused = {}
      BY <1>3, <2>3, <3>1 DEF Install
    <3> QED BY <1>3, <3>1, <3>2 DEF Install
  <2>4. OkIsInstalled'
    BY <2>3 DEF OkIsInstalled
  <2> QED BY <1>3, <2>1, <2>2, <2>4 DEF Install
<1>4. CASE Close(j) \/ Lose(j)
  <2>1. TypeOK'
    <3>1. [NoJob EXCEPT !.st = "over"] \in [st : States, ver : Nat, on : Nat, gen : 0 .. applyGen]
      OBVIOUS
    <3>2. job' \in [Jobs -> [st : States, ver : Nat, on : Nat, gen : 0 .. applyGen]]
      BY <1>4, <3>1 DEF Close, Lose
    <3> QED BY <1>4, <3>2 DEF Close, Lose
  <2>2. Generations' /\ OkIsInstalled'
    BY <1>4 DEF Close, Lose, Generations, Started, OkIsInstalled
  <2> QED BY <1>4, <2>1, <2>2 DEF Close, Lose
<1> QED BY <1>1, <1>2, <1>3, <1>4 DEF JobStep

LEMMA ApplyStep ==
  ASSUME ApplyInv, [Next]_applyVars
  PROVE  /\ ApplyInv'
         /\ applyGen' >= applyGen => \A c \in CoreNames : runs'[c].gen >= runs[c].gen
<1> USE DEF ApplyInv, TypeOK, States, NoJob
<1>1. ASSUME NEW j \in Jobs, Arrive(j, j, 1)
      PROVE  ApplyInv' /\ runs' = runs
  <2>1. TypeOK'
    BY <1>1, JobsAssumption DEF Arrive
  <2>2. Generations' /\ OkIsInstalled'
    BY <1>1 DEF Arrive, Generations, Started, OkIsInstalled
  <2> QED BY <1>1, <2>1, <2>2 DEF Arrive
<1>2. CASE AgentRestart
  <2>1. TypeOK'
    BY <1>2 DEF AgentRestart, Clean
  <2>2. \A j \in Jobs : job'[j].st \in {"none", "over"}
    BY <1>2 DEF AgentRestart
  <2>3. \A c \in CoreNames : runs'[c].gen = 0
    BY <1>2 DEF AgentRestart, Clean
  <2>4. Generations' /\ OkIsInstalled'
    BY <1>2, <2>2, <2>3 DEF AgentRestart, Generations, Started, OkIsInstalled
  <2>5. applyGen' >= applyGen => \A c \in CoreNames : runs'[c].gen >= runs[c].gen
    BY <1>2, <2>3 DEF AgentRestart, Generations
  <2> QED BY <2>1, <2>4, <2>5
<1>3. CASE UNCHANGED applyVars
  BY <1>3 DEF applyVars, Generations, Started, OkIsInstalled
<1> QED BY <1>1, <1>2, <1>3, ApplyJob DEF Next

\* The variables of the Agent's end keep their types.
THEOREM ApplyTypeCorrect == Spec => []TypeOK
<1>1. ApplyInv => TypeOK
  BY DEF ApplyInv
<1>2. ApplyInv /\ [Next]_applyVars => ApplyInv'
  BY ApplyStep
<1> QED BY ApplyInit, <1>1, <1>2, PTL DEF Spec

\* An acknowledged configuration is installed, unless a later Apply has started.
THEOREM OkIsInstalledHolds == Spec => []OkIsInstalled
<1>1. ApplyInv => OkIsInstalled
  BY DEF ApplyInv
<1>2. ApplyInv /\ [Next]_applyVars => ApplyInv'
  BY ApplyStep
<1> QED BY ApplyInit, <1>1, <1>2, PTL DEF Spec

\* No goroutine, however long it took, overwrites what a later one installed.
THEOREM NewestStartWinsHolds == Spec => NewestStartWins
<1>1. ApplyInv /\ [Next]_applyVars => ApplyInv'
  BY ApplyStep
<1>2. ApplyInv /\ [Next]_applyVars =>
        [applyGen' >= applyGen => \A c \in CoreNames : runs'[c].gen >= runs[c].gen]_applyVars
  BY ApplyStep
<1> QED BY ApplyInit, <1>1, <1>2, PTL DEF Spec, NewestStartWins

-----------------------------------------------------------------------------
\* For any number of callers and connections, however late or out of order the
\* answers come, SendRPC hands nobody the answer to another request.
THEOREM OwnAnswerHolds == ASSUME R!Numbered PROVE R!Spec => []OwnAnswer
<1>1. R!OwnAnswer => OwnAnswer
  BY DEF OwnAnswer
<1> QED BY <1>1, R!OwnAnswerHolds, PTL

\* The pending table holds only requests that somebody waits for, for connections
\* of any length.
THEOREM NothingLeaksHolds == ASSUME R!Numbered PROVE R!Spec => []NothingLeaks
<1>1. R!NothingLeaks => NothingLeaks
  BY DEF NothingLeaks
<1> QED BY <1>1, R!NothingLeaksHolds, PTL

-----------------------------------------------------------------------------
(* The three together, as TLC runs them.                                      *)

LEMMA RequestsParts ==
  /\ RequestsInit => Init /\ R!Init
  /\ [RequestsNext]_<<applyVars, rpc, table, part>> => [Next]_applyVars /\ [R!Next]_(R!rpcVars)
<1>1. UNCHANGED rpc => UNCHANGED R!rpcVars
  BY DEF rpc, R!rpcVars
<1>2. UNCHANGED <<applyVars, rpc, table, part>> => UNCHANGED applyVars /\ UNCHANGED rpc
  OBVIOUS
<1>3. RequestsNext => (Next \/ UNCHANGED applyVars) /\ (R!Next \/ UNCHANGED rpc)
  BY DEF RequestsNext
<1> QED BY <1>1, <1>2, <1>3, Zenon DEF RequestsInit

\* What the Agent's goroutines and the panel's callers promise holds of the
\* joined specification, whichever of them runs.
THEOREM RequestsHold ==
  RequestsSpec => [](OkIsInstalled /\ OwnAnswer /\ NothingLeaks) /\ NewestStartWins
<1>1. RequestsSpec => Spec
  BY RequestsParts, PTL DEF RequestsSpec, Spec
<1>2. RequestsSpec => R!Spec
  BY RequestsParts, PTL DEF RequestsSpec, R!Spec
<1>3. /\ R!Spec => []OwnAnswer
      /\ R!Spec => []NothingLeaks
  BY RequestsAssumption, OwnAnswerHolds, NothingLeaksHolds
<1> QED BY <1>1, <1>2, <1>3, OkIsInstalledHolds, NewestStartWinsHolds, PTL
=============================================================================
