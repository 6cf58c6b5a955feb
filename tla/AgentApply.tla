----------------------------- MODULE AgentApply -----------------------------
(***************************************************************************)
(* The Agent's end of a dispatch: every apply frame is handled in a        *)
(* goroutine of its own (Agent.session, handleApply), and Cores.Apply lets *)
(* the goroutine that started last win (applyGen).                         *)
(*                                                                         *)
(* Jobs are numbered in the order their frames were sent.                  *)
(***************************************************************************)
EXTENDS Naturals

CONSTANTS Jobs,      \* apply frames
          CoreNames  \* the cores an apply configures one by one: xray, singbox, mita, ...

ASSUME JobsAssumption == Jobs \subseteq Nat \ {0}

VARIABLES
  applyGen,  \* c.applyGen
  job,       \* the goroutine of each frame
  runs       \* the version and the generation each core was last configured with

applyVars == <<applyGen, job, runs>>

NoJob == [st |-> "none", ver |-> 0, on |-> 0, gen |-> 0]
Clean == [ver |-> 0, gen |-> 0]
States == {"none", "sent", "bins", "ok", "refused", "over"}

Init ==
  /\ applyGen = 0
  /\ job = [j \in Jobs |-> NoJob]
  /\ runs = [c \in CoreNames |-> Clean]

\* A frame for this Agent is handed to a connection.
Arrive(j, ver, on) ==
  /\ job[j] = NoJob
  /\ job' = [job EXCEPT ![j] = [NoJob EXCEPT !.st = "sent", !.ver = ver, !.on = on]]
  /\ UNCHANGED <<applyGen, runs>>

\* First critical section of Apply; then it installs missing binaries, which
\* may take minutes, without c.mu.
Start(j) ==
  /\ job[j].st = "sent"
  /\ applyGen' = applyGen + 1
  /\ job' = [job EXCEPT ![j] =
              [st |-> "bins", ver |-> @.ver, on |-> @.on, gen |-> applyGen + 1]]
  /\ UNCHANGED runs

\* Second critical section: a later Apply has started, so this one does nothing
\* and reports success.
Superseded(j) ==
  /\ job[j].st = "bins" /\ job[j].gen # applyGen
  /\ job' = [job EXCEPT ![j].st = "ok"]
  /\ UNCHANGED <<applyGen, runs>>

\* Mutant: applyGen is not looked at again after the downloads.
InstallAnyway(j, refused) ==
  /\ job[j].st = "bins"
  /\ runs' = [c \in CoreNames |->
                IF c \in refused THEN runs[c] ELSE [ver |-> job[j].ver, gen |-> job[j].gen]]
  /\ job' = [job EXCEPT ![j].st = IF refused = {} THEN "ok" ELSE "refused"]
  /\ UNCHANGED applyGen

\* Mutant: success as soon as one core has taken the configuration.
InstallPartly(j, refused) ==
  /\ job[j].st = "bins" /\ job[j].gen = applyGen
  /\ runs' = [c \in CoreNames |->
                IF c \in refused THEN runs[c] ELSE [ver |-> job[j].ver, gen |-> job[j].gen]]
  /\ job' = [job EXCEPT ![j].st = IF refused # CoreNames THEN "ok" ELSE "refused"]
  /\ UNCHANGED applyGen

\* Each core takes the new configuration or is rolled back to what it had.
Install(j, refused) ==
  /\ job[j].st = "bins" /\ job[j].gen = applyGen
  /\ runs' = [c \in CoreNames |->
                IF c \in refused THEN runs[c] ELSE [ver |-> job[j].ver, gen |-> job[j].gen]]
  /\ job' = [job EXCEPT ![j].st = IF refused = {} THEN "ok" ELSE "refused"]
  /\ UNCHANGED applyGen

\* ackApply wrote the answer, or could not.
Close(j) ==
  /\ job[j].st \in {"ok", "refused"}
  /\ job' = [job EXCEPT ![j] = [NoJob EXCEPT !.st = "over"]]
  /\ UNCHANGED <<applyGen, runs>>

\* The frame is lost with its connection.
Lose(j) ==
  /\ job[j].st = "sent"
  /\ job' = [job EXCEPT ![j] = [NoJob EXCEPT !.st = "over"]]
  /\ UNCHANGED <<applyGen, runs>>

\* The Agent process ends and is started again: its cores end with it.
AgentRestart ==
  /\ applyGen' = 0
  /\ job' = [j \in Jobs |-> IF job[j].st = "none" THEN NoJob ELSE [NoJob EXCEPT !.st = "over"]]
  /\ runs' = [c \in CoreNames |-> Clean]

JobStep(j) ==
  \/ Start(j) \/ Superseded(j)
  \/ \E refused \in SUBSET CoreNames : Install(j, refused)
  \/ Close(j) \/ Lose(j)

\* On its own, the panel may send anything; job numbers stand for versions.
Next ==
  \/ \E j \in Jobs : Arrive(j, j, 1) \/ JobStep(j)
  \/ AgentRestart

Spec == Init /\ [][Next]_applyVars

-----------------------------------------------------------------------------
TypeOK ==
  /\ applyGen \in Nat
  /\ job \in [Jobs -> [st : States, ver : Nat, on : Nat, gen : 0 .. applyGen]]
  /\ runs \in [CoreNames -> [ver : Nat, gen : 0 .. applyGen]]

\* An Apply that spent minutes installing binaries never writes its older
\* configuration over the one of an Apply that started after it.
NewestStartWins ==
  [][applyGen' >= applyGen => \A c \in CoreNames : runs'[c].gen >= runs[c].gen]_applyVars

\* "OK" means that every core has the configuration, or that an Apply that
\* started later is going to decide.
OkIsInstalled ==
  \A j \in Jobs : job[j].st = "ok" /\ job[j].gen = applyGen =>
    \A c \in CoreNames : runs[c] = [ver |-> job[j].ver, gen |-> job[j].gen]
=============================================================================
