-------------------------- MODULE SupervisorProofs --------------------------
(***************************************************************************)
(* Proofs about what an Agent does on its server, for any cores,           *)
(* configurations, clients, ports, programs and any number of accidents:   *)
(* Supervisor, and Kick (K), Firewall (F) and Install (I) as the run       *)
(* composes them.                                                          *)
(***************************************************************************)
EXTENDS SupervisorMC, TLAPS

\* What Cores remembers about one core, its file and its child agree.
Coherent(c) ==
  /\ lastReq[c] = last[c]
  /\ last[c] = NoConfig => ~Alive(c)
  /\ last[c] # NoConfig => api[c] = last[c]
  /\ last[c] # NoConfig /\ ~spoiled[c] => file[c] = last[c]
  /\ Alive(c) /\ ~spoiled[c] => proc[c] = last[c]

SupervisorInv == TypeOK /\ \A c \in CoreNames : Coherent(c)

LEMMA SupervisorInit == Init => SupervisorInv
<1> SUFFICES ASSUME Init PROVE SupervisorInv
  OBVIOUS
<1>1. TypeOK
  <2>1. crashes \in [CoreNames -> SUBSET (0 .. Window - 1)]
    BY DEF Init
  <2>2. next \in 0 .. Len(Order) + 1 /\ events \in 0 .. MaxEvents
    BY SupervisorAssumption DEF Init
  <2>3. target \in Targets /\ foreign \subseteq Ports /\ removing \subseteq CoreNames
    BY DEF Init
  <2> QED BY <2>1, <2>2, <2>3 DEF Init, TypeOK
<1>2. \A c \in CoreNames : Coherent(c)
  BY DEF Init, Coherent, Alive
<1> QED BY <1>1, <1>2 DEF SupervisorInv

\* An Apply's turn leaves the position in range.
LEMMA TurnMoves ==
  ASSUME TypeOK, NEW c, Turn(c)
  PROVE  next + 1 \in 0 .. Len(Order) + 1 /\ c \in CoreNames
BY SupervisorAssumption DEF Turn, TypeOK

\* A rollback ends with a file and a child of their types.
LEMMA RollbackType ==
  ASSUME TypeOK, NEW c \in CoreNames, NEW left \in Configs \cup {NoConfig, Torn},
         NEW n \in Nat, Rollback(c, left, n)
  PROVE  /\ file' \in [CoreNames -> Configs \cup {NoConfig} \cup {Torn}]
         /\ proc' \in [CoreNames -> Configs \cup {NoConfig}]
         /\ spoiled' \in [CoreNames -> BOOLEAN]
         /\ events' \in 0 .. MaxEvents
<1>1. last[c] \in Configs \cup {NoConfig}
  BY DEF TypeOK
<1>2. events' \in 0 .. MaxEvents
  BY SupervisorAssumption DEF TypeOK, Rollback, Costs
<1>3. spoiled' \in [CoreNames -> BOOLEAN]
  BY DEF TypeOK, Rollback
<1>4. file' \in [CoreNames -> Configs \cup {NoConfig} \cup {Torn}]
  BY <1>1 DEF TypeOK, Rollback
<1>5. proc' \in [CoreNames -> Configs \cup {NoConfig}]
  BY <1>1 DEF TypeOK, Rollback
<1> QED BY <1>2, <1>3, <1>4, <1>5

\* After a rollback the child, if there is one, runs what was accepted last,
\* and so says the file unless it could not be written.
LEMMA RollbackCoherent ==
  ASSUME TypeOK, NEW c \in CoreNames, NEW left, NEW n, Rollback(c, left, n)
  PROVE  /\ proc'[c] \in {NoConfig, last[c]}
         /\ last[c] # NoConfig /\ ~spoiled'[c] => file'[c] = last[c]
         /\ \A d \in CoreNames \ {c} :
              proc'[d] = proc[d] /\ file'[d] = file[d] /\ spoiled'[d] = spoiled[d]
BY DEF TypeOK, Rollback

\* Every step of Apply keeps the types.
LEMMA ApplyTypes ==
  ASSUME TypeOK, NEW c \in CoreNames,
         ApplyStep(c) \/ ApplyNoBinary(c) \/ ApplyAccident(c)
  PROVE  TypeOK'
<1> USE DEF TypeOK
<1>0. want[c] \in Configs \cup {NoConfig} /\ file[c] \in Configs \cup {NoConfig, Torn}
  BY SupervisorAssumption
<1>1. CASE ApplyNothing(c)
  BY <1>0, <1>1, TurnMoves DEF ApplyNothing, Accepted, panelVars, otherVars
<1>2. CASE ApplySame(c)
  BY <1>0, <1>2, TurnMoves DEF ApplySame, Accepted, panelVars, otherVars
<1>3. CASE ApplyStarted(c)
  BY <1>0, <1>3, TurnMoves DEF ApplyStarted, Accepted, panelVars, otherVars
<1>4. ASSUME NEW left \in Configs \cup {NoConfig, Torn}, NEW n \in Nat,
             Turn(c), Rollback(c, left, n), GiveUp(c)
      PROVE  TypeOK'
  BY <1>4, RollbackType, TurnMoves DEF GiveUp, Refused, panelVars, keptVars, otherVars
<1>5. CASE ApplyBusy(c)
  BY <1>0, <1>4, <1>5 DEF ApplyBusy, Differs
<1>6. CASE ApplyRejected(c)
  BY <1>0, <1>4, <1>6 DEF ApplyRejected, Differs
<1>7. CASE ApplyAccident(c)
  BY <1>0, <1>4, <1>7 DEF ApplyAccident, Differs
<1>8. CASE ApplyNoBinary(c)
  BY <1>8, TurnMoves, SupervisorAssumption
     DEF ApplyNoBinary, Refused, Event, panelVars, keptVars, otherVars
<1> QED BY <1>1, <1>2, <1>3, <1>5, <1>6, <1>7, <1>8 DEF ApplyStep

\* Every step of Apply leaves every core coherent.
LEMMA ApplyCoherent ==
  ASSUME SupervisorInv, NEW c \in CoreNames, NEW d \in CoreNames,
         ApplyStep(c) \/ ApplyNoBinary(c) \/ ApplyAccident(c)
  PROVE  Coherent(d)'
<1> USE DEF SupervisorInv, Coherent, Alive
<1>1. CASE ApplyNothing(c)
  BY <1>1 DEF ApplyNothing, TypeOK
<1>2. CASE ApplySame(c)
  BY <1>2 DEF ApplySame, Unchanged, TypeOK
<1>3. CASE ApplyStarted(c)
  BY <1>3 DEF ApplyStarted, TypeOK
<1>4. ASSUME NEW left, NEW n, Rollback(c, left, n), GiveUp(c)
      PROVE  Coherent(d)'
  <2>1. last' = last /\ lastReq' = lastReq /\ api' = api
    BY <1>4 DEF GiveUp, keptVars
  <2>2. CASE d = c
    BY <1>4, <2>1, <2>2, RollbackCoherent
  <2>3. CASE d # c
    BY <1>4, <2>1, <2>3, RollbackCoherent
  <2> QED BY <2>2, <2>3
<1>5. CASE ApplyBusy(c)
  BY <1>4, <1>5 DEF ApplyBusy
<1>6. CASE ApplyRejected(c)
  BY <1>4, <1>6 DEF ApplyRejected
<1>7. CASE ApplyAccident(c)
  BY <1>4, <1>7 DEF ApplyAccident
<1>8. CASE ApplyNoBinary(c)
  BY <1>8 DEF ApplyNoBinary, keptVars
<1> QED BY <1>1, <1>2, <1>3, <1>5, <1>6, <1>7, <1>8 DEF ApplyStep

\* The watchdog, accidents and removals keep the types.
LEMMA OtherTypes ==
  ASSUME TypeOK, NEW c \in CoreNames, Watch(c) \/ Die(c) \/ AskRemove(c) \/ Remove(c)
  PROVE  TypeOK'
<1> USE DEF TypeOK, panelVars, applyVars, keptVars, otherVars
<1>1. CASE Watch(c)
  <2>1. Starts(c, file[c]) => proc' \in [CoreNames -> Configs \cup {NoConfig}]
    BY <1>1 DEF Watch, Starts
  <2>2. crashes' \in [CoreNames -> SUBSET (0 .. Window - 1)]
    <3>1. crashes[c] \cup {0} \in SUBSET (0 .. Window - 1)
      BY SupervisorAssumption
    <3> QED BY <1>1, <3>1 DEF Watch
  <2>3. proc' \in [CoreNames -> Configs \cup {NoConfig}]
    BY <1>1, <2>1 DEF Watch
  <2> QED BY <1>1, <2>2, <2>3 DEF Watch
<1>2. CASE Die(c)
  BY <1>2, SupervisorAssumption DEF Die, Event
<1>3. CASE AskRemove(c)
  BY <1>3, SupervisorAssumption DEF AskRemove, Event
<1>4. CASE Remove(c)
  BY <1>4, SupervisorAssumption DEF Remove
<1> QED BY <1>1, <1>2, <1>3, <1>4

\* The watchdog starts what was accepted; the others stop or forget.
LEMMA OtherCoherent ==
  ASSUME SupervisorInv, NEW c \in CoreNames, NEW d \in CoreNames,
         Watch(c) \/ Die(c) \/ AskRemove(c) \/ Remove(c)
  PROVE  Coherent(d)'
<1> USE DEF SupervisorInv, Coherent, Alive, TypeOK, keptVars, otherVars
<1>1. CASE Watch(c)
  <2>1. CASE d = c
    BY <1>1, <2>1 DEF Watch
  <2>2. CASE d # c
    BY <1>1, <2>2 DEF Watch
  <2> QED BY <2>1, <2>2
<1>2. CASE Die(c)
  BY <1>2 DEF Die
<1>3. CASE AskRemove(c)
  BY <1>3 DEF AskRemove
<1>4. CASE Remove(c)
  BY <1>4 DEF Remove
<1> QED BY <1>1, <1>2, <1>3, <1>4

LEMMA SupervisorStep == SupervisorInv /\ [Next]_vars => SupervisorInv'
<1> SUFFICES ASSUME SupervisorInv, [Next]_vars PROVE SupervisorInv'
  OBVIOUS
<1>1. ASSUME NEW c \in CoreNames, CoreStep(c) PROVE SupervisorInv'
  BY <1>1, ApplyTypes, ApplyCoherent, OtherTypes, OtherCoherent DEF CoreStep, SupervisorInv
<1>2. ASSUME TypeOK', UNCHANGED <<file, last, lastReq, api, proc, spoiled>> PROVE SupervisorInv'
  BY <1>2 DEF SupervisorInv, Coherent, Alive
<1> USE DEF panelVars, applyVars, keptVars, otherVars
<1>3. CASE BeginApply
  <2>1. next' \in 0 .. Len(Order) + 1
    BY <1>3, SupervisorAssumption DEF BeginApply
  <2>2. TypeOK'
    BY <1>3, <2>1 DEF BeginApply, SupervisorInv, TypeOK
  <2> QED BY <1>2, <1>3, <2>2 DEF BeginApply
<1>4. CASE EndApply
  BY <1>2, <1>4, SupervisorAssumption DEF EndApply, SupervisorInv, TypeOK
<1>5. CASE Tick
  <2>1. \A c \in CoreNames : {a + 1 : a \in crashes[c]} \ {Window} \in SUBSET (0 .. Window - 1)
    <3> SUFFICES ASSUME NEW c \in CoreNames, NEW a \in crashes[c], a + 1 # Window
                 PROVE  a + 1 \in 0 .. Window - 1
      OBVIOUS
    <3>1. a \in 0 .. Window - 1
      BY DEF SupervisorInv, TypeOK
    <3> QED BY <3>1, SupervisorAssumption
  <2>2. crashes' \in [CoreNames -> SUBSET (0 .. Window - 1)]
    BY <1>5, <2>1 DEF Tick
  <2>3. TypeOK'
    BY <1>5, <2>2 DEF Tick, SupervisorInv, TypeOK
  <2> QED BY <1>2, <1>5, <2>3 DEF Tick
<1>6. CASE AgentRestart
  <2>1. TypeOK'
    <3>1. crashes' \in [CoreNames -> SUBSET (0 .. Window - 1)]
      BY <1>6 DEF AgentRestart
    <3>2. next' \in 0 .. Len(Order) + 1 /\ events' \in 0 .. MaxEvents
      BY <1>6, SupervisorAssumption DEF AgentRestart, Event, SupervisorInv, TypeOK
    <3> QED BY <1>6, <3>1, <3>2 DEF AgentRestart, SupervisorInv, TypeOK
  <2>2. \A c \in CoreNames : Coherent(c)'
    BY <1>6 DEF AgentRestart, Coherent, Alive
  <2> QED BY <2>1, <2>2 DEF SupervisorInv
<1>7. ASSUME NEW t \in Targets, Push(t) PROVE SupervisorInv'
  <2>1. events' \in 0 .. MaxEvents
    BY <1>7, SupervisorAssumption DEF Push, Event, SupervisorInv, TypeOK
  <2>2. target' \in Targets /\ want' \in Targets /\ acked' \in BOOLEAN
    BY <1>7 DEF Push, SupervisorInv, TypeOK
  <2>3. TypeOK'
    BY <1>7, <2>1, <2>2 DEF Push, SupervisorInv, TypeOK
  <2> QED BY <1>2, <1>7, <2>3 DEF Push
<1>8. ASSUME NEW p \in Ports, TakePort(p) \/ FreePort(p) PROVE SupervisorInv'
  BY <1>2, <1>8, SupervisorAssumption DEF TakePort, FreePort, Event, SupervisorInv, TypeOK
<1>9. CASE UNCHANGED vars
  BY <1>9 DEF vars, SupervisorInv, TypeOK, Coherent, Alive
<1> QED BY <1>1, <1>3, <1>4, <1>5, <1>6, <1>7, <1>8, <1>9 DEF Next

\* The supervisor's state keeps its types.
THEOREM SupervisorTypeCorrect == Spec => []TypeOK
<1>1. SupervisorInv => TypeOK
  BY DEF SupervisorInv
<1> QED BY SupervisorInit, SupervisorStep, <1>1, PTL DEF Spec

\* Neither Apply, a rollback nor the watchdog leaves a child on a refused
\* configuration, as long as the rollback could write the old one.
THEOREM OnlyAcceptedHolds == Spec => []OnlyAccepted
<1>1. SupervisorInv => OnlyAccepted
  BY DEF SupervisorInv, Coherent, OnlyAccepted
<1> QED BY SupervisorInit, SupervisorStep, <1>1, PTL DEF Spec

\* Statistics are asked of the configuration that runs.
THEOREM StatsAskTheRunningHolds == Spec => []StatsAskTheRunning
<1>1. SupervisorInv => StatsAskTheRunning
  BY DEF SupervisorInv, Coherent, Alive, StatsAskTheRunning
<1> QED BY SupervisorInit, SupervisorStep, <1>1, PTL DEF Spec

-----------------------------------------------------------------------------
(***************************************************************************)
(* Nothing is forgotten behind the panel's back.  An Apply that ends well  *)
(* has been at every core, so each core it configured and that did not     *)
(* refuse has something to run; the panel is told so only then, and an     *)
(* Apply that repeats what it was told takes nothing away.                 *)
(***************************************************************************)
Configured ==
  /\ acked => want = target
  /\ \A i \in DOMAIN Order :
       i < next /\ want[Order[i]] # NoConfig /\ Order[i] \notin errs => last[Order[i]] # NoConfig

ForgetInv == SupervisorInv /\ Configured

LEMMA ApplyConfigures ==
  ASSUME ForgetInv, NEW c \in CoreNames, ApplyStep(c) \/ ApplyNoBinary(c) \/ ApplyAccident(c)
  PROVE  /\ Configured'
         /\ \A d \in CoreNames : Forgotten(d)' => Forgotten(d)
<1> USE DEF ForgetInv, SupervisorInv, TypeOK, Configured, panelVars
<1>1. Turn(c)
  BY DEF ApplyStep, ApplyNothing, ApplySame, ApplyStarted, ApplyBusy, ApplyRejected, Differs,
         ApplyNoBinary, ApplyAccident
<1>2. next \in Nat \ {0}
  BY <1>1, SupervisorAssumption DEF Turn
<1>3. acked' = acked /\ want' = want /\ target' = target
  BY DEF ApplyStep, ApplyNothing, ApplySame, ApplyStarted, ApplyBusy, ApplyRejected,
         ApplyNoBinary, ApplyAccident, GiveUp
<1>4. next' = next + 1 /\ errs' \in {errs, errs \cup {c}}
  BY DEF ApplyStep, ApplyNothing, ApplySame, ApplyStarted, ApplyBusy, ApplyRejected,
         ApplyNoBinary, ApplyAccident, GiveUp, Accepted, Refused
<1>5. want[c] # NoConfig /\ c \notin errs' => last'[c] # NoConfig
  <2>1. CASE ApplyNothing(c)
    BY <2>1 DEF ApplyNothing
  <2>2. CASE ApplySame(c)
    BY <2>2 DEF ApplySame, Unchanged, Coherent
  <2>3. CASE ApplyStarted(c)
    BY <2>3 DEF ApplyStarted
  <2>4. CASE ApplyBusy(c) \/ ApplyRejected(c) \/ ApplyNoBinary(c) \/ ApplyAccident(c)
    BY <2>4 DEF ApplyBusy, ApplyRejected, ApplyNoBinary, ApplyAccident, GiveUp, Refused
  <2> QED BY <2>1, <2>2, <2>3, <2>4 DEF ApplyStep
<1>6. \A d \in CoreNames \ {c} : last'[d] = last[d]
  BY DEF ApplyStep, ApplyNothing, ApplySame, ApplyStarted, ApplyBusy, ApplyRejected,
         ApplyNoBinary, ApplyAccident, GiveUp, keptVars
<1>7. ASSUME NEW i \in DOMAIN Order, i < next', want'[Order[i]] # NoConfig, Order[i] \notin errs'
      PROVE  last'[Order[i]] # NoConfig
  <2>1. Order[i] \in CoreNames /\ i \in Nat
    BY SupervisorAssumption
  <2>2. CASE Order[i] = c
    BY <1>3, <1>5, <1>7, <2>2
  <2>3. CASE Order[i] # c
    <3>1. i < next
      BY <1>1, <1>2, <1>4, <1>7, <2>1, <2>3 DEF Turn
    <3> QED BY <1>3, <1>4, <1>6, <1>7, <2>1, <2>3, <3>1
  <2> QED BY <2>2, <2>3
<1>8. want[c] = NoConfig \/ last[c] = NoConfig \/ last'[c] # NoConfig
  BY <1>5 DEF ApplyStep, ApplyNothing, ApplySame, ApplyStarted, ApplyBusy, ApplyRejected,
         ApplyNoBinary, ApplyAccident, GiveUp, keptVars
<1>9. ASSUME NEW d \in CoreNames, Forgotten(d)' PROVE Forgotten(d)
  BY <1>3, <1>6, <1>8, <1>9 DEF Forgotten
<1> QED BY <1>2, <1>3, <1>7, <1>9

LEMMA ForgetStep ==
  ASSUME ForgetInv, [Next]_vars
  PROVE  /\ Configured'
         /\ \A c \in CoreNames : Forgotten(c)' => Forgotten(c) \/ c \in removing \ removing'
<1> DEFINE Told == \A c \in CoreNames : Forgotten(c)' => Forgotten(c) \/ c \in removing \ removing'
<1> SUFFICES Configured' /\ Told
  OBVIOUS
<1> USE DEF ForgetInv, SupervisorInv, TypeOK, Configured, Forgotten,
            panelVars, applyVars, keptVars, otherVars
<1>0. \A i \in DOMAIN Order : i \in Nat \ {0} /\ i <= Len(Order) /\ Order[i] \in CoreNames
  BY SupervisorAssumption
<1>1. ASSUME NEW c \in CoreNames, ApplyStep(c) \/ ApplyNoBinary(c) \/ ApplyAccident(c)
      PROVE  Configured' /\ Told
  BY <1>1, ApplyConfigures
<1>2. ASSUME NEW c \in CoreNames, Watch(c) \/ Die(c) \/ AskRemove(c)
      PROVE  Configured' /\ Told
  BY <1>2 DEF Watch, Die, AskRemove
<1>3. ASSUME NEW c \in CoreNames, Remove(c)
      PROVE  Configured' /\ Told
  <2>1. Configured'
    BY <1>0, <1>3 DEF Remove
  <2>2. Told
    BY <1>3 DEF Remove
  <2> QED BY <2>1, <2>2
<1>4. CASE BeginApply
  BY <1>0, <1>4 DEF BeginApply
<1>5. CASE EndApply
  <2>1. Configured'
    BY <1>0, <1>5 DEF EndApply
  <2>2. ASSUME NEW c \in CoreNames, acked', target'[c] # NoConfig
        PROVE  last'[c] # NoConfig
    <3>1. PICK i \in DOMAIN Order : Order[i] = c
      BY OrderAssumption
    <3>2. i < next
      BY <1>0, <1>5, SupervisorAssumption DEF EndApply
    <3>3. want = target /\ errs = {} /\ last' = last /\ target' = target
      BY <1>5, <2>2 DEF EndApply
    <3> QED BY <2>2, <3>1, <3>2, <3>3
  <2> QED BY <2>1, <2>2
<1>6. CASE Tick
  BY <1>6 DEF Tick
<1>7. CASE AgentRestart
  BY <1>0, <1>7 DEF AgentRestart
<1>8. ASSUME NEW t \in Targets, Push(t) PROVE Configured' /\ Told
  <2>1. /\ acked' => acked /\ t = target /\ target' = target /\ want' = want
        /\ last' = last /\ next' = next /\ errs' = errs
    BY <1>8 DEF Push
  <2>2. Told
    BY <2>1
  <2>3. Configured'
    <3>1. acked' => want' = target'
      BY <2>1
    <3>2. CASE next = 0
      BY <1>0, <2>1, <3>2
    <3>3. CASE next # 0
      BY <1>8, <2>1, <3>3 DEF Push
    <3> QED BY <3>1, <3>2, <3>3
  <2> QED BY <2>2, <2>3
<1>9. ASSUME NEW p \in Ports, TakePort(p) \/ FreePort(p) PROVE Configured' /\ Told
  BY <1>9 DEF TakePort, FreePort
<1>10. CASE UNCHANGED vars
  BY <1>10 DEF vars
<1> QED BY <1>1, <1>2, <1>3, <1>4, <1>5, <1>6, <1>7, <1>8, <1>9, <1>10 DEF Next, CoreStep

\* A core the panel believes to run is left with nothing to run by a late removal
\* only, never by an Apply, a rollback, the watchdog or a restart.
THEOREM OnlyRemovalForgetsHolds == Spec => OnlyRemovalForgets
<1>1. Init => ForgetInv
  <2> SUFFICES ASSUME Init PROVE ForgetInv
    OBVIOUS
  <2>1. Configured
    BY SupervisorAssumption DEF Init, Configured
  <2> QED BY <2>1, SupervisorInit DEF ForgetInv
<1>2. ForgetInv /\ [Next]_vars => ForgetInv'
  BY SupervisorStep, ForgetStep DEF ForgetInv
<1>3. ForgetInv /\ [Next]_vars =>
        [\A c \in CoreNames : Forgotten(c)' => Forgotten(c) \/ c \in removing \ removing']_vars
  BY ForgetStep
<1> QED BY <1>1, <1>2, <1>3, PTL DEF Spec, OnlyRemovalForgets

-----------------------------------------------------------------------------
(***************************************************************************)
(* Kick, for any clients, configurations and number of kicks at once.      *)
(***************************************************************************)

\* A kick has one client in hand, from the copy it works on, and only between
\* its two calls.
OneInHand(k) ==
  /\ kick[k].st # "adu" => kick[k].now = Nothing
  /\ kick[k].st = "adu" => kick[k].now \in kick[k].of
  /\ kick[k].st # "idle" => kick[k].of \in ClientSets /\ kick[k].todo \subseteq kick[k].of
  /\ kick[k].st = "idle" => ~kick[k].failed

\* The file says what was accepted last; only so a restart brings everybody back.
KickInv ==
  /\ K!TypeOK
  /\ json = accepted
  /\ \A k \in Kicks : OneInHand(k)
  /\ K!KickedComeBack

LEMMA KickInit == K!Init => KickInv
<1> SUFFICES ASSUME K!Init PROVE KickInv
  OBVIOUS
<1>1. K!TypeOK
  BY ServerAssumption DEF K!KickAssumption, K!Init, K!TypeOK, K!Idle
<1>2. \A k \in Kicks : OneInHand(k)
  BY DEF K!Init, K!Idle, OneInHand
<1> QED BY <1>1, <1>2 DEF KickInv, K!Init, K!KickedComeBack

\* Under c.mu the child starts from its file, or is gone.
LEMMA KickChild ==
  ASSUME KickInv, NEW f \in ClientSets \cup {Nothing}, K!Child(f),
         f = Nothing \/ f = accepted', json' = accepted'
  PROVE  /\ K!KickedComeBack'
         /\ admits' \in (SUBSET Clients) \cup {Nothing} /\ strays' \subseteq Clients /\ cut' \subseteq Clients
<1>1. ClientSets \subseteq SUBSET Clients /\ Nothing \notin ClientSets
  BY ServerAssumption DEF K!KickAssumption
<1>2. admits' = f /\ strays' = {} /\ cut' = {}
  BY DEF K!Child
<1>3. CASE f = Nothing
  BY <1>2, <1>3 DEF K!KickedComeBack, K!Alive
<1>4. CASE f \in ClientSets /\ f = accepted'
  BY <1>1, <1>2, <1>4 DEF K!KickedComeBack
<1> QED BY <1>1, <1>3, <1>4

LEMMA KickCore ==
  ASSUME KickInv,
         (\E f \in ClientSets : K!Accept(f)) \/ K!Refuse \/ K!Forget \/ K!Die \/ K!Watch
  PROVE  KickInv'
<1> USE DEF KickInv
<1>1. kick' = kick
  BY DEF K!Accept, K!Refuse, K!Forget, K!Die, K!Watch
<1>2. pushes' \in 0 .. MaxPushes /\ kickFaults' \in 0 .. KickFaults
  BY ServerAssumption DEF K!KickAssumption, K!TypeOK, K!Accept, K!Refuse, K!Forget, K!Die, K!Watch, K!Fault
<1>3. accepted' \in ClientSets \cup {Nothing} /\ json' = accepted'
  BY DEF K!TypeOK, K!Accept, K!Refuse, K!Forget, K!Die, K!Watch
<1>4. \E f \in {Nothing, accepted'} : K!Child(f)
  BY <1>3 DEF K!Accept, K!Refuse, K!Forget, K!Die, K!Watch
<1>5. \A k \in Kicks : OneInHand(k)'
  BY <1>1 DEF OneInHand
<1> QED BY <1>1, <1>2, <1>3, <1>4, <1>5, KickChild DEF K!TypeOK

KickTypes ==
  [st : {"idle", "rmu", "adu"}, todo : SUBSET Clients, now : Clients \cup {Nothing},
   of : ClientSets \cup {Nothing}, failed : BOOLEAN]

\* A goroutine's move keeps every other's client in hand.
LEMMA KickMoves ==
  ASSUME KickInv, NEW k \in Kicks, NEW r \in KickTypes, kick' = [kick EXCEPT ![k] = r],
         r.st # "adu" => r.now = Nothing,
         r.st = "adu" => r.now \in r.of,
         r.st # "idle" => r.of \in ClientSets /\ r.todo \subseteq r.of,
         r.st = "idle" => ~r.failed
  PROVE  /\ kick' \in [Kicks -> KickTypes]
         /\ \A l \in Kicks : OneInHand(l)'
         /\ ~kick[k].failed \/ r.failed =>
              \A u \in Clients : u \in K!InHand /\ u # kick[k].now => u \in K!InHand'
         /\ r.now \in Clients => r.now \in K!InHand'
         /\ r.failed => \A u \in Clients : u \in K!InHand'
<1> USE DEF KickInv, K!TypeOK, KickTypes
<1>1. \A l \in Kicks : kick'[l] = IF l = k THEN r ELSE kick[l]
  OBVIOUS
<1>2. \A l \in Kicks : OneInHand(l)'
  BY <1>1 DEF OneInHand
<1>3. ASSUME ~kick[k].failed \/ r.failed, NEW u \in Clients, u \in K!InHand, u # kick[k].now
      PROVE  u \in K!InHand'
  BY <1>1, <1>3 DEF K!InHand
<1> QED BY <1>1, <1>2, <1>3 DEF K!InHand

LEMMA KickTyped ==
  ASSUME KickInv, NEW k \in Kicks
  PROVE  /\ kick[k] \in KickTypes
         /\ kick[k].st \in {"idle", "rmu", "adu"} /\ kick[k].todo \in SUBSET Clients
         /\ kick[k].now \in Clients \cup {Nothing} /\ kick[k].of \in ClientSets \cup {Nothing}
         /\ kick[k].failed \in BOOLEAN /\ OneInHand(k)
         /\ \A f \in ClientSets : f \subseteq Clients /\ f # Nothing
         /\ Nothing \notin Clients
<1>1. kick[k] \in KickTypes /\ OneInHand(k)
  BY DEF KickInv, K!TypeOK, KickTypes
<1>2. Nothing \notin Clients /\ \A f \in ClientSets : f \subseteq Clients /\ f # Nothing
  BY ServerAssumption DEF K!KickAssumption
<1> QED BY <1>1, <1>2 DEF KickTypes

\* kick reads a copy of what was accepted, so none of it is a stranger.
LEMMA KickBegins ==
  ASSUME KickInv, NEW k \in Kicks, NEW chosen \in SUBSET Clients, K!KickCopies(k, chosen)
  PROVE  KickInv'
<1> DEFINE r == [K!Idle EXCEPT !.st = "rmu", !.todo = chosen \cap accepted, !.of = accepted]
<1>1. kick' = [kick EXCEPT ![k] = r] /\ kick[k].st = "idle" /\ accepted # Nothing
  BY DEF K!KickCopies, K!Goto, K!At
<1>2. UNCHANGED <<accepted, json, admits, strays, cut, pushes, kickFaults>>
  BY DEF K!KickCopies
<1>3. /\ kick[k].now = Nothing /\ ~kick[k].failed
      /\ accepted \in ClientSets /\ accepted \subseteq Clients /\ Nothing \notin Clients
  BY <1>1, KickTyped DEF OneInHand, KickInv, K!TypeOK
<1>4. /\ r \in KickTypes /\ r.todo \subseteq r.of /\ r.now = Nothing /\ r.st = "rmu"
      /\ r.of \in ClientSets
  BY <1>3 DEF KickTypes, K!Idle
<1> HIDE DEF r
<1>5. /\ kick' \in [Kicks -> KickTypes] /\ \A l \in Kicks : OneInHand(l)'
      /\ \A u \in Clients : u \in K!InHand => u \in K!InHand'
  BY <1>1, <1>3, <1>4, KickMoves
<1>6. K!KickedComeBack'
  BY <1>2, <1>3, <1>5 DEF KickInv, K!KickedComeBack, K!Alive
<1> QED BY <1>2, <1>5, <1>6 DEF KickInv, K!TypeOK, KickTypes

LEMMA KickRemoves ==
  ASSUME KickInv, NEW k \in Kicks, NEW u \in Clients, K!Removed(k, u)
  PROVE  KickInv'
<1> DEFINE r == [kick[k] EXCEPT !.st = "adu", !.todo = kick[k].todo \ {u}, !.now = u]
<1>1. kick' = [kick EXCEPT ![k] = r] /\ kick[k].st = "rmu" /\ u \in kick[k].todo
  BY DEF K!Removed, K!Goto, K!At
<1>2. /\ admits # Nothing /\ u \in admits /\ admits' = admits \ {u} /\ strays' = strays \ {u}
      /\ UNCHANGED <<accepted, json, cut, pushes, kickFaults>>
  BY DEF K!Removed, K!Admits, K!Alive
<1>3. kick[k].now = Nothing /\ kick[k].of \in ClientSets /\ kick[k].todo \subseteq kick[k].of
  BY <1>1, KickTyped DEF OneInHand
<1>4. /\ r \in KickTypes /\ r.todo \subseteq r.of /\ r.now \in r.of /\ r.st = "adu" /\ r.of \in ClientSets
      /\ r.now = u /\ r.failed = kick[k].failed
  BY <1>1, <1>3, KickTyped DEF KickTypes
<1> HIDE DEF r
<1>5. /\ kick[k].failed \in BOOLEAN /\ Nothing \notin Clients
      /\ accepted # Nothing => accepted \subseteq Clients
  BY KickTyped DEF KickInv, K!TypeOK
<1>6. /\ kick' \in [Kicks -> KickTypes] /\ \A l \in Kicks : OneInHand(l)'
      /\ \A v \in Clients : v \in K!InHand => v \in K!InHand'
      /\ u \in K!InHand'
  BY <1>1, <1>3, <1>4, <1>5, KickMoves
<1>7. K!KickedComeBack'
  BY <1>2, <1>5, <1>6 DEF KickInv, K!KickedComeBack, K!Alive
<1>8. admits' \in (SUBSET Clients) \cup {Nothing}
  BY <1>2 DEF KickInv, K!TypeOK
<1> QED BY <1>2, <1>6, <1>7, <1>8 DEF KickInv, K!TypeOK, KickTypes

\* Whoever a lost answer cut off is remembered.
LEMMA KickSkips ==
  ASSUME KickInv, NEW k \in Kicks, NEW u \in Clients, K!NotRemoved(k, u)
  PROVE  KickInv'
<1> DEFINE r == [kick[k] EXCEPT !.todo = kick[k].todo \ {u}]
<1>1. kick' = [kick EXCEPT ![k] = r] /\ kick[k].st = "rmu" /\ UNCHANGED <<accepted, json, pushes>>
  BY DEF K!NotRemoved, K!Goto, K!At
<1>2. /\ \/ UNCHANGED <<admits, strays, cut>>
         \/ /\ admits # Nothing /\ admits' = admits \ {u} /\ strays' = strays \ {u}
            /\ cut' = cut \cup {u}
      /\ kickFaults' \in 0 .. KickFaults
  BY ServerAssumption DEF K!KickAssumption, KickInv, K!TypeOK, K!NotRemoved, K!Admits, K!Alive, K!Fault
<1>3. kick[k].now = Nothing /\ kick[k].of \in ClientSets /\ kick[k].todo \subseteq kick[k].of
  BY <1>1, KickTyped DEF OneInHand
<1>4. /\ r \in KickTypes /\ r.todo \subseteq r.of /\ r.now = Nothing /\ r.st = "rmu"
      /\ r.of \in ClientSets /\ r.failed = kick[k].failed
  BY <1>1, <1>3, KickTyped DEF KickTypes
<1> HIDE DEF r
<1>5. kick[k].failed \in BOOLEAN /\ (accepted # Nothing => accepted \subseteq Clients)
  BY KickTyped DEF KickInv, K!TypeOK
<1>6. /\ kick' \in [Kicks -> KickTypes] /\ \A l \in Kicks : OneInHand(l)'
      /\ \A v \in Clients : v \in K!InHand => v \in K!InHand'
  BY <1>1, <1>3, <1>4, <1>5, KickMoves
<1>7. K!KickedComeBack'
  BY <1>1, <1>2, <1>5, <1>6 DEF KickInv, K!KickedComeBack, K!Alive
<1>8. admits' \in (SUBSET Clients) \cup {Nothing} /\ strays' \subseteq Clients /\ cut' \subseteq Clients
  BY <1>2 DEF KickInv, K!TypeOK
<1> QED BY <1>1, <1>2, <1>6, <1>7, <1>8 DEF KickInv, K!TypeOK, KickTypes

\* A client comes back from the configuration the kick began under.
LEMMA KickAdds ==
  ASSUME KickInv, NEW k \in Kicks, K!Added(k)
  PROVE  KickInv'
<1> DEFINE u == kick[k].now
           r == [kick[k] EXCEPT !.st = "rmu", !.now = Nothing]
<1>1. kick' = [kick EXCEPT ![k] = r] /\ kick[k].st = "adu"
  BY DEF K!Added, K!Goto, K!At
<1>2. /\ admits # Nothing /\ admits' = admits \cup {u} /\ cut' = cut \ {u}
      /\ strays' = IF kick[k].of = accepted THEN strays ELSE strays \cup {u}
      /\ UNCHANGED <<accepted, json, pushes, kickFaults>>
  BY DEF K!Added, K!Alive
<1>3. /\ kick[k].of \in ClientSets /\ kick[k].todo \subseteq kick[k].of
      /\ u \in kick[k].of /\ u \in Clients /\ kick[k].failed \in BOOLEAN
  BY <1>1, KickTyped DEF OneInHand
<1>4. /\ r \in KickTypes /\ r.todo \subseteq r.of /\ r.now = Nothing /\ r.st = "rmu"
      /\ r.of \in ClientSets /\ r.failed = kick[k].failed
  BY <1>1, <1>3, KickTyped DEF KickTypes
<1> HIDE DEF r
<1>5. accepted # Nothing => accepted \subseteq Clients
  BY KickTyped DEF KickInv, K!TypeOK
<1>6. /\ kick' \in [Kicks -> KickTypes] /\ \A l \in Kicks : OneInHand(l)'
      /\ \A v \in Clients : v \in K!InHand /\ v # u => v \in K!InHand'
  BY <1>1, <1>3, <1>4, KickMoves
<1>7. K!KickedComeBack'
  BY <1>2, <1>3, <1>5, <1>6 DEF KickInv, K!KickedComeBack, K!Alive
<1>8. admits' \in (SUBSET Clients) \cup {Nothing} /\ strays' \subseteq Clients /\ cut' \subseteq Clients
  BY <1>2, <1>3 DEF KickInv, K!TypeOK
<1> QED BY <1>2, <1>6, <1>7, <1>8 DEF KickInv, K!TypeOK, KickTypes

\* After a client that could not be added everybody waits for the restart.
LEMMA KickFails ==
  ASSUME KickInv, NEW k \in Kicks, K!NotAdded(k)
  PROVE  KickInv'
<1> DEFINE r == [kick[k] EXCEPT !.st = "rmu", !.now = Nothing, !.failed = TRUE]
<1>1. /\ kick' = [kick EXCEPT ![k] = r] /\ kick[k].st = "adu"
      /\ UNCHANGED <<accepted, json, admits, strays, cut, pushes>>
  BY DEF K!NotAdded, K!Goto, K!At
<1>2. kickFaults' \in 0 .. KickFaults
  BY ServerAssumption DEF K!KickAssumption, KickInv, K!TypeOK, K!NotAdded, K!Fault
<1>3. kick[k].of \in ClientSets /\ kick[k].todo \subseteq kick[k].of
  BY <1>1, KickTyped DEF OneInHand
<1>4. /\ r \in KickTypes /\ r.todo \subseteq r.of /\ r.now = Nothing /\ r.st = "rmu"
      /\ r.of \in ClientSets /\ r.failed
  BY <1>1, <1>3, KickTyped DEF KickTypes
<1> HIDE DEF r
<1>5. accepted # Nothing => accepted \subseteq Clients
  BY KickTyped DEF KickInv, K!TypeOK
<1>6. /\ kick' \in [Kicks -> KickTypes] /\ \A l \in Kicks : OneInHand(l)'
      /\ \A v \in Clients : v \in K!InHand'
  BY <1>1, <1>3, <1>4, KickMoves
<1>7. K!KickedComeBack'
  BY <1>1, <1>5, <1>6 DEF KickInv, K!KickedComeBack, K!Alive
<1> QED BY <1>1, <1>2, <1>6, <1>7 DEF KickInv, K!TypeOK, KickTypes

\* Without a failure nobody is in hand at the end; with one the child is new.
LEMMA KickEnds ==
  ASSUME KickInv, NEW k \in Kicks, K!Finish(k)
  PROVE  KickInv'
<1> DEFINE r == K!Idle
<1>1. /\ kick' = [kick EXCEPT ![k] = r] /\ kick[k].st = "rmu" /\ UNCHANGED <<accepted, json, pushes>>
      /\ \/ ~kick[k].failed /\ UNCHANGED <<admits, strays, cut, kickFaults>>
         \/ K!Child(json) \/ K!Child(Nothing)
  BY DEF K!Finish, K!Goto, K!At
<1>2. kickFaults' \in 0 .. KickFaults
  BY ServerAssumption DEF K!KickAssumption, KickInv, K!TypeOK, K!Finish, K!Fault
<1>3. kick[k].now = Nothing
  BY <1>1, KickTyped DEF OneInHand
<1>4. r \in KickTypes /\ r.now = Nothing /\ r.st = "idle" /\ ~r.failed
  BY DEF KickTypes, K!Idle
<1> HIDE DEF r
<1>5. accepted # Nothing => accepted \subseteq Clients
  BY KickTyped DEF KickInv, K!TypeOK
<1>6. /\ kick' \in [Kicks -> KickTypes] /\ \A l \in Kicks : OneInHand(l)'
      /\ ~kick[k].failed => \A v \in Clients : v \in K!InHand => v \in K!InHand'
  BY <1>1, <1>3, <1>4, KickTyped, KickMoves
<1>7. CASE ~kick[k].failed /\ UNCHANGED <<admits, strays, cut, kickFaults>>
  <2>1. K!KickedComeBack'
    BY <1>1, <1>5, <1>6, <1>7 DEF KickInv, K!KickedComeBack, K!Alive
  <2> QED BY <1>1, <1>6, <1>7, <2>1 DEF KickInv, K!TypeOK, KickTypes
<1>8. CASE K!Child(json) \/ K!Child(Nothing)
  <2>1. json \in ClientSets \cup {Nothing} /\ json = accepted /\ json' = json /\ accepted' = accepted
    BY <1>1 DEF KickInv, K!TypeOK
  <2>2. \E f \in ClientSets \cup {Nothing} : K!Child(f) /\ (f = Nothing \/ f = accepted')
    BY <1>8, <2>1
  <2>3. /\ K!KickedComeBack'
        /\ admits' \in (SUBSET Clients) \cup {Nothing} /\ strays' \subseteq Clients /\ cut' \subseteq Clients
    BY <2>1, <2>2, KickChild
  <2> QED BY <1>1, <1>2, <1>6, <2>1, <2>3 DEF KickInv, K!TypeOK, KickTypes
<1> QED BY <1>1, <1>7, <1>8

LEMMA KickNext == KickInv /\ [K!Next]_(K!kickVars) => KickInv'
<1> SUFFICES ASSUME KickInv, [K!Next]_(K!kickVars) PROVE KickInv'
  OBVIOUS
<1>1. CASE UNCHANGED K!kickVars
  BY <1>1 DEF K!kickVars, KickInv, K!TypeOK, OneInHand, K!KickedComeBack, K!Alive, K!InHand
<1>2. CASE \E f \in ClientSets : K!Accept(f)
  BY <1>2, KickCore
<1>3. CASE K!Refuse \/ K!Forget \/ K!Die \/ K!Watch
  BY <1>3, KickCore
<1>4. ASSUME NEW k \in Kicks,
             \/ \E chosen \in SUBSET Clients : K!KickCopies(k, chosen)
             \/ \E u \in Clients : K!Removed(k, u) \/ K!NotRemoved(k, u)
             \/ K!Added(k) \/ K!NotAdded(k) \/ K!Finish(k)
      PROVE  KickInv'
  BY <1>4, KickBegins, KickRemoves, KickSkips, KickAdds, KickFails, KickEnds
<1> QED BY <1>1, <1>2, <1>3, <1>4 DEF K!Next

LEMMA KickAlways == K!Spec => []KickInv
BY KickInit, KickNext, PTL DEF K!Spec

\* The state of kicks keeps its types.
THEOREM KickTypeCorrect == K!Spec => []K!TypeOK
<1>1. KickInv => K!TypeOK
  BY DEF KickInv
<1> QED BY <1>1, KickAlways, PTL

\* For any clients, configurations and number of kicks at once nobody of the
\* accepted configuration is locked out by kicks, and nobody else is let in,
\* beyond what KickedComeBack names.
THEOREM KickedComeBackHolds == K!Spec => []KickedComeBack
<1>1. KickInv => KickedComeBack
  BY DEF KickInv, KickedComeBack
<1> QED BY <1>1, KickAlways, PTL

-----------------------------------------------------------------------------
(***************************************************************************)
(* Firewall, for any configurations, ports and firewalls.                  *)
(***************************************************************************)

OpTypeOK ==
  op \in [st : {"off", "apply", "save"}, list : SUBSET Opened, port : Opened \cup {Nothing},
          by : Kinds \cup {"none"}, todo : SUBSET Opened]

\* An Apply has settled the switch before the limits, and those before the
\* table of refused addresses.
InForce ==
  /\ answered => apply = "off"
  /\ ~haveNft => limit = Nothing
  /\ apply # "off" /\ failed = 0 => noV6 = wanted.noV6
  /\ apply = "reject" =>
       limit \in {wanted.limit, Nothing} /\ (failed = 0 /\ haveNft => limit = wanted.limit)
  /\ F!AckedGuards

\* The list on disk has all that was shown, unless it is torn; a request works
\* on no shorter one, ...
Listed ==
  /\ list = Half => lapsed /\ op.st = "off"
  /\ list # Half => told \subseteq list
  /\ op.st # "off" => list \subseteq op.list /\ agent # "down" /\ op.by \in Kinds

\* ... has let in what it has done of it, ...
LetIn ==
  /\ op.st # "off" => op.list \ op.todo \subseteq rules[op.by]
  /\ op.st # "off" /\ op.port # Nothing => op.port \in op.list
  /\ op.st = "save" => op.todo = {} /\ op.port # Nothing /\ (lapsed \/ op.by = kind)
  /\ agent = "starting" => op.st = "apply" /\ op.port = Nothing

\* ... and in the meantime what was shown stays open as well.
ShownOpen == agent = "up" /\ ~lapsed /\ kind # "none" => told \subseteq rules[kind]

FilterTypes == F!TypeOK /\ OpTypeOK

FilterInv == FilterTypes /\ InForce /\ Listed /\ LetIn /\ ShownOpen

LEMMA FilterAssumed ==
  /\ Kinds \subseteq {"ufw", "iptables", "nft", "none"}
  /\ \A w \in Wants : w.noV6 \in BOOLEAN
  /\ \A s \in SUBSET Opened : s # Half
  /\ FilterFaults \in Nat /\ FilterEvents \in Nat
BY ServerAssumption DEF F!FirewallAssumption

LEMMA FilterInit == F!Init => FilterInv
<1> SUFFICES ASSUME F!Init PROVE FilterInv
  OBVIOUS
<1>1. OpTypeOK /\ rules \in [Kinds -> SUBSET Opened]
  BY DEF F!Init, OpTypeOK, F!NoOp, F!NoRules
<1>2. InForce
  BY DEF F!Init, InForce, F!AckedGuards
<1>3. Listed /\ LetIn /\ ShownOpen
  BY FilterAssumed DEF F!Init, Listed, LetIn, ShownOpen, F!NoOp
<1>4. /\ wanted \in Wants /\ answered \in BOOLEAN /\ noV6 \in BOOLEAN /\ haveNft \in BOOLEAN
      /\ saves \in BOOLEAN /\ lapsed \in BOOLEAN /\ kind \in Kinds
  BY DEF F!Init
<1>5. /\ apply = "off" /\ cn = Nothing /\ limit = Nothing /\ lists = "none" /\ agent = "up"
      /\ kept = {} /\ list = {} /\ told = {}
  BY DEF F!Init
<1>6. failed \in 0 .. FilterFaults /\ happened \in 0 .. FilterEvents
  BY FilterAssumed DEF F!Init
<1>7. F!TypeOK
  BY <1>1, <1>4, <1>5, <1>6 DEF F!TypeOK
<1> QED BY <1>1, <1>2, <1>3, <1>7 DEF FilterInv, FilterTypes

\* Bounds of the counters.
LEMMA FilterCounts ==
  ASSUME F!TypeOK
  PROVE  /\ F!Event => happened' \in 0 .. FilterEvents
         /\ F!Fault => failed' \in 0 .. FilterFaults /\ failed' # 0
BY FilterAssumed DEF F!TypeOK, F!Event, F!Fault

ApplyAct ==
  \/ \E w \in Wants : F!Push(w)
  \/ F!ApplyBegins \/ F!ApplyLimits \/ F!RejectNothing \/ F!RejectCannot \/ F!Reject
  \/ F!ListsAge \/ F!EnsureNft

AllowAct ==
  \/ \E p \in Opened : F!OpenBegins(p) \/ F!OneRule(p)
  \/ F!NewTable \/ F!RuleFails \/ F!Applied \/ F!Save

AgentAct == (\E k \in Kinds : F!OtherFirewall(k)) \/ F!AgentEnds \/ F!AgentStarts

LEMMA ApplyKeepsTypes == ASSUME FilterTypes, ApplyAct PROVE FilterTypes'
<1> USE FilterCounts DEF FilterTypes, F!TypeOK, F!allowVars
<1>1. UNCHANGED <<rules, kept, list, told, op, lapsed, agent, kind, saves>>
  BY DEF ApplyAct, F!Push, F!ApplyBegins, F!ApplyLimits, F!RejectNothing, F!RejectCannot, F!Reject,
         F!ListsAge, F!EnsureNft
<1>2. wanted' \in Wants /\ answered' \in BOOLEAN /\ apply' \in {"off", "limits", "reject"} /\ haveNft' \in BOOLEAN
  BY DEF ApplyAct, F!Push, F!ApplyBegins, F!ApplyLimits, F!RejectNothing, F!RejectCannot, F!Reject,
         F!ListsAge, F!EnsureNft, F!Answer
<1>3. /\ cn' \in {w.reject : w \in Wants} \cup {Nothing} /\ limit' \in {w.limit : w \in Wants} \cup {Nothing}
      /\ lists' \in {"none", "fresh", "stale"}
  BY DEF ApplyAct, F!Push, F!ApplyBegins, F!ApplyLimits, F!RejectNothing, F!RejectCannot, F!Reject,
         F!ListsAge, F!EnsureNft, F!Loaded
<1>4. noV6' \in BOOLEAN
  BY FilterAssumed DEF ApplyAct, F!Push, F!ApplyBegins, F!ApplyLimits, F!RejectNothing, F!RejectCannot,
         F!Reject, F!ListsAge, F!EnsureNft
<1>5. failed' \in 0 .. FilterFaults /\ happened' \in 0 .. FilterEvents
  BY DEF ApplyAct, F!Push, F!ApplyBegins, F!ApplyLimits, F!RejectNothing, F!RejectCannot, F!Reject,
         F!ListsAge, F!EnsureNft
<1> QED BY <1>1, <1>2, <1>3, <1>4, <1>5 DEF OpTypeOK

\* Apply: the answer is "running" only behind the last step that can fail.
LEMMA ApplyInForce == ASSUME FilterTypes, InForce, ApplyAct PROVE InForce'
<1> USE FilterCounts DEF FilterTypes, InForce, F!AckedGuards, F!allowVars
<1>1. ASSUME NEW w \in Wants, F!Push(w) PROVE InForce'
  BY <1>1 DEF F!Push
<1>2. CASE F!ApplyBegins
  BY <1>2 DEF F!ApplyBegins
<1>3. CASE F!ApplyLimits
  BY <1>3 DEF F!ApplyLimits
<1>4. CASE F!RejectNothing
  BY <1>4 DEF F!RejectNothing, F!Answer
<1>5. CASE F!RejectCannot
  BY <1>5 DEF F!RejectCannot, F!Answer
<1>6. CASE F!Reject
  BY <1>6 DEF F!Reject, F!Answer
<1>7. CASE F!ListsAge
  BY <1>7 DEF F!ListsAge
<1>8. CASE F!EnsureNft
  BY <1>8 DEF F!EnsureNft
<1> QED BY <1>1, <1>2, <1>3, <1>4, <1>5, <1>6, <1>7, <1>8 DEF ApplyAct

\* A machine that filters is one of its kinds.
LEMMA DetectedKind == F!TypeOK => F!Detected \in Kinds /\ (F!Detected = "none" => kind = "none")
BY DEF F!TypeOK, F!Detected

LEMMA AllowKeepsTypes == ASSUME FilterTypes, LetIn, AllowAct PROVE FilterTypes'
<1> USE DEF AllowAct, F!OpenBegins, F!OneRule, F!NewTable, F!RuleFails, F!Applied, F!Save
<1>1. UNCHANGED <<wanted, answered, apply, noV6, cn, limit, lists, haveNft, kind, saves>>
  BY DEF F!applyVars
<1>2. failed' \in 0 .. FilterFaults /\ happened' \in 0 .. FilterEvents
  BY FilterCounts DEF FilterTypes, F!TypeOK
<1>3. agent' \in {"down", "starting", "up"} /\ lapsed' \in BOOLEAN
  BY DEF FilterTypes, F!TypeOK, F!Ready
<1>4. op' \in [st : {"off", "apply", "save"}, list : SUBSET Opened, port : Opened \cup {Nothing},
               by : Kinds \cup {"none"}, todo : SUBSET Opened]
  BY DetectedKind DEF FilterTypes, OpTypeOK, F!TypeOK, F!NoOp
<1>5. rules' \in [Kinds -> SUBSET Opened]
  BY DEF FilterTypes, OpTypeOK, F!TypeOK
<1>6. op.list \subseteq Opened /\ (op.by = "iptables" => rules["iptables"] \subseteq Opened)
  BY DEF FilterTypes, OpTypeOK, F!TypeOK
<1>7. op.st = "save" => op.port \in Opened
  BY <1>6 DEF LetIn
<1>8. kept' \subseteq Opened
  BY <1>6 DEF FilterTypes, F!TypeOK
<1>9. list' \in (SUBSET Opened) \cup {Half} /\ told' \subseteq Opened
  BY <1>6, <1>7 DEF FilterTypes, F!TypeOK
<1> QED BY <1>1, <1>2, <1>3, <1>4, <1>5, <1>8, <1>9 DEF FilterTypes, OpTypeOK, F!TypeOK

\* A request that has let in what it works on may end; one that has not may
\* not pass for done.
LEMMA AllowKeepsOpen ==
  ASSUME FilterTypes, Listed, LetIn, ShownOpen, AllowAct
  PROVE  Listed' /\ LetIn' /\ ShownOpen'
<1> USE DEF FilterTypes, OpTypeOK, F!TypeOK, Listed, LetIn, ShownOpen, F!applyVars
<1>1. ASSUME NEW p \in Opened, F!OpenBegins(p) PROVE Listed' /\ LetIn' /\ ShownOpen'
  BY <1>1, DetectedKind DEF F!OpenBegins
<1>2. ASSUME NEW p \in Opened, F!OneRule(p) PROVE Listed' /\ LetIn' /\ ShownOpen'
  BY <1>2 DEF F!OneRule
<1>3. CASE F!NewTable
  BY <1>3 DEF F!NewTable
<1>4. CASE F!RuleFails
  BY <1>4 DEF F!RuleFails, F!Ready, F!NoOp
<1>5. CASE F!Applied
  <2>1. /\ op.st = "apply" /\ op.todo = {} /\ list # Half /\ told \subseteq op.list
        /\ op.list \subseteq rules[op.by] /\ op.by \in Kinds
    BY <1>5 DEF F!Applied
  <2>2. /\ lapsed' = (op.by # kind) /\ UNCHANGED <<rules, list, told, kind>>
        /\ agent' # "starting" /\ agent' # "down"
    BY <1>5, <2>1 DEF F!Applied, F!Ready
  <2>3. CASE op.port = Nothing
    <3>1. op'.st = "off"
      BY <1>5, <2>3 DEF F!Applied, F!NoOp
    <3> QED BY <2>1, <2>2, <3>1
  <2>4. CASE op.port # Nothing
    <3>1. /\ op'.st = "save" /\ op'.list = op.list /\ op'.todo = {} /\ op'.by = op.by
          /\ op'.port = op.port
      BY <1>5, <2>1, <2>4 DEF F!Applied
    <3> QED BY <2>1, <2>2, <2>4, <3>1
  <2> QED BY <2>3, <2>4
<1>6. CASE F!Save
  <2>1. /\ op.st = "save" /\ list # Half /\ told \subseteq op.list /\ op.port \in op.list
        /\ op.list \subseteq rules[op.by] /\ (lapsed \/ op.by = kind)
    BY <1>6 DEF F!Save
  <2>2. op'.st = "off" /\ agent = "up" /\ UNCHANGED <<rules, agent, kind>>
    BY <1>6, <2>1 DEF F!Save, F!NoOp
  <2>3. \/ list' = op.list /\ told' = told \cup {op.port} /\ lapsed' = lapsed
        \/ list' = Half /\ lapsed' = TRUE
    BY <1>6 DEF F!Save
  <2>4. op.list # Half
    BY FilterAssumed
  <2> QED BY <2>1, <2>2, <2>3, <2>4
<1> QED BY <1>1, <1>2, <1>3, <1>4, <1>5, <1>6 DEF AllowAct

LEMMA AgentKeepsTypes == ASSUME FilterTypes, AgentAct PROVE FilterTypes'
<1> USE FilterCounts DEF FilterTypes, OpTypeOK, F!TypeOK, F!allowVars, F!applyVars
<1>1. ASSUME NEW k \in Kinds, F!OtherFirewall(k) PROVE FilterTypes'
  BY <1>1 DEF F!OtherFirewall
<1>2. CASE F!AgentEnds
  BY <1>2 DEF F!AgentEnds, F!NoOp, F!Cut
<1>3. CASE F!AgentStarts
  BY <1>3, DetectedKind DEF F!AgentStarts
<1> QED BY <1>1, <1>2, <1>3 DEF AgentAct

LEMMA AgentKeepsOpen ==
  ASSUME FilterTypes, InForce, Listed, LetIn, ShownOpen, AgentAct
  PROVE  InForce' /\ Listed' /\ LetIn' /\ ShownOpen'
<1> USE DEF FilterTypes, OpTypeOK, F!TypeOK, InForce, F!AckedGuards, Listed, LetIn, ShownOpen,
        F!applyVars, F!allowVars
<1>1. ASSUME NEW k \in Kinds, F!OtherFirewall(k) PROVE InForce' /\ Listed' /\ LetIn' /\ ShownOpen'
  BY <1>1 DEF F!OtherFirewall
<1>2. CASE F!AgentEnds
  <2>1. agent' = "down" /\ op'.st = "off" /\ answered' = FALSE /\ apply' = "off"
    BY <1>2 DEF F!AgentEnds, F!NoOp
  <2>2. haveNft' = haveNft /\ (limit' = limit \/ limit' = Nothing) /\ told' = told
    BY <1>2 DEF F!AgentEnds
  <2>3. InForce'
    BY <2>1, <2>2
  <2>4. list' = list \/ list' = Half \/ (op.st = "save" /\ list' = op.list)
    BY <1>2 DEF F!AgentEnds, F!Cut
  <2>5. lapsed' = (lapsed \/ list' = Half)
    BY <1>2 DEF F!AgentEnds
  <2>6. Listed'
    BY <2>1, <2>2, <2>4, <2>5
  <2> QED BY <2>1, <2>3, <2>6
<1>3. CASE F!AgentStarts
  BY <1>3, DetectedKind DEF F!AgentStarts
<1> QED BY <1>1, <1>2, <1>3 DEF AgentAct

LEMMA FilterNext == FilterInv /\ [F!Next]_(F!firewallVars) => FilterInv'
<1> SUFFICES ASSUME FilterInv, [F!Next]_(F!firewallVars) PROVE FilterInv'
  OBVIOUS
<1> USE DEF FilterInv
<1>1. CASE UNCHANGED F!firewallVars
  BY <1>1 DEF F!firewallVars, F!applyVars, F!allowVars, FilterTypes, F!TypeOK, OpTypeOK, InForce,
     F!AckedGuards, Listed, LetIn, ShownOpen
<1>2. CASE ApplyAct
  <2>1. FilterTypes' /\ InForce'
    BY <1>2, ApplyKeepsTypes, ApplyInForce
  <2>2. UNCHANGED <<rules, kept, list, told, op, lapsed, agent, kind, saves>>
    BY <1>2 DEF ApplyAct, F!Push, F!ApplyBegins, F!ApplyLimits, F!RejectNothing, F!RejectCannot, F!Reject,
           F!ListsAge, F!EnsureNft, F!allowVars
  <2> QED BY <2>1, <2>2 DEF Listed, LetIn, ShownOpen
<1>3. CASE AllowAct
  <2>1. FilterTypes' /\ Listed' /\ LetIn' /\ ShownOpen'
    BY <1>3, AllowKeepsTypes, AllowKeepsOpen
  <2>2. UNCHANGED <<wanted, answered, apply, noV6, cn, limit, haveNft>> /\ (failed' = 0 => failed = 0)
    BY <1>3, FilterCounts DEF AllowAct, F!OpenBegins, F!OneRule, F!NewTable, F!RuleFails, F!Applied,
       F!Save, F!applyVars, FilterTypes
  <2> QED BY <2>1, <2>2 DEF InForce, F!AckedGuards
<1>4. CASE AgentAct
  BY <1>4, AgentKeepsTypes, AgentKeepsOpen
<1> QED BY <1>1, <1>2, <1>3, <1>4 DEF F!Next, ApplyAct, AllowAct, AgentAct

LEMMA FilterAlways == F!Spec => []FilterInv
BY FilterInit, FilterNext, PTL DEF F!Spec

\* The packet filter, the list of opened ports and the Agent keep their types.
THEOREM FilterTypeCorrect == F!Spec => []F!TypeOK
<1>1. FilterInv => F!TypeOK
  BY DEF FilterInv, FilterTypes
<1> QED BY <1>1, FilterAlways, PTL

\* For any configurations and any failures what the panel shows as running is
\* in force in the packet filter.
THEOREM AckedGuardsHolds == F!Spec => []AckedGuards
<1>1. FilterInv => AckedGuards
  BY DEF FilterInv, InForce, AckedGuards
<1> QED BY <1>1, FilterAlways, PTL

\* For any ports, firewalls and accidents a port shown as opened stays open,
\* but for the exceptions that StaysOpen names.
THEOREM StaysOpenHolds == F!Spec => []StaysOpen
<1>1. FilterInv => StaysOpen
  BY DEF FilterInv, ShownOpen, StaysOpen, F!StaysOpen
<1> QED BY <1>1, FilterAlways, PTL

-----------------------------------------------------------------------------
(***************************************************************************)
(* Install, for any number of upgrades, installations and releases.        *)
(***************************************************************************)

Versions == 0 .. MaxVersion
Busy(u) == upgrade[u].st # "idle"

\* The program itself: of a version that is not older than the one shown, and
\* no file that is being written.
ProgramIs ==
  /\ data[exe] \in Versions /\ shown <= data[exe] /\ shown <= panel /\ panel <= served
  /\ runs # Nothing /\ tmp # exe

\* An upgrade whose session lasts asked for the panel's version; the one that has
\* program.new writes into no other file, unless another took its name away.
Owns(u) ==
  /\ Busy(u) /\ upgrade[u].live => upgrade[u].want = panel
  /\ I!Uses(u) => shown <= upgrade[u].want
  /\ upgrade[u].st = "load" => upgrade[u].fd # exe /\ (tmp # Nothing => tmp = upgrade[u].fd)
  /\ upgrade[u].st = "rename" => (tmp # Nothing => data[tmp] = upgrade[u].want)

Alone == \A u, v \in Upgrades : I!Uses(u) /\ I!Uses(v) => u = v

InstallTypes ==
  /\ I!TypeOK
  /\ \A u \in Upgrades : Busy(u) => upgrade[u].want \in Versions

\* The program of a core is renamed from a file of the installation's own.
CoreWhole ==
  core # Half /\ \A g \in Installs : inst[g].st \in {"write", "rename"} => inst[g].got = "whole"

InstallInv ==
  /\ InstallTypes /\ CoreWhole
  /\ ~crossed => ProgramIs /\ Alone /\ \A u \in Upgrades : Owns(u)

LEMMA InstallAssumed ==
  /\ MaxVersion \in Nat \ {0} /\ InstallFaults \in Nat
  /\ Nothing \notin Nat /\ Half \notin Nat \cup {Nothing, "whole"}
  /\ Nodes # {} /\ Nothing \notin Nodes
BY ServerAssumption DEF I!InstallAssumption, I!Whole

UpgradeTypes ==
  [st : {"idle", "get", "load", "check", "rename", "exit"},
   want : Versions \cup {Nothing}, fd : Nodes \cup {Nothing}, live : BOOLEAN]

LEMMA UpgradeTyped ==
  ASSUME I!TypeOK
  PROVE  /\ upgrade \in [Upgrades -> UpgradeTypes] /\ data \in [Nodes -> Versions \cup {Half, Nothing}]
         /\ \A u \in Upgrades :
              /\ upgrade[u].want \in Versions \cup {Nothing} /\ upgrade[u].fd \in Nodes \cup {Nothing}
              /\ upgrade[u].live \in BOOLEAN
         /\ exe \in Nodes /\ tmp \in Nodes \cup {Nothing}
         /\ panel \in Versions /\ served \in Versions /\ shown \in Versions
BY DEF I!TypeOK, UpgradeTypes, Versions

LEMMA InstallInit == I!Init => InstallInv
<1> SUFFICES ASSUME I!Init PROVE InstallInv
  OBVIOUS
<1>1. exe \in Nodes /\ data = [n \in Nodes |-> IF n = exe THEN 0 ELSE Nothing]
  BY InstallAssumed DEF I!Init
<1>2. upgrade = [u \in Upgrades |-> I!NoUpgrade] /\ inst = [g \in Installs |-> I!NoInstall]
  BY DEF I!Init
<1>3. /\ panel = 1 /\ served = 1 /\ shown = 0 /\ runs = 0 /\ tmp = Nothing /\ crossed = FALSE
      /\ core = Nothing /\ lost = 0
  BY DEF I!Init
<1>4. InstallTypes
  <2>1. upgrade \in [Upgrades -> UpgradeTypes] /\ \A u \in Upgrades : ~Busy(u)
    BY <1>2 DEF UpgradeTypes, I!NoUpgrade, Busy
  <2>2. inst \in [Installs -> [st : {"idle", "archive", "write", "rename"}, got : {"whole", Nothing}]]
    BY <1>2 DEF I!NoInstall
  <2>3. data \in [Nodes -> Versions \cup {Half, Nothing}]
    BY <1>1, InstallAssumed DEF Versions
  <2>4. 0 \in Versions /\ 1 \in Versions /\ 0 \in 0 .. InstallFaults
    BY InstallAssumed DEF Versions
  <2> QED BY <1>1, <1>3, <2>1, <2>2, <2>3, <2>4 DEF InstallTypes, I!TypeOK, UpgradeTypes, Versions, I!Whole
<1>5. CoreWhole
  BY <1>2, <1>3, InstallAssumed DEF CoreWhole, I!NoInstall
<1>6. ProgramIs /\ Alone /\ \A u \in Upgrades : Owns(u)
  BY <1>1, <1>2, <1>3, InstallAssumed DEF ProgramIs, Alone, Owns, Busy, I!Uses, I!NoUpgrade, Versions
<1> QED BY <1>4, <1>5, <1>6 DEF InstallInv

LEMMA FaultCounts == ASSUME I!TypeOK, I!Fault PROVE lost' \in 0 .. InstallFaults
BY InstallAssumed DEF I!TypeOK, I!Fault

\* Inodes that are in use keep what is in them.
LEMMA KeptData ==
  ASSUME NEW d \in [Nodes -> Versions \cup {Half, Nothing}], NEW e \in Nodes, NEW t, NEW us
  PROVE  /\ I!Kept(d, e, t, us) \in [Nodes -> Versions \cup {Half, Nothing}]
         /\ I!Kept(d, e, t, us)[e] = d[e]
         /\ t \in Nodes => I!Kept(d, e, t, us)[t] = d[t]
BY DEF I!Kept

\* One goroutine goes on.
LEMMA UpgradeMoves ==
  ASSUME I!TypeOK, NEW u \in Upgrades, NEW r \in UpgradeTypes, upgrade' = [upgrade EXCEPT ![u] = r]
  PROVE  /\ upgrade' \in [Upgrades -> UpgradeTypes]
         /\ \A v \in Upgrades : upgrade'[v] = IF v = u THEN r ELSE upgrade[v]
BY UpgradeTyped

LEMMA SessionOver ==
  ASSUME NEW r \in UpgradeTypes
  PROVE  /\ [r EXCEPT !.live = FALSE] \in UpgradeTypes
         /\ [r EXCEPT !.live = FALSE].st = r.st /\ [r EXCEPT !.live = FALSE].want = r.want
         /\ [r EXCEPT !.live = FALSE].fd = r.fd /\ ~[r EXCEPT !.live = FALSE].live
BY DEF UpgradeTypes

\* The panel's steps, and the loss of a session.
PanelAct == I!Release \/ I!PanelRestarts \/ I!SessionLost

LEMMA PanelKeeps == ASSUME InstallInv, PanelAct PROVE InstallInv'
<1> USE DEF InstallInv, InstallTypes
<1>1. UNCHANGED <<data, exe, tmp, runs, shown, crossed, core, inst>>
  BY DEF PanelAct, I!Release, I!PanelRestarts, I!SessionLost
<1>2. /\ panel' \in {panel, served} /\ panel' \in Versions /\ served' \in Versions /\ served <= served'
      /\ lost' \in 0 .. InstallFaults
  BY InstallAssumed, FaultCounts DEF PanelAct, I!Release, I!PanelRestarts, I!SessionLost, I!TypeOK, Versions
<1>3. (upgrade' = upgrade /\ panel' = panel) \/ upgrade' = I!Lose
  BY DEF PanelAct, I!Release, I!PanelRestarts, I!SessionLost
<1>4. /\ upgrade' \in [Upgrades -> UpgradeTypes]
      /\ \A u \in Upgrades : /\ upgrade'[u].st = upgrade[u].st /\ upgrade'[u].want = upgrade[u].want
                             /\ upgrade'[u].fd = upgrade[u].fd
                             /\ upgrade'[u].live => upgrade[u].live /\ panel' = panel
  BY <1>3, UpgradeTyped, SessionOver DEF I!Lose
<1>5. InstallTypes'
  BY <1>1, <1>2, <1>4 DEF I!TypeOK, UpgradeTypes, Versions, Busy
<1>6. CoreWhole'
  BY <1>1 DEF CoreWhole
<1>7. ASSUME ~crossed PROVE ProgramIs' /\ Alone' /\ \A u \in Upgrades : Owns(u)'
  <2>1. ProgramIs'
    BY <1>1, <1>2, <1>7, UpgradeTyped DEF ProgramIs, Versions
  <2>2. Alone'
    BY <1>4, <1>7 DEF Alone, I!Uses
  <2>3. \A u \in Upgrades : Owns(u)'
    BY <1>1, <1>2, <1>4, <1>7, UpgradeTyped DEF Owns, Busy, I!Uses, Versions
  <2> QED BY <2>1, <2>2, <2>3
<1> QED BY <1>1, <1>5, <1>6, <1>7

\* Who asks takes nothing from the others.
LEMMA AskKeeps == ASSUME InstallInv, NEW u \in Upgrades, I!Ask(u) PROVE InstallInv'
<1> DEFINE r == [I!NoUpgrade EXCEPT !.st = "get", !.want = served]
<1> USE DEF InstallInv, InstallTypes
<1>1. /\ upgrade' = [upgrade EXCEPT ![u] = r] /\ served = panel
      /\ UNCHANGED <<panel, served, data, exe, tmp, runs, shown, crossed, core, inst, lost>>
  BY DEF I!Ask
<1>2. r \in UpgradeTypes /\ r.st = "get" /\ r.want = served /\ r.want \in Versions
  BY UpgradeTyped DEF UpgradeTypes, I!NoUpgrade
<1> HIDE DEF r
<1>3. /\ upgrade' \in [Upgrades -> UpgradeTypes]
      /\ \A v \in Upgrades : upgrade'[v] = IF v = u THEN r ELSE upgrade[v]
  BY <1>1, <1>2, UpgradeMoves
<1>4. InstallTypes'
  BY <1>1, <1>2, <1>3 DEF I!TypeOK, UpgradeTypes, Versions, Busy
<1>5. CoreWhole'
  BY <1>1 DEF CoreWhole
<1>6. ASSUME ~crossed PROVE ProgramIs' /\ Alone' /\ \A v \in Upgrades : Owns(v)'
  <2>1. ProgramIs'
    BY <1>1, <1>6 DEF ProgramIs
  <2>2. Alone'
    BY <1>2, <1>3, <1>6 DEF Alone, I!Uses
  <2>3. ASSUME NEW v \in Upgrades PROVE Owns(v)'
    BY <1>1, <1>2, <1>3, <1>6 DEF Owns, Busy, I!Uses
  <2> QED BY <2>1, <2>2, <2>3
<1> QED BY <1>1, <1>4, <1>5, <1>6

\* One goroutine goes on, as the only one that has program.new or giving up: it
\* suffices that its own record and the program come out right.
LEMMA UpgradeKeeps ==
  ASSUME InstallInv, NEW u \in Upgrades, NEW r \in UpgradeTypes, Busy(u),
         upgrade' = [upgrade EXCEPT ![u] = r], r.st # "idle" => r.want \in Versions,
         data' \in [Nodes -> Versions \cup {Half, Nothing}], crossed' \in BOOLEAN,
         exe' \in Nodes, tmp' \in Nodes \cup {Nothing}, shown' \in Versions, lost' \in 0 .. InstallFaults,
         UNCHANGED <<panel, served, runs, core, inst>>,
         ~crossed' =>
           /\ ~crossed /\ ProgramIs' /\ Owns(u)'
           /\ \/ \A v \in Upgrades : I!Uses(v) => v = u
              \/ r.st = "idle" /\ tmp' = Nothing /\ exe' = exe /\ shown' = shown
  PROVE  InstallInv'
<1> USE DEF InstallInv, InstallTypes
<1>1. /\ upgrade' \in [Upgrades -> UpgradeTypes]
      /\ \A v \in Upgrades : upgrade'[v] = IF v = u THEN r ELSE upgrade[v]
  BY UpgradeMoves
<1>2. InstallTypes'
  BY <1>1 DEF I!TypeOK, UpgradeTypes, Versions, Busy
<1>3. CoreWhole'
  BY DEF CoreWhole
<1>4. ASSUME ~crossed' PROVE Alone' /\ \A v \in Upgrades : Owns(v)'
  <2>1. CASE \A v \in Upgrades : I!Uses(v) => v = u
    <3>1. \A v \in Upgrades : v # u => ~I!Uses(v) /\ ~I!Uses(v)'
      BY <1>1, <2>1 DEF I!Uses
    <3>2. Alone'
      BY <3>1 DEF Alone
    <3>3. ASSUME NEW v \in Upgrades, v # u PROVE Owns(v)'
      BY <1>1, <1>4, <3>1, <3>3 DEF Owns, Busy, I!Uses
    <3> QED BY <1>4, <3>2, <3>3
  <2>2. CASE r.st = "idle" /\ tmp' = Nothing /\ exe' = exe /\ shown' = shown
    <3>1. Alone'
      BY <1>1, <1>4, <2>2 DEF Alone, I!Uses
    <3>2. ASSUME NEW v \in Upgrades, v # u PROVE Owns(v)'
      BY <1>1, <1>4, <2>2, <3>2 DEF Owns, Busy, I!Uses
    <3> QED BY <1>4, <3>1, <3>2
  <2> QED BY <1>4, <2>1, <2>2
<1> QED BY <1>2, <1>3, <1>4

LEMMA OnlyUser ==
  ASSUME InstallInv, ~crossed, NEW u \in Upgrades, I!Uses(u)
  PROVE  \A v \in Upgrades : I!Uses(v) => v = u
BY DEF InstallInv, Alone

LEMMA OpenKeeps == ASSUME InstallInv, NEW u \in Upgrades, I!Open(u) PROVE InstallInv'
<1> DEFINE n == IF tmp # Nothing THEN tmp ELSE CHOOSE m \in Nodes : data[m] = Nothing
           r == [upgrade[u] EXCEPT !.st = "load", !.fd = n]
<1>1. /\ upgrade[u].st = "get" /\ upgrade' = [upgrade EXCEPT ![u] = r]
      /\ data' = [data EXCEPT ![n] = Half] /\ tmp' = n /\ upgrade[u].live
      /\ crossed' = (crossed \/ \E v \in Upgrades : I!Uses(v))
      /\ UNCHANGED <<panel, served, exe, runs, shown, core, inst, lost>>
  BY DEF I!Open, I!Step
<1>2. n \in Nodes /\ (tmp = Nothing => data[n] = Nothing) /\ (tmp # Nothing => n = tmp)
  BY UpgradeTyped DEF InstallInv, InstallTypes, I!Open
<1> HIDE DEF n
<1>3. r \in UpgradeTypes /\ r.st = "load" /\ r.fd = n /\ r.want = upgrade[u].want
      /\ r.live = upgrade[u].live
  BY <1>2, UpgradeTyped DEF InstallInv, InstallTypes, UpgradeTypes
<1> HIDE DEF r
<1>4. upgrade[u].want \in Versions /\ Busy(u)
  BY <1>1 DEF InstallInv, InstallTypes, Busy
<1>5. upgrade'[u] = r
  BY <1>1, <1>3, UpgradeMoves DEF InstallInv, InstallTypes
<1>6. ASSUME ~crossed'
      PROVE  ~crossed /\ ProgramIs' /\ Owns(u)' /\ \A v \in Upgrades : I!Uses(v) => v = u
  <2>0. ~crossed /\ \A v \in Upgrades : ~I!Uses(v)
    BY <1>1, <1>6
  <2>1. n # exe
    BY <1>2, <2>0, InstallAssumed DEF InstallInv, ProgramIs, Versions
  <2>2. data'[exe] = data[exe] /\ exe' = exe /\ shown' = shown /\ runs' = runs
    BY <1>1, <2>1, UpgradeTyped DEF InstallInv, InstallTypes
  <2>3. ProgramIs'
    BY <1>1, <2>0, <2>1, <2>2 DEF InstallInv, ProgramIs
  <2>4. Owns(u)'
    <3>1. upgrade[u].want = panel /\ shown <= panel /\ r.live
      BY <1>1, <1>3, <1>4, <2>0 DEF InstallInv, ProgramIs, Owns
    <3>2. (upgrade[u].want = panel)' /\ (upgrade[u].st = "load" /\ upgrade[u].fd = tmp /\ tmp # exe)'
      BY <1>1, <1>3, <1>5, <2>1, <3>1
    <3> QED BY <1>1, <3>1, <3>2 DEF Owns
  <2> QED BY <2>0, <2>3, <2>4
<1>7. data' \in [Nodes -> Versions \cup {Half, Nothing}]
  BY <1>1, <1>2, UpgradeTyped DEF InstallInv, InstallTypes
<1>8. crossed' \in BOOLEAN /\ exe' \in Nodes /\ tmp' \in Nodes \cup {Nothing} /\ shown' \in Versions /\ lost' \in 0 .. InstallFaults
  BY <1>1, <1>2, UpgradeTyped DEF InstallInv, InstallTypes, I!TypeOK
<1> QED BY <1>1, <1>3, <1>4, <1>6, <1>7, <1>8, UpgradeKeeps

LEMMA DownloadKeeps == ASSUME InstallInv, NEW u \in Upgrades, I!Downloaded(u) PROVE InstallInv'
<1> DEFINE r == [upgrade[u] EXCEPT !.st = "check", !.fd = Nothing]
<1>1. /\ upgrade[u].st = "load" /\ upgrade' = [upgrade EXCEPT ![u] = r]
      /\ UNCHANGED <<panel, served, exe, tmp, runs, shown, crossed, core, inst, lost>>
  BY DEF I!Downloaded, I!Step
<1>2. PICK w \in Versions \cup {Half, Nothing} : data' = [data EXCEPT ![upgrade[u].fd] = w]
  BY UpgradeTyped DEF InstallInv, InstallTypes, I!Downloaded
<1>3. r \in UpgradeTypes /\ r.st = "check" /\ r.want = upgrade[u].want
      /\ r.live = upgrade[u].live
  BY UpgradeTyped DEF InstallInv, InstallTypes, UpgradeTypes
<1> HIDE DEF r
<1>4. upgrade[u].want \in Versions /\ Busy(u)
  BY <1>1 DEF InstallInv, InstallTypes, Busy
<1>5. upgrade'[u] = r
  BY <1>1, <1>3, UpgradeMoves DEF InstallInv, InstallTypes
<1>6. data' \in [Nodes -> Versions \cup {Half, Nothing}]
  BY <1>2, UpgradeTyped DEF InstallInv, InstallTypes
<1>7. ASSUME ~crossed PROVE ProgramIs' /\ Owns(u)' /\ \A v \in Upgrades : I!Uses(v) => v = u
  <2>1. upgrade[u].fd # exe
    BY <1>1, <1>7 DEF InstallInv, ProgramIs, Owns
  <2>2. data'[exe] = data[exe]
    BY <1>2, <2>1, UpgradeTyped DEF InstallInv, InstallTypes
  <2>3. ProgramIs'
    BY <1>1, <1>7, <2>2 DEF InstallInv, ProgramIs
  <2>4. Owns(u)'
    <3>1. /\ upgrade[u].live => upgrade[u].want = panel
          /\ I!Uses(u) /\ shown <= upgrade[u].want
      BY <1>1, <1>4, <1>7 DEF InstallInv, Owns, I!Uses
    <3> QED BY <1>1, <1>3, <1>5, <3>1 DEF Owns
  <2>5. \A v \in Upgrades : I!Uses(v) => v = u
    BY <1>1, <1>7, OnlyUser DEF I!Uses
  <2> QED BY <2>3, <2>4, <2>5
<1>8. crossed' \in BOOLEAN /\ (~crossed' => ~crossed)
  BY <1>1 DEF InstallInv, InstallTypes, I!TypeOK
<1>9. exe' \in Nodes /\ tmp' \in Nodes \cup {Nothing} /\ shown' \in Versions /\ lost' \in 0 .. InstallFaults
  BY <1>1, UpgradeTyped DEF InstallInv, InstallTypes, I!TypeOK
<1> QED BY <1>1, <1>3, <1>4, <1>6, <1>7, <1>8, <1>9, UpgradeKeeps

\* An error takes program.new away, never the program.
LEMMA GiveUpKeeps ==
  ASSUME InstallInv, NEW u \in Upgrades, Busy(u), I!GiveUp(u), lost' \in 0 .. InstallFaults
  PROVE  InstallInv'
<1> DEFINE r == I!NoUpgrade
<1>1. /\ upgrade' = [upgrade EXCEPT ![u] = r] /\ tmp' = Nothing
      /\ data' = I!Kept(data, exe, Nothing, [upgrade EXCEPT ![u] = r])
      /\ UNCHANGED <<panel, served, exe, runs, shown, crossed, core, inst>>
  BY DEF I!GiveUp, I!Step
<1>2. r \in UpgradeTypes /\ r.st = "idle"
  BY DEF UpgradeTypes, I!NoUpgrade
<1> HIDE DEF r
<1>3. upgrade'[u] = r
  BY <1>1, <1>2, UpgradeMoves DEF InstallInv, InstallTypes
<1>4. data' \in [Nodes -> Versions \cup {Half, Nothing}] /\ data'[exe] = data[exe]
  BY <1>1, KeptData, UpgradeTyped DEF InstallInv, InstallTypes
<1>5. exe' \in Nodes /\ tmp' \in Nodes \cup {Nothing} /\ shown' \in Versions /\ Nothing # exe
  BY <1>1, UpgradeTyped, InstallAssumed DEF InstallInv, InstallTypes
<1>6. ASSUME ~crossed PROVE ProgramIs' /\ Owns(u)'
  BY <1>1, <1>2, <1>3, <1>4, <1>5, <1>6 DEF InstallInv, ProgramIs, Owns, Busy, I!Uses
<1>7. crossed' \in BOOLEAN /\ (~crossed' => ~crossed)
  BY <1>1 DEF InstallInv, InstallTypes, I!TypeOK
<1> QED BY <1>1, <1>2, <1>4, <1>5, <1>6, <1>7, UpgradeKeeps

LEMMA FailKeeps ==
  ASSUME InstallInv, NEW u \in Upgrades, I!DownloadFails(u) \/ I!CheckFails(u) \/ I!RenameFails(u)
  PROVE  InstallInv'
<1>1. Busy(u) /\ I!GiveUp(u)
  BY DEF I!DownloadFails, I!CheckFails, I!RenameFails, Busy
<1>2. lost' \in 0 .. InstallFaults
  BY FaultCounts DEF InstallInv, InstallTypes, I!TypeOK, I!DownloadFails, I!CheckFails, I!RenameFails
<1> QED BY <1>1, <1>2, GiveUpKeeps

LEMMA CheckKeeps == ASSUME InstallInv, NEW u \in Upgrades, I!Check(u) PROVE InstallInv'
<1> DEFINE r == [upgrade[u] EXCEPT !.st = "rename"]
<1>1. /\ upgrade[u].st = "check" /\ upgrade' = [upgrade EXCEPT ![u] = r]
      /\ tmp # Nothing /\ data[tmp] = upgrade[u].want
      /\ UNCHANGED <<panel, served, data, exe, tmp, runs, shown, crossed, core, inst, lost>>
  BY DEF I!Check, I!GoOn, I!Step, I!Sums
<1>3. r \in UpgradeTypes /\ r.st = "rename" /\ r.want = upgrade[u].want
      /\ r.live = upgrade[u].live
  BY UpgradeTyped DEF InstallInv, InstallTypes, UpgradeTypes
<1> HIDE DEF r
<1>4. upgrade[u].want \in Versions /\ Busy(u)
  BY <1>1 DEF InstallInv, InstallTypes, Busy
<1>5. upgrade'[u] = r
  BY <1>1, <1>3, UpgradeMoves DEF InstallInv, InstallTypes
<1>6. ASSUME ~crossed PROVE ProgramIs' /\ Owns(u)' /\ \A v \in Upgrades : I!Uses(v) => v = u
  <2>1. ProgramIs'
    BY <1>1, <1>6 DEF InstallInv, ProgramIs
  <2>2. Owns(u)'
    <3>1. /\ upgrade[u].live => upgrade[u].want = panel
          /\ I!Uses(u) /\ shown <= upgrade[u].want
      BY <1>1, <1>4, <1>6 DEF InstallInv, Owns, I!Uses
    <3> QED BY <1>1, <1>3, <1>5, <3>1 DEF Owns
  <2>3. \A v \in Upgrades : I!Uses(v) => v = u
    BY <1>1, <1>6, OnlyUser DEF I!Uses
  <2> QED BY <2>1, <2>2, <2>3
<1>7. crossed' \in BOOLEAN /\ (~crossed' => ~crossed)
  BY <1>1 DEF InstallInv, InstallTypes, I!TypeOK
<1>8. /\ data' \in [Nodes -> Versions \cup {Half, Nothing}] /\ exe' \in Nodes
      /\ tmp' \in Nodes \cup {Nothing} /\ shown' \in Versions /\ lost' \in 0 .. InstallFaults
  BY <1>1, UpgradeTyped DEF InstallInv, InstallTypes, I!TypeOK
<1> QED BY <1>1, <1>3, <1>4, <1>6, <1>7, <1>8, UpgradeKeeps

\* What gets the name of the program is what was checked under it.
LEMMA RenameKeeps == ASSUME InstallInv, NEW u \in Upgrades, I!Rename(u) PROVE InstallInv'
<1> DEFINE r == [upgrade[u] EXCEPT !.st = "exit"]
<1>1. /\ upgrade[u].st = "rename" /\ upgrade' = [upgrade EXCEPT ![u] = r]
      /\ tmp # Nothing /\ exe' = tmp /\ tmp' = Nothing
      /\ data' = I!Kept(data, tmp, Nothing, upgrade')
      /\ shown' = IF upgrade[u].live THEN upgrade[u].want ELSE shown
      /\ UNCHANGED <<panel, served, runs, crossed, core, inst, lost>>
  BY DEF I!Rename, I!GoOn, I!Step
<1>3. r \in UpgradeTypes /\ r.st = "exit" /\ r.want = upgrade[u].want
      /\ r.live = upgrade[u].live
  BY UpgradeTyped DEF InstallInv, InstallTypes, UpgradeTypes
<1> HIDE DEF r
<1>4. upgrade[u].want \in Versions /\ Busy(u)
  BY <1>1 DEF InstallInv, InstallTypes, Busy
<1>5. upgrade'[u] = r
  BY <1>1, <1>3, UpgradeMoves DEF InstallInv, InstallTypes
<1>6. tmp \in Nodes /\ data' \in [Nodes -> Versions \cup {Half, Nothing}] /\ data'[tmp] = data[tmp]
  BY <1>1, KeptData, UpgradeTyped DEF InstallInv, InstallTypes
<1>7. /\ exe' \in Nodes /\ tmp' \in Nodes \cup {Nothing} /\ shown' \in Versions
      /\ lost' \in 0 .. InstallFaults /\ Nothing # tmp
  BY <1>1, <1>4, <1>6, UpgradeTyped, InstallAssumed DEF InstallInv, InstallTypes, I!TypeOK
<1>8. ASSUME ~crossed PROVE ProgramIs' /\ Owns(u)' /\ \A v \in Upgrades : I!Uses(v) => v = u
  <2>1. /\ data[tmp] = upgrade[u].want /\ shown <= upgrade[u].want /\ I!Uses(u)
        /\ upgrade[u].live => upgrade[u].want = panel
    BY <1>1, <1>4, <1>8 DEF InstallInv, Owns, I!Uses
  <2>2. shown <= panel /\ panel <= served /\ runs # Nothing
    BY <1>8 DEF InstallInv, ProgramIs
  <2>3. shown' <= upgrade[u].want /\ shown' <= panel
    BY <1>1, <1>4, <2>1, <2>2 DEF Versions
  <2>4. ProgramIs'
    BY <1>1, <1>4, <1>6, <1>7, <2>1, <2>2, <2>3 DEF ProgramIs
  <2>5. Owns(u)'
    BY <1>1, <1>3, <1>5, <2>1 DEF Owns, I!Uses
  <2>6. \A v \in Upgrades : I!Uses(v) => v = u
    BY <1>8, <2>1, OnlyUser
  <2> QED BY <2>4, <2>5, <2>6
<1>9. crossed' \in BOOLEAN /\ (~crossed' => ~crossed)
  BY <1>1 DEF InstallInv, InstallTypes, I!TypeOK
<1> QED BY <1>1, <1>3, <1>4, <1>6, <1>7, <1>8, <1>9, UpgradeKeeps

\* After a restart nobody is under way, and the program starts.
LEMMA RestartKeeps ==
  ASSUME InstallInv, I!Restarted, lost' \in 0 .. InstallFaults
  PROVE  InstallInv'
<1> USE DEF InstallInv, InstallTypes
<1>1. /\ runs' = IF data[exe] = Half THEN Nothing ELSE data[exe]
      /\ upgrade' = [u \in Upgrades |-> I!NoUpgrade] /\ inst' = [g \in Installs |-> I!NoInstall]
      /\ data' = I!Kept(data, exe, tmp, upgrade')
      /\ UNCHANGED <<panel, served, exe, tmp, shown, crossed, core>>
  BY DEF I!Restarted
<1>2. upgrade' \in [Upgrades -> UpgradeTypes] /\ \A u \in Upgrades : upgrade'[u].st = "idle"
  BY <1>1 DEF UpgradeTypes, I!NoUpgrade
<1>3. /\ inst' \in [Installs -> [st : {"idle", "archive", "write", "rename"}, got : {"whole", Nothing}]]
      /\ \A g \in Installs : inst'[g].st = "idle"
  BY <1>1 DEF I!NoInstall
<1>4. data' \in [Nodes -> Versions \cup {Half, Nothing}] /\ data'[exe] = data[exe]
  BY <1>1, KeptData, UpgradeTyped
<1>5. runs' \in Versions \cup {Nothing}
  BY <1>1, UpgradeTyped
<1>6. InstallTypes'
  BY <1>1, <1>2, <1>3, <1>4, <1>5 DEF I!TypeOK, UpgradeTypes, Versions, Busy, I!Whole
<1>7. CoreWhole'
  BY <1>1, <1>3 DEF CoreWhole
<1>8. ASSUME ~crossed PROVE ProgramIs' /\ Alone' /\ \A u \in Upgrades : Owns(u)'
  <2>1. ProgramIs'
    BY <1>1, <1>4, <1>8, InstallAssumed DEF ProgramIs, Versions
  <2>2. Alone' /\ \A u \in Upgrades : Owns(u)'
    BY <1>2 DEF Alone, Owns, Busy, I!Uses
  <2> QED BY <2>1, <2>2
<1> QED BY <1>1, <1>6, <1>7, <1>8

\* Installing a core touches nothing of the Agent's own program.
CoreAct ==
  I!RemoveCore \/ \E g \in Installs : I!Missing(g) \/ I!Unpacked(g) \/ I!WriteTemp(g) \/ I!RenameCore(g)

LEMMA CoreKeeps == ASSUME InstallInv, CoreAct PROVE InstallInv'
<1> USE DEF InstallInv, InstallTypes
<1>1. UNCHANGED I!upgradeVars
  BY DEF CoreAct, I!RemoveCore, I!Missing, I!Unpacked, I!WriteTemp, I!RenameCore
<1>2. lost' \in 0 .. InstallFaults
  BY FaultCounts DEF CoreAct, I!RemoveCore, I!Missing, I!Unpacked, I!WriteTemp, I!RenameCore, I!TypeOK
<1>3. core' \in {"whole", Half, Nothing} /\ core' # Half
  BY InstallAssumed
     DEF CoreAct, CoreWhole, I!RemoveCore, I!Missing, I!Unpacked, I!WriteTemp, I!RenameCore, I!TypeOK, I!Whole
<1>4. /\ inst' \in [Installs -> [st : {"idle", "archive", "write", "rename"}, got : {"whole", Nothing}]]
      /\ \A g \in Installs : inst'[g].st \in {"write", "rename"} => inst'[g].got = "whole"
  <2> DEFINE Records == [st : {"idle", "archive", "write", "rename"}, got : {"whole", Nothing}]
  <2>1. ASSUME NEW g \in Installs, NEW r \in Records, inst' = [inst EXCEPT ![g] = r],
               r.st \in {"write", "rename"} => r.got = "whole"
        PROVE  /\ inst' \in [Installs -> Records]
               /\ \A h \in Installs : inst'[h].st \in {"write", "rename"} => inst'[h].got = "whole"
    BY <2>1 DEF I!TypeOK, I!Whole, CoreWhole
  <2>2. CASE I!RemoveCore
    BY <2>2 DEF I!RemoveCore, I!TypeOK, I!Whole, CoreWhole
  <2>3. ASSUME NEW g \in Installs, I!Missing(g) \/ I!Unpacked(g) \/ I!WriteTemp(g) \/ I!RenameCore(g)
        PROVE  \E r \in Records :
                 (r.st \in {"write", "rename"} => r.got = "whole") /\ inst' = [inst EXCEPT ![g] = r]
    <3> DEFINE archive == [I!NoInstall EXCEPT !.st = "archive"]
               write == [st |-> "write", got |-> I!Whole]
               rename == [inst[g] EXCEPT !.st = "rename"]
    <3>1. inst[g] \in Records /\ I!NoInstall \in Records /\ archive \in Records /\ write \in Records
      BY DEF I!TypeOK, I!Whole, I!NoInstall
    <3>2. I!NoInstall.st = "idle" /\ archive.st = "archive" /\ write.got = "whole"
      BY DEF I!Whole, I!NoInstall
    <3>3. inst[g].st = "write" => rename \in Records /\ rename.got = "whole"
      BY <3>1 DEF CoreWhole
    <3>4. \/ inst' = [inst EXCEPT ![g] = archive] \/ inst' = [inst EXCEPT ![g] = write]
          \/ inst' = [inst EXCEPT ![g] = I!NoInstall]
          \/ inst[g].st = "write" /\ inst' = [inst EXCEPT ![g] = rename]
      BY <2>3 DEF I!Missing, I!Unpacked, I!WriteTemp, I!RenameCore, I!InstStep
    <3> HIDE DEF archive, write, rename
    <3> QED BY <3>1, <3>2, <3>3, <3>4
  <2> QED BY <2>1, <2>2, <2>3 DEF CoreAct
<1>5. InstallTypes' /\ CoreWhole'
  BY <1>1, <1>2, <1>3, <1>4 DEF I!upgradeVars, I!TypeOK, I!Whole, CoreWhole, Busy
<1>6. ~crossed' => ProgramIs' /\ Alone' /\ \A u \in Upgrades : Owns(u)'
  BY <1>1 DEF I!upgradeVars, ProgramIs, Alone, Owns, Busy, I!Uses
<1> QED BY <1>5, <1>6

LEMMA InstallNext == InstallInv /\ [I!Next]_(I!installVars) => InstallInv'
<1> SUFFICES ASSUME InstallInv, [I!Next]_(I!installVars) PROVE InstallInv'
  OBVIOUS
<1>1. CASE UNCHANGED I!installVars
  BY <1>1 DEF I!installVars, I!upgradeVars, InstallInv, InstallTypes, I!TypeOK, CoreWhole, ProgramIs,
     Alone, Owns, Busy, I!Uses
<1>2. CASE PanelAct
  BY <1>2, PanelKeeps
<1>3. CASE I!Crash
  <2>1. lost' \in 0 .. InstallFaults
    BY <1>3, FaultCounts DEF I!Crash, InstallInv, InstallTypes
  <2> QED BY <1>3, <2>1, RestartKeeps DEF I!Crash
<1>4. ASSUME NEW u \in Upgrades, I!Exit(u) PROVE InstallInv'
  <2>1. lost' \in 0 .. InstallFaults
    BY <1>4 DEF I!Exit, InstallInv, InstallTypes, I!TypeOK
  <2> QED BY <1>4, <2>1, RestartKeeps DEF I!Exit
<1>5. ASSUME NEW u \in Upgrades,
             \/ I!Ask(u) \/ I!Open(u) \/ I!Downloaded(u) \/ I!DownloadFails(u)
             \/ I!Check(u) \/ I!CheckFails(u) \/ I!Rename(u) \/ I!RenameFails(u)
      PROVE  InstallInv'
  BY <1>5, AskKeeps, OpenKeeps, DownloadKeeps, FailKeeps, CheckKeeps, RenameKeeps
<1>6. CASE CoreAct
  BY <1>6, CoreKeeps
<1> QED BY <1>1, <1>2, <1>3, <1>4, <1>5, <1>6
        DEF I!Next, I!UpgradeNext, I!CoreNext, PanelAct, CoreAct

LEMMA InstallAlways == I!Spec => []InstallInv
BY InstallInit, InstallNext, PTL DEF I!Spec

\* Programs, their inodes, upgrades and installations keep their types.
THEOREM InstallTypeCorrect == I!Spec => []I!TypeOK
<1>1. InstallInv => I!TypeOK
  BY DEF InstallInv, InstallTypes
<1> QED BY <1>1, InstallAlways, PTL

\* For any number of goroutines, releases and accidents the programs under their
\* own names are whole, and the Agent's is not older than the one shown, as long
\* as no upgrade opened program.new while another had it.
THEOREM ProgramsWholeHolds == I!Spec => []ProgramsWhole
<1>1. InstallInv => ProgramsWhole
  <2> SUFFICES ASSUME InstallInv PROVE ProgramsWhole
    OBVIOUS
  <2>1. core # Half
    BY DEF InstallInv, CoreWhole
  <2>2. ~crossed => data[exe] \in Versions /\ data[exe] >= shown /\ runs # Nothing
    BY UpgradeTyped DEF InstallInv, InstallTypes, ProgramIs, Versions
  <2> QED BY <2>1, <2>2, InstallAssumed DEF ProgramsWhole, I!ProgramsWhole, Versions
<1> QED BY <1>1, InstallAlways, PTL

-----------------------------------------------------------------------------
(* All that an Agent does on its server, as TLC runs it.                      *)

LEMMA ServerParts ==
  /\ ServerInit => Init /\ K!Init /\ F!Init /\ I!Init
  /\ [ServerNext]_<<vars, kickState, filterState, programState, part>> =>
       [Next]_vars /\ [K!Next]_(K!kickVars) /\ [F!Next]_(F!firewallVars) /\ [I!Next]_(I!installVars)
<1>1. ServerInit => Init /\ K!Init /\ F!Init /\ I!Init
  BY DEF ServerInit
<1>2. /\ UNCHANGED kickState => UNCHANGED K!kickVars
      /\ UNCHANGED filterState => UNCHANGED F!firewallVars
      /\ UNCHANGED programState => UNCHANGED I!installVars
  BY DEF kickState, filterState, programState, K!kickVars, F!firewallVars, F!applyVars, F!allowVars,
         I!installVars, I!upgradeVars
<1>3. UNCHANGED <<vars, kickState, filterState, programState, part>> =>
        UNCHANGED vars /\ UNCHANGED kickState /\ UNCHANGED filterState /\ UNCHANGED programState
  OBVIOUS
<1>4. I!UpgradeNext \/ I!CoreNext => I!Next
  BY DEF I!Next
<1>5. ServerNext => /\ Next \/ UNCHANGED vars
                    /\ K!Next \/ UNCHANGED kickState
                    /\ F!Next \/ UNCHANGED filterState
                    /\ I!Next \/ UNCHANGED programState
  BY <1>4, Zenon DEF ServerNext
<1> QED BY <1>1, <1>2, <1>3, <1>5, Zenon

\* What the cores, kicks, the packet filter and the programs promise holds of
\* the joined specification, whichever of them runs.
THEOREM ServerHolds ==
  ServerSpec =>
    /\ [](OnlyAccepted /\ StatsAskTheRunning /\ KickedComeBack /\ AckedGuards /\ StaysOpen /\ ProgramsWhole)
    /\ OnlyRemovalForgets
<1>1. ServerSpec => Spec
  BY ServerParts, PTL DEF ServerSpec, Spec
<1>2. ServerSpec => K!Spec
  BY ServerParts, PTL DEF ServerSpec, K!Spec
<1>3. ServerSpec => F!Spec
  BY ServerParts, PTL DEF ServerSpec, F!Spec
<1>4. ServerSpec => I!Spec
  BY ServerParts, PTL DEF ServerSpec, I!Spec
<1> QED BY <1>1, <1>2, <1>3, <1>4, OnlyAcceptedHolds, StatsAskTheRunningHolds, KickedComeBackHolds,
           AckedGuardsHolds, StaysOpenHolds, ProgramsWholeHolds, OnlyRemovalForgetsHolds, PTL
=============================================================================
