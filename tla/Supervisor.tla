----------------------------- MODULE Supervisor -----------------------------
(***************************************************************************)
(* What Cores (internal/agent/cores.go) does with the core processes of a  *)
(* server: Apply stops, checks, starts and rolls back one core after the   *)
(* other, the watchdog restarts a core that died, Remove uninstalls one.   *)
(* Apply and the watchdog hold c.mu throughout, so they never overlap, but *)
(* processes die and other programs take ports at any time.                *)
(*                                                                         *)
(* The cores are the two that are configured by a JSON file and run as     *)
(* children.  A configuration stands for its text, the ports it listens on *)
(* and the address of its statistics API.                                  *)
(***************************************************************************)
EXTENDS Naturals, Sequences, FiniteSets

CONSTANTS
  CoreNames,   \* "xray", "singbox"
  Order,       \* the sequence in which Apply goes through them
  Configs,     \* configurations of one core
  NoConfig,    \* no inbound of this core on this server: nothing to run
  Torn,        \* a file cut off by a write that failed
  Ports,       \* public ports
  Listens,     \* the ports of each configuration
  Broken,      \* configurations the core exits on
  Targets,     \* what the panel may ask for, by core
  Carried,     \* those under which the server carries a customer's line, so that
               \* enforceOnce pushes it every 30 s
  CrashLimit,  \* failed restarts the watchdog allows ...
  Window,      \* ... in this many ticks (5 in two minutes of 4 s ticks)
  MaxEvents    \* bound on edits, accidents and faults

ASSUME SupervisorAssumption ==
  /\ NoConfig \notin Configs /\ Torn \notin Configs /\ Torn # NoConfig
  /\ Listens \in [Configs -> SUBSET Ports]
  /\ Broken \subseteq Configs
  /\ Targets \subseteq [CoreNames -> Configs \cup {NoConfig}]
  /\ Carried \subseteq Targets
  /\ Order \in Seq(CoreNames)
  /\ CrashLimit \in Nat /\ Window \in Nat \ {0} /\ MaxEvents \in Nat

\* Apply leaves no core out.
ASSUME OrderAssumption == \A c \in CoreNames : \E i \in DOMAIN Order : Order[i] = c

VARIABLES
  target,   \* what the panel wants
  acked,    \* the panel has been told that this runs
  asked,    \* a push is on its way that no Apply has begun for
  want,     \* the configuration of the Apply holding c.mu
  next,     \* its position in Order; 0 when c.mu is free
  errs,     \* the cores that refused in it
  file,     \* <core>.json
  last,     \* c.last
  lastReq,  \* c.lastReq
  api,      \* c.xrayAPI, c.singboxAPI: whose statistics are asked for
  proc,     \* what the live child runs
  crashes,  \* c.crashes: ages, in ticks, of the watchdog's failed starts
  foreign,  \* ports held by other programs
  spoiled,  \* a rollback could not write the old file back
  removing, \* cores whose removal the panel has checked and asked for
  events    \* bound

vars == <<target, acked, asked, want, next, errs, file, last, lastReq, api, proc,
          crashes, foreign, spoiled, removing, events>>
panelVars == <<target, acked, asked>>
otherVars == <<foreign, removing>>
applyVars == <<want, next, errs>>
keptVars == <<last, lastReq, api>>

Init ==
  /\ target \in Targets /\ want = target
  /\ acked = FALSE /\ asked = TRUE /\ next = 0 /\ errs = {} /\ events = 0
  /\ file = [c \in CoreNames |-> NoConfig]
  /\ last = [c \in CoreNames |-> NoConfig]
  /\ lastReq = [c \in CoreNames |-> NoConfig]
  /\ api = [c \in CoreNames |-> NoConfig]
  /\ proc = [c \in CoreNames |-> NoConfig]
  /\ crashes = [c \in CoreNames |-> {}]
  /\ spoiled = [c \in CoreNames |-> FALSE]
  /\ foreign \in SUBSET Ports /\ removing = {}

-----------------------------------------------------------------------------
Event == events < MaxEvents /\ events' = events + 1

Alive(c) == proc[c] # NoConfig
PortsOf(cfg) == IF cfg \in Configs THEN Listens[cfg] ELSE {}

\* Ports core c cannot bind.
Held(c) == foreign \cup UNION {PortsOf(proc[d]) : d \in CoreNames \ {c}}

\* A child started on this file is still there after 600 ms.
Starts(c, cfg) == cfg \in Configs \ Broken /\ PortsOf(cfg) \cap Held(c) = {}

-----------------------------------------------------------------------------
(* Apply: one step per core, under c.mu.                                    *)

\* A push that was asked for, or the tick's.
BeginApply ==
  /\ next = 0 /\ (asked \/ target \in Carried)
  /\ want' = target /\ next' = 1 /\ errs' = {} /\ asked' = FALSE
  /\ UNCHANGED <<target, acked, file, last, lastReq, api, proc, crashes, otherVars, spoiled, events>>

Turn(c) == next \in DOMAIN Order /\ Order[next] = c

\* The next core is up; this one accepted or refused.
Accepted == next' = next + 1 /\ errs' = errs
Refused(c) == next' = next + 1 /\ errs' = errs \cup {c}

\* No configuration for this core: stop it and forget it.
ApplyNothing(c) ==
  /\ Turn(c) /\ want[c] = NoConfig
  /\ proc' = [proc EXCEPT ![c] = NoConfig]
  /\ file' = [file EXCEPT ![c] = NoConfig]
  /\ last' = [last EXCEPT ![c] = NoConfig]
  /\ lastReq' = [lastReq EXCEPT ![c] = NoConfig]
  /\ api' = [api EXCEPT ![c] = NoConfig]
  /\ spoiled' = [spoiled EXCEPT ![c] = FALSE]
  /\ Accepted
  /\ UNCHANGED <<panelVars, want, crashes, otherVars, events>>

\* The binary is missing and could not be installed: nothing is touched.
ApplyNoBinary(c) ==
  /\ Turn(c) /\ want[c] # NoConfig
  /\ Event /\ Refused(c)
  /\ UNCHANGED <<panelVars, want, file, keptVars, proc, crashes, otherVars, spoiled>>

Unchanged(c) == want[c] = lastReq[c] /\ Alive(c)

\* The same request and a live process: nothing to do.
ApplySame(c) ==
  /\ Turn(c) /\ want[c] # NoConfig /\ Unchanged(c)
  /\ api' = [api EXCEPT ![c] = want[c]]
  /\ Accepted
  /\ UNCHANGED <<panelVars, want, file, last, lastReq, proc, crashes, otherVars, spoiled, events>>

\* The new file passes the core's own check, and the child stays up.
ApplyStarted(c) ==
  /\ Turn(c) /\ want[c] # NoConfig /\ ~Unchanged(c) /\ Starts(c, want[c])
  /\ proc' = [proc EXCEPT ![c] = want[c]]
  /\ file' = [file EXCEPT ![c] = want[c]]
  /\ last' = [last EXCEPT ![c] = want[c]]
  /\ lastReq' = [lastReq EXCEPT ![c] = want[c]]
  /\ api' = [api EXCEPT ![c] = want[c]]
  /\ spoiled' = [spoiled EXCEPT ![c] = FALSE]
  /\ Accepted
  /\ UNCHANGED <<panelVars, want, crashes, otherVars, events>>

\* n more of the bounded events.
Costs(n) == events + n <= MaxEvents /\ events' = events + n

\* Mutant: the refused file stays where it is.
RollbackKeepingFile(c, left, n) ==
  /\ file' = [file EXCEPT ![c] = IF last[c] = NoConfig THEN NoConfig ELSE left]
  /\ proc' = [proc EXCEPT ![c] = IF Starts(c, last[c]) THEN last[c] ELSE NoConfig]
  /\ spoiled' = [spoiled EXCEPT ![c] = FALSE]
  /\ Costs(n)

\* rollbackJSON: back to the configuration accepted last.  Left is what the
\* refused attempt left in the file, n the events it took.
Rollback(c, left, n) ==
  \/ /\ last[c] = NoConfig
     /\ file' = [file EXCEPT ![c] = NoConfig]
     /\ proc' = [proc EXCEPT ![c] = NoConfig]
     /\ spoiled' = [spoiled EXCEPT ![c] = FALSE]
     /\ Costs(n)
  \/ /\ last[c] # NoConfig
     /\ file' = [file EXCEPT ![c] = last[c]]
     /\ proc' = [proc EXCEPT ![c] = IF Starts(c, last[c]) THEN last[c] ELSE NoConfig]
     /\ spoiled' = [spoiled EXCEPT ![c] = FALSE]
     /\ Costs(n)
  \/ /\ last[c] # NoConfig
     /\ \E f \in {left, Torn} : file' = [file EXCEPT ![c] = f]
     /\ proc' = [proc EXCEPT ![c] = NoConfig]
     /\ spoiled' = [spoiled EXCEPT ![c] = TRUE]
     /\ Costs(n + 1)

\* Mutant: statistics are asked at the refused configuration's address.
GiveUpAskingNew(c) ==
  /\ Refused(c) /\ api' = [api EXCEPT ![c] = want[c]]
  /\ UNCHANGED <<panelVars, want, last, lastReq, crashes, otherVars>>

GiveUp(c) == Refused(c) /\ UNCHANGED <<panelVars, want, keptVars, crashes, otherVars>>

Differs(c) == Turn(c) /\ want[c] # NoConfig /\ ~Unchanged(c)

\* dropOccupiedListen finds one of its ports taken; nothing was written yet.
ApplyBusy(c) ==
  /\ Differs(c) /\ PortsOf(want[c]) \cap Held(c) # {}
  /\ Rollback(c, file[c], 0) /\ GiveUp(c)

\* testCoreConfig refuses the new file, or the child exits at once.
ApplyRejected(c) ==
  /\ Differs(c) /\ PortsOf(want[c]) \cap Held(c) = {} /\ want[c] \in Broken
  /\ Rollback(c, want[c], 0) /\ GiveUp(c)

\* The file cannot be written, the check takes more than 8 s, a port is taken
\* between probe and start.
ApplyAccident(c) ==
  /\ Differs(c) /\ PortsOf(want[c]) \cap Held(c) = {}
  /\ \E left \in {file[c], Torn, want[c]} : Rollback(c, left, 1)
  /\ GiveUp(c)

\* Mutant: the panel is told the configuration runs whatever the cores said.
EndApplyTrusting ==
  /\ next = Len(Order) + 1
  /\ acked' = (want = target) /\ next' = 0 /\ errs' = {} /\ want' = target
  /\ UNCHANGED <<target, asked, file, keptVars, proc, crashes, otherVars, spoiled, events>>

\* Mutant: an answer to an older configuration is taken for the current one.
EndApplyStale ==
  /\ next = Len(Order) + 1
  /\ acked' = (errs = {}) /\ next' = 0 /\ errs' = {} /\ want' = target
  /\ UNCHANGED <<target, asked, file, keptVars, proc, crashes, otherVars, spoiled, events>>

\* The answer: one refusal makes it an error.  pushServer does not repeat an Apply
\* that was refused; the next push of the server does.
EndApply ==
  /\ next = Len(Order) + 1
  /\ acked' = (want = target /\ errs = {})
  /\ next' = 0 /\ errs' = {} /\ want' = target
  /\ UNCHANGED <<target, asked, file, keptVars, proc, crashes, otherVars, spoiled, events>>

ApplyStep(c) ==
  \/ ApplyNothing(c) \/ ApplySame(c) \/ ApplyStarted(c)
  \/ ApplyBusy(c) \/ ApplyRejected(c)

-----------------------------------------------------------------------------
(* The watchdog: every 4 s, under c.mu.                                     *)

\* A core that should run and does not is started on the file as it lies.
Watch(c) ==
  /\ next = 0 /\ last[c] # NoConfig /\ ~Alive(c)
  /\ Cardinality(crashes[c]) < CrashLimit /\ 0 \notin crashes[c]
  /\ IF Starts(c, file[c])
       THEN proc' = [proc EXCEPT ![c] = file[c]] /\ UNCHANGED crashes
       ELSE crashes' = [crashes EXCEPT ![c] = @ \cup {0}] /\ UNCHANGED proc
  /\ UNCHANGED <<panelVars, applyVars, file, keptVars, otherVars, spoiled, events>>

\* Mutant: old crashes are never forgotten.
TickKeeping ==
  /\ crashes' = [c \in CoreNames |->
                   IF Window - 1 \in crashes[c] THEN crashes[c] ELSE {a + 1 : a \in crashes[c]}]
  /\ UNCHANGED <<panelVars, applyVars, file, keptVars, proc, otherVars, spoiled, events>>

Tick ==
  /\ crashes' = [c \in CoreNames |-> {a + 1 : a \in crashes[c]} \ {Window}]
  /\ UNCHANGED <<panelVars, applyVars, file, keptVars, proc, otherVars, spoiled, events>>

-----------------------------------------------------------------------------
(* Everything else.                                                         *)

\* The administrator or a reset changes what should run, or somebody asks for the
\* same again.
Push(t) ==
  /\ Event
  /\ target' = t /\ acked' = (acked /\ t = target) /\ asked' = TRUE
  /\ want' = IF next = 0 THEN t ELSE want
  /\ UNCHANGED <<next, errs, file, keptVars, proc, crashes, otherVars, spoiled>>

Die(c) ==
  /\ Event /\ Alive(c)
  /\ proc' = [proc EXCEPT ![c] = NoConfig]
  /\ UNCHANGED <<panelVars, applyVars, file, keptVars, crashes, otherVars, spoiled>>

\* Another program takes a port nobody holds, or lets go of one.
TakePort(p) ==
  /\ Event /\ p \notin foreign /\ \A c \in CoreNames : p \notin PortsOf(proc[c])
  /\ foreign' = foreign \cup {p}
  /\ UNCHANGED <<panelVars, applyVars, file, keptVars, proc, crashes, spoiled, removing>>

FreePort(p) ==
  /\ p \in foreign /\ foreign' = foreign \ {p}
  /\ UNCHANGED <<panelVars, applyVars, file, keptVars, proc, crashes, spoiled, removing, events>>

\* handleRemoveCore: no inbound uses the core, so the Agent is asked to
\* uninstall it.
AskRemove(c) ==
  /\ Event /\ target[c] = NoConfig
  /\ removing' = removing \cup {c}
  /\ UNCHANGED <<panelVars, applyVars, file, keptVars, proc, crashes, foreign, spoiled>>

\* The request arrives and gets c.mu.  The panel does not mark the server dirty.
Remove(c) ==
  /\ c \in removing /\ next = 0
  /\ removing' = removing \ {c}
  /\ proc' = [proc EXCEPT ![c] = NoConfig]
  /\ file' = [file EXCEPT ![c] = NoConfig]
  /\ last' = [last EXCEPT ![c] = NoConfig]
  /\ lastReq' = [lastReq EXCEPT ![c] = NoConfig]
  /\ crashes' = [crashes EXCEPT ![c] = {}]
  /\ spoiled' = [spoiled EXCEPT ![c] = FALSE]
  /\ UNCHANGED <<panelVars, applyVars, api, foreign, events>>

\* The Agent ends, its children with it, and reconnects: only the files stay.
AgentRestart ==
  /\ Event
  /\ acked' = FALSE /\ asked' = TRUE /\ next' = 0 /\ errs' = {} /\ want' = target
  /\ proc' = [c \in CoreNames |-> NoConfig]
  /\ last' = [c \in CoreNames |-> NoConfig]
  /\ lastReq' = [c \in CoreNames |-> NoConfig]
  /\ api' = [c \in CoreNames |-> NoConfig]
  /\ crashes' = [c \in CoreNames |-> {}]
  /\ spoiled' = [c \in CoreNames |-> FALSE]
  /\ removing' = {}
  /\ UNCHANGED <<target, file, foreign>>

CoreStep(c) ==
  \/ ApplyStep(c) \/ ApplyNoBinary(c) \/ ApplyAccident(c)
  \/ Watch(c) \/ Die(c) \/ AskRemove(c) \/ Remove(c)

Next ==
  \/ BeginApply \/ EndApply \/ Tick \/ AgentRestart
  \/ \E c \in CoreNames : CoreStep(c)
  \/ \E t \in Targets : Push(t)
  \/ \E p \in Ports : TakePort(p) \/ FreePort(p)

Spec == Init /\ [][Next]_vars

\* A push that was asked for arrives, and the 30 s tick goes on pushing a server that
\* carries customers' lines (and no other); an Apply that has begun finishes, the
\* watchdog's ticker runs.  A mutex makes a waiter starve for a millisecond
\* at most before it is next, so the watchdog gets in between two Applys.
Fairness ==
  /\ WF_vars(BeginApply) /\ WF_vars(EndApply) /\ WF_vars(Tick)
  /\ \A c \in CoreNames : WF_vars(ApplyStep(c)) /\ SF_vars(Watch(c))

FairSpec == Spec /\ Fairness

-----------------------------------------------------------------------------
TypeOK ==
  LET Contents == Configs \cup {NoConfig}
  IN  /\ target \in Targets /\ want \in Targets
      /\ acked \in BOOLEAN /\ asked \in BOOLEAN
      /\ next \in 0 .. Len(Order) + 1
      /\ errs \subseteq CoreNames
      /\ file \in [CoreNames -> Contents \cup {Torn}]
      /\ last \in [CoreNames -> Contents] /\ lastReq \in [CoreNames -> Contents]
      /\ api \in [CoreNames -> Contents]
      /\ proc \in [CoreNames -> Contents]
      /\ crashes \in [CoreNames -> SUBSET (0 .. Window - 1)]
      /\ foreign \subseteq Ports /\ removing \subseteq CoreNames
      /\ spoiled \in [CoreNames -> BOOLEAN]
      /\ events \in 0 .. MaxEvents

\* A child runs the configuration its core accepted last, the same one a
\* repeated request is compared with: neither a rollback nor the watchdog ever
\* brings up a refused one.  The exception is a rollback that could not write
\* the file, for the watchdog starts what lies there.
OnlyAccepted ==
  \A c \in CoreNames : Alive(c) /\ ~spoiled[c] => proc[c] = last[c] /\ proc[c] = lastReq[c]

\* "Pointing the query at the new address would miss the counters the running
\* core is still serving": statistics are asked of the running configuration,
\* through every refusal, rollback and restart.
StatsAskTheRunning ==
  \A c \in CoreNames : Alive(c) /\ ~spoiled[c] => api[c] = proc[c]

\* A core that keeps dying or failing is started again in the end, once its
\* ports are free: the crash limit delays the watchdog and never stops it.
ComesBack ==
  \A c \in CoreNames :
    <>[](last[c] \notin Broken \cup {NoConfig} /\ ~spoiled[c] /\ PortsOf(last[c]) \cap Held(c) = {})
      => []<>Alive(c)

\* Two cores want each other's ports: each is stopped and probed while the
\* other still runs, so both are refused for good.
Crossed ==
  \E c, d \in CoreNames : c # d /\
    /\ PortsOf(target[c]) \cap PortsOf(last[d]) # {}
    /\ PortsOf(target[d]) \cap PortsOf(last[c]) # {}

\* The panel believes the core runs and the Agent has nothing to run.
Forgotten(c) == acked /\ target[c] # NoConfig /\ last[c] = NoConfig

\* A core falls out of use behind the panel's back in one way only: a removal
\* asked for when no inbound used the core arrives after one that does.
OnlyRemovalForgets ==
  [][\A c \in CoreNames : Forgotten(c)' => Forgotten(c) \/ c \in removing \ removing']_vars

Startable ==
  /\ foreign = {}
  /\ \A c \in CoreNames : target[c] \notin Broken /\ ~spoiled[c]

\* The tick pushes again, or nobody needs to.
Pushed == target \in Carried \/ (acked /\ \A c \in CoreNames : ~Forgotten(c))

\* Whatever was refused, rolled back, removed or died on the way, in the end every
\* core of a server that carries customers' lines runs what the panel wants, once
\* that can run at all.  On a server without them, which nothing pushes to again,
\* it does so if the panel was told OK and no late removal came after that.
Settles ==
  <>[](Startable /\ Pushed /\ ~Crossed) => <>[](\A c \in CoreNames : proc[c] = target[c])
=============================================================================
