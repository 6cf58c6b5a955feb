----------------------------- MODULE ConfigSync -----------------------------
(***************************************************************************)
(* The whole way of a configuration: the panel's dispatcher (SyncLoop), the *)
(* connection, and the Agent's goroutines (AgentApply) together.           *)
(*                                                                         *)
(* Steps of SyncLoop that meet the Agent are joined with the Agent's step; *)
(* all its other steps leave the Agent alone.                              *)
(***************************************************************************)
EXTENDS SyncLoop

CONSTANTS CoreNames,
          MaxSends,   \* bound on the apply frames sent
          InOrder     \* TRUE: the Agent's goroutines start in the order of their frames

ASSUME SendsAssumption == MaxSends \in Nat

VARIABLES
  sess,      \* the connection the Agent's session reads, or NoConn
  sends,     \* apply frames sent so far: the number of the newest job
  asked,     \* the job whose answer pushServer waits for, 0 for none
  applyGen, job, runs

agentVars == <<sess, applyGen, job, runs>>
allVars == <<syncVars, sends, asked, agentVars>>

Jobs == 1 .. MaxSends

Agt == INSTANCE AgentApply

InitAll ==
  /\ Init /\ Agt!Init
  /\ sess = NoConn /\ sends = 0 /\ asked = 0

(***************************************************************************)
(* The panel meets the Agent.                                              *)
(***************************************************************************)
SendFrame(p) ==
  /\ sends < MaxSends
  /\ Send(p)
  /\ Agt!Arrive(sends + 1, push[p].ver, conn)
  /\ sends' = sends + 1 /\ asked' = sends + 1
  /\ UNCHANGED sess

GiveUp(p) ==
  /\ NoAnswer(p)
  /\ asked' = 0
  /\ UNCHANGED <<sends, agentVars>>

\* The answer travels back while both ends still use the connection.
Answered(j) == job[j].on = conn /\ job[j].on = sess

\* Mutant: answers are matched by their connection and not by the request.
TakeAnyOK(p) ==
  /\ asked # 0
  /\ \E j \in Jobs :
       /\ job[j].st = "ok" /\ Answered(j)
       /\ AckOK(p)
       /\ Agt!Close(j)
  /\ asked' = 0
  /\ UNCHANGED <<sends, sess>>

TakeOK(p) ==
  /\ asked # 0 /\ job[asked].st = "ok" /\ Answered(asked)
  /\ AckOK(p)
  /\ Agt!Close(asked)
  /\ asked' = 0
  /\ UNCHANGED <<sends, sess>>

TakeRefused(p) ==
  /\ asked # 0 /\ job[asked].st = "refused" /\ Answered(asked)
  /\ AckRefused(p)
  /\ Agt!Close(asked)
  /\ asked' = 0
  /\ UNCHANGED <<sends, sess>>

\* The Agent dials when it has no session; hello and hello_ack go through.
Dial(h) ==
  /\ sess = NoConn
  /\ Register(h)
  /\ sess' = lastConn + 1
  /\ UNCHANGED <<sends, asked, applyGen, job, runs>>

\* Steps of the panel that nobody else sees.
PanelAlone ==
  /\ \/ \E h \in Handlers :
          \/ HandlerStep(h)
          \/ \E next \in {"kick", "lock"} : Change(h, next) \/ Request(h, next)
     \/ \E l \in Loops : LoopStep(l)
     \/ \E p \in Procs :
          \/ Lock(p) \/ Build(p) \/ BuildFail(p) \/ SeeOffline(p) \/ SeeOnline(p)
          \/ SendOffline(p) \/ Fail(p) \/ ClearError(p) \/ SetRev(p)
     \/ Disconnect
  /\ UNCHANGED <<sends, asked, agentVars>>

PanelRestart ==
  /\ Restart
  /\ asked' = 0
  /\ UNCHANGED <<sends, agentVars>>

(***************************************************************************)
(* The Agent alone.                                                        *)
(***************************************************************************)
StartJob(j) ==
  /\ InOrder => \A i \in Jobs : i < j => job[i].st # "sent"
  /\ Agt!Start(j)
  /\ UNCHANGED sess

\* A frame of a connection the Agent has left is lost, unless it was read before.
LoseJob(j) ==
  /\ job[j].on # sess
  /\ Agt!Lose(j)
  /\ UNCHANGED sess

Work(j) ==
  /\ \/ Agt!Superseded(j)
     \/ \E refused \in SUBSET CoreNames : Agt!Install(j, refused)
     \/ j # asked /\ Agt!Close(j)
  /\ UNCHANGED sess

\* The session ends: a read or write error, or the panel closed the connection.
Leave ==
  /\ sess # NoConn
  /\ sess' = NoConn
  /\ UNCHANGED <<applyGen, job, runs>>

AgentAlone ==
  /\ \/ \E j \in Jobs : StartJob(j) \/ LoseJob(j) \/ Work(j)
     \/ Leave
     \/ Agt!AgentRestart /\ sess' = NoConn
  /\ UNCHANGED <<syncVars, sends, asked>>

NextAll ==
  \/ \E p \in Procs : SendFrame(p) \/ GiveUp(p) \/ TakeOK(p) \/ TakeRefused(p)
  \/ \E h \in Handlers : Dial(h)
  \/ PanelAlone \/ PanelRestart
  \/ AgentAlone

SpecAll == InitAll /\ [][NextAll]_allVars

-----------------------------------------------------------------------------
\* What the panel believes an Agent has confirmed is what the Agent's cores run,
\* or they already run something newer, for as long as both use the connection.
ConfirmedIsRunning ==
  conn # NoConn /\ sess = conn => \A c \in CoreNames : runs[c].ver >= confirmed

\* End to end: when no dispatch is waiting or underway, the Agent is connected and
\* has nothing left to start, and the panel shows no error, every core runs the
\* newest configuration.
QuietMeansCurrent ==
  /\ conn # NoConn /\ sess = conn
  /\ ~lastErr /\ ~Waiting /\ ~Underway
  /\ \A j \in Jobs : job[j].st \notin {"sent", "bins"}
  => \A c \in CoreNames : runs[c].ver = db
=============================================================================
