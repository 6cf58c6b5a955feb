----------------------------- MODULE RequestsMC -----------------------------
(***************************************************************************)
(* Requests for TLC: the connection they go over (HubConn), how the panel  *)
(* sends them and waits (HubRPC), and how the Agent's goroutines handle    *)
(* the apply frames among them (AgentApply).  Each abstracts the others to *)
(* a step, so a behaviour runs one of them while the others stay as they   *)
(* began; their fairness then asks for nothing.                            *)
(***************************************************************************)
EXTENDS AgentApply, TLC

CONSTANTS xray, singbox, k1, k2, s1, s2, s3, a1, Sessions, Admins, Callers, Conns, QueueCap, MaxCalls

VARIABLES part,  \* which of the three runs
          conn, closed, idSeq, pending, writeCh, down, serving, up, call, got

rpc == <<conn, closed, idSeq, pending, writeCh, down, serving, up, call, got>>

R == INSTANCE HubRPCProofs  \* with what is proved of it

ASSUME RequestsAssumption == R!Numbered

VARIABLES current, shut, pc, admin, dropped, online

table == <<current, shut, pc, admin, dropped, online>>

T == INSTANCE HubConn WITH conn <- current, closed <- shut

RequestsInit == Init /\ R!Init /\ T!Init /\ part \in {"agent", "rpc", "table"}

RequestsNext ==
  /\ UNCHANGED part
  /\ \/ part = "agent" /\ Next /\ UNCHANGED <<rpc, table>>
     \/ part = "rpc" /\ R!Next /\ UNCHANGED <<applyVars, table>>
     \/ part = "table" /\ T!Next /\ UNCHANGED <<applyVars, rpc>>

RequestsSpec ==
  /\ RequestsInit /\ [][RequestsNext]_<<applyVars, rpc, table, part>>
  /\ \A k \in Callers : WF_rpc(R!CallStep(k))
  /\ \A s \in Sessions : WF_table(T!SessionStep(s))
  /\ \A a \in Admins : WF_table(T!AdminStep(a))

-----------------------------------------------------------------------------
\* A caller of SendRPC gets the answer to its own request or none.
OwnAnswer == R!OwnAnswer

\* ac.pending holds only requests somebody still waits for.
NothingLeaks == R!NothingLeaks

\* Every SendRPC returns, even when the Agent never answers and never reads.
EveryCallReturns == R!EveryCallReturns

\* A connection that the writer has given up does not stay in the table.
ShutLeaves == T!ShutLeaves
=============================================================================
