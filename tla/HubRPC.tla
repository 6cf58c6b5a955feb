------------------------------- MODULE HubRPC -------------------------------
(***************************************************************************)
(* Requests from the panel to one Agent over its WebSocket: Hub.SendRPC,   *)
(* enqueueWrite, writerLoop and dispatchAck of internal/server/hub.go.     *)
(* Any number of goroutines call; the Agent answers each request in a      *)
(* goroutine of its own, so answers come back in any order, late, or never.*)
(***************************************************************************)
EXTENDS Naturals, Sequences, FiniteSets

CONSTANTS Callers,    \* goroutines inside SendRPC
          Conns,      \* connections of this server, numbered from 1
          QueueCap,   \* capacity of writeCh (16 in the code)
          MaxCalls    \* bound on the requests of one connection

\* 0 is no connection, and writeCh has room for a frame.
Numbered == Conns \subseteq Nat \ {0} /\ QueueCap \in Nat \ {0} /\ MaxCalls \in Nat

VARIABLES
  conn,      \* h.conns[id]: the registered connection, 0 when offline
  closed,    \* connections whose ac.closed is closed
  idSeq,     \* ac.idSeq of each connection
  pending,   \* ac.pending: pairs of a request id and the caller its channel belongs to
  writeCh,   \* ac.writeCh: frames waiting for writerLoop
  down,      \* frames written and not yet read by the Agent
  serving,   \* requests the Agent's goroutines are working on
  up,        \* answers on their way to the panel
  call,      \* the locals of each SendRPC
  got        \* history: the last request of each caller and what it was answered with

rpcVars == <<conn, closed, idSeq, pending, writeCh, down, serving, up, call, got>>

Unanswered == [id |-> 0, body |-> "none"]
Idle == [st |-> "idle", on |-> 0, id |-> 0, box |-> Unanswered]

\* A payload is known by the goroutine that sent it.
Frame(k) == [id |-> call[k].id, body |-> k]

Init ==
  /\ conn = 0 /\ closed = {}
  /\ idSeq = [c \in Conns |-> 0]
  /\ pending = [c \in Conns |-> {}]
  /\ writeCh = [c \in Conns |-> <<>>]
  /\ down = [c \in Conns |-> <<>>]
  /\ serving = [c \in Conns |-> {}]
  /\ up = [c \in Conns |-> {}]
  /\ call = [k \in Callers |-> Idle]
  /\ got = [k \in Callers |-> [asked |-> Unanswered, answer |-> Unanswered]]

(***************************************************************************)
(* SendRPC.                                                                *)
(***************************************************************************)

\* Mutant: every request of a connection has the same id.
BeginSameId(k) ==
  /\ call[k].st = "idle" /\ conn # 0
  /\ idSeq[conn] < MaxCalls
  /\ idSeq' = [idSeq EXCEPT ![conn] = @ + 1]
  /\ pending' = [pending EXCEPT ![conn] = @ \cup {<<1, k>>}]
  /\ call' = [call EXCEPT ![k] =
       [st |-> "enqueue", on |-> conn, id |-> 1, box |-> Unanswered]]
  /\ UNCHANGED <<conn, closed, writeCh, down, serving, up, got>>

\* The connection is looked up under h.mu; the id and the reply channel are its.
Begin(k) ==
  /\ call[k].st = "idle" /\ conn # 0
  /\ idSeq[conn] < MaxCalls
  /\ LET id == idSeq[conn] + 1 IN
       /\ idSeq' = [idSeq EXCEPT ![conn] = id]
       /\ pending' = [pending EXCEPT ![conn] = @ \cup {<<id, k>>}]
       /\ call' = [call EXCEPT ![k] =
            [st |-> "enqueue", on |-> conn, id |-> id, box |-> Unanswered]]
  /\ UNCHANGED <<conn, closed, writeCh, down, serving, up, got>>

Enqueue(k) ==
  /\ call[k].st = "enqueue" /\ Len(writeCh[call[k].on]) < QueueCap
  /\ writeCh' = [writeCh EXCEPT ![call[k].on] = Append(@, Frame(k))]
  /\ call' = [call EXCEPT ![k].st = "wait"]
  /\ UNCHANGED <<conn, closed, idSeq, pending, down, serving, up, got>>

\* The deferred delete: the id leaves the table on every way out.
Leave(k) ==
  /\ pending' = [pending EXCEPT ![call[k].on] = @ \ {<<call[k].id, k>>}]
  /\ call' = [call EXCEPT ![k] = Idle]
  /\ UNCHANGED <<conn, closed, idSeq, writeCh, down, serving, up>>

\* The queue stayed full for ten seconds, or the connection closed.
EnqueueFail(k) ==
  /\ call[k].st = "enqueue"
  /\ Len(writeCh[call[k].on]) = QueueCap \/ call[k].on \in closed
  /\ Leave(k) /\ UNCHANGED got

\* An answer that is there may still lose the select against the other two.
TakeAnswer(k) ==
  /\ call[k].st = "wait" /\ call[k].box # Unanswered
  /\ got' = [got EXCEPT ![k] = [asked |-> Frame(k), answer |-> call[k].box]]
  /\ Leave(k)

\* Mutant: the timeout forgets the deferred delete.
TimeoutLeaking(k) ==
  /\ call[k].st = "wait"
  /\ call' = [call EXCEPT ![k] = Idle]
  /\ UNCHANGED <<conn, closed, idSeq, pending, writeCh, down, serving, up, got>>

\* Mutant: no timer, only the end of the connection.
TimeoutNever(k) ==
  /\ call[k].st = "wait" /\ call[k].on \in closed
  /\ Leave(k) /\ UNCHANGED got

Timeout(k) ==
  /\ call[k].st = "wait"
  /\ Leave(k) /\ UNCHANGED got

SeeClosed(k) ==
  /\ call[k].st = "wait" /\ call[k].on \in closed
  /\ Leave(k) /\ UNCHANGED got

(***************************************************************************)
(* The connection's goroutines.                                            *)
(***************************************************************************)
Write(c) ==
  /\ c \notin closed /\ writeCh[c] # <<>>
  /\ writeCh' = [writeCh EXCEPT ![c] = Tail(@)]
  /\ down' = [down EXCEPT ![c] = Append(@, Head(writeCh[c]))]
  /\ UNCHANGED <<conn, closed, idSeq, pending, serving, up, call, got>>

\* writerLoop gives up; the reader has still to find out and unregister.
WriteError(c) ==
  /\ c \notin closed /\ writeCh[c] # <<>>
  /\ writeCh' = [writeCh EXCEPT ![c] = Tail(@)]
  /\ closed' = closed \cup {c}
  /\ UNCHANGED <<conn, idSeq, pending, down, serving, up, call, got>>

\* dispatchAck: the first answer with a pending id goes to its channel, any
\* other answer is dropped.
DispatchAck(c, ack) ==
  /\ ack \in up[c]
  /\ up' = [up EXCEPT ![c] = @ \ {ack}]
  /\ LET owners == {k \in Callers : <<ack.id, k>> \in pending[c]} IN
       /\ pending' = [pending EXCEPT ![c] = {e \in @ : e[1] # ack.id}]
       /\ call' = [k \in Callers |-> IF k \in owners THEN [call[k] EXCEPT !.box = ack] ELSE call[k]]
  /\ UNCHANGED <<conn, closed, idSeq, writeCh, down, serving, got>>

Register(c) ==
  /\ c \notin closed /\ c > conn /\ idSeq[c] = 0
  /\ conn' = c
  /\ closed' = closed \cup ({conn} \ {0})
  /\ UNCHANGED <<idSeq, pending, writeCh, down, serving, up, call, got>>

\* unregisterConn after a read error, or Drop.
Unregister(c) ==
  /\ conn = c
  /\ conn' = 0
  /\ closed' = closed \cup {c}
  /\ UNCHANGED <<idSeq, pending, writeCh, down, serving, up, call, got>>

(***************************************************************************)
(* The Agent's end.                                                        *)
(***************************************************************************)
AgentRead(c) ==
  /\ down[c] # <<>>
  /\ down' = [down EXCEPT ![c] = Tail(@)]
  /\ serving' = [serving EXCEPT ![c] = @ \cup {Head(down[c])}]
  /\ UNCHANGED <<conn, closed, idSeq, pending, writeCh, up, call, got>>

AgentAnswer(c, req) ==
  /\ req \in serving[c]
  /\ serving' = [serving EXCEPT ![c] = @ \ {req}]
  /\ up' = [up EXCEPT ![c] = @ \cup {req}]
  /\ UNCHANGED <<conn, closed, idSeq, pending, writeCh, down, call, got>>

CallStep(k) ==
  Enqueue(k) \/ EnqueueFail(k) \/ TakeAnswer(k) \/ Timeout(k) \/ SeeClosed(k)

ConnStep(c) ==
  \/ Write(c) \/ WriteError(c)
  \/ \E ack \in up[c] : DispatchAck(c, ack)
  \/ Register(c) \/ Unregister(c)
  \/ AgentRead(c)
  \/ \E req \in serving[c] : AgentAnswer(c, req)

Next ==
  \/ \E k \in Callers : CallStep(k) \/ Begin(k)
  \/ \E c \in Conns : ConnStep(c)

Spec == Init /\ [][Next]_rpcVars

-----------------------------------------------------------------------------
Frames == [id : Nat \ {0}, body : Callers]

TypeOK ==
  /\ conn \in Conns \cup {0} /\ closed \subseteq Conns
  /\ idSeq \in [Conns -> Nat]
  /\ pending \in [Conns -> SUBSET ((Nat \ {0}) \X Callers)]
  /\ writeCh \in [Conns -> Seq(Frames)] /\ down \in [Conns -> Seq(Frames)]
  /\ \A c \in Conns : Len(writeCh[c]) <= QueueCap
  /\ serving \in [Conns -> SUBSET Frames]
  /\ up \in [Conns -> SUBSET Frames]
  /\ call \in [Callers -> [st : {"idle", "enqueue", "wait"}, on : Conns \cup {0}, id : Nat,
                           box : Frames \cup {Unanswered}]]
  /\ \A k \in Callers : call[k].st # "idle" => call[k].on \in Conns /\ call[k].id # 0
  /\ got \in [Callers -> [asked : Frames \cup {Unanswered}, answer : Frames \cup {Unanswered}]]

\* A caller is only ever handed the answer to its own request, whatever answers
\* are late, reordered, or belong to requests that have timed out.
OwnAnswer == \A k \in Callers : got[k].answer = got[k].asked

\* The pending table of a connection holds exactly requests somebody still waits
\* for: it does not grow over a long connection with timeouts and late answers.
NothingLeaks ==
  \A c \in Conns : \A e \in pending[c] :
    call[e[2]].st # "idle" /\ call[e[2]].on = c /\ call[e[2]].id = e[1]

(***************************************************************************)
(* The timer of SendRPC always fires, so no caller is stuck; a full queue  *)
(* has a timer too.                                                        *)
(***************************************************************************)
FairSpec == Spec /\ \A k \in Callers : WF_rpcVars(CallStep(k))

\* Every request ends, even when the Agent never answers and never reads.
EveryCallReturns == \A k \in Callers : call[k].st # "idle" ~> call[k].st = "idle"
=============================================================================
