---------------------------- MODULE HubRPCProofs ----------------------------
(***************************************************************************)
(* Proofs about HubRPC for any number of callers, connections and calls    *)
(* and any capacity of the queue.                                          *)
(***************************************************************************)
EXTENDS HubRPC, TLAPS

Contents(s) == {s[i] : i \in 1 .. Len(s)}

\* All frames of a connection, requests and answers.
Around(c) == Contents(writeCh[c]) \cup Contents(down[c]) \cup serving[c] \cup up[c]

Active(k) == call[k].st # "idle"

\* An id is given out once: no frame carries one that has not been, ...
Issued ==
  /\ \A c \in Conns : \A f \in Around(c) : f.id <= idSeq[c]
  /\ \A k \in Callers : Active(k) => call[k].id <= idSeq[call[k].on]

\* ... no two calls that still wait share one, ...
OneOwner ==
  \A k, l \in Callers :
    Active(k) /\ Active(l) /\ call[k].on = call[l].on /\ call[k].id = call[l].id => k = l

\* ... and a frame that carries a waiting call's is its request, or the answer.
OwnFrames ==
  \A k \in Callers : Active(k) =>
    /\ \A f \in Around(call[k].on) : f.id = call[k].id => f.body = k
    /\ call[k].box # Unanswered => call[k].box = Frame(k)

RPCInv == TypeOK /\ Issued /\ OneOwner /\ OwnFrames /\ NothingLeaks /\ OwnAnswer

-----------------------------------------------------------------------------
(***************************************************************************)
(* Queues.                                                                 *)
(***************************************************************************)
LEMMA AppendContents ==
  ASSUME NEW S, NEW s \in Seq(S), NEW e \in S
  PROVE  Append(s, e) \in Seq(S) /\ Contents(Append(s, e)) = Contents(s) \cup {e}
<1>1. Append(s, e) \in Seq(S) /\ Len(Append(s, e)) = Len(s) + 1
  OBVIOUS
<1>2. \A i \in 1 .. Len(s) + 1 : Append(s, e)[i] = IF i = Len(s) + 1 THEN e ELSE s[i]
  OBVIOUS
<1>3. ASSUME NEW x PROVE x \in Contents(Append(s, e)) <=> x \in Contents(s) \cup {e}
  BY <1>1, <1>2 DEF Contents
<1> QED BY <1>1, <1>3

LEMMA TailContents ==
  ASSUME NEW S, NEW s \in Seq(S), s # <<>>
  PROVE  /\ Tail(s) \in Seq(S) /\ Len(Tail(s)) = Len(s) - 1
         /\ Head(s) \in Contents(s) /\ Head(s) \in S /\ Contents(Tail(s)) \subseteq Contents(s)
<1>1. Tail(s) \in Seq(S) /\ Len(Tail(s)) = Len(s) - 1 /\ Len(s) \in Nat \ {0} /\ Head(s) = s[1]
  OBVIOUS
<1>2. \A i \in 1 .. Len(s) - 1 : Tail(s)[i] = s[i + 1]
  OBVIOUS
<1>3. Head(s) \in Contents(s) /\ Head(s) \in S
  BY <1>1 DEF Contents
<1>4. ASSUME NEW i \in 1 .. Len(Tail(s)) PROVE Tail(s)[i] \in Contents(s)
  <2>1. i + 1 \in 1 .. Len(s)
    BY <1>1
  <2> QED BY <1>1, <1>2, <2>1 DEF Contents
<1> QED BY <1>1, <1>3, <1>4 DEF Contents

-----------------------------------------------------------------------------
LEMMA RPCInit == Numbered /\ Init => RPCInv
<1> SUFFICES ASSUME Numbered, Init PROVE RPCInv
  OBVIOUS
<1>1. \A k \in Callers : ~Active(k)
  BY DEF Init, Active, Idle
<1>2. \A c \in Conns : Around(c) = {}
  BY DEF Init, Around, Contents
<1>3. TypeOK
  BY DEF Init, TypeOK, Idle, Frames, Numbered
<1>4. NothingLeaks /\ OwnAnswer
  BY DEF Init, NothingLeaks, OwnAnswer
<1> QED BY <1>1, <1>2, <1>3, <1>4 DEF RPCInv, Issued, OneOwner, OwnFrames

(***************************************************************************)
(* Steps that begin no call only move frames along, lose them, and end     *)
(* calls: what is true of all frames and calls stays true of fewer.        *)
(***************************************************************************)
LEMMA FewerFrames ==
  ASSUME RPCInv, TypeOK', UNCHANGED <<idSeq, pending, call, got>>,
         \A c \in Conns : Around(c)' \subseteq Around(c)
  PROVE  RPCInv'
<1>1. Issued' /\ OneOwner' /\ OwnFrames'
  BY DEF RPCInv, TypeOK, Issued, OneOwner, OwnFrames, Active, Frame
<1>2. NothingLeaks' /\ OwnAnswer'
  BY DEF RPCInv, NothingLeaks, OwnAnswer
<1> QED BY <1>1, <1>2 DEF RPCInv

\* writerLoop passes a frame on or loses it.
LEMMA RPCWrite ==
  ASSUME Numbered, RPCInv, NEW c \in Conns, Write(c) \/ WriteError(c) PROVE RPCInv'
<1> DEFINE f == Head(writeCh[c])
<1>1. writeCh[c] \in Seq(Frames) /\ down[c] \in Seq(Frames) /\ writeCh[c] # <<>>
  BY DEF RPCInv, TypeOK, Write, WriteError
<1>2. /\ Tail(writeCh[c]) \in Seq(Frames) /\ Len(Tail(writeCh[c])) = Len(writeCh[c]) - 1
      /\ f \in Contents(writeCh[c]) /\ f \in Frames
      /\ Contents(Tail(writeCh[c])) \subseteq Contents(writeCh[c])
  BY <1>1, TailContents
<1>3. Append(down[c], f) \in Seq(Frames) /\ Contents(Append(down[c], f)) = Contents(down[c]) \cup {f}
  BY <1>1, <1>2, AppendContents
<1>4. /\ writeCh' = [writeCh EXCEPT ![c] = Tail(@)]
      /\ down' = [down EXCEPT ![c] = Append(@, f)] \/ down' = down
      /\ closed' \subseteq Conns
      /\ UNCHANGED <<conn, idSeq, pending, serving, up, call, got>>
  BY DEF Write, WriteError, RPCInv, TypeOK
<1>5. Len(writeCh[c]) \in Nat /\ Len(writeCh[c]) <= QueueCap /\ QueueCap \in Nat
  BY <1>1 DEF RPCInv, TypeOK, Numbered
<1>6. TypeOK'
  <2>1. writeCh' \in [Conns -> Seq(Frames)] /\ \A d \in Conns : Len(writeCh'[d]) <= QueueCap
    BY <1>2, <1>4, <1>5 DEF RPCInv, TypeOK
  <2>2. down' \in [Conns -> Seq(Frames)]
    BY <1>3, <1>4 DEF RPCInv, TypeOK
  <2> QED BY <1>4, <2>1, <2>2 DEF RPCInv, TypeOK
<1>7. ASSUME NEW d \in Conns PROVE Around(d)' \subseteq Around(d)
  <2>1. Contents(writeCh[d])' \subseteq Contents(writeCh[d])
    BY <1>2, <1>4 DEF RPCInv, TypeOK
  <2>2. Contents(down[d])' \subseteq Contents(down[d]) \cup Contents(writeCh[d])
    BY <1>2, <1>3, <1>4 DEF RPCInv, TypeOK
  <2> QED BY <1>4, <2>1, <2>2 DEF Around
<1> QED BY <1>4, <1>6, <1>7, FewerFrames

\* The Agent reads a request, or answers one with the id it came with.
LEMMA RPCAgent ==
  ASSUME RPCInv, NEW c \in Conns, AgentRead(c) \/ (\E req \in serving[c] : AgentAnswer(c, req))
  PROVE  RPCInv'
<1>1. CASE AgentRead(c)
  <2>1. down[c] \in Seq(Frames) /\ down[c] # <<>>
    BY <1>1 DEF RPCInv, TypeOK, AgentRead
  <2>2. /\ Tail(down[c]) \in Seq(Frames) /\ Head(down[c]) \in Frames
        /\ Head(down[c]) \in Contents(down[c]) /\ Contents(Tail(down[c])) \subseteq Contents(down[c])
    BY <2>1, TailContents
  <2>3. TypeOK'
    BY <1>1, <2>2 DEF AgentRead, RPCInv, TypeOK
  <2>4. \A d \in Conns : Around(d)' \subseteq Around(d)
    BY <1>1, <2>2 DEF AgentRead, RPCInv, TypeOK, Around
  <2> QED BY <1>1, <2>3, <2>4, FewerFrames DEF AgentRead
<1>2. ASSUME NEW req \in serving[c], AgentAnswer(c, req) PROVE RPCInv'
  <2>1. TypeOK'
    BY <1>2 DEF AgentAnswer, RPCInv, TypeOK
  <2>2. \A d \in Conns : Around(d)' \subseteq Around(d)
    BY <1>2 DEF AgentAnswer, RPCInv, TypeOK, Around
  <2> QED BY <1>2, <2>1, <2>2, FewerFrames DEF AgentAnswer
<1> QED BY <1>1, <1>2

LEMMA RPCConn ==
  ASSUME RPCInv, NEW c \in Conns, Register(c) \/ Unregister(c) PROVE RPCInv'
<1>1. TypeOK' /\ UNCHANGED <<idSeq, pending, writeCh, down, serving, up, call, got>>
  BY DEF Register, Unregister, RPCInv, TypeOK
<1>2. \A d \in Conns : Around(d)' = Around(d)
  BY <1>1 DEF Around
<1> QED BY <1>1, <1>2, FewerFrames

-----------------------------------------------------------------------------
\* A new call gets an id that no frame and no other call has.
LEMMA RPCBegin ==
  ASSUME Numbered, RPCInv, NEW k \in Callers, Begin(k) PROVE RPCInv'
<1> DEFINE id == idSeq[conn] + 1
<1> USE DEF RPCInv
<1>1. /\ conn \in Conns /\ idSeq[conn] \in Nat /\ id \in Nat \ {0}
      /\ call[k].st = "idle"
      /\ idSeq' = [idSeq EXCEPT ![conn] = id]
      /\ pending' = [pending EXCEPT ![conn] = @ \cup {<<id, k>>}]
      /\ call' = [call EXCEPT ![k] = [st |-> "enqueue", on |-> conn, id |-> id, box |-> Unanswered]]
      /\ UNCHANGED <<conn, closed, writeCh, down, serving, up, got>>
  BY DEF Begin, TypeOK
<1>2. TypeOK'
  BY <1>1 DEF TypeOK
<1>3. /\ call'[k] = [st |-> "enqueue", on |-> conn, id |-> id, box |-> Unanswered]
      /\ \A l \in Callers \ {k} : call'[l] = call[l]
      /\ \A c \in Conns : Around(c)' = Around(c)
      /\ \A c \in Conns : idSeq[c] \in Nat /\ idSeq'[c] \in Nat /\ idSeq'[c] >= idSeq[c]
      /\ idSeq'[conn] = id
  BY <1>1 DEF TypeOK, Around
<1>4. \A c \in Conns : \A f \in Around(c) : f.id \in Nat
  <2>1. \A c \in Conns : Around(c) \subseteq Frames
    BY DEF TypeOK, Around, Contents
  <2> QED BY <2>1 DEF Frames
<1>5. \A l \in Callers : call[l].id \in Nat /\ call[l].on \in Conns \cup {0} /\ (Active(l) => call[l].on \in Conns)
  BY DEF TypeOK, Active
<1>6. Issued'
  <2>1. \A c \in Conns : \A f \in Around(c) : f.id <= idSeq'[c]
    BY <1>3, <1>4 DEF Issued
  <2>2. \A l \in Callers : Active(l)' => call'[l].id <= idSeq'[call'[l].on]
    BY <1>1, <1>3, <1>5 DEF Issued, Active
  <2> QED BY <1>3, <2>1, <2>2 DEF Issued
<1>7. OneOwner'
  BY <1>1, <1>3, <1>5 DEF OneOwner, Issued, Active
<1>8. OwnFrames'
  <2>1. \A f \in Around(conn) : f.id # id
    BY <1>1, <1>4 DEF Issued
  <2> QED BY <1>1, <1>3, <1>5, <2>1 DEF OwnFrames, Active, Frame
<1>9. NothingLeaks' /\ OwnAnswer'
  BY <1>1, <1>3 DEF NothingLeaks, OwnAnswer, TypeOK
<1> QED BY <1>2, <1>6, <1>7, <1>8, <1>9

LEMMA RPCEnqueue ==
  ASSUME Numbered, RPCInv, NEW k \in Callers, Enqueue(k) PROVE RPCInv'
<1> DEFINE c == call[k].on
<1> USE DEF RPCInv
<1>1. /\ c \in Conns /\ call[k].st = "enqueue" /\ Frame(k) \in Frames
      /\ writeCh[c] \in Seq(Frames) /\ Len(writeCh[c]) < QueueCap /\ QueueCap \in Nat
      /\ writeCh' = [writeCh EXCEPT ![c] = Append(@, Frame(k))]
      /\ call' = [call EXCEPT ![k].st = "wait"]
      /\ UNCHANGED <<conn, closed, idSeq, pending, down, serving, up, got>>
  BY DEF Enqueue, TypeOK, Frame, Frames, Numbered
<1>2. /\ Append(writeCh[c], Frame(k)) \in Seq(Frames)
      /\ Contents(Append(writeCh[c], Frame(k))) = Contents(writeCh[c]) \cup {Frame(k)}
  BY <1>1, AppendContents
<1>3. Len(Append(writeCh[c], Frame(k))) <= QueueCap
  BY <1>1
<1>4. TypeOK'
  BY <1>1, <1>2, <1>3 DEF TypeOK
<1>5. /\ \A l \in Callers : /\ call'[l].on = call[l].on /\ call'[l].id = call[l].id
                            /\ call'[l].box = call[l].box /\ (Active(l)' <=> Active(l))
                            /\ Frame(l)' = Frame(l)
      /\ \A d \in Conns : d # c => Around(d)' = Around(d)
      /\ Around(c)' = Around(c) \cup {Frame(k)}
  BY <1>1, <1>2 DEF TypeOK, Active, Around, Frame
<1>6. Frame(k).id = call[k].id /\ Frame(k).body = k /\ Active(k)
  BY <1>1 DEF Frame, Active
<1>7. Issued'
  BY <1>1, <1>5, <1>6 DEF Issued
<1>8. OneOwner'
  BY <1>5 DEF OneOwner
<1>9. OwnFrames'
  <2> SUFFICES ASSUME NEW l \in Callers, Active(l)
               PROVE  /\ \A f \in Around(call[l].on)' : f.id = call[l].id => f.body = l
                      /\ call[l].box # Unanswered => call[l].box = Frame(l)
    BY <1>5 DEF OwnFrames
  <2>1. /\ \A f \in Around(call[l].on) : f.id = call[l].id => f.body = l
        /\ call[l].box # Unanswered => call[l].box = Frame(l)
    BY DEF OwnFrames
  <2>2. call[l].on \in Conns
    BY DEF TypeOK, Active
  <2>3. call[l].on = c /\ call[l].id = call[k].id => l = k
    BY <1>6 DEF OneOwner
  <2> QED BY <1>5, <1>6, <2>1, <2>2, <2>3
<1>10. NothingLeaks' /\ OwnAnswer'
  BY <1>1 DEF NothingLeaks, OwnAnswer, TypeOK
<1> QED BY <1>4, <1>7, <1>8, <1>9, <1>10

\* Every way out of SendRPC; only a call that has its answer returns one.
LEMMA RPCLeave ==
  ASSUME RPCInv, NEW k \in Callers, EnqueueFail(k) \/ TakeAnswer(k) \/ Timeout(k) \/ SeeClosed(k)
  PROVE  RPCInv'
<1> USE DEF RPCInv
<1>1. /\ call[k].st # "idle" /\ call[k].on \in Conns
      /\ pending' = [pending EXCEPT ![call[k].on] = @ \ {<<call[k].id, k>>}]
      /\ call' = [call EXCEPT ![k] = Idle]
      /\ UNCHANGED <<conn, closed, idSeq, writeCh, down, serving, up>>
  BY DEF EnqueueFail, TakeAnswer, Timeout, SeeClosed, Leave, TypeOK
<1>2. \/ got' = got
      \/ call[k].box # Unanswered /\ got' = [got EXCEPT ![k] = [asked |-> Frame(k), answer |-> call[k].box]]
  BY DEF EnqueueFail, TakeAnswer, Timeout, SeeClosed
<1>3. Frame(k) \in Frames /\ call[k].box \in Frames \cup {Unanswered}
  BY <1>1 DEF TypeOK, Frame, Frames
<1>4. TypeOK'
  <2>1. got' \in [Callers -> [asked : Frames \cup {Unanswered}, answer : Frames \cup {Unanswered}]]
    <3> DEFINE Given == [asked |-> Frame(k), answer |-> call[k].box]
    <3>1. Given \in [asked : Frames \cup {Unanswered}, answer : Frames \cup {Unanswered}]
      BY <1>3
    <3>2. got' = got \/ got' = [got EXCEPT ![k] = Given]
      BY <1>2
    <3> HIDE DEF Given
    <3> QED BY <3>1, <3>2 DEF TypeOK
  <2>2. Idle \in [st : {"idle", "enqueue", "wait"}, on : Conns \cup {0}, id : Nat, box : Frames \cup {Unanswered}]
        /\ Idle.st = "idle"
    BY DEF Idle
  <2>3. call' \in [Callers -> [st : {"idle", "enqueue", "wait"}, on : Conns \cup {0}, id : Nat,
                               box : Frames \cup {Unanswered}]]
        /\ \A l \in Callers : call'[l].st # "idle" => call'[l].on \in Conns /\ call'[l].id # 0
    BY <1>1, <2>2 DEF TypeOK
  <2>4. pending' \in [Conns -> SUBSET ((Nat \ {0}) \X Callers)]
    BY <1>1 DEF TypeOK
  <2> QED BY <1>1, <2>1, <2>3, <2>4 DEF TypeOK
<1>5. /\ ~Active(k)' /\ \A l \in Callers \ {k} : call'[l] = call[l] /\ (Active(l)' <=> Active(l))
      /\ \A c \in Conns : Around(c)' = Around(c)
  BY <1>1 DEF TypeOK, Active, Around, Idle
<1>6. Issued' /\ OneOwner' /\ OwnFrames'
  <2>1. \A l \in Callers : Active(l)' => l # k /\ Active(l) /\ call[l].on \in Conns /\ call'[l] = call[l] /\ Frame(l)' = Frame(l)
    BY <1>5 DEF TypeOK, Active, Frame
  <2>2. Issued' /\ OneOwner'
    BY <1>1, <1>5, <2>1 DEF Issued, OneOwner
  <2>3. OwnFrames'
    BY <1>5, <2>1 DEF OwnFrames
  <2> QED BY <2>2, <2>3
<1>7. NothingLeaks'
  <2> SUFFICES ASSUME NEW c \in Conns, NEW e \in pending'[c]
               PROVE  call'[e[2]].st # "idle" /\ call'[e[2]].on = c /\ call'[e[2]].id = e[1]
    BY DEF NothingLeaks
  <2>1. e \in pending[c] /\ e \in (Nat \ {0}) \X Callers /\ (c = call[k].on => e # <<call[k].id, k>>)
    BY <1>1 DEF TypeOK
  <2>2. call[e[2]].st # "idle" /\ call[e[2]].on = c /\ call[e[2]].id = e[1] /\ e = <<e[1], e[2]>>
    BY <2>1 DEF NothingLeaks
  <2>3. e[2] # k /\ e[2] \in Callers
    BY <2>1, <2>2
  <2> QED BY <1>5, <2>2, <2>3
<1>8. OwnAnswer'
  <2>1. call[k].box # Unanswered => call[k].box = Frame(k)
    BY <1>1 DEF OwnFrames, Active
  <2>2. got \in [Callers -> [asked : Frames \cup {Unanswered}, answer : Frames \cup {Unanswered}]]
    BY DEF TypeOK
  <2> QED BY <1>2, <2>1, <2>2 DEF OwnAnswer
<1> QED BY <1>4, <1>6, <1>7, <1>8

\* An answer goes to the call whose id it carries, and so to the one that asked.
LEMMA RPCDispatch ==
  ASSUME RPCInv, NEW c \in Conns, NEW ack \in up[c], DispatchAck(c, ack) PROVE RPCInv'
<1> DEFINE owners == {k \in Callers : <<ack.id, k>> \in pending[c]}
<1> USE DEF RPCInv
<1>1. /\ up' = [up EXCEPT ![c] = @ \ {ack}]
      /\ pending' = [pending EXCEPT ![c] = {e \in @ : e[1] # ack.id}]
      /\ call' = [k \in Callers |-> IF k \in owners THEN [call[k] EXCEPT !.box = ack] ELSE call[k]]
      /\ UNCHANGED <<conn, closed, idSeq, writeCh, down, serving, got>>
  BY DEF DispatchAck
<1>2. ack \in Frames /\ ack \in Around(c)
  BY DEF TypeOK, Around
<1>3. ASSUME NEW k \in owners
      PROVE  Active(k) /\ call[k].on = c /\ ack = Frame(k)
  <2>1. call[k].st # "idle" /\ call[k].on = c /\ call[k].id = ack.id
    BY <1>3 DEF NothingLeaks
  <2>2. ack.body = k
    BY <1>2, <2>1 DEF OwnFrames, Active
  <2> QED BY <1>2, <2>1, <2>2 DEF Active, Frame, Frames
<1>4. TypeOK'
  <2>1. call' \in [Callers -> [st : {"idle", "enqueue", "wait"}, on : Conns \cup {0}, id : Nat,
                               box : Frames \cup {Unanswered}]]
    <3>1. \A k \in Callers : call[k] \in [st : {"idle", "enqueue", "wait"}, on : Conns \cup {0}, id : Nat,
                                         box : Frames \cup {Unanswered}]
      BY DEF TypeOK
    <3> QED BY <1>1, <1>2, <3>1
  <2>2. \A k \in Callers : call'[k].st # "idle" => call'[k].on \in Conns /\ call'[k].id # 0
    BY <1>1 DEF TypeOK
  <2> QED BY <1>1, <2>1, <2>2 DEF TypeOK
<1>5. /\ \A k \in Callers : /\ call'[k].on = call[k].on /\ call'[k].id = call[k].id
                            /\ call'[k].st = call[k].st /\ (Active(k)' <=> Active(k))
                            /\ Frame(k)' = Frame(k)
                            /\ (call'[k].box = call[k].box \/ call'[k].box = Frame(k))
      /\ \A d \in Conns : Around(d)' \subseteq Around(d)
  <2>1. ASSUME NEW k \in Callers
        PROVE  /\ call'[k].on = call[k].on /\ call'[k].id = call[k].id /\ call'[k].st = call[k].st
               /\ (call'[k].box = call[k].box \/ call'[k].box = Frame(k))
    <3>1. call[k] \in [st : {"idle", "enqueue", "wait"}, on : Conns \cup {0}, id : Nat, box : Frames \cup {Unanswered}]
      BY DEF TypeOK
    <3>2. CASE k \in owners
      <4>1. call'[k] = [call[k] EXCEPT !.box = ack] /\ ack = Frame(k)
        BY <1>1, <1>3, <3>2
      <4> QED BY <3>1, <4>1
    <3>3. CASE k \notin owners
      BY <1>1, <3>3
    <3> QED BY <3>2, <3>3
  <2>2. \A d \in Conns : Around(d)' \subseteq Around(d)
    BY <1>1 DEF Around, TypeOK
  <2>3. \A k \in Callers : (Active(k)' <=> Active(k)) /\ Frame(k)' = Frame(k)
    BY <2>1 DEF Active, Frame
  <2> QED BY <2>1, <2>2, <2>3
<1>6. Issued' /\ OneOwner'
  BY <1>1, <1>5 DEF Issued, OneOwner, TypeOK, Active
<1>7. OwnFrames'
  BY <1>5 DEF OwnFrames, TypeOK, Active
<1>8. NothingLeaks' /\ OwnAnswer'
  BY <1>1, <1>5 DEF NothingLeaks, OwnAnswer, TypeOK
<1> QED BY <1>4, <1>6, <1>7, <1>8

LEMMA RPCNext == Numbered /\ RPCInv /\ [Next]_rpcVars => RPCInv'
<1> SUFFICES ASSUME Numbered, RPCInv, [Next]_rpcVars PROVE RPCInv'
  OBVIOUS
<1>1. CASE UNCHANGED rpcVars
  BY <1>1 DEF rpcVars, RPCInv, TypeOK, Issued, OneOwner, OwnFrames, NothingLeaks, OwnAnswer,
     Around, Active, Frame
<1>2. ASSUME NEW k \in Callers, CallStep(k) \/ Begin(k) PROVE RPCInv'
  BY <1>2, RPCBegin, RPCEnqueue, RPCLeave DEF CallStep
<1>3. ASSUME NEW c \in Conns, ConnStep(c) PROVE RPCInv'
  BY <1>3, RPCWrite, RPCDispatch, RPCConn, RPCAgent DEF ConnStep
<1> QED BY <1>1, <1>2, <1>3 DEF Next

LEMMA RPCAlways == ASSUME Numbered PROVE Spec => []RPCInv
<1>1. Init => RPCInv
  BY Numbered, RPCInit
<1>2. RPCInv /\ [Next]_rpcVars => RPCInv'
  BY Numbered, RPCNext
<1> QED BY <1>1, <1>2, PTL DEF Spec

\* The variables of requests and of their connections keep their types, and no
\* write queue exceeds its capacity.
THEOREM RPCTypeCorrect == ASSUME Numbered PROVE Spec => []TypeOK
<1>1. RPCInv => TypeOK
  BY DEF RPCInv
<1> QED BY <1>1, Numbered, RPCAlways, PTL

\* For any number of callers and connections, however late or out of order the
\* answers come, SendRPC hands nobody the answer to another request.
THEOREM OwnAnswerHolds == ASSUME Numbered PROVE Spec => []OwnAnswer
<1>1. RPCInv => OwnAnswer
  BY DEF RPCInv
<1> QED BY <1>1, Numbered, RPCAlways, PTL

\* The pending table holds only requests that somebody waits for, for connections
\* of any length.
THEOREM NothingLeaksHolds == ASSUME Numbered PROVE Spec => []NothingLeaks
<1>1. RPCInv => NothingLeaks
  BY DEF RPCInv
<1> QED BY <1>1, Numbered, RPCAlways, PTL
=============================================================================
