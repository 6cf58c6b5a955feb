------------------------------- MODULE WGLink -------------------------------
(***************************************************************************)
(* The WireGuard interfaces of one server (agent/wireguard.go, wgdial.go). *)
(* Apply runs wg-quick and wg for one interface after the other under      *)
(* c.mu; any of these commands can fail.  A changed [Interface] block      *)
(* needs the interface taken down, which resets the kernel's counters: they *)
(* are read first and handed to the next statistics frame.  A change of     *)
(* peers alone goes through syncconf, which forgets the peers' endpoints.  *)
(* keepWireGuard puts them back, from a copy of the request it took before. *)
(***************************************************************************)
EXTENDS Naturals, Sequences

CONSTANTS
  Order,      \* the interfaces, in the order of a request's tunnels
  Blocks,     \* [Interface] blocks
  Peers,      \* the customers' public keys
  None,       \* no request, no file, no interface
  Requests,   \* what the panel may send: for each interface a conf or None
  MaxApplies, \* bound: requests of a behaviour
  MaxFaults   \* bound: its failed commands and restarts

VARIABLES
  lastReq,   \* c.lastReq["wireguard"]
  names,     \* c.wgIfaces
  disk,      \* for each interface the .conf file
  kern,      \* for each interface the running block, peers and endpoints
  counter,   \* for each interface the bytes its counters hold
  dial,      \* for each interface the endpoints in its wg-dial file
  job,       \* the Apply that holds c.mu
  keeper,    \* keepWireGuard
  handoff,   \* c.wgHandoff
  frame,     \* the collection between BeginCollect and its finish
  sent,      \* the bytes in frames that were written
  applies, faults,
  born,      \* history: the bytes the kernel has counted
  talked,    \* history: for each interface the peers heard between two applies
  agreed,    \* history: the request this process last answered with OK
  torn,      \* history: interfaces, or files, that a refused Apply left in between
  spoiled    \* history: a hand-over could not be kept

wgLinkVars == <<lastReq, names, disk, kern, counter, dial, job, keeper, handoff,
                frame, sent, applies, faults, born, talked, agreed, torn, spoiled>>

Ifaces == {Order[k] : k \in DOMAIN Order}
Confs == [block : Blocks, peers : SUBSET Peers]
Running == [block : Blocks, peers : SUBSET Peers, ends : SUBSET Peers]
Tunnels == [Ifaces -> Confs \cup {None}]

WGLinkAssumption ==
  /\ Order \in Seq(Ifaces) /\ Requests \subseteq Tunnels
  /\ None \notin Confs /\ None \notin Running
  /\ MaxApplies \in Nat /\ MaxFaults \in Nat

NoTunnel == [i \in Ifaces |-> None]
\* job.was is a history: what was agreed before this answer.
Idle == [st |-> "idle", req |-> NoTunnel, todo |-> {}, same |-> FALSE, blind |-> FALSE,
         errs |-> FALSE, hit |-> {}, was |-> NoTunnel]
NoKeep == [st |-> "off", conf |-> NoTunnel]

IfaceUp(i) == kern[i] # None
Endpoints(i) == IF IfaceUp(i) THEN kern[i].ends ELSE {}
TunnelsOf(r) == {i \in Ifaces : r[i] # None}
First(S) == Order[CHOOSE k \in DOMAIN Order :
                    Order[k] \in S /\ \A n \in DOMAIN Order : n < k => Order[n] \notin S]
Down(k, i) == [k EXCEPT ![i] = None]

Init ==
  /\ lastReq = NoTunnel /\ names = {} /\ disk = NoTunnel /\ kern = NoTunnel
  /\ counter = [i \in Ifaces |-> {}] /\ dial = [i \in Ifaces |-> {}]
  /\ job = Idle /\ keeper = NoKeep /\ handoff = {}
  /\ frame = [st |-> "off", bytes |-> {}, clear |-> FALSE] /\ sent = {}
  /\ applies = 0 /\ faults = 0 /\ born = {} /\ talked = [i \in Ifaces |-> {}] /\ agreed = NoTunnel /\ torn = {} /\ spoiled = FALSE

Fault == faults < MaxFaults /\ faults' = faults + 1

-----------------------------------------------------------------------------
\* knownWGIfaces: what memory, the last request and the directory name.
KnownIfaces == names \cup TunnelsOf(lastReq) \cup TunnelsOf(disk)

\* rememberWG: from now on memory names the request's interfaces.
Remembered(r) == TunnelsOf(r)

\* The request is the last one and every tunnel of it is up.
Unchanged(r) == TunnelsOf(r) # {} /\ r = lastReq /\ \A i \in TunnelsOf(r) : IfaceUp(i)

\* A request without tunnels to a process that has had none: nothing is looked
\* for, not even in the directory.
Blind(r) == TunnelsOf(r) = {} /\ names = {} /\ TunnelsOf(lastReq) = {}

\* wgNeedsBounce, asked before the file is replaced: the last request's block
\* counts, the file's only when there was none.
NeedsBounce(i, new) ==
  LET base == IF lastReq[i] # None THEN lastReq[i] ELSE disk[i]
  IN  base = None \/ base.block # new.block

\* With tunnels to apply first, or with only leftovers to remove.
ApplyStart(r) ==
  /\ job.st = "idle" /\ applies < MaxApplies /\ applies' = applies + 1
  /\ job' = [Idle EXCEPT !.req = r, !.same = Unchanged(r), !.blind = Blind(r),
       !.st = IF TunnelsOf(r) = {} \/ Unchanged(r) THEN "left" ELSE "one",
       !.todo = IF Blind(r) THEN {}
                ELSE IF TunnelsOf(r) = {} \/ Unchanged(r) THEN KnownIfaces \ TunnelsOf(r)
                ELSE TunnelsOf(r)]
  /\ names' = IF Unchanged(r) THEN Remembered(r) ELSE names
  /\ UNCHANGED <<lastReq, disk, kern, counter, dial, keeper, handoff, frame, sent, born, talked, faults, agreed, torn, spoiled>>

Here == First(job.todo)
Working(st) == job.st = st /\ job.todo # {}

\* The tunnel at hand is finished, well or badly; after the last one come the
\* interfaces the request does not have (downLeftoverWG).
NextTunnel(failed) ==
  LET rest == job.todo \ {Here}
  IN  job' = [job EXCEPT !.st = IF rest = {} THEN "left" ELSE "one",
                         !.todo = IF rest = {} THEN KnownIfaces \ TunnelsOf(job.req) ELSE rest,
                         !.errs = @ \/ failed, !.hit = @ \cup {Here}]

\* applyOneWG up to the first command: endpoints are noted, the bounce is
\* decided on the old file, the new file is written.
Prepare ==
  /\ Working("one")
  /\ dial' = [dial EXCEPT ![Here] = @ \cup Endpoints(Here)]
  /\ LET b == ~IfaceUp(Here) \/ NeedsBounce(Here, job.req[Here])
     IN  job' = [job EXCEPT !.st = IF ~b THEN "sync" ELSE IF IfaceUp(Here) THEN "down" ELSE "up"]
  /\ disk' = [disk EXCEPT ![Here] = job.req[Here]]
  /\ UNCHANGED <<lastReq, names, kern, counter, keeper, handoff, frame, sent, born, talked, applies, faults, agreed, torn, spoiled>>

WriteFails ==
  /\ Working("one") /\ Fault
  /\ dial' = [dial EXCEPT ![Here] = @ \cup Endpoints(Here)]
  /\ NextTunnel(TRUE)
  /\ UNCHANGED <<lastReq, names, disk, kern, counter, keeper, handoff, frame, sent, born, talked, applies, agreed, torn, spoiled>>

\* captureWGHandoff: one list for the whole Agent, replaced each time.
Capture(i) ==
  /\ handoff' = IF counter[i] = {} THEN handoff ELSE counter[i]
  /\ spoiled' = (spoiled \/ (counter[i] # {} /\ (handoff # {} \/ frame.clear)))

\* wg-quick down: the interface and its counters are gone.
TakeDown(i) == kern' = Down(kern, i) /\ counter' = [counter EXCEPT ![i] = {}]

\* Endpoints that no dial file has are gone with it.
Unheard(i) == talked' = [talked EXCEPT ![i] = @ \cap dial[i]]

BounceDown ==
  /\ Working("down") /\ Capture(Here) /\ TakeDown(Here)
  /\ job' = [job EXCEPT !.st = "up"]
  /\ UNCHANGED <<lastReq, names, disk, dial, keeper, frame, sent, born, talked, applies, faults, agreed, torn>>

BounceDownFails ==
  /\ Working("down") /\ Fault /\ Capture(Here) /\ NextTunnel(TRUE)
  /\ UNCHANGED <<lastReq, names, disk, kern, counter, dial, keeper, frame, sent, born, talked, applies, agreed, torn>>

BringUp ==
  /\ Working("up")
  /\ kern' = [kern EXCEPT ![Here] = [block |-> job.req[Here].block, peers |-> job.req[Here].peers, ends |-> {}]]
  /\ NextTunnel(FALSE)
  /\ UNCHANGED <<lastReq, names, disk, counter, dial, keeper, handoff, frame, sent, born, talked, applies, faults, agreed, torn, spoiled>>

BringUpFails ==
  /\ Working("up") /\ Fault /\ NextTunnel(TRUE)
  /\ UNCHANGED <<lastReq, names, disk, kern, counter, dial, keeper, handoff, frame, sent, born, talked, applies, agreed, torn, spoiled>>

\* wg syncconf: the peers become the file's, endpoints it does not name go.
SyncPeers ==
  /\ Working("sync") /\ IfaceUp(Here)
  /\ kern' = [kern EXCEPT ![Here].peers = job.req[Here].peers, ![Here].ends = {}]
  /\ NextTunnel(FALSE)
  /\ UNCHANGED <<lastReq, names, disk, counter, dial, keeper, handoff, frame, sent, born, talked, applies, faults, agreed, torn, spoiled>>

SyncFails ==
  /\ Working("sync") /\ Fault /\ NextTunnel(TRUE)
  /\ UNCHANGED <<lastReq, names, disk, kern, counter, dial, keeper, handoff, frame, sent, born, talked, applies, agreed, torn, spoiled>>

\* downOneWG of an interface the request does not have.
DropLeftover ==
  /\ Working("left")
  /\ IF IfaceUp(Here) THEN Capture(Here) /\ TakeDown(Here) ELSE UNCHANGED <<kern, counter, handoff, spoiled>>
  /\ Unheard(Here)
  /\ disk' = [disk EXCEPT ![Here] = None]
  /\ job' = [job EXCEPT !.todo = @ \ {Here}, !.hit = @ \cup {Here}]
  /\ UNCHANGED <<lastReq, names, dial, keeper, frame, sent, born, applies, faults, agreed, torn>>

DropFails ==
  /\ Working("left") /\ IfaceUp(Here) /\ Fault /\ Capture(Here)
  /\ job' = [job EXCEPT !.todo = @ \ {Here}, !.errs = TRUE, !.hit = @ \cup {Here}]
  /\ UNCHANGED <<lastReq, names, disk, kern, counter, dial, keeper, frame, sent, born, talked, applies, agreed, torn>>

\* restoreWGDial: wg set gives a peer the endpoint it had, and creates the
\* peer when the interface does not have it.
Restored(k, conf, known, seen) ==
  [k EXCEPT !.ends = @ \cup ((conf.peers \cap known) \ seen)]

\* An interface runs what the request says.
Right(i, r) ==
  IF r[i] = None THEN ~IfaceUp(i)
  ELSE IfaceUp(i) /\ kern[i].block = r[i].block /\ kern[i].peers = r[i].peers

NextRequestAlways == job.req
NextRequest == IF job.errs THEN lastReq ELSE job.req

\* keepWGPath of every tunnel of a request: what the kernel knows is noted,
\* what it lacks is put back.
KeepTunnels(conf) ==
  /\ dial' = [i \in Ifaces |-> IF conf[i] # None THEN dial[i] \cup Endpoints(i) ELSE dial[i]]
  /\ kern' = [i \in Ifaces |-> IF conf[i] # None /\ IfaceUp(i)
                               THEN Restored(kern[i], conf[i], dial'[i], kern[i].ends)
                               ELSE kern[i]]

\* The answer.  Without an error the request is remembered and its tunnels
\* kept; those of an unchanged request are kept in any case.
ApplyEnd ==
  /\ job.st = "left" /\ job.todo = {}
  /\ lastReq' = NextRequest
  /\ IF job.errs /\ ~job.same THEN UNCHANGED <<dial, kern>> ELSE KeepTunnels(job.req)
  /\ IF job.errs
     THEN job' = Idle /\ torn' = torn \cup job.hit /\ UNCHANGED <<names, agreed>>
     ELSE /\ job' = [Idle EXCEPT !.st = "ok", !.req = job.req, !.blind = job.blind, !.was = agreed]
          /\ names' = Remembered(job.req) /\ agreed' = job.req
          /\ torn' = {i \in torn : ~Right(i, job.req) \/ disk[i] # job.req[i]}
  /\ UNCHANGED <<disk, counter, keeper, handoff, frame, sent, born, talked, applies, faults, spoiled>>

Answered ==
  /\ job.st = "ok" /\ job' = Idle
  /\ UNCHANGED <<lastReq, names, disk, kern, counter, dial, keeper, handoff, frame, sent, born, talked, applies, faults, agreed, torn, spoiled>>

-----------------------------------------------------------------------------
\* keepWireGuard: the request is copied under c.mu, the rest is not under it.
KeepStart ==
  /\ keeper.st = "off" /\ job.st = "idle" /\ TunnelsOf(lastReq) # {}
  /\ keeper' = [st |-> "copied", conf |-> lastReq]
  /\ UNCHANGED <<lastReq, names, disk, kern, counter, dial, job, handoff, frame, sent, born, talked, applies, faults, agreed, torn, spoiled>>

KeepRun ==
  /\ keeper.st = "copied"
  /\ KeepTunnels(keeper.conf)
  /\ keeper' = NoKeep
  /\ UNCHANGED <<lastReq, names, disk, counter, job, handoff, frame, sent, born, talked, applies, faults, agreed, torn, spoiled>>

-----------------------------------------------------------------------------
\* A peer talks: the kernel learns its endpoint and counts.
Handshake(i, p) ==
  /\ IfaceUp(i) /\ p \in kern[i].peers \ kern[i].ends
  /\ kern' = [kern EXCEPT ![i].ends = @ \cup {p}]
  /\ talked' = IF job.st = "idle" THEN [talked EXCEPT ![i] = @ \cup {p}] ELSE talked
  /\ UNCHANGED <<lastReq, names, disk, counter, dial, job, keeper, handoff, frame, sent, born, applies, faults, agreed, torn, spoiled>>

Held == sent \cup handoff \cup UNION {counter[i] : i \in Ifaces}

\* Each interface counts one byte of a behaviour.
Traffic(i) ==
  /\ IfaceUp(i) /\ kern[i].peers # {} /\ i \notin born
  /\ counter' = [counter EXCEPT ![i] = {i}] /\ born' = born \cup {i}
  /\ UNCHANGED <<lastReq, names, disk, kern, dial, job, keeper, handoff, frame, sent, talked, applies, faults, agreed, torn, spoiled>>

\* peekWireGuardPeers: the hand-over first, the interfaces otherwise; those of
\* the directory when memory names none.
Collect ==
  /\ frame.st = "off"
  /\ LET read == IF names # {} THEN names ELSE TunnelsOf(disk)
     IN  frame' = [st |-> "out", clear |-> handoff # {},
                   bytes |-> IF handoff # {} THEN handoff ELSE UNION {counter[i] : i \in read}]
  /\ UNCHANGED <<lastReq, names, disk, kern, counter, dial, job, keeper, handoff, sent, born, talked, applies, faults, agreed, torn, spoiled>>

NoFrame == [st |-> "off", bytes |-> {}, clear |-> FALSE]

\* finish after the frame was written, and after it was not.
FrameSent ==
  /\ frame.st = "out"
  /\ sent' = sent \cup frame.bytes /\ handoff' = IF frame.clear THEN {} ELSE handoff
  /\ frame' = NoFrame
  /\ UNCHANGED <<lastReq, names, disk, kern, counter, dial, job, keeper, born, talked, applies, faults, agreed, torn, spoiled>>

\* What finish would do if it ignored commit.
FrameFailsCleared ==
  /\ frame.st = "out" /\ Fault
  /\ frame' = NoFrame /\ handoff' = IF frame.clear THEN {} ELSE handoff
  /\ UNCHANGED <<lastReq, names, disk, kern, counter, dial, job, keeper, sent, born, talked, applies, agreed, torn, spoiled>>

FrameFails ==
  /\ frame.st = "out" /\ Fault
  /\ frame' = NoFrame
  /\ UNCHANGED <<lastReq, names, disk, kern, counter, dial, job, keeper, handoff, sent, born, talked, applies, agreed, torn, spoiled>>

\* The interface is taken away between two applies.
IfaceFails(i) ==
  /\ job.st = "idle" /\ IfaceUp(i) /\ Fault /\ TakeDown(i)
  /\ Unheard(i)
  /\ spoiled' = (spoiled \/ ~counter[i] \subseteq sent)
  /\ UNCHANGED <<lastReq, names, disk, dial, job, keeper, handoff, frame, sent, born, applies, agreed, torn>>

\* The Agent starts anew; interfaces and files stay.
AgentRestart ==
  /\ Fault
  /\ lastReq' = NoTunnel /\ names' = {} /\ agreed' = NoTunnel
  /\ job' = Idle /\ keeper' = NoKeep /\ frame' = NoFrame /\ handoff' = {}
  /\ spoiled' = (spoiled \/ ~(handoff \cup frame.bytes) \subseteq sent)
  /\ torn' = torn \cup job.hit
       \cup (IF job.st \in {"down", "up", "sync"} THEN {Here} ELSE {})
  /\ UNCHANGED <<disk, kern, counter, dial, sent, born, talked, applies>>

Next ==
  \/ \E r \in Requests : ApplyStart(r)
  \/ Prepare \/ WriteFails \/ BounceDown \/ BounceDownFails \/ BringUp \/ BringUpFails
  \/ SyncPeers \/ SyncFails \/ DropLeftover \/ DropFails \/ ApplyEnd \/ Answered
  \/ KeepStart \/ KeepRun
  \/ \E i \in Ifaces : IfaceFails(i) \/ Traffic(i) \/ (\E p \in Peers : Handshake(i, p))
  \/ Collect \/ FrameSent \/ FrameFails \/ AgentRestart

Spec == Init /\ [][Next]_wgLinkVars

-----------------------------------------------------------------------------
\* The code compares with the last request it took, or with the file, and a
\* refused Apply has changed the interface or the file since.  An interface is
\* out of that state (torn) when it and its file are both what an OK answer
\* said: the old request sent again is taken as unchanged and leaves a new
\* file beside it, which the first request after a restart is compared with.
Reverted(i) ==
  /\ i \in torn /\ job.req[i] # None
  /\ job.was[i] = None \/ job.was[i].block = job.req[i].block

\* Bytes the kernel counted are still in a counter, handed over, or sent: a
\* bounce does not lose them, unless a second one came before the first
\* hand-over was sent or the Agent stopped with it.
NothingUnread == spoiled \/ born \subseteq Held

\* The endpoint of a peer that talked survives every OK apply: syncconf and a
\* bounce forget it, the dial file brings it back.
StillDialled == \A i \in TunnelsOf(job.req) : IfaceUp(i) => talked[i] \cap job.req[i].peers \subseteq kern[i].ends

\* Apply answers OK only when every interface runs the request: what a failed
\* command of an earlier Apply left undone is done again, unless the request
\* goes back to the one before it, where the code does not look, or has no
\* tunnel and is the first after a restart.  And whoever was connected still is.
OkRuns ==
  job.st = "ok" =>
    /\ ~job.blind => \A i \in Ifaces : Right(i, job.req) \/ Reverted(i)
    /\ StillDialled
=============================================================================
