------------------------------- MODULE Meter --------------------------------
(***************************************************************************)
(* The way of ONE customer's bytes, in one direction, from the counters of *)
(* a node to his account: BeginCollect of internal/agent/stats.go reads    *)
(* the user counters of the core (or, for sing-box, its clash connections) *)
(* and the marked sockets of flowacct.go, one after the other, the larger  *)
(* of the two differences is sent in a statistics frame, and applySamples  *)
(* of internal/server/hub.go adds it to the tables.                        *)
(***************************************************************************)
EXTENDS Integers, Sequences, FiniteSets

CONSTANTS Conns,        \* outbound connections the customer opens
          MaxBytes,     \* bound on his traffic
          MaxFaults,    \* bound on failed or partial readings, writes, batches, restarts
          MaxWire,      \* bound on frames under way
          Skew,         \* TRUE: traffic goes on between the two readings of one collect
          Partial,      \* TRUE: a tick may miss sockets: ss is cut short and prints only
                        \* some of them, or conntrack cannot be read this time
          Num, Den      \* the package's multiplier Num/Den

MeterAssumption ==
  /\ IsFiniteSet(Conns)
  /\ MaxBytes \in Nat /\ MaxFaults \in Nat /\ MaxWire \in Nat
  /\ Skew \in BOOLEAN /\ Partial \in BOOLEAN /\ Num \in Nat /\ Den \in Nat \ {0}

VARIABLES
  node,      \* the core, and whether conntrack counts and carries the sockets' marks
  moved,      \* bytes the customer moved
  counter,   \* the core's user counter
  conn,      \* each connection: its state, the core's count of it, its socket's count
  last,    \* c.singboxStatsLast or c.xrayLast, c.flowLast, c.clashLast
  collect,   \* the open collect: its step, what it found, the cursors to commit
  wire,      \* amounts in frames that the panel has not handled
  raw,       \* traffic_daily of the customer
  used,      \* users.used_up or used_down, multiplied
  faults,    \* count of faults
  again,     \* history: bytes that an interval could bill a second time
  lost,      \* history: a frame or a batch was lost, or a process started again
  base       \* history: the first reading of the core

meterVars == <<node, moved, counter, conn, last, collect, wire, raw, used, faults, again, lost, base>>

None == -1        \* no reading yet
\* The bytes that f counts on S, one by one; their number is the sum over S.
Bytes(f, S) == UNION {{c} \X (1 .. f[c]) : c \in S}
Sum(f, S) == Cardinality(Bytes(f, S))
Larger(a, b) == IF a > b THEN a ELSE b
Wire == Sum(wire, DOMAIN wire)

NoCursor == [core |-> None, flow |-> None, clash |-> [c \in Conns |-> None]]
NoCollect == [st |-> "idle", core |-> 0, ok |-> FALSE, amount |-> 0, again |-> 0, next |-> NoCursor]

Init ==
  /\ node \in [core : {"xray", "singbox"}, conntrack : BOOLEAN, copied : BOOLEAN]
  /\ node.copied => node.conntrack
  /\ moved = 0 /\ counter = 0
  /\ conn \in [Conns -> [st : {"new"}, udp : BOOLEAN, core : {0}, sock : {0}]]
  /\ last = NoCursor /\ collect = NoCollect
  /\ wire = <<>> /\ raw = 0 /\ used = 0
  /\ faults = 0 /\ again = 0 /\ lost = FALSE /\ base = None

(***************************************************************************)
(* Readings.                                                               *)
(***************************************************************************)
Open == {c \in Conns : conn[c].st = "open"}
Sock == [c \in Conns |-> conn[c].sock]

\* nf_conntrack rows carry the mark only when nft copied it to the connection.
\* ct: conntrack was read at this tick.
CtMarks(ct) == IF ct /\ node.copied THEN Sum(Sock, Open) ELSE 0

\* QueryStats, over gRPC or with the core's own command, never resets the counters.
CoreReading == counter

\* ss prints the mark of every socket and the bytes of TCP sockets.
SSMarks(seen) == Sum(Sock, {c \in seen : ~conn[c].udp})

\* The rows of conntrack joined by address to the marked sockets ss printed.
Joined(seen, ct) == IF ct THEN Sum(Sock, seen) ELSE 0

FlowReading(seen, ct) == Larger(Larger(CtMarks(ct), SSMarks(seen)), Joined(seen, ct))

\* Every socket, from every source the node has.
FullReading == FlowReading(Open, node.conntrack)

(***************************************************************************)
(* What a reading adds to the bill, given the cursor.  A first reading is  *)
(* a base line.  A core counter below the last one started from zero; the  *)
(* sum over the sockets falls whenever one of them is closed.              *)
(***************************************************************************)
CoreDelta(was, now) ==
  IF was = None \/ now = 0 THEN 0 ELSE IF now >= was THEN now - was ELSE now

\* Mutant: a sum that fell started from zero.
FlowDeltaWhole(was, now) == CoreDelta(was, now)

FlowDelta(was, now) == IF was = None \/ now < was THEN 0 ELSE now - was

\* A zero is not a reading: the sample is left out and the cursor stays.
Moved(was, now) == IF now = 0 THEN was ELSE now

ClashDelta == Sum([c \in Conns |-> CoreDelta(last.clash[c], conn[c].core)], Open)
ClashNext == [c \in Conns |-> IF c \in Open THEN conn[c].core ELSE None]

(***************************************************************************)
(* The customer and the core.                                              *)
(***************************************************************************)
MayMove == moved < MaxBytes /\ (collect.st = "cores" => Skew)

\* History: bytes that fall between the two readings are in both intervals.
Count ==
  /\ moved' = moved + 1
  /\ again' = IF collect.st = "cores" THEN again + 1 ELSE again

Connect(c) ==
  /\ conn[c].st = "new"
  /\ conn' = [conn EXCEPT ![c].st = "open"]
  /\ UNCHANGED <<node, moved, counter, last, collect, wire, raw, used, faults, again, lost, base>>

Transfer(c) ==
  /\ c \in Open /\ MayMove /\ Count
  /\ counter' = counter + 1
  /\ conn' = [conn EXCEPT ![c].core = @ + 1, ![c].sock = @ + 1]
  /\ UNCHANGED <<node, last, collect, wire, raw, used, faults, lost, base>>

\* Xray spliced the connection: its own counters stand still.
Splice(c) ==
  /\ c \in Open /\ ~conn[c].udp /\ node.core = "xray" /\ MayMove /\ Count
  /\ conn' = [conn EXCEPT ![c].sock = @ + 1]
  /\ UNCHANGED <<node, counter, last, collect, wire, raw, used, faults, lost, base>>

Disconnect(c) ==
  /\ c \in Open
  /\ conn' = [conn EXCEPT ![c].st = "closed", ![c].core = 0, ![c].sock = 0]
  /\ UNCHANGED <<node, moved, counter, last, collect, wire, raw, used, faults, again, lost, base>>

AllClosed == [c \in Conns |-> IF c \in Open THEN [conn[c] EXCEPT !.st = "closed", !.core = 0, !.sock = 0]
                                            ELSE conn[c]]
Fault == faults < MaxFaults /\ faults' = faults + 1

CoreRestart ==
  /\ Fault
  /\ counter' = 0 /\ conn' = AllClosed /\ lost' = TRUE
  /\ UNCHANGED <<node, moved, last, collect, wire, raw, used, again, base>>

AgentRestart ==
  /\ Fault
  /\ counter' = 0 /\ conn' = AllClosed /\ lost' = TRUE
  /\ last' = NoCursor /\ collect' = NoCollect
  /\ UNCHANGED <<node, moved, wire, raw, used, again, base>>

(***************************************************************************)
(* BeginCollect.                                                           *)
(***************************************************************************)
Found(amount, ok, next) ==
  collect' = [st |-> "cores", core |-> amount, ok |-> ok, amount |-> 0, again |-> 0, next |-> next]

\* The counters answer.  For sing-box the clash cursor is emptied, so that a
\* later fallback starts from a base line.
PeekCore ==
  /\ collect.st = "idle"
  /\ Found(CoreDelta(last.core, CoreReading), TRUE,
           [last EXCEPT !.core = Moved(@, CoreReading),
                          !.clash = IF node.core = "singbox" THEN NoCursor.clash ELSE @])
  /\ UNCHANGED <<node, moved, counter, conn, last, wire, raw, used, faults, again, lost, base>>

\* They do not, and sing-box's list of connections is used instead.
PeekClash ==
  /\ collect.st = "idle" /\ Fault /\ node.core = "singbox"
  /\ Found(ClashDelta, FALSE, [last EXCEPT !.clash = ClashNext])
  /\ UNCHANGED <<node, moved, counter, conn, last, wire, raw, used, again, lost, base>>

PeekCoreFail ==
  /\ collect.st = "idle" /\ Fault
  /\ Found(0, FALSE, last)
  /\ UNCHANGED <<node, moved, counter, conn, last, wire, raw, used, again, lost, base>>

Merged(core, flow) == Larger(core, flow)

\* The sockets, as ss printed them, or nothing when neither source could be read.
\* History: what this interval bills can be billed again by the source that was
\* not read, and what ss or conntrack left out comes back with the next full list.
Peeked(flow, next, ok, hidden) ==
  LET amount == Merged(collect.core, flow)
  IN collect' = [collect EXCEPT !.st = "send", !.amount = amount, !.next.flow = next,
                   !.again = hidden + (IF collect.ok /\ ok THEN 0 ELSE amount)]

PeekFlows ==
  /\ collect.st = "cores"
  /\ LET now == FullReading
     IN Peeked(FlowDelta(last.flow, now), Moved(last.flow, now), TRUE, 0)
  /\ UNCHANGED <<node, moved, counter, conn, last, wire, raw, used, faults, again, lost, base>>

PeekFlowsCut(seen, ct) ==
  /\ collect.st = "cores" /\ Fault /\ Partial
  /\ ct => node.conntrack
  /\ seen # Open \/ ct # node.conntrack
  /\ LET now == FlowReading(seen, ct)
     IN Peeked(FlowDelta(last.flow, now), Moved(last.flow, now), TRUE, FullReading - now)
  /\ UNCHANGED <<node, moved, counter, conn, last, wire, raw, used, again, lost, base>>

PeekFlowsFail ==
  /\ collect.st = "cores" /\ Fault
  /\ Peeked(0, last.flow, FALSE, 0)
  /\ UNCHANGED <<node, moved, counter, conn, last, wire, raw, used, again, lost, base>>

(***************************************************************************)
(* The frame: finish(true) after it was written, finish(false) and a lost  *)
(* connection when it was not.                                             *)
(***************************************************************************)
Send ==
  /\ collect.st = "send" /\ Len(wire) < MaxWire
  /\ wire' = IF collect.amount > 0 THEN Append(wire, collect.amount) ELSE wire
  /\ last' = collect.next
  /\ again' = again + collect.again
  /\ base' = IF base = None THEN collect.next.core ELSE base
  /\ collect' = NoCollect
  /\ UNCHANGED <<node, moved, counter, conn, raw, used, faults, lost>>

\* Mutant: the cursors move although the frame was not written.
SendFailCommitted ==
  /\ collect.st = "send" /\ Fault
  /\ collect' = NoCollect
  /\ last' = collect.next
  /\ wire' = <<>> /\ lost' = (lost \/ wire # <<>>)
  /\ base' = IF base = None THEN collect.next.core ELSE base
  /\ UNCHANGED <<node, moved, counter, conn, raw, used, again>>

SendFail ==
  /\ collect.st = "send" /\ Fault
  /\ collect' = NoCollect
  /\ wire' = <<>> /\ lost' = (lost \/ wire # <<>>)
  /\ UNCHANGED <<node, moved, counter, conn, last, raw, used, again, base>>

Billed(n) == (n * Num) \div Den

\* consumeStats: the rows of one frame are one transaction.
Consume ==
  /\ wire # <<>>
  /\ raw' = raw + Head(wire) /\ used' = used + Billed(Head(wire))
  /\ wire' = Tail(wire)
  /\ UNCHANGED <<node, moved, counter, conn, last, collect, faults, again, lost, base>>

\* The batch rolls back, or the client or his inbound is gone.
ConsumeFail ==
  /\ wire # <<>> /\ Fault
  /\ wire' = Tail(wire) /\ lost' = TRUE
  /\ UNCHANGED <<node, moved, counter, conn, last, collect, raw, used, again, base>>

Next ==
  \/ \E c \in Conns : Connect(c) \/ Transfer(c) \/ Splice(c) \/ Disconnect(c)
  \/ CoreRestart \/ AgentRestart
  \/ PeekCore \/ PeekClash \/ PeekCoreFail
  \/ PeekFlows \/ PeekFlowsFail
  \/ \E seen \in SUBSET Open, ct \in BOOLEAN : PeekFlowsCut(seen, ct)
  \/ Send \/ SendFail \/ Consume \/ ConsumeFail

Spec == Init /\ [][Next]_meterVars

-----------------------------------------------------------------------------
Node == [core : {"xray", "singbox"}, conntrack : BOOLEAN, copied : BOOLEAN]
Conn == [st : {"new", "open", "closed"}, udp : BOOLEAN, core : Nat, sock : Nat]
Readings == Nat \cup {None}
Cursor == [core : Readings, flow : Readings, clash : [Conns -> Readings]]
Collect == [st : {"idle", "cores", "send"}, core : Nat, ok : BOOLEAN, amount : Nat, again : Nat,
            next : Cursor]

TypeOK ==
  /\ node \in Node /\ conn \in [Conns -> Conn] /\ last \in Cursor /\ collect \in Collect
  /\ moved \in Nat /\ counter \in Nat /\ wire \in Seq(Nat) /\ raw \in Nat /\ used \in Nat
  /\ faults \in Nat /\ again \in Nat /\ lost \in BOOLEAN /\ base \in Readings

\* A byte is billed once, however core, sockets, Agent and connection fail: only
\* what is in two readings of one collect, what a cut list of sockets or a tick
\* without conntrack hid, and what was billed while one of the two sources could
\* not be read can be billed a second time.  The account never grows by more of it than the multiplier says.
OverbilledOnlyAgain == raw + Wire <= moved + again /\ used * Den <= raw * Num

\* The comments of BeginCollect: the two sources measure the same interval, and
\* the larger side is taken "so a live core counter is not added again".
BilledOnce == raw + Wire <= moved

\* What the core counted since the first reading is billed or on its way, as long
\* as no frame, batch or process was lost: a frame that could not be written, a
\* query that failed and a fallback drop nothing.
NothingDropped == ~lost /\ base # None => raw + Wire >= last.core - base

=============================================================================
