----------------------------- MODULE BillingMC ------------------------------
(***************************************************************************)
(* The ways of a customer's bytes into the tables for TLC: the kernel's    *)
(* WireGuard counters (WGAccount), the interfaces that hold them and the   *)
(* applies that reset them (WGLink), and the counters of cores and sockets *)
(* (Meter).  They share no state, so each behaviour runs one of them while *)
(* the others stay as they began.                                          *)
(***************************************************************************)
EXTENDS WGAccount, TLC

CONSTANTS new, c1, c2, Conns, MaxFaults, MaxWire, Skew, Partial, Num, Den,
          i0, i1, p, Order, Blocks, Peers, NoBlock, Requests, MaxApplies, MaxCommands

VARIABLES node, moved, counter, conn, last, collect, wire, raw, used, faults, again, lost, base

M == INSTANCE Meter

ASSUME MeterAssumption == M!MeterAssumption

VARIABLES part,  \* which of the three runs
          lastReq, names, disk, kern, ifBytes, dial, applyJob, keeper, handoff, frame, sent,
          applies, failed, born, talked, agreed, torn, spoiled

L == INSTANCE WGLink WITH
  None <- NoBlock, MaxFaults <- MaxCommands, counter <- ifBytes, job <- applyJob, faults <- failed

ASSUME WGLinkAssumption == L!WGLinkAssumption

\* One interface; another block for it and a second interface; the second
\* alone, without its customer.
Conf(b, ps) == [block |-> b, peers |-> ps]
Two(x, y) == i0 :> x @@ i1 :> y
MCOrder == <<i0, i1>>
MCRequests == {Two(Conf("A", {p}), NoBlock), Two(Conf("B", {p}), Conf("A", {p})),
               Two(NoBlock, Conf("A", {}))}

link == <<lastReq, names, disk, kern, ifBytes, dial, applyJob, keeper, handoff, frame, sent,
          applies, failed, born, talked, agreed, torn, spoiled>>

meter == <<node, moved, counter, conn, last, collect, wire, raw, used, faults, again, lost, base>>

NotMetered == [core |-> "none", conntrack |-> FALSE, copied |-> FALSE]

MeterAtRest ==
  /\ node = NotMetered /\ moved = 0 /\ counter = 0
  /\ conn = [c \in Conns |-> [st |-> "new", udp |-> FALSE, core |-> 0, sock |-> 0]]
  /\ last = M!NoCursor /\ collect = M!NoCollect
  /\ wire = <<>> /\ raw = 0 /\ used = 0 /\ faults = 0 /\ again = 0 /\ lost = FALSE /\ base = M!None

BillingInit ==
  /\ Init /\ L!Init
  /\ \/ part = "meter" /\ M!Init
     \/ part \in {"kernel", "link"} /\ MeterAtRest

BillingNext ==
  /\ UNCHANGED part
  /\ \/ part = "meter" /\ M!Next /\ UNCHANGED <<wgVars, link>>
     \/ part = "kernel" /\ Next /\ UNCHANGED <<meter, link>>
     \/ part = "link" /\ L!Next /\ UNCHANGED <<wgVars, meter>>

BillingSpec == BillingInit /\ [][BillingNext]_<<wgVars, meter, link, part>>

-----------------------------------------------------------------------------
\* Of core counters and sockets a byte is billed once, but for the intervals
\* that Meter names.
OverbilledOnlyAgain == M!OverbilledOnlyAgain

\* No reading the core answered is forgotten by a failed write or query.
NothingDropped == M!NothingDropped

\* BeginCollect: the two sources measure the same interval, and the larger is
\* taken so that "a live core counter is not added again".
BilledOnce == M!BilledOnce

\* An apply of the Agent answers OK only when every interface runs what the
\* request says, and leaves its customers connected.
OkRuns == L!OkRuns

\* Counters that an apply resets are handed to the next statistics frame.
NothingUnread == L!NothingUnread

Symmetry == Permutations(Conns)
=============================================================================
