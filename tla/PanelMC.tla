------------------------------ MODULE PanelMC -------------------------------
(***************************************************************************)
(* What the panel keeps, for TLC: the connection of an Agent (HubConn),    *)
(* the lines (Lines), the WireGuard nodes (WGPlan), the certificates       *)
(* (Renewal) and a restored backup (Restore).  They share no state, so a   *)
(* behaviour runs one of them while the others stay as they began.         *)
(***************************************************************************)
EXTENDS HubConn, Naturals, TLC

CONSTANTS sa, sb, sm, h1, h2, s1, s2, s3, a1, n1, n2, bad, tx, ty, tz

CONSTANTS Handlers, Servers, Ports, Nobody, MaxRequests, MaxMissed,    \* of Lines and WGPlan
          LineIds, Uri, SavedLines, SavedPackage, Busy,                \* of Lines
          Nodes, Nets, Cap, SavedNodes, Hosted,                        \* of WGPlan
          Certs, Names, Broken, Loop, Life, Due, Lives, SavedCerts,    \* of Renewal
          MaxFails, MaxTicks, MaxCertRequests,
          Agents, ServerIds, SavedServers, BackupServers, NewTokens    \* of Restore

VARIABLES part  \* which of them runs

-----------------------------------------------------------------------------
VARIABLES row, nextId, alive, pkg, held, told, op, ops, overlap, missed

lines == <<row, nextId, alive, pkg, held, told, op, ops, overlap, missed>>

Chain(s, p, x, y) == [srv |-> s, port |-> p, on |-> TRUE, chain |-> x # Nobody, exit |-> x, hops |-> y]

\* A sold chain from sa through sm to sb, and one line that may come.
MCLines == <<Chain(sb, 1, Nobody, {}), Chain(sm, 1, Nobody, {}), Chain(sa, 1, 1, {2}), Nobody>>
MCPackage == [lines |-> {3}, servers |-> {}]
MCBusy == {<<sm, 2>>}

L == INSTANCE Lines WITH
  Ids <- LineIds, None <- Nobody, Start <- SavedLines, StartPkg <- SavedPackage, MaxOps <- MaxRequests

-----------------------------------------------------------------------------
VARIABLES node, nextNode, hosted, built, edit, build, edits, raced, stale, unreached, reslotted

nodes == <<node, nextNode, hosted, built, edit, build, edits, raced, stale, unreached, reslotted>>

Node(n, p, o, e) == [srv |-> sa, net |-> n, port |-> p, on |-> o, exit |-> e, slot |-> 0]

\* The second node has the slot of the first, which is off.
MCNodes == <<Node(6, 1, FALSE, Nobody), Node(7, 2, TRUE, sb), Nobody>>

W == INSTANCE WGPlan WITH
  None <- Nobody, Start <- SavedNodes, MaxOps <- MaxRequests,
  nextId <- nextNode, told <- built, op <- edit, ops <- edits, overlap <- raced, missed <- unreached

-----------------------------------------------------------------------------
VARIABLES cert, day, woken, job, acmeMu, txt, used, dirty, loaded, fails, asked, messy

certs == <<cert, day, woken, job, acmeMu, txt, used, dirty, loaded, fails, asked, messy>>

Acme(n, u) == [src |-> "acme", names |-> n, auto |-> TRUE, until |-> u, ser |-> <<n, "acme", 0>>, err |-> FALSE, short |-> FALSE]

\* One that is due and cannot be renewed, and one that will be due at the next tick.
MCCerts == <<Acme(bad, 2), Acme(n1, 4), Nobody>>

C == INSTANCE Renewal WITH
  None <- Nobody, Start <- SavedCerts, MaxOps <- MaxCertRequests,
  row <- cert, line <- used, told <- loaded, ops <- asked

-----------------------------------------------------------------------------
VARIABLES server, nextServer, file, fresh, sess, table, want, push, running, failed, busy, changes

servers == <<server, nextServer, file, fresh, sess, table, want, push, running, failed, busy, changes>>

\* The backup comes from another panel, where ty has the id tx has here.
MCServers == <<tx, ty>>
MCBackup == <<ty, Nobody>>

B == INSTANCE Restore WITH
  Ids <- ServerIds, None <- Nobody, Start <- SavedServers, File <- BackupServers, New <- NewTokens,
  MaxChanges <- MaxRequests,
  row <- server, next <- nextServer, op <- busy

-----------------------------------------------------------------------------
ASSUME LinesTables == L!LinesAssumption
ASSUME PlanTables == W!WGPlanAssumption
ASSUME RenewalTables == C!RenewalAssumption
ASSUME RestoreTables == B!RestoreAssumption

PanelInit ==
  /\ Init /\ L!Init /\ W!Init /\ C!Init /\ B!Init
  /\ part \in {"table", "lines", "nodes", "certs", "restore"} /\ (part # "certs" => used = Nobody)

PanelNext ==
  /\ UNCHANGED part
  /\ \/ part = "table" /\ Next /\ UNCHANGED <<lines, nodes, certs, servers>>
     \/ part = "lines" /\ L!Next /\ UNCHANGED <<hubVars, nodes, certs, servers>>
     \/ part = "nodes" /\ W!Next /\ UNCHANGED <<hubVars, lines, certs, servers>>
     \/ part = "certs" /\ C!Next /\ UNCHANGED <<hubVars, lines, nodes, servers>>
     \/ part = "restore" /\ B!Next /\ UNCHANGED <<hubVars, lines, nodes, certs>>

PanelSpec == PanelInit /\ [][PanelNext]_<<hubVars, lines, nodes, certs, servers, part>>

Symmetry == Permutations(Handlers)

-----------------------------------------------------------------------------
(***************************************************************************)
(* What stays as it began needs no second look.                            *)
(***************************************************************************)

\* A landing admits every entry that dials it.
RelaysAgree == part = "lines" => L!RelaysAgree

\* A line customers have keeps its landings.
SoldPathsStay == L!SoldPathsStay

\* What is saved can be built.
SavedBuilds == part = "nodes" => W!SavedBuilds

\* Both ends of a tunnel between servers agree.
EndsAgree == part = "nodes" => W!EndsAgree

\* A running tunnel keeps its interface, mark and table.
SlotStays == W!SlotStays

\* No certificate that renews itself runs out.
NeverOver == part = "certs" => C!NeverOver

\* No renewal ends in the table only, or leaves its TXT records behind.
Served == part = "certs" => C!Served

\* Connected Agents run what the restored tables say of their own server.
RestoredRuns == part = "restore" => B!RestoredRuns
=============================================================================
