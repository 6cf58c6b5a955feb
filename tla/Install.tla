------------------------------ MODULE Install -------------------------------
(***************************************************************************)
(* Programs on a server that are replaced while they are in use: the       *)
(* Agent's own executable (server/handlers_agent.go, agent/upgrade.go) and *)
(* a core's (agent/install.go).  Every request to the Agent is a goroutine *)
(* of its own.  A file is an inode: what is opened by name may be renamed, *)
(* removed or cut off by another goroutine before it is closed.            *)
(***************************************************************************)
EXTENDS Naturals, FiniteSets

CONSTANTS
  Upgrades,    \* goroutines that run handleUpgrade
  Installs,    \* goroutines that run ensureCore
  Nodes,       \* inodes
  None,
  Part,        \* a file cut short
  MaxVersion,  \* bound on releases
  MaxFaults    \* bound on accidents

Whole == "whole"

\* A fragment is no program, and no inode is none.
InstallAssumption ==
  /\ MaxVersion \in Nat \ {0} /\ MaxFaults \in Nat
  /\ None \notin Nat /\ Part \notin Nat \cup {None, Whole}
  /\ Nodes # {} /\ None \notin Nodes

VARIABLES
  panel,    \* the version of the panel that runs
  served,   \* ... and of the Agent program beside it
  data,     \* what is in each inode: a version, Part, None
  exe, tmp, \* the inodes of the program and of program.new
  up,       \* what each upgrade is doing
  runs,     \* the version of the Agent; None when its program does not start
  shown,    \* the version the panel has been told of
  crossed,  \* an upgrade opened program.new while another had it
  core,     \* the core's program: a whole one, Part, None
  inst,     \* what each installation is doing
  faults

upgradeVars == <<panel, served, data, exe, tmp, up, runs, shown, crossed>>
installVars == <<upgradeVars, core, inst, faults>>

NoUpgrade == [st |-> "idle", want |-> None, fd |-> None, live |-> TRUE]
NoInstall == [st |-> "idle", got |-> None]

Init ==
  /\ panel = 1 /\ served = 1
  /\ exe = CHOOSE n \in Nodes : TRUE
  /\ data = [n \in Nodes |-> IF n = exe THEN 0 ELSE None]
  /\ tmp = None /\ up = [u \in Upgrades |-> NoUpgrade] /\ runs = 0 /\ shown = 0
  /\ crossed = FALSE /\ core = None /\ inst = [g \in Installs |-> NoInstall] /\ faults = 0

Fault == faults < MaxFaults /\ faults' = faults + 1

-----------------------------------------------------------------------------
(* The panel.                                                               *)

\* liking-upgrade puts the new programs in place, then restarts the panel:
\* every connection is lost, and with it the context of what it asked for.
Release ==
  /\ served < MaxVersion /\ served' = served + 1
  /\ UNCHANGED <<panel, data, exe, tmp, up, runs, shown, crossed, core, inst, faults>>

Lose == [u \in Upgrades |-> [up[u] EXCEPT !.live = FALSE]]

PanelRestarts ==
  /\ panel # served /\ panel' = served /\ up' = Lose
  /\ UNCHANGED <<served, data, exe, tmp, runs, shown, crossed, core, inst, faults>>

SessionLost ==
  /\ Fault /\ up' = Lose
  /\ UNCHANGED <<panel, served, data, exe, tmp, runs, shown, crossed, core, inst>>

\* handleUpgradeAgent: the Agent is there, the program beside the panel is of
\* the panel's version, and the request carries its sum.
Ask(u) ==
  /\ up[u].st = "idle" /\ runs # None /\ served = panel
  /\ up' = [up EXCEPT ![u] = [NoUpgrade EXCEPT !.st = "get", !.want = served]]
  /\ UNCHANGED <<panel, served, data, exe, tmp, runs, shown, crossed, core, inst, faults>>

-----------------------------------------------------------------------------
(* replaceSelf.                                                             *)

Step(u, r) == up' = [up EXCEPT ![u] = r]
GoOn(u, st) == Step(u, [up[u] EXCEPT !.st = st])

\* What is not named and not open any more is free again.
Kept(d, e, t, us) ==
  [n \in Nodes |-> IF n \in {e, t} \cup {us[u].fd : u \in Upgrades} THEN d[n] ELSE None]

\* What opening the program itself would do.
OpenExe(u) ==
  /\ up[u].st = "get" /\ up[u].live
  /\ data' = [data EXCEPT ![exe] = Part]
  /\ tmp' = tmp /\ Step(u, [up[u] EXCEPT !.st = "load", !.fd = exe])
  /\ UNCHANGED <<panel, served, exe, runs, shown, crossed, core, inst, faults>>

\* It has opened program.new and not renamed it yet.
Uses(u) == up[u].st \in {"load", "check", "rename"}

\* program.new is opened, and cut off if it is there; a new one takes a free inode.
Open(u) ==
  /\ up[u].st = "get" /\ up[u].live
  /\ tmp # None \/ \E m \in Nodes : data[m] = None
  /\ LET n == IF tmp # None THEN tmp ELSE CHOOSE m \in Nodes : data[m] = None
     IN  /\ data' = [data EXCEPT ![n] = Part] /\ tmp' = n
         /\ Step(u, [up[u] EXCEPT !.st = "load", !.fd = n])
  /\ crossed' = (crossed \/ \E v \in Upgrades : Uses(v))
  /\ UNCHANGED <<panel, served, exe, runs, shown, core, inst, faults>>

\* Written to the end: what the panel served when the file was opened there,
\* with holes if another upgrade has cut the file off meanwhile.
Downloaded(u) ==
  /\ up[u].st = "load" /\ up[u].live
  /\ \E v \in {up[u].want, served} \cup {Part : w \in {x \in Upgrades \ {u} : up[x].fd = up[u].fd}} :
       data' = [data EXCEPT ![up[u].fd] = v]
  /\ Step(u, [up[u] EXCEPT !.st = "check", !.fd = None])
  /\ UNCHANGED <<panel, served, exe, tmp, runs, shown, crossed, core, inst, faults>>

\* Every error takes program.new away by its name and answers.
GiveUp(u) ==
  /\ tmp' = None /\ Step(u, NoUpgrade)
  /\ data' = Kept(data, exe, None, [up EXCEPT ![u] = NoUpgrade])
  /\ UNCHANGED <<panel, served, exe, runs, shown, crossed, core, inst>>

\* Refused, cut off, full disk, out of time, or the session is gone.
DownloadFails(u) ==
  /\ up[u].st \in {"get", "load"}
  /\ IF up[u].live THEN Fault ELSE UNCHANGED faults
  /\ GiveUp(u)

Sums(u) == tmp # None /\ data[tmp] = up[u].want

\* The file of that name has the sum the request carried.
Check(u) ==
  /\ up[u].st = "check" /\ Sums(u) /\ GoOn(u, "rename")
  /\ UNCHANGED <<panel, served, data, exe, tmp, runs, shown, crossed, core, inst, faults>>

CheckFails(u) ==
  /\ up[u].st = "check" /\ ~Sums(u) /\ GiveUp(u) /\ UNCHANGED faults

\* Renamed over the program, and answered while the connection is there.
Rename(u) ==
  /\ up[u].st = "rename" /\ tmp # None
  /\ exe' = tmp /\ tmp' = None /\ GoOn(u, "exit")
  /\ data' = Kept(data, exe', None, up')
  /\ shown' = IF up[u].live THEN up[u].want ELSE shown
  /\ UNCHANGED <<panel, served, runs, crossed, core, inst, faults>>

RenameFails(u) ==
  /\ up[u].st = "rename" /\ tmp = None /\ GiveUp(u) /\ UNCHANGED faults

\* The process ends, systemd starts it again: every goroutine is gone, and
\* program.new may be left behind.
Restarted ==
  /\ runs' = IF data[exe] = Part THEN None ELSE data[exe]
  /\ up' = [u \in Upgrades |-> NoUpgrade] /\ inst' = [g \in Installs |-> NoInstall]
  /\ data' = Kept(data, exe, tmp, up')
  /\ UNCHANGED <<panel, served, exe, tmp, shown, crossed, core>>

Exit(u) == up[u].st = "exit" /\ Restarted /\ UNCHANGED faults

Crash == runs # None /\ Fault /\ Restarted

-----------------------------------------------------------------------------
(* ensureCore: nothing locks, an Apply and a request may install at once.   *)

InstStep(g, r) == inst' = [inst EXCEPT ![g] = r]

\* Missing: the archive goes to a directory of its own.  An Agent that does not
\* start installs nothing.
Missing(g) ==
  /\ runs # None /\ inst[g].st = "idle" /\ core = None /\ InstStep(g, [NoInstall EXCEPT !.st = "archive"])
  /\ UNCHANGED <<upgradeVars, core, faults>>

\* downloadVerified and the entry of that name; an error ends it.
Unpacked(g) ==
  /\ inst[g].st = "archive"
  /\ \/ InstStep(g, [st |-> "write", got |-> Whole]) /\ UNCHANGED faults
     \/ InstStep(g, NoInstall) /\ Fault
  /\ UNCHANGED <<upgradeVars, core>>

\* writeCoreBinary: a temporary name nobody else has, written and closed, ...
WriteTemp(g) ==
  /\ inst[g].st = "write"
  /\ \/ InstStep(g, [inst[g] EXCEPT !.st = "rename"]) /\ UNCHANGED faults
     \/ InstStep(g, NoInstall) /\ Fault
  /\ UNCHANGED <<upgradeVars, core>>

\* ... then renamed.
RenameCore(g) ==
  /\ inst[g].st = "rename" /\ core' = inst[g].got /\ InstStep(g, NoInstall)
  /\ UNCHANGED <<upgradeVars, faults>>

\* removeOwnedBins, or the administrator.
RemoveCore ==
  /\ core # None /\ Fault /\ core' = None
  /\ UNCHANGED <<upgradeVars, inst>>

-----------------------------------------------------------------------------
UpgradeNext ==
  \/ Release \/ PanelRestarts \/ SessionLost \/ Crash
  \/ \E u \in Upgrades :
       \/ Ask(u) \/ Open(u) \/ Downloaded(u) \/ DownloadFails(u)
       \/ Check(u) \/ CheckFails(u) \/ Rename(u) \/ RenameFails(u) \/ Exit(u)

CoreNext ==
  \/ RemoveCore \/ Crash
  \/ \E g \in Installs : Missing(g) \/ Unpacked(g) \/ WriteTemp(g) \/ RenameCore(g)

Next == UpgradeNext \/ CoreNext

Spec == Init /\ [][Next]_installVars

-----------------------------------------------------------------------------
TypeOK ==
  LET Versions == 0 .. MaxVersion
  IN  /\ panel \in Versions /\ served \in Versions /\ shown \in Versions
      /\ data \in [Nodes -> Versions \cup {Part, None}]
      /\ exe \in Nodes /\ tmp \in Nodes \cup {None} /\ runs \in Versions \cup {None}
      /\ up \in [Upgrades -> [st : {"idle", "get", "load", "check", "rename", "exit"},
                              want : Versions \cup {None}, fd : Nodes \cup {None}, live : BOOLEAN]]
      /\ crossed \in BOOLEAN /\ core \in {Whole, Part, None}
      /\ inst \in [Installs -> [st : {"idle", "archive", "write", "rename"}, got : {Whole, None}]]
      /\ faults \in 0 .. MaxFaults

\* Whatever is cut off, refused, lost or restarted half-way, the programs under
\* their own names are whole and verified: the Agent comes back after every
\* exit, with the version the panel has shown as installed or a later one.
\* Upgrades of one Agent may run side by side, take program.new away from each
\* other and end each other by their restarts.  The exception is one that opens
\* program.new while another has it, which nothing prevents: it cuts off what the
\* other has checked and is about to rename.
ProgramsWhole ==
  /\ core # Part
  /\ ~crossed => data[exe] \notin {Part, None} /\ data[exe] >= shown /\ runs # None
=============================================================================
