---------------------------- MODULE SupervisorMC ----------------------------
(***************************************************************************)
(* What an Agent does on its server, for TLC: its cores (Supervisor), a    *)
(* kick (Kick), the packet filter (Firewall) and the programs (Install:    *)
(* the Agent's own in one part, a core's in another).  They share no state *)
(* that is modelled, so a behaviour runs one of them while the others stay *)
(* as they began.                                                          *)
(***************************************************************************)
EXTENDS Supervisor

CONSTANTS xray, singbox, one, two, bad, p1, p2,
          u1, u2, k1, k2, r1, l1, g1, g2, Nothing, Half

CONSTANTS Clients, ClientSets, Kicks, MaxPushes, KickFaults,   \* of Kick
          Wants, Opened, Kinds, FilterFaults, FilterEvents,    \* of Firewall
          Upgrades, Installs, Nodes, MaxVersion, InstallFaults \* of Install

VARIABLES part  \* which of them runs

MCOrder == <<xray, singbox>>
MCListens == [v \in Configs |-> IF v = one THEN {p1} ELSE {p2}]

\* No two cores of a server are given the same port.
MCTargets ==
  {t \in [CoreNames -> Configs \cup {NoConfig}] :
     PortsOf(t[xray]) \cap PortsOf(t[singbox]) = {}}

\* The customers' lines are xray's; singbox has landings.
MCCarried == {t \in MCTargets : t[xray] # NoConfig}

-----------------------------------------------------------------------------
VARIABLES accepted, json, admits, kick, strays, cut, pushes, kickFaults

kickState == <<accepted, json, admits, kick, strays, cut, pushes, kickFaults>>

K == INSTANCE Kick WITH
  Configs <- ClientSets, None <- Nothing, MaxFaults <- KickFaults,
  last <- accepted, file <- json, faults <- kickFaults

-----------------------------------------------------------------------------
VARIABLES wanted, answered, apply, noV6, cn, limit, haveNft, lists, agent, kind, saves,
          rules, kept, list, told, op, lapsed, failed, happened

filterState == <<wanted, answered, apply, noV6, cn, limit, haveNft, lists, agent, kind, saves,
                 rules, kept, list, told, op, lapsed, failed, happened>>

W(r, l, v) == [reject |-> r, limit |-> l, noV6 |-> v]

MCWants == {W(Nothing, Nothing, FALSE), W(r1, Nothing, FALSE), W(r1, l1, TRUE)}

F == INSTANCE Firewall WITH
  None <- Nothing, Torn <- Half, Ports <- Opened, MaxFaults <- FilterFaults, MaxEvents <- FilterEvents,
  want <- wanted, acked <- answered, up <- agent, file <- list, faults <- failed, events <- happened

-----------------------------------------------------------------------------
VARIABLES panel, served, data, exe, tmp, upgrade, runs, shown, crossed, core, inst, lost

programState == <<panel, served, data, exe, tmp, upgrade, runs, shown, crossed, core, inst, lost>>

I == INSTANCE Install WITH
  None <- Nothing, Part <- Half, MaxFaults <- InstallFaults, up <- upgrade, faults <- lost

-----------------------------------------------------------------------------
ASSUME ServerAssumption == K!KickAssumption /\ F!FirewallAssumption /\ I!InstallAssumption

ServerInit ==
  /\ part \in {"cores", "kick", "filter", "upgrade", "install"}
  /\ Init /\ K!Init /\ F!Init /\ I!Init
  /\ part # "cores" => target = CHOOSE t \in Targets : TRUE
  /\ part # "cores" => foreign = {}
  /\ part # "kick" => accepted = CHOOSE f \in ClientSets : TRUE
  /\ part # "filter" =>
       wanted = (CHOOSE w \in Wants : TRUE) /\ kind = "none" /\ ~saves /\ haveNft

ServerNext ==
  /\ UNCHANGED part
  /\ \/ part = "cores" /\ Next /\ UNCHANGED <<kickState, filterState, programState>>
     \/ part = "kick" /\ K!Next /\ UNCHANGED <<vars, filterState, programState>>
     \/ part = "filter" /\ F!Next /\ UNCHANGED <<vars, kickState, programState>>
     \/ part = "upgrade" /\ I!UpgradeNext /\ UNCHANGED <<vars, kickState, filterState>>
     \/ part = "install" /\ I!CoreNext /\ UNCHANGED <<vars, kickState, filterState>>

ServerSpec ==
  /\ ServerInit /\ [][ServerNext]_<<vars, kickState, filterState, programState, part>>
  /\ Fairness

-----------------------------------------------------------------------------
\* A kicked customer can come back, and nobody comes in by a kick.
KickedComeBack == K!KickedComeBack

\* What the panel shows as running is in force in the packet filter.
AckedGuards == F!AckedGuards

\* A port that was opened stays open.
StaysOpen == F!StaysOpen

\* A program under its own name is whole.
ProgramsWhole == I!ProgramsWhole
=============================================================================
