------------------------------ MODULE Firewall ------------------------------
(***************************************************************************)
(* What an Agent does to the packet filter of its machine: the limits and  *)
(* the refusal of Chinese addresses that come with a configuration         *)
(* (agent/speed.go, rejectcn.go, ipv6.go, under c.mu at the end of Apply), *)
(* and the ports the administrator has opened (agent/allow.go, under       *)
(* allowMu, again at every start).  Every command may fail.                *)
(*                                                                         *)
(* A machine filters with ufw, with iptables, with an nft ruleset of its   *)
(* own, or not at all; firewalld differs from ufw in its commands only.    *)
(***************************************************************************)
EXTENDS Naturals, FiniteSets

CONSTANTS
  Wants,      \* configurations: [reject, limit, noV6], None for "nothing"
  None,
  Torn,       \* a list cut short
  Ports,      \* that can be opened
  Kinds,      \* a subset of {"ufw", "iptables", "nft", "none"}
  MaxFaults,  \* bound on commands that fail
  MaxEvents   \* bound on pushes, requests, restarts and other firewalls

FirewallAssumption ==
  /\ Kinds \subseteq {"ufw", "iptables", "nft", "none"}
  /\ \A w \in Wants : w.noV6 \in BOOLEAN
  /\ \A list \in SUBSET Ports : list # Torn
  /\ MaxFaults \in Nat /\ MaxEvents \in Nat

VARIABLES
  want,    \* what the panel has sent last
  acked,   \* and has been told runs
  apply,   \* how far Apply is; "off" while no Apply holds c.mu
  noV6, cn, limit,   \* the switch and the tables liking_cn, liking_speed
  haveNft, \* nft is installed
  lists,   \* address lists in c.dir: "none", "fresh", "stale"
  up,      \* the Agent: "down", "starting", "up"
  kind,    \* what filters
  saves,   \* the distribution keeps iptables rules in a file
  rules,   \* ports let in, by kind
  kept,    \* those of iptables in that file
  file,    \* allow-ports.json
  told,    \* ports the panel has shown as opened
  op,      \* openAllow or reapplySavedAllows, holding allowMu
  lapsed,  \* a command failed, or something else filters since
  faults, events

applyVars == <<want, acked, apply, noV6, cn, limit, lists>>
allowVars == <<rules, kept, file, told, op, lapsed>>
firewallVars == <<applyVars, allowVars, haveNft, up, kind, saves, faults, events>>

NoOp == [st |-> "off", list |-> {}, port |-> None, by |-> "none", todo |-> {}]
NoRules == [k \in Kinds |-> {}]

Init ==
  /\ want \in Wants /\ acked = FALSE /\ apply = "off"
  /\ noV6 = FALSE /\ cn = None /\ limit = None /\ lists = "none"
  /\ haveNft \in BOOLEAN /\ up = "up" /\ kind \in Kinds /\ saves \in BOOLEAN
  /\ rules = NoRules /\ kept = {} /\ file = {} /\ told = {} /\ op = NoOp
  /\ lapsed = FALSE /\ faults = 0 /\ events = 0

Event == events < MaxEvents /\ events' = events + 1
Fault == faults < MaxFaults /\ faults' = faults + 1

-----------------------------------------------------------------------------
(* Apply, under c.mu.                                                       *)

Push(w) ==
  /\ Event /\ w # want /\ want' = w /\ acked' = FALSE /\ apply' = "off"
  /\ apply = "off"
  /\ UNCHANGED <<noV6, cn, limit, lists, allowVars, haveNft, up, kind, saves, faults>>

\* IPv6 first, where a failed write is only logged; a core that refuses ends
\* the Apply here, with an error.
ApplyBegins ==
  /\ up = "up" /\ apply = "off" /\ ~acked
  /\ \/ noV6' = want.noV6 /\ apply' = "limits" /\ UNCHANGED faults
     \/ noV6' = want.noV6 /\ Fault /\ UNCHANGED apply
     \/ apply' = "limits" /\ Fault /\ UNCHANGED noV6
  /\ UNCHANGED <<want, acked, cn, limit, lists, allowVars, haveNft, up, kind, saves, events>>

\* applySpeedLimits: without nft nothing happens, a table that cannot be loaded
\* is only logged.
ApplyLimits ==
  /\ apply = "limits" /\ apply' = "reject"
  /\ \/ ~haveNft /\ UNCHANGED <<limit, faults>>
     \/ haveNft /\ limit' = want.limit /\ UNCHANGED faults
     \/ haveNft /\ want.limit # None /\ limit' = None /\ Fault
  /\ UNCHANGED <<want, acked, noV6, cn, lists, allowVars, haveNft, up, kind, saves, events>>

Answer(ok) == apply' = "off" /\ acked' = ok

\* Nothing to refuse.
RejectNothing ==
  /\ apply = "reject" /\ want.reject = None /\ cn' = None /\ Answer(TRUE)
  /\ UNCHANGED <<want, noV6, limit, lists, allowVars, haveNft, up, kind, saves, faults, events>>

\* loadCNList: a fresh copy, a download, a stale copy, in this order.
Loaded == IF lists = "fresh" THEN {"fresh"} ELSE {"fresh", lists}

\* No nft, or neither a download nor a copy: the old table stays.
RejectCannot ==
  /\ apply = "reject" /\ want.reject # None /\ Answer(FALSE)
  /\ IF haveNft THEN "none" \in Loaded /\ Fault ELSE UNCHANGED faults
  /\ UNCHANGED <<want, noV6, cn, limit, lists, allowVars, haveNft, up, kind, saves, events>>

\* What Apply would do if a failed load were only logged here as well.
RejectLogged ==
  /\ apply = "reject" /\ want.reject # None /\ haveNft
  /\ \E l \in Loaded \ {"none"} : lists' = l
  /\ \/ cn' = want.reject /\ UNCHANGED faults
     \/ cn' = None /\ Fault
  /\ Answer(TRUE)
  /\ UNCHANGED <<want, noV6, limit, allowVars, haveNft, up, kind, saves, events>>

\* The old table is deleted and the new one loaded.
Reject ==
  /\ apply = "reject" /\ want.reject # None /\ haveNft
  /\ \E l \in Loaded \ {"none"} : lists' = l
  /\ \/ cn' = want.reject /\ Answer(TRUE) /\ UNCHANGED faults
     \/ cn' = None /\ Answer(FALSE) /\ Fault
  /\ UNCHANGED <<want, noV6, limit, allowVars, haveNft, up, kind, saves, events>>

\* A week passes.
ListsAge ==
  /\ lists = "fresh" /\ Event /\ lists' = "stale"
  /\ UNCHANGED <<want, acked, apply, noV6, cn, limit, allowVars, haveNft, up, kind, saves, faults>>

\* handlePushNft: installed, and what runs is pushed again.
EnsureNft ==
  /\ up = "up" /\ ~haveNft /\ apply = "off" /\ haveNft' = TRUE /\ acked' = FALSE
  /\ UNCHANGED <<want, apply, noV6, cn, limit, lists, allowVars, up, kind, saves, faults, events>>

-----------------------------------------------------------------------------
(* Opened ports, under allowMu.                                             *)

\* detectFirewall: a table of limits drops as well, and is taken for a ruleset
\* of the machine's own.
Detected == IF kind = "none" /\ limit # None /\ "nft" \in Kinds THEN "nft" ELSE kind

\* The list is loaded and the new port merged; a torn file is an error, and so
\* is a machine that does not filter.
OpenBegins(p) ==
  /\ up = "up" /\ op.st = "off" /\ Event
  /\ file # Torn /\ Detected # "none"
  /\ op' = [st |-> "apply", list |-> file \cup {p}, port |-> p, by |-> Detected, todo |-> file \cup {p}]
  /\ UNCHANGED <<applyVars, rules, kept, file, told, lapsed, haveNft, up, kind, saves, faults>>

\* ufw, iptables: one command after the other.
OneRule(p) ==
  /\ op.st = "apply" /\ op.by # "nft" /\ p \in op.todo
  /\ rules' = [rules EXCEPT ![op.by] = @ \cup {p}]
  /\ op' = [op EXCEPT !.todo = @ \ {p}]
  /\ UNCHANGED <<applyVars, kept, file, told, lapsed, haveNft, up, kind, saves, faults, events>>

\* nft: the table is deleted and loaded anew.
NewTable ==
  /\ op.st = "apply" /\ op.by = "nft" /\ op.todo # {}
  /\ rules' = [rules EXCEPT !["nft"] = op.list]
  /\ op' = [op EXCEPT !.todo = {}]
  /\ UNCHANGED <<applyVars, kept, file, told, lapsed, haveNft, up, kind, saves, faults, events>>

Ready == IF up = "starting" THEN "up" ELSE up

\* A command fails: the answer is an error, and nothing is saved.
RuleFails ==
  /\ op.st = "apply" /\ op.todo # {} /\ Fault
  /\ rules' = [rules EXCEPT ![op.by] = IF op.by = "nft" THEN {} ELSE @]
  /\ lapsed' = (lapsed \/ op.by = "nft" \/ op.port = None)
  /\ op' = NoOp /\ up' = Ready
  /\ UNCHANGED <<applyVars, kept, file, told, haveNft, kind, saves, events>>

\* saveIptables, where the distribution has the file.
Applied ==
  /\ op.st = "apply" /\ op.todo = {}
  /\ kept' = IF op.by = "iptables" /\ saves THEN rules["iptables"] ELSE kept
  /\ lapsed' = (op.by # kind)
  /\ IF op.port = None THEN op' = NoOp ELSE op' = [op EXCEPT !.st = "save"]
  /\ up' = Ready
  /\ UNCHANGED <<applyVars, rules, file, told, haveNft, kind, saves, faults, events>>

\* What openAllow would do if it wrote the port it was asked for.
SaveOne ==
  /\ op.st = "save" /\ op' = NoOp
  /\ \/ file' = {op.port} /\ told' = told \cup {op.port} /\ UNCHANGED <<lapsed, faults>>
     \/ file' = Torn /\ lapsed' = TRUE /\ Fault /\ UNCHANGED told
  /\ UNCHANGED <<applyVars, rules, kept, haveNft, up, kind, saves, events>>

\* allow-ports.json is written over; a full disk leaves it cut short.
Save ==
  /\ op.st = "save" /\ op' = NoOp
  /\ \/ file' = op.list /\ told' = told \cup {op.port} /\ UNCHANGED <<lapsed, faults>>
     \/ file' = Torn /\ lapsed' = TRUE /\ Fault /\ UNCHANGED told
  /\ UNCHANGED <<applyVars, rules, kept, haveNft, up, kind, saves, events>>

\* The administrator turns another firewall on.
OtherFirewall(k) ==
  /\ Event /\ k # kind /\ kind' = k /\ lapsed' = TRUE
  /\ UNCHANGED <<applyVars, rules, kept, file, told, op, haveNft, up, saves, faults>>

-----------------------------------------------------------------------------
(* The Agent and its machine.                                               *)

\* A write under way is cut short.
Cut == IF op.st = "save" THEN {op.list, Torn} ELSE {}

\* Close (StopAll) on SIGTERM takes the tables away; without it they stay; a
\* reboot leaves what is in files.  The switch for IPv6 is in a file.
AgentEnds ==
  /\ up # "down" /\ Event /\ up' = "down" /\ op' = NoOp /\ acked' = FALSE /\ apply' = "off"
  /\ \/ cn' = None /\ limit' = None /\ rules' = [k \in Kinds |-> IF k = "nft" THEN {} ELSE rules[k]]
     \/ UNCHANGED <<cn, limit, rules>>
     \/ /\ cn' = None /\ limit' = None
        /\ rules' = [k \in Kinds |-> IF k = "ufw" THEN rules[k] ELSE IF k = "iptables" THEN kept ELSE {}]
  /\ file' \in {file} \cup Cut
  /\ lapsed' = (lapsed \/ file' = Torn)
  /\ UNCHANGED <<want, noV6, lists, kept, told, haveNft, kind, saves, faults>>

\* Run: the saved ports again, then the panel.
AgentStarts ==
  /\ up = "down"
  /\ IF file \in {{}, Torn} \/ Detected = "none"
       THEN up' = "up" /\ UNCHANGED op
       ELSE up' = "starting" /\ op' = [st |-> "apply", list |-> file, port |-> None, by |-> Detected, todo |-> file]
  /\ UNCHANGED <<applyVars, rules, kept, file, told, lapsed, haveNft, kind, saves, faults, events>>

-----------------------------------------------------------------------------
Next ==
  \/ \E w \in Wants : Push(w)
  \/ ApplyBegins \/ ApplyLimits \/ RejectNothing \/ RejectCannot \/ Reject
  \/ ListsAge \/ EnsureNft
  \/ \E p \in Ports : OpenBegins(p) \/ OneRule(p)
  \/ NewTable \/ RuleFails \/ Applied \/ Save
  \/ \E k \in Kinds : OtherFirewall(k)
  \/ AgentEnds \/ AgentStarts

Spec == Init /\ [][Next]_firewallVars

-----------------------------------------------------------------------------
TypeOK ==
  /\ want \in Wants /\ acked \in BOOLEAN /\ apply \in {"off", "limits", "reject"}
  /\ noV6 \in BOOLEAN /\ haveNft \in BOOLEAN /\ saves \in BOOLEAN /\ lapsed \in BOOLEAN
  /\ cn \in {w.reject : w \in Wants} \cup {None} /\ limit \in {w.limit : w \in Wants} \cup {None}
  /\ lists \in {"none", "fresh", "stale"} /\ up \in {"down", "starting", "up"}
  /\ kind \in Kinds /\ rules \in [Kinds -> SUBSET Ports] /\ kept \subseteq Ports
  /\ file \in (SUBSET Ports) \cup {Torn} /\ told \subseteq Ports
  /\ faults \in 0 .. MaxFaults /\ events \in 0 .. MaxEvents

\* What the panel shows as running is in force: addresses are refused on just
\* the ports it asked for and nobody is held to a limit of an older
\* configuration, whatever failed before; a limit may be missing where nft is.
\* As long as nothing has failed, limits and the IPv6 switch are as it asked.
AckedGuards ==
  acked =>
    /\ cn = want.reject /\ limit \in {want.limit, None}
    /\ faults = 0 => noV6 = want.noV6 /\ (haveNft => limit = want.limit)

\* A port shown as opened stays open, through other requests, failures, the end
\* and the start of the Agent and a reboot, unless a command failed after the
\* old table was gone, the list was torn, or something else filters since.
StaysOpen ==
  up = "up" /\ op.st = "off" /\ ~lapsed /\ kind # "none" => told \subseteq rules[kind]
=============================================================================
