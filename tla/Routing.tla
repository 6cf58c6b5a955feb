------------------------------ MODULE Routing ------------------------------
(***************************************************************************)
(* The routing rules in a server's configuration: internal/corecfg         *)
(* buildXray, buildSingbox and buildMita with the site filters             *)
(* (sitedeny.go), the marks traffic is counted by (acct.go) and the speed  *)
(* limits (speed.go).  Build turns the rows of ONE server into rules; the  *)
(* first rule that matches a request sends it somewhere.                   *)
(*                                                                         *)
(* A client is known by the email EmailFor gives him on a line, here the   *)
(* pair <<line, customer>>.  A destination is one of Sites however it is   *)
(* named: domains and addresses of a filter are one set.  Left out: the    *)
(* ports, keys and transports of the inbounds, the hops behind a chain     *)
(* (Lines), and the names of sites and their categories.                   *)
(***************************************************************************)
EXTENDS Naturals, Sequences, FiniteSets

CONSTANTS
  Rows,       \* ids of the server's inbounds
  Customers,
  Guest,      \* whoever is no customer: a relay user, or nobody in particular
  Forms,      \* what a line may be
  Filters,    \* what a customer's row may say, [mode, sites]
  Speeds,     \* and its speed limit, 0 = none
  Sites,
  Always,     \* sites an allow list admits by itself: the health check, DNS
  RowId,      \* clients.id of every client
  MarkMod,    \* 2^24: a mark has that much room
  MaxUnread,  \* bound: users one Build fails to read
  None

RoutingAssumption ==
  /\ Rows \subseteq Nat /\ Guest \notin Customers
  /\ Forms \subseteq [core : {"xray", "singbox", "mita"}, chain : BOOLEAN, on : BOOLEAN,
                      kind : {"user", "socks", "forward", "mieru"}]
  /\ \A f \in Forms : f.core = "mita" => f.kind = "mieru"
  /\ Filters \subseteq [mode : {"", "deny", "allow"}, sites : SUBSET Sites]
  /\ Speeds \subseteq Nat /\ Always \subseteq Sites
  /\ RowId \in [Rows \X Customers -> Nat \ {0}] /\ MarkMod \in Nat \ {0}
  /\ MaxUnread \in Nat

VARIABLES
  line,    \* inbounds
  has,     \* clients that are enabled
  filter,  \* users.site_filter_mode and its two lists
  speed,   \* users.speed_limit
  built    \* the configuration, None before Build

vars == <<line, has, filter, speed, built>>

Init ==
  /\ line \in [Rows -> Forms]
  /\ has \in SUBSET (Rows \X Customers)
  /\ filter \in [Customers -> Filters]
  /\ speed \in [Customers -> Speeds]
  /\ built = None

-----------------------------------------------------------------------------
(* Marks.  The low bits of a row id; 0 is no mark.                         *)
AcctMark(e) == RowId[e] % MarkMod

AcctProfile(l) == line[l].on /\ ~line[l].chain /\ line[l].kind \in {"user", "socks"}
Throttled(l) == line[l].on /\ ~line[l].chain /\ line[l].kind = "user"

Marked == {e \in has : AcctProfile(e[1]) /\ AcctMark(e) # 0}

\* The first client of a mark in the order of the lists keeps it.
AcctMarks ==
  [m \in {AcctMark(e) : e \in Marked} |-> CHOOSE e \in Marked : AcctMark(e) = m]

\* Of several clients the last one's speed remains.
SpeedLimits(speeds) ==
  LET capped == {e \in Marked : Throttled(e[1]) /\ speeds[e[2]] > 0}
  IN [m \in {AcctMark(e) : e \in capped} |-> speeds[(CHOOSE e \in capped : AcctMark(e) = m)[2]]]

-----------------------------------------------------------------------------
(* Where a request goes, and the rules that say so.                        *)
Direct  == [to |-> "direct", of |-> 0]
Block   == [to |-> "block", of |-> 0]
Chain(l) == [to |-> "chain", of |-> l]
Own(e)  == [to |-> "mark", of |-> AcctMark(e)]

UserOutbound(e) ==
  IF line[e[1]].chain THEN Chain(e[1]) ELSE IF e \in Marked THEN Own(e) ELSE Direct

Anyone == Rows \X (Customers \cup {Guest})

Rule(tags, users, sites, to) == [tags |-> tags, users |-> users, sites |-> sites, to |-> to]

LinesOn(core) == {l \in Rows : line[l].on /\ line[l].core = core}

(* siteDenyFromUser: an empty filter is none, one without a mode denies.   *)
NoFilter == [mode |-> "", sites |-> {}]

SiteFilter(f) ==
  IF f.sites = {} THEN NoFilter ELSE IF f.mode = "" THEN [f EXCEPT !.mode = "deny"] ELSE f

Resolve(f) == f.sites \cup (IF f.mode = "allow" THEN Always ELSE {})

Filtered(core, denies, mode) ==
  {e \in has : /\ e[1] \in LinesOn(core) /\ line[e[1]].kind \notin {"forward", "mieru"}
               /\ denies[e[2]].mode = mode}

(* Clients with the same filter share one rule: all their tags with all    *)
(* their names.                                                            *)
Grouped(es, sites, to) == Rule({e[1] : e \in es}, es, sites, to)

DenyRules(core, denies) ==
  LET es == Filtered(core, denies, "deny")
  IN {Grouped({e \in es : denies[e[2]] = f}, Resolve(f), Block) : f \in {denies[e[2]] : e \in es}}

PassRules(core, denies) ==
  LET es == Filtered(core, denies, "allow")
  IN {Grouped({e \in es : denies[e[2]] = k[1] /\ UserOutbound(e) = k[2]}, Resolve(k[1]), k[2]) :
        k \in {<<denies[e[2]], UserOutbound(e)>> : e \in es}}

BlockRules(core, denies) ==
  LET es == Filtered(core, denies, "allow")
  IN {Grouped(s, Sites, Block) : s \in {es} \ {{}}}

\* A Mieru line of a chain comes back into Xray through a local socks port.
ChainRules(core) ==
  LET fed == IF core = "xray" THEN LinesOn("xray") \cup LinesOn("mita") ELSE LinesOn(core)
  IN {Rule({l}, Anyone, Sites, Chain(l)) : l \in {l \in fed : line[l].chain}}

OwnRules(core) ==
  {Rule({e[1]}, {e}, Sites, Own(e)) : e \in {e \in Marked : e[1] \in LinesOn(core)}}

\* Xray's last rules, and the "final" of sing-box.
DirectRules(core) ==
  LET fed == {l \in LinesOn(core) : ~line[l].chain}
  IN {Rule(IF core = "xray" THEN {l} ELSE Rows, Anyone, Sites, Direct) : l \in fed}

\* What Stages would be if the rules of the lines came before the filters.
StagesChainFirst(core, denies) ==
  << ChainRules(core), DenyRules(core, denies), PassRules(core, denies),
     BlockRules(core, denies), OwnRules(core), DirectRules(core) >>

(* The order of the rules.  Within a stage it does not matter.             *)
Stages(core, denies) ==
  << DenyRules(core, denies), PassRules(core, denies), BlockRules(core, denies),
     ChainRules(core), OwnRules(core), DirectRules(core) >>

-----------------------------------------------------------------------------
(* Build.  loadUserSpeeds and loadUserSiteDenies read every user once      *)
(* each; a user they cannot read has neither limit nor filter, and Build   *)
(* goes on.  Two Mieru lines on one server are refused.                    *)
SiteDenies(open) == [v \in Customers |-> IF v \in open THEN NoFilter ELSE SiteFilter(filter[v])]

UserSpeeds(slow) == [v \in Customers |-> IF v \in slow THEN 0 ELSE speed[v]]

Configuration(slow, open) ==
  [rules |-> [core \in {"xray", "singbox"} |-> Stages(core, SiteDenies(open))],
   marks |-> AcctMarks, limits |-> SpeedLimits(UserSpeeds(slow)), slow |-> slow, open |-> open]

Build ==
  \E slow, open \in SUBSET Customers :
    /\ built = None
    /\ Cardinality(slow) + Cardinality(open) <= MaxUnread
    /\ Cardinality(LinesOn("mita")) <= 1
    /\ built' = Configuration(slow, open)
    /\ UNCHANGED <<line, has, filter, speed>>

Next == Build

Spec == Init /\ [][Next]_vars

-----------------------------------------------------------------------------
(* What a core does with the rules.                                        *)

\* Where the rules of the first stage with a match send a request.
Sent(stages, l, who, s) ==
  LET hits(i) == {r \in stages[i] : l \in r.tags /\ <<l, who>> \in r.users /\ s \in r.sites}
      some == {i \in DOMAIN stages : hits(i) # {}}
  IN IF some = {} THEN {Direct}
     ELSE {r.to : r \in hits(CHOOSE i \in some : \A j \in some : i <= j)}

\* Who may use a line: its clients and relay users; a forward asks nobody.
Comes(l) ==
  IF line[l].kind = "forward" THEN {Guest} ELSE {Guest} \cup {v \in Customers : <<l, v>> \in has}

\* Mita itself routes nothing: all of a chain to Xray, else straight out.
Route(l, who, s) ==
  CASE line[l].core # "mita" -> Sent(built.rules[line[l].core], l, who, s)
    [] line[l].core = "mita" /\ line[l].chain -> Sent(built.rules["xray"], l, Guest, s)
    [] OTHER -> {Direct}

-----------------------------------------------------------------------------
(* What an administrator asks for.                                         *)
Refused(f, s) ==
  /\ f.sites # {}
  /\ IF f.mode = "allow" THEN s \notin f.sites \cup Always ELSE s \in f.sites

Wanted(l, who, s) ==
  CASE who # Guest /\ line[l].kind \in {"user", "socks"} /\ Refused(filter[who], s) -> Block
    [] OTHER -> IF line[l].chain THEN Chain(l)
                ELSE IF <<l, who>> \in Marked THEN Own(<<l, who>>) ELSE Direct

Alone(e) == \A x \in Marked : AcctMark(x) = AcctMark(e) => x = e

(* A request of a customer whose row could be read goes where it should:   *)
(* to a site his filter refuses, nowhere, on a chain as on a plain line;   *)
(* else out by the chain of its line, or by the client's own mark.  That   *)
(* mark is reported as his, and limited if and only if his row limits him  *)
(* on a line that can: a rule for all the users of a line must not         *)
(* overtake one for some of them (buildXray: "Catch-all would steal        *)
(* filtered users").  Clients 2^24 rows apart share a mark and are exempt. *)
RoutedAsAsked ==
  built # None =>
    /\ \A l \in Rows, s \in Sites : line[l].on =>
         \A who \in Comes(l) \ built.open : Route(l, who, s) = {Wanted(l, who, s)}
    /\ \A e \in Marked : Alone(e) =>
         LET m == AcctMark(e)
         IN /\ m \in DOMAIN built.marks /\ built.marks[m] = e
            /\ e[2] \notin built.slow =>
                 IF Throttled(e[1]) /\ speed[e[2]] > 0
                 THEN m \in DOMAIN built.limits /\ built.limits[m] = speed[e[2]]
                 ELSE m \notin DOMAIN built.limits
=============================================================================
