------------------------------- MODULE WGPlan -------------------------------
(***************************************************************************)
(* The WireGuard nodes of the panel and what is built from them            *)
(* (corecfg/wireguard.go, with the handlers that save them).  A node is a  *)
(* hub on its server; it may leave through the home on another server,     *)
(* which then gets the other end of the same tunnel.  buildWireGuard gives *)
(* every enabled node of a server an interface, a mark and a routing table *)
(* (its slot) and saves a new slot by writing the whole row it had read.   *)
(* Each end dials the other, which takes an address of its server.         *)
(***************************************************************************)
EXTENDS Naturals, FiniteSets

CONSTANTS
  Nodes,     \* node ids, in the order they are given out: 1..n
  Servers, Nets, Ports, Handlers,
  None,      \* no node, no exit, no slot
  Cap,       \* tunnels of one server: 20 in the code
  Start,     \* the saved nodes at the beginning, built and told
  Hosted,    \* the servers that have an address then
  MaxOps,    \* bound: requests of a behaviour
  MaxMissed  \* bound: a push fails only while fewer are missed and a request is left

Slots == 0..(Cardinality(Nodes) - 1)
Row == [srv : Servers, net : Nets, port : Ports, on : BOOLEAN, exit : Servers \cup {None},
        slot : Slots \cup {None}]

Saved(rows) == {i \in Nodes : rows[i] # None}

\* Two saved nodes as the checks of one at a time leave them.
Apart(r, q) ==
  /\ r.srv = q.srv => r.port # q.port
  /\ r.on /\ q.on =>
       /\ r.srv = q.srv => r.net # q.net
       /\ r.exit # q.srv
       /\ r.exit # None => r.exit # q.exit

\* The saved nodes have the first ids, were saved one after the other and have
\* been built: those that run on a server hold a slot each.
WGPlanAssumption ==
  /\ IsFiniteSet(Nodes) /\ Nodes \subseteq Nat /\ Cap \in Nat
  /\ None \notin Nodes /\ None \notin Servers /\ None \notin Slots /\ None \notin Row
  /\ Start \in [Nodes -> Row \cup {None}] /\ Hosted \subseteq Servers
  /\ LET first == Saved(Start) IN first = 1..Cardinality(first)
  /\ \A i \in Saved(Start) :
       /\ Start[i].exit # Start[i].srv
       /\ Start[i].on => Start[i].slot # None
       /\ \A j \in Saved(Start) \ {i} :
            /\ Apart(Start[i], Start[j])
            /\ Start[i].on /\ Start[j].on /\ Start[i].srv = Start[j].srv => Start[i].slot # Start[j].slot
  /\ "loop" \notin Handlers /\ None \notin Handlers \cup {"loop"}

VARIABLES
  node,     \* inbounds: for each id its row or None
  nextId,
  hosted,   \* servers: those with a public host or an IP an Agent came from
  told,     \* for each server the tunnels of the last configuration sent
  op,       \* the request each handler works on
  build,    \* for each server the Build under its lock: who, and what it read
  ops,
  overlap,  \* history: a row was saved between another one's check and write
  stale,    \* history: a row was written over another than the one read
  missed,   \* history: servers that a push was due to, or whose plan names a
            \* server with another address now, and no Build has begun since
  reslotted \* history: a row got a slot that its server was not told

wgPlanVars == <<node, nextId, hosted, told, op, build, ops, overlap, stale, missed, reslotted>>

Enabled(rows, s) == {i \in Saved(rows) : rows[i].srv = s /\ rows[i].on}
HomeOf(rows, s) == {i \in Saved(rows) : rows[i].on /\ rows[i].exit = s}

\* checkWGNetworks of one server's enabled nodes; two nets of the model
\* overlap when they are the same.
NetsApart(rows, S) == \A i, j \in S : i # j => rows[i].net # rows[j].net

\* buildWireGuard comes as far as the slots, and writes them.
Slottable(rows, s) ==
  LET E == Enabled(rows, s) IN
  /\ Cardinality(HomeOf(rows, s)) <= 1
  /\ E # {} => HomeOf(rows, s) = {} /\ NetsApart(rows, E) /\ Cardinality(E) <= Cap

\* The servers that one is to dial: exitHostFor of its hubs, ShareHost of the
\* hub it is the home of.
Dialled(rows, s) ==
  LET E == Enabled(rows, s)
  IN  IF E # {} THEN {rows[i].exit : i \in E} \ {None} ELSE {rows[i].srv : i \in HomeOf(rows, s)}

\* buildWireGuard returns no error.
Plannable(rows, s, hosts) ==
  /\ Slottable(rows, s)
  /\ \A i, j \in Enabled(rows, s) : i # j => rows[i].port # rows[j].port
  /\ Dialled(rows, s) \subseteq hosts

\* assignWGSlots: in the order of ids a node keeps the slot it holds unless an
\* older one took it; the others get the lowest free slots.
Claims(rows, E) == {i \in E : rows[i].slot # None /\ \A j \in E : j < i => rows[j].slot # rows[i].slot}

\* assignWGSlots if it numbered the nodes anew each time.
SlotRank(rows, E, i) == Cardinality({j \in E : j < i})

Slot(rows, E, i) ==
  LET held == Claims(rows, E)
      free == Slots \ {rows[j].slot : j \in held}
  IN  IF i \in held THEN rows[i].slot
      ELSE CHOOSE f \in free :
             Cardinality({g \in free : g < f}) = Cardinality({j \in E \ held : j < i})

NoTunnels == [kind |-> "none", tunnels |-> <<>>]

\* The configuration: the hubs' tunnels, or the home's end of one (HomeConfig).
Planned(rows, s) ==
  LET E == Enabled(rows, s)
      One(i) == [slot |-> Slot(rows, E, i), port |-> rows[i].port, net |-> rows[i].net, exit |-> rows[i].exit]
      Home(i) == [hub |-> rows[i].srv, port |-> rows[i].port, net |-> rows[i].net]
  IN  IF E # {} THEN [kind |-> "hub", tunnels |-> [i \in E |-> One(i)]]
      ELSE IF HomeOf(rows, s) # {} THEN [kind |-> "home", tunnels |-> [i \in HomeOf(rows, s) |-> Home(i)]]
      ELSE NoTunnels

Idle == [st |-> "idle", kind |-> "none", id |-> None, read |-> None, new |-> None, todo |-> {}]
NoBuild == [by |-> None, rows |-> <<>>, hosts |-> {}]

Init ==
  /\ node = Start /\ nextId = Cardinality(Saved(Start)) + 1 /\ hosted = Hosted
  /\ told = [s \in Servers |-> Planned(Start, s)]
  /\ op = [h \in Handlers |-> Idle] /\ build = [s \in Servers |-> NoBuild]
  /\ ops = 0 /\ overlap = FALSE /\ stale = FALSE /\ missed = {} /\ reslotted = FALSE

-----------------------------------------------------------------------------
Others(i) == {j \in Saved(node) \ {i} : node[j].on}

\* CheckWireGuardExit without the look at nodes on the chosen home.
ExitAllowedThere(i, r) ==
  /\ r.on => \A j \in Others(i) : node[j].exit # r.srv
  /\ r.exit # None => r.exit # r.srv /\ \A j \in Others(i) : node[j].exit # r.exit

\* CheckWireGuardExit: a server is a hub or the home of one node.
ExitAllowed(i, r) ==
  /\ r.on => \A j \in Others(i) : node[j].exit # r.srv
  /\ r.exit # None =>
       /\ r.exit # r.srv
       /\ \A j \in Others(i) : node[j].srv # r.exit /\ node[j].exit # r.exit

\* prepareInbound of a WireGuard node.
Acceptable(i, r) ==
  /\ \A j \in Saved(node) \ {i} : node[j].srv = r.srv => node[j].port # r.port
  /\ LET same == {j \in Others(i) : node[j].srv = r.srv}
     IN  NetsApart(node, same) /\ (r.on => \A j \in same : node[j].net # r.net)
  /\ ExitAllowed(i, r)

\* AssignFreshWireGuardNet: a new node's network is one nobody has, enabled or not.
Fresh(net) == \A j \in Saved(node) : node[j].net # net

New(s) ==
  {[srv |-> s, net |-> n, port |-> p, on |-> o, exit |-> x, slot |-> None] :
     n \in {m \in Nets : Fresh(m)}, p \in Ports, o \in {TRUE}, x \in Servers \cup {None}}

\* A request changes one field; its settings hold a slot, too, and may be an
\* older copy of them.
Field(r) ==
  {[r EXCEPT !.on = ~@]} \cup {[r EXCEPT !.port = p] : p \in Ports}
  \cup {[r EXCEPT !.net = n] : n \in Nets} \cup {[r EXCEPT !.exit = x] : x \in Servers \cup {None}}
  \cup {[r EXCEPT !.slot = x] : x \in Slots \cup {None}}

Free(h) == op[h].st = "idle" /\ ops < MaxOps
Begin(h) == Free(h) /\ ops' = ops + 1
Checked(h, o) == op' = [op EXCEPT ![h] = [o EXCEPT !.st = "checked"]]

CheckCreate(h, s, r) ==
  /\ Begin(h) /\ nextId \in Nodes /\ Acceptable(None, r)
  /\ Checked(h, [Idle EXCEPT !.kind = "create", !.new = r])
  /\ UNCHANGED <<node, nextId, hosted, told, build, overlap, stale, missed, reslotted>>

CheckUpdate(h, i, r) ==
  /\ Begin(h) /\ r # node[i] /\ Acceptable(i, r)
  /\ Checked(h, [Idle EXCEPT !.kind = "update", !.id = i, !.read = node[i], !.new = r])
  /\ UNCHANGED <<node, nextId, hosted, told, build, overlap, stale, missed, reslotted>>

CheckDelete(h, i) ==
  /\ Begin(h) /\ node[i] # None
  /\ Checked(h, [Idle EXCEPT !.kind = "delete", !.id = i, !.read = node[i]])
  /\ UNCHANGED <<node, nextId, hosted, told, build, overlap, stale, missed, reslotted>>

\* A row is saved while somebody works with what he read before.
Saves(h) ==
  /\ op[h].st = "checked"
  /\ overlap' = (overlap \/ \E o \in Handlers \ {h} : op[o].st = "checked")

\* Those to push if the update forgot the home before it.
TargetsNew(read, r) == ({r.srv, r.exit}) \ {None}

\* applyTargets, and the home of before.
Targets(read, r) ==
  ({r.srv, r.exit} \cup (IF read = None THEN {} ELSE {read.exit})) \ {None}

MayFail == Cardinality(missed) < MaxMissed /\ ops < MaxOps

\* The row is written; when ProvisionAll fails now, nobody is pushed.
Provision(h, servers) ==
  \/ op' = [op EXCEPT ![h] = [Idle EXCEPT !.st = "push", !.todo = servers]] /\ UNCHANGED missed
  \/ MayFail /\ op' = [op EXCEPT ![h] = Idle] /\ missed' = missed \cup servers

Create(h) ==
  /\ Saves(h) /\ op[h].kind = "create"
  /\ LET r == op[h].new
         free == nextId \in Nodes /\ \A j \in Saved(node) : node[j].srv = r.srv => node[j].port # r.port
     IN  IF free
         THEN /\ node' = [node EXCEPT ![nextId] = r] /\ nextId' = nextId + 1
              /\ Provision(h, Targets(None, r))
         ELSE op' = [op EXCEPT ![h] = Idle] /\ UNCHANGED <<node, nextId, missed>>
  /\ UNCHANGED <<hosted, told, build, ops, stale, reslotted>>

\* UpdateInbound writes every column.
Update(h) ==
  /\ Saves(h) /\ op[h].kind = "update"
  /\ LET i == op[h].id
     IN  /\ node' = [node EXCEPT ![i] = IF @ = None THEN None ELSE op[h].new]
         /\ stale' = (stale \/ node[i] # op[h].read)
         /\ reslotted' = (reslotted \/ op[h].new.slot # op[h].read.slot)
  /\ Provision(h, Targets(op[h].read, op[h].new))
  /\ UNCHANGED <<nextId, hosted, told, build, ops>>

Delete(h) ==
  /\ Saves(h) /\ op[h].kind = "delete"
  /\ node' = [node EXCEPT ![op[h].id] = None]
  /\ stale' = (stale \/ node[op[h].id] # op[h].read)
  /\ Provision(h, Targets(op[h].read, op[h].read))
  /\ UNCHANGED <<nextId, hosted, told, build, ops, reslotted>>

\* A server gets an address or loses it: the operator edits it, an Agent comes
\* for the first time, it is deleted.  Those that dial it are not pushed.
Readdress(s) ==
  /\ ops < MaxOps /\ ops' = ops + 1
  /\ hosted' = IF s \in hosted THEN hosted \ {s} ELSE hosted \cup {s}
  /\ missed' = missed \cup {t \in Servers : s \in Dialled(node, t)}
  /\ UNCHANGED <<node, nextId, told, op, build, overlap, stale, reslotted>>

-----------------------------------------------------------------------------
\* pushServer holds the server's lock from here to the answer.
BuildRead(s, who) ==
  /\ build[s].by = None
  /\ build' = [build EXCEPT ![s] = [by |-> who, rows |-> node, hosts |-> hosted]]
  /\ missed' = missed \ {s}
  /\ UNCHANGED <<node, nextId, hosted, told, ops, overlap, stale, reslotted>>

PushStart(h, s) ==
  /\ op[h].st = "push" /\ s \in op[h].todo /\ BuildRead(s, h) /\ UNCHANGED op

\* The dispatcher pushes a server for a reason of its own.
LoopStart(s) ==
  /\ told[s] # Planned(node, s) \/ s \in missed
  /\ BuildRead(s, "loop") /\ UNCHANGED op

\* The rows that get a slot are written as they were read.
SlotWrites(s) ==
  LET rows == build[s].rows  E == Enabled(rows, s)
  IN  IF Slottable(rows, s) THEN {i \in E : Slot(rows, E, i) # rows[i].slot} ELSE {}

\* A hub's address comes with its node's row, a home's is read at the end.
CanBuild(s) ==
  LET rows == build[s].rows
  IN  Plannable(rows, s, IF Enabled(rows, s) = {} THEN build[s].hosts ELSE hosted)

BuildEnd(s) ==
  /\ build[s].by # None
  /\ \E sent \in BOOLEAN :
       LET rows == build[s].rows  E == Enabled(rows, s)
       IN  /\ (sent => CanBuild(s)) /\ (CanBuild(s) => sent \/ MayFail)
           /\ node' = [i \in Nodes |->
                         IF i \in SlotWrites(s) /\ node[i] # None
                         THEN [rows[i] EXCEPT !.slot = Slot(rows, E, i)] ELSE node[i]]
           /\ stale' = (stale \/ \E i \in SlotWrites(s) : node[i] # None /\ node[i] # rows[i])
           /\ overlap' = (overlap \/ (SlotWrites(s) # {} /\ \E o \in Handlers : op[o].st = "checked"))
           /\ told' = IF sent THEN [told EXCEPT ![s] = Planned(rows, s)] ELSE told
           /\ missed' = IF CanBuild(s) /\ ~sent THEN missed \cup {s} ELSE missed
           /\ reslotted' = (reslotted \/ (~sent /\ SlotWrites(s) \cap DOMAIN told[s].tunnels # {}))
  /\ op' = [h \in Handlers |->
              IF build[s].by # h THEN op[h]
              ELSE IF op[h].todo = {s} THEN Idle ELSE [op[h] EXCEPT !.todo = @ \ {s}]]
  /\ build' = [build EXCEPT ![s] = NoBuild]
  /\ UNCHANGED <<nextId, hosted, ops>>

Next ==
  \/ \E h \in Handlers :
       \/ Free(h) /\ \E s \in Servers : \E r \in New(s) : CheckCreate(h, s, r)
       \/ Free(h) /\ \E i \in Saved(node) : CheckDelete(h, i) \/ \E r \in Field(node[i]) : CheckUpdate(h, i, r)
       \/ Create(h) \/ Update(h) \/ Delete(h)
       \/ \E s \in Servers : PushStart(h, s)
  \/ \E s \in Servers : LoopStart(s) \/ BuildEnd(s) \/ Readdress(s)

Spec == Init /\ [][Next]_wgPlanVars

-----------------------------------------------------------------------------
Quiet == (\A h \in Handlers : op[h].st = "idle") /\ (\A s \in Servers : build[s].by = None)

\* What is saved can be built: the checks of one node at a time are enough
\* for what Build asks of all of them, as long as requests come one after the
\* other, no Build writes an older row back with its slot, and a server has no
\* more nodes than tunnels and dials none without an address, which no check
\* looks at.
SavedBuilds ==
  ~overlap /\ ~stale => \A s \in Servers :
    Cardinality(Enabled(node, s)) <= Cap /\ Dialled(node, s) \subseteq hosted => Plannable(node, s, hosted)

\* A push of the server would reach it, and did.
Tellable(s) == s \notin missed /\ Plannable(node, s, hosted)

\* When the requests are done both ends of a tunnel agree, unless a push due to
\* one of them did not reach it, and no server that can be built is left as the
\* home of a node that goes elsewhere.
EndsAgree ==
  Quiet /\ ~stale =>
    /\ \A s \in Servers : \A i \in HomeOf(node, s) :
         Tellable(s) /\ Enabled(node, s) = {} /\ Tellable(node[i].srv) =>
           /\ told[s].kind = "home" /\ DOMAIN told[s].tunnels = {i}
           /\ told[s].tunnels[i] = [hub |-> node[i].srv, port |-> node[i].port, net |-> node[i].net]
           /\ told[node[i].srv].kind = "hub" /\ told[node[i].srv].tunnels[i].port = node[i].port
    /\ \A s \in Servers : Tellable(s) /\ told[s].kind = "home" => HomeOf(node, s) = DOMAIN told[s].tunnels

\* A running tunnel keeps its interface, mark and table, unless an older node
\* is enabled again that held them; moving takes the interface down.
SlotStays ==
  [][~stale' /\ ~reslotted' => \A s \in Servers : told[s].kind = "hub" /\ told'[s].kind = "hub" =>
       \A i \in DOMAIN told[s].tunnels \cap DOMAIN told'[s].tunnels :
         \/ told'[s].tunnels[i].slot = told[s].tunnels[i].slot
         \/ \E j \in DOMAIN told'[s].tunnels \ DOMAIN told[s].tunnels :
              j < i /\ told'[s].tunnels[j].slot = told[s].tunnels[i].slot]_wgPlanVars
=============================================================================
