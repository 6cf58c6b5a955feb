------------------------------- MODULE Lines --------------------------------
(***************************************************************************)
(* The lines of the panel and what each server is told of them             *)
(* (server/handlers_inbounds.go, corecfg/hops.go, db/delete_use.go).  A    *)
(* chain line enters at its own server and leaves through landings on      *)
(* others: the entry's configuration dials them, and theirs must admit the *)
(* entry as a relay user.  A handler checks against the tables, writes,    *)
(* and pushes the servers concerned one after the other; another handler   *)
(* may come between any two of these.                                      *)
(***************************************************************************)
EXTENDS Naturals, Sequences, FiniteSets

CONSTANTS
  Ids,       \* line ids, in the order they are given out
  Servers, Ports, Handlers,
  None,      \* no line, no landing
  Uri,       \* a landing outside the panel
  Start,     \* the saved lines at the beginning
  StartPkg,  \* the package at the beginning, which a customer has
  Busy,      \* pairs of a server and a port another program holds there
  MaxOps,    \* bound: requests of a behaviour
  MaxMissed  \* bound: a push fails only while fewer are missed and a request is left

Line == [srv : Servers, port : Ports, on : BOOLEAN, chain : BOOLEAN,
         exit : Ids \cup {None, Uri}, hops : SUBSET Ids]
Package == [lines : SUBSET Ids, servers : SUBSET Servers]

\* The saved lines have the first ids and lead through saved lines only, and
\* neither a line nor an id is nothing.
LinesAssumption ==
  /\ IsFiniteSet(Ids) /\ Ids \subseteq Nat /\ None \notin Ids /\ Uri \notin Ids
  /\ None # Uri /\ None \notin Line
  /\ Start \in [Ids -> Line \cup {None}]
  /\ LET first == {l \in Ids : Start[l] # None} IN
       /\ first = 1..Cardinality(first)
       /\ \A l \in first : (Start[l].hops \cup {Start[l].exit}) \cap Ids \subseteq first
  /\ StartPkg \in Package

VARIABLES
  row,      \* inbounds: for each id its line or None
  nextId,   \* the id of the next line
  alive,    \* the servers that exist
  pkg,      \* the package: its lines or its servers, or None
  held,     \* some customer has it
  told,     \* for each server the configuration last sent to it
  op,       \* the request each handler works on
  ops,
  overlap,  \* history: a request checked before another one wrote
  missed    \* history: the servers a push was due to and did not reach, until
            \* one does

linesVars == <<row, nextId, alive, pkg, held, told, op, ops, overlap, missed>>

Saved(rows) == {l \in Ids : rows[l] # None}
Path(r) == (r.hops \cup {r.exit}) \ {None, Uri}
On(rows, s) == {l \in Saved(rows) : rows[l].srv = s /\ rows[l].on}

\* ChainPath finds every landing of the line.
PathOk(rows, l) ==
  rows[l].chain => rows[l].exit # None /\ Path(rows[l]) \subseteq Saved(rows)

\* forEachRelayTo: every enabled line that names l, chain or not.
Users(rows, l) == {e \in Saved(rows) : rows[e].on /\ l \in Path(rows[e])}

Dials(rows, e) ==
  IF rows[e].chain THEN {<<l, rows[l].port>> : l \in Path(rows[e])} ELSE {}

\* protectedInbounds: the lines that customers have.
Sold == IF ~held THEN {} ELSE {l \in Saved(row) : l \in pkg.lines \/ row[l].srv \in pkg.servers}

Builds(rows, s) == \A l \in On(rows, s) : PathOk(rows, l)

\* Build of one server: one line without its landing fails it whole.
Built(rows, s) ==
  [l \in On(rows, s) |-> [port |-> rows[l].port, dials |-> Dials(rows, l), users |-> Users(rows, l)]]

Idle == [st |-> "idle", kind |-> "none", id |-> None, srv |-> None, new |-> None,
         todo |-> {}, all |-> {}, err |-> FALSE, busy |-> {}]

Init ==
  /\ row = Start /\ nextId = Cardinality(Saved(Start)) + 1
  /\ alive = Servers /\ pkg = StartPkg /\ held = TRUE
  /\ told = [s \in Servers |-> Built(Start, s)]
  /\ op = [h \in Handlers |-> Idle]
  /\ ops = 0 /\ overlap = FALSE /\ missed = {}

-----------------------------------------------------------------------------
\* prepareInbound and Normalize: the landing and the hops exist and go out
\* directly, nothing occurs twice, and the port is free on the server.
Acceptable(l, r) ==
  /\ \A o \in Saved(row) \ {l} : row[o].srv = r.srv => row[o].port # r.port
  /\ r.exit \notin {None, Uri} => row[r.exit] # None
  /\ r.chain =>
       /\ r.exit # None
       /\ r.hops \subseteq Saved(row) \ {l, r.exit}
       /\ r.exit # l
       /\ \A x \in Path(r) : ~row[x].chain

\* CountExitsTo and CountHopsTo, whatever the line's kind.
PointedAtByExit(l) == \E e \in Saved(row) : row[e].exit = l
PointedAt(l) == \E e \in Saved(row) : l \in Path(row[e])

\* ServerInUse: a sold line is on it or leads through it, or the package
\* names it.
ServerInUse(s) ==
  \/ \E l \in Sold : row[l].srv = s \/ \E x \in Path(row[l]) : row[x] # None /\ row[x].srv = s
  \/ held /\ s \in pkg.servers

\* What a request asks for: a line more, one field of a line, a line or a
\* server less.
Chained(r, x, y) == [r EXCEPT !.chain = TRUE, !.exit = x, !.hops = y]
Hops == {{}} \cup {{z} : z \in Ids}

Field(r) ==
  {[r EXCEPT !.on = ~@]} \cup {[r EXCEPT !.port = p] : p \in Ports}
  \cup {[r EXCEPT !.exit = x] : x \in Ids \cup {Uri}}
  \cup {Chained(r, x, y) : x \in Ids \cup {Uri}, y \in Hops}
  \cup {[r EXCEPT !.chain = FALSE]}

New(s) ==
  {[srv |-> s, port |-> p, on |-> TRUE, chain |-> x # None, exit |-> x, hops |-> {}] :
     p \in Ports, x \in Ids \cup {None}}

Free(h) == op[h].st = "idle" /\ ops < MaxOps
Begin(h) == Free(h) /\ ops' = ops + 1

Checked(h, o) == op' = [op EXCEPT ![h] = [o EXCEPT !.st = "checked"]]

CheckCreate(h, s, r) ==
  /\ Begin(h) /\ s \in alive /\ nextId \in Ids /\ Acceptable(None, r)
  /\ Checked(h, [Idle EXCEPT !.kind = "create", !.srv = s, !.new = r])
  /\ UNCHANGED <<row, nextId, alive, pkg, held, told, overlap, missed>>

CheckUpdate(h, l, r) ==
  /\ Begin(h) /\ Acceptable(l, r)
  /\ Checked(h, [Idle EXCEPT !.kind = "update", !.id = l, !.srv = r.srv, !.new = r])
  /\ UNCHANGED <<row, nextId, alive, pkg, held, told, overlap, missed>>

\* chainPeerServerIDs: the servers of a chain's landings.
Peers(r) == IF r.chain THEN {row[x].srv : x \in Path(r) \cap Saved(row)} ELSE {}

\* What CheckDelete would be if only landings counted, not hops.
CheckDeleteExits(h, l) ==
  /\ Begin(h) /\ row[l] # None /\ l \notin Sold /\ ~PointedAtByExit(l)
  /\ Checked(h, [Idle EXCEPT !.kind = "delete", !.id = l, !.srv = row[l].srv,
                             !.todo = {row[l].srv} \cup Peers(row[l])])
  /\ UNCHANGED <<row, nextId, alive, pkg, held, told, overlap, missed>>

CheckDelete(h, l) ==
  /\ Begin(h) /\ row[l] # None /\ l \notin Sold /\ ~PointedAt(l)
  /\ Checked(h, [Idle EXCEPT !.kind = "delete", !.id = l, !.srv = row[l].srv,
                             !.todo = {row[l].srv} \cup Peers(row[l])])
  /\ UNCHANGED <<row, nextId, alive, pkg, held, told, overlap, missed>>

CheckDeleteServer(h, s) ==
  /\ Begin(h) /\ s \in alive /\ ~ServerInUse(s)
  /\ Checked(h, [Idle EXCEPT !.kind = "drop", !.srv = s])
  /\ UNCHANGED <<row, nextId, alive, pkg, held, told, overlap, missed>>

CheckDeletePackage(h) ==
  /\ Begin(h) /\ pkg # None /\ ~held
  /\ Checked(h, [Idle EXCEPT !.kind = "package"])
  /\ UNCHANGED <<row, nextId, alive, pkg, held, told, overlap, missed>>

-----------------------------------------------------------------------------
Writes(h, kind) ==
  /\ op[h].st = "checked" /\ op[h].kind = kind
  /\ overlap' = (overlap \/ \E o \in Handlers \ {h} : op[o].st = "checked")

\* applyTargets without the landings' servers.
TargetsOwn(r) == {r.srv}
Targets(r) == {r.srv} \cup Peers(r)

PushNext(h, servers) ==
  op' = [op EXCEPT ![h].st = IF servers = {} THEN "idle" ELSE "push", ![h].todo = servers, ![h].all = servers]

MayFail == Cardinality(missed) < MaxMissed /\ ops < MaxOps

\* The row is written; when ProvisionAll fails now, nobody is pushed.
Provision(h, servers) ==
  \/ PushNext(h, servers) /\ UNCHANGED missed
  \/ MayFail /\ op' = [op EXCEPT ![h] = Idle] /\ missed' = missed \cup servers

\* CreateInbound looks at the port once more in its transaction.
Create(h) ==
  /\ Writes(h, "create")
  /\ LET r == op[h].new
         free == \A o \in Saved(row) : row[o].srv = r.srv => row[o].port # r.port
     IN  IF free /\ nextId \in Ids /\ r.srv \in alive /\ r.exit \in Saved(row) \cup {None}
         THEN /\ row' = [row EXCEPT ![nextId] = r] /\ nextId' = nextId + 1
              /\ Provision(h, Targets(r))
         ELSE /\ op' = [op EXCEPT ![h] = Idle] /\ UNCHANGED <<row, nextId, missed>>
  /\ UNCHANGED <<alive, pkg, held, told, ops>>

\* UpdateInbound writes the whole row; a row deleted meanwhile stays away, and
\* a landing deleted meanwhile is refused by the foreign key.
Update(h) ==
  /\ Writes(h, "update")
  /\ LET l == op[h].id  r == op[h].new
     IN  IF row[l] # None /\ r.exit \notin Saved(row) \cup {None, Uri}
         THEN op' = [op EXCEPT ![h] = Idle] /\ UNCHANGED <<row, missed>>
         ELSE /\ row' = [row EXCEPT ![l] = IF @ = None THEN None ELSE r]
              /\ Provision(h, Targets(r))
  /\ UNCHANGED <<nextId, alive, pkg, held, told, ops>>

\* Deleted lines are nobody's landing any more; hops still name them.
Without(S) ==
  [l \in Ids |->
     IF l \in S \/ row[l] = None THEN None
     ELSE IF row[l].exit \in S THEN [row[l] EXCEPT !.exit = None] ELSE row[l]]

\* The package loses what is deleted.
Unnamed(lines, servers) ==
  pkg' = IF pkg = None THEN None ELSE [lines |-> pkg.lines \ lines, servers |-> pkg.servers \ servers]

Delete(h) ==
  /\ Writes(h, "delete")
  /\ row' = Without({op[h].id}) /\ Unnamed({op[h].id}, {})
  /\ Provision(h, op[h].todo)
  /\ UNCHANGED <<nextId, alive, held, told, ops>>

\* DeleteServer tells nobody.
DeleteServer(h) ==
  /\ Writes(h, "drop")
  /\ LET gone == {l \in Saved(row) : row[l].srv = op[h].srv}
     IN  row' = Without(gone) /\ Unnamed(gone, {op[h].srv})
  /\ alive' = alive \ {op[h].srv}
  /\ op' = [op EXCEPT ![h] = Idle]
  /\ UNCHANGED <<nextId, held, told, ops, missed>>

\* DeletePackage unbinds every customer, with one who came meanwhile, and then
\* deletes the package, unless another one came.
UnbindAll(h) ==
  /\ Writes(h, "package")
  /\ held' = FALSE /\ op' = [op EXCEPT ![h].st = "unbound"]
  /\ UNCHANGED <<row, nextId, alive, pkg, told, ops, missed>>

DeletePackage(h) ==
  /\ op[h].st = "unbound"
  /\ pkg' = IF held THEN pkg ELSE None
  /\ op' = [op EXCEPT ![h] = Idle]
  /\ UNCHANGED <<row, nextId, alive, held, told, ops, overlap, missed>>

\* The ports the Agent could not open.
BusyOn(s) == {row[l].port : l \in {k \in On(row, s) : <<s, row[k].port>> \in Busy}}

\* pushServer of one of the servers; only the first error is kept.  SendApply
\* may be refused, or the Agent's answer come too late.
Push(h, s) ==
  /\ op[h].st \in {"push", "again"} /\ s \in op[h].todo
  /\ \E sent, answered \in BOOLEAN :
       LET can == s \in alive /\ Builds(row, s)
           first == op[h].st = "push" /\ ~op[h].err
           done == [op[h] EXCEPT !.todo = @ \ {s},
                      !.err = @ \/ ~answered \/ BusyOn(s) # {},
                      !.busy = IF first /\ answered THEN BusyOn(s) ELSE @]
       IN  /\ (sent => can) /\ (answered => sent) /\ (can => answered \/ MayFail)
           /\ told' = IF sent THEN [told EXCEPT ![s] = Built(row, s)] ELSE told
           /\ missed' = IF sent THEN missed \ {s} ELSE IF can THEN missed \cup {s} ELSE missed
           /\ op' = [op EXCEPT ![h] = IF done.todo # {} THEN done
                                      ELSE IF done.st = "push" /\ done.busy # {} THEN [done EXCEPT !.st = "busy"]
                                      ELSE Idle]
  /\ UNCHANGED <<row, nextId, alive, pkg, held, ops, overlap>>

\* respondAfterApply: lines on these ports are switched off on every server
\* that was pushed, and all are pushed again.
SwitchOff(h) ==
  /\ op[h].st = "busy"
  /\ LET off == {l \in Saved(row) : row[l].srv \in op[h].all /\ row[l].port \in op[h].busy /\ row[l].on}
     IN  /\ row' = [l \in Ids |-> IF l \in off THEN [row[l] EXCEPT !.on = FALSE] ELSE row[l]]
         /\ op' = IF off = {} THEN [op EXCEPT ![h] = Idle]
                  ELSE [op EXCEPT ![h].st = "again", ![h].todo = op[h].all]
  /\ UNCHANGED <<nextId, alive, pkg, held, told, ops, overlap, missed>>

\* One transaction or statement writes between the two halves of others.
AtOnce ==
  /\ ops < MaxOps /\ ops' = ops + 1
  /\ overlap' = (overlap \/ \E o \in Handlers : op[o].st = "checked")
  /\ UNCHANGED <<row, nextId, alive, told, op, missed>>

\* CreatePackageConfigured and UpdatePackageConfigured: lines or servers, which
\* must exist.
SavePackage(p) ==
  /\ AtOnce /\ p.lines \subseteq Saved(row) /\ p.servers \subseteq alive
  /\ pkg' = p /\ UNCHANGED held

Packages ==
  {[lines |-> {l}, servers |-> {}] : l \in Ids} \cup {[lines |-> {}, servers |-> {s}] : s \in Servers}

\* BindUserPackage and UnbindUserPackage.
Bind == AtOnce /\ pkg # None /\ held' = ~held /\ UNCHANGED pkg

\* The dispatcher pushes a server for a reason of its own, as when its Agent
\* has connected again.
LoopPush(s) ==
  /\ s \in alive /\ Builds(row, s) /\ (told[s] # Built(row, s) \/ s \in missed)
  /\ told' = [told EXCEPT ![s] = Built(row, s)] /\ missed' = missed \ {s}
  /\ UNCHANGED <<row, nextId, alive, pkg, held, op, ops, overlap>>

\* The panel starts anew: its requests are gone, and what they had still to push.
Restart ==
  /\ ops < MaxOps /\ ops' = ops + 1
  /\ op' = [h \in Handlers |-> Idle]
  /\ missed' = missed \cup UNION {op[h].todo : h \in {g \in Handlers : op[g].st \in {"push", "again"}}}
  /\ UNCHANGED <<row, nextId, alive, pkg, held, told, overlap>>

Next ==
  \/ \E h \in Handlers :
       \/ Free(h) /\ \E s \in Servers : CheckDeleteServer(h, s) \/ \E r \in New(s) : CheckCreate(h, s, r)
       \/ Free(h) /\ \E l \in Saved(row) : CheckDelete(h, l) \/ \E r \in Field(row[l]) : CheckUpdate(h, l, r)
       \/ \E s \in Servers : Push(h, s)
       \/ Create(h) \/ Update(h) \/ Delete(h) \/ DeleteServer(h) \/ SwitchOff(h)
       \/ CheckDeletePackage(h) \/ UnbindAll(h) \/ DeletePackage(h)
  \/ \E p \in Packages : SavePackage(p)
  \/ \E s \in Servers : LoopPush(s)
  \/ Bind \/ Restart

Spec == Init /\ [][Next]_linesVars

-----------------------------------------------------------------------------
Quiet == \A h \in Handlers : op[h].st = "idle"

\* When the requests are done, a landing admits every entry that dials it:
\* whichever of the two changed last, both servers have been told, unless a push
\* due to one of them did not reach it and none has since.  A server whose
\* configuration cannot be built keeps the one it has.
RelaysAgree ==
  Quiet => \A s \in alive \ missed : Builds(row, s) =>
    \A e \in DOMAIN told[s] : \A d \in told[s][e].dials :
      LET l == d[1] IN
      row[l] # None /\ row[l].on /\ Builds(row, row[l].srv) /\ row[l].srv \notin missed =>
        l \in DOMAIN told[row[l].srv] /\ e \in told[row[l].srv][l].users

\* A line customers have stays, and keeps its landings: nothing is deleted
\* from under it, as long as nobody wrote between a request's check and its
\* own write.
SoldPathsStay ==
  [][~overlap' => \A l \in Sold : PathOk(row, l) => row'[l] # None /\ PathOk(row', l)]_linesVars
=============================================================================
