# A formal model of liking

`liking` is a panel that sells and bills proxy access. One **panel** process
(`cmd/server`, `internal/server`, SQLite through `internal/db`) holds customers,
packages, servers, inbounds and certificates, and builds one configuration per
server (`internal/corecfg`). On every server an **Agent** (`cmd/agent`,
`internal/agent`) dials the panel over a WebSocket, receives that configuration,
runs the proxy cores (xray, sing-box, mita, WireGuard) and reports traffic.

This directory holds TLA+ modules for the parts whose correctness depends on
interleaving, failure and order, the TLC configurations that check them, and
TLAPS proofs of their main invariants. All paths are relative to `src/`.

| to do | command |
|---|---|
| parse a module | `tlasany SyncLoop.tla` |
| check a run | `tlc -workers 2 -config SyncLoopMC.cfg SyncLoopMC.tla` |
| check the proofs | `tlapm SyncLoopProofs.tla` |

`PROJECT.json` is the index: components, runs, the mutant each property must
catch, the lines each definition models, findings, hazards and theorems.

1. Inventory - 2. Modules and code - 3. Runs - 4. Fairness - 5. Proofs -
6. Findings - 7. What is not modelled - 8. Plan

## 1. Inventory

### How the parts interact

```
 browser --HTTP--> handlers --+-- tables (SQLite) <--- hub reader (reports)
                              |        ^                      ^
                    kickSync / pushServer                     |
                              |        | ProvisionUser        |
                              v        |                      |
                     syncLoop(server)  enforceLoop (30 s)     |
                              |                               |
                     Hub.SendApply ---- WebSocket ---- Agent session
                                                              |
                                        handleApply (a goroutine per frame)
                                                              |
                                        Cores.Apply <-c.mu-> watchdog (4 s)
                                                              |
                                                   xray / sing-box / mita / wg
```

Calls cross three boundaries. A handler and the dispatcher share the tables and
a per-server queue (`kickWant`, `kickRun`, `pushMu`). Panel and Agent exchange
frames that can be lost with their connection and answers that can be late. The
Agent and its child processes share files and ports with whatever else runs on
the machine.

### Components

**Configuration dispatcher** (`internal/server/sync.go`). State: `kickWant`,
`kickRun`, `pushMu` per server; `servers.config_rev`, `servers.last_error`.
Operations: `kickSync`, `syncLoop`, `pushServer` (build under the mutex, send, up
to three attempts, record). Callers: all handlers that change something, the
tick, the reconnect. Hard: a kick that meets a loop just ending, a push that
waits two minutes while tables change, restarts. Correct when no change and no
reconnect is forgotten and no older configuration overtakes a newer one.

**Agent apply** (`internal/agent/agent.go`, `cores.go`). State: `applyGen`, what
each core runs. Every apply frame has its own goroutine; binaries are downloaded
for minutes without the lock. Hard: goroutines overtake each other, one core
refuses while another accepts. Correct when the newest start wins and "OK" means
installed.

**Configuration path end to end.** The two above joined by frames, answers,
timeouts, retries and restarts of both ends. Correct when a quiet, connected,
error-free server runs the newest configuration.

**Connection table** (`internal/server/hub.go`). State: `h.conns`, the sessions,
`servers.online`. Operations: hello, `registerConn`, `unregisterConn`, `Drop`,
the repair in the server listing. Hard: an old session cleans up while the next
registers. Correct when the table never points at a dead session and no living
session is left out of it.

**Requests to an Agent** (`SendRPC`, `enqueueWrite`, `writerLoop`,
`dispatchAck`). State: `pending`, `writeCh`, the id counter. Hard: late,
reordered and missing answers, a full queue. Correct when every caller gets its
own answer or an error, in bounded time, and `pending` does not grow.

**WireGuard billing** (`internal/server/wgacct.go`). State: a cursor per client,
in memory; `traffic_daily`. Hard: kernel counters that restart from zero, low
readings, failed batches, restarts. Correct when nothing is billed twice and
nothing is lost without a reset.

**Customer access, quota and provisioning** (`sync.go` `enforceOnce`,
`corecfg/client.go` `ProvisionUser`, `handlers_users.go`, the reports in
`hub.go`). State: rows of `users`, `user_packages`, `clients`. Everybody works on
a copy of the row, statement by statement. Hard: copies that are old when they
are used, a provisioning that fails halfway, months without a 31st. Correct when
clients end up as the row says and a cycle has one reset.

**Core supervisor** (`internal/agent/cores.go`). State: the JSON files, `c.last`,
`c.lastReq`, `c.xrayAPI`, `c.singboxAPI`, `c.crashes`, the children. Operations:
`applyJSON`, `rollbackJSON`, `watchOnce`, `Remove`, `StopAll`. Hard: five error
paths that must leave child, file and memory in agreement; ports held by others.
Correct when only accepted configurations run and in the end the wanted ones do.

**Traffic of cores** (`agent/stats.go`, `agent/flowacct.go`, `server/hub.go`
`consumeStats`, `applySamples`). State: the core's counters, the marked sockets, a
cursor for each, the frame under way, the daily rows. Hard: two sources read one
after the other of which the larger counts; a failed query, a list cut short, a lost
frame. Correct when a byte is billed once and nothing that was read is dropped.

**Agent WireGuard** (`agent/wireguard.go`, `wgdial.go`). State: files, interfaces,
endpoints, the counters handed over. Operations: an apply interface by interface,
`keepWireGuard`, the statistics tick. Hard: every command can fail after the one
before it succeeded. Correct when "OK" means that every interface runs the request
and no counter is reset unread.

**Kick** (`handlers_kick.go`, `agent/kick.go`). State: Xray's clients in memory. Hard: it
works on a copy without the lock while the core is reconfigured, dies or is kicked
again. Correct when the customer can come back and nobody else comes in.

**Agent firewall and limits** (`agent/allow.go`, `rejectcn.go`, `speed.go`,
`ipv6.go`). State: nftables tables, the rules of ufw or iptables, `allow-ports.json`.
Hard: commands that fail halfway, reboots, a firewall that is turned on later.
Correct when what the panel shows as running is in force and opened ports stay open.

**Agent installation and upgrade** (`agent/upgrade.go`, `install.go`,
`handlers_agent.go`). State: programs as inodes and names. Hard: two goroutines
download into one file, a crash between two renames. Correct when a program under its
own name is whole.

**Lines and packages** (`handlers_inbounds.go`, `handlers_packages.go`,
`corecfg/hops.go`, `db/delete_use.go`). State: `inbounds` with chains and exits,
packages. Operations: create, edit, delete, push, switching off lines whose port is
busy. Hard: check and write are separate statements and a hop is an id in a JSON
text. Correct when both ends of a chain agree and nothing sold is deleted.

**WireGuard nodes** (`corecfg/wireguard.go`). State: nodes with network, port, home and
slot. Hard: `Build` reads them, lays all of them out, and writes rows back. Correct
when what is saved can be built, both ends agree and slots stay.

**Configuration builders** (`corecfg/xray.go`, `singbox.go`, `sitedeny.go`, `acct.go`,
`speed.go`). No state; the order of routing rules. Hard: rules shared by customers, in
one list in which the first match wins. Correct when a request goes where the rows
of its customer and line send it.

**Certificates** (`handlers_certs.go`, `certs/issue.go`). State: rows, `acmeMu`, TXT
records. Hard: minutes between reading and writing a row. Correct when nothing
that renews itself runs out, and renewed certificates reach the Agents.

**Backup and restore, servers** (`handlers_backup.go`, `db/backup.go`,
`handlers_servers.go`). State: all tables, and everything that is keyed by their
ids. Hard: Agents that dial in the middle. Correct when every connected Agent runs
what the tables say of its own server.

Components without a module: the Agent's session (back-off; frames and connections
are in the modules above), subscriptions, authentication, the panel's own upgrade,
dashboard, alerts, probes and audit, schema and migrations, programs and wire format,
the web interface. Section 7 says why.

Every hazard of this code that a test would hardly reach is listed with its line
in `PROJECT.json` ("hazards"), with the properties that cover it or the reason why
none does.

## 2. Modules and code

The MC modules give TLC its instances; `XProofs` holds the theorems about the modules
of the instance `XMC` and, with `HubRPCProofs`, about `HubRPC`. A definition whose
comment begins with "Mutant" or says what something *would* do or be is not part of
the specification: it is a plausible bug that one property must find, and stands
before the definition it would replace.

| module | models | state | checked in |
|---|---|---|---|
| `Delivery` | what the dispatcher promises, without queues or goroutines | the debt `owed` to a connection | `SyncLoop` |
| `SyncLoop` | `sync.go` 1-120, connections as the dispatcher sees them | tables' version, queue, mutex, a program counter per goroutine | `SyncLoop` |
| `AgentApply` | `handleApply`, the critical sections of `Cores.Apply` | `applyGen`, a job per frame, what each core runs | `Requests` |
| `ConfigSync` | `SyncLoop` and `AgentApply` over one connection | both, the frames sent and the answer awaited | `ConfigSync` |
| `HubRPC` | `SendRPC`, `enqueueWrite`, `writerLoop`, `dispatchAck` | per connection: ids, `pending`, write queue, frames on both ways | `Requests` |
| `HubConn` | `ServeWS`, `registerConn`, `unregisterConn`, `Drop`, `reconcileOnline` | table, sessions, administrators, online flag | `Requests`, `Panel` |
| `WGAccount` | `applyWGPeers`, `wgStep`, `wgGap`, `wgCatchUp` | kernel counters, billed bytes, cursor, readers | `Billing` |
| `Meter` | `BeginCollect`, `finish`, `flowacct.go`, `applySamples`, `AddTrafficBatch` | counters, connections with their sockets, cursors, the collection, frames | `Billing` |
| `WGLink` | `applyWireGuard`, `applyOneWG`, leftovers, hand-over, `keepWireGuard` | requests, files, interfaces, endpoints, counters handed over | `Billing` |
| `Access` | `enforceOnce`, `shouldResetAt`, `ProvisionUser`, edits and reports | one customer's row and clients, copies held by goroutines | `Access` |
| `Routing` | the routing rules of `buildXray` and `buildSingbox`, filters, marks, limits | the rows of one server and the rules made of them | `Access` |
| `Supervisor` | `Cores.Apply`, `applyJSON`, `rollbackJSON`, `watchOnce`, `Remove` | per core: file, `last`, `lastReq`, child, crashes; ports | `Supervisor` |
| `Kick` | `kick.go`, `restartXrayFromDisk` | the clients of `c.last`, of the file and of the child; a place per kick | `Supervisor` |
| `Firewall` | `allow.go`, `rejectcn.go`, `speed.go`, `ipv6.go` | tables and rules per kind of firewall, lists, `allow-ports.json` | `Supervisor` |
| `Install` | `upgrade.go`, `install.go`, the upgrade request of the panel | inodes, names, the upgrades and installations under way | `Supervisor` |
| `Lines` | lines, chains, packages, deletion, busy ports, pushes | the tables and what each server was told | `Panel` |
| `WGPlan` | `buildWireGuard`, `assignWGSlots`, the nodes' handlers | nodes, Builds under way, what each server was told | `Panel` |
| `Renewal` | `handlers_certs.go`, `issue.go`, the renewal loop | certificates, `acmeMu`, TXT records, orders under way | `Panel` |
| `Restore` | `handlers_backup.go`, `backup.go`, `DropAll`, creation and deletion of servers | tables, sessions by id, builds under way | `Panel` |

Modules that share no modelled state are checked in one instance: `RequestsMC`,
`BillingMC`, `AccessMC`, `SupervisorMC` and `PanelMC` join the specifications with a
variable `part`, chosen in the initial state, that says which of them moves while the
others stay as they began. The state space is the sum of theirs, not the product,
and each property speaks of one of them.

### SyncLoop and Delivery

A configuration is represented by the number of the table change it was built from
(`db`). Everything in the code is keyed by the server id, so one server is enough. A
step of the model is one critical section or one statement on shared state: `KickSync`
is the section under `kickMu`, `LoopTake` and `LoopExit` are the two outcomes of the
section at the top of `syncLoop`, and `pushServer` is split at every point where
another goroutine can get in (`Lock`, `Build`, `SeeOffline` / `SeeOnline`, `Send`, the
answer, `ClearError`, `SetRev`). `Build` reads several tables; its version is the one
at its first read, the oldest it may contain. The Agent is the environment: `AckOK`,
`AckRefused` and `NoAnswer` may each follow a `Send`, and `confirmed` records what the
current connection acknowledged. `Tick` is the kick of `enforceOnce`. That does not
kick every server: it names those on which `ProvisionUser` found lines of a customer
who is no administrator, and none of a customer whose provisioning fails. The constant
`Carried` says after which table changes the server has such lines. Not in this
module: the content of the configuration, `last_error`'s text, `MarkServerOnline` (see
`HubConn`).

`Delivery` states the same with five variables and without goroutines: the newest
configuration is owed from the moment the tables or the connection change, and
the debt ends only by confirmation, by a visible error, or by the Agent's leaving.
The refinement mapping is `want <- db`, `link <- conn`, `got <- confirmed`,
`err <- lastErr`, `owed <- Waiting \/ Underway`.

### AgentApply and ConfigSync

`Start` is `Apply`'s first critical section (take a generation), `Install` and
`Superseded` its second; between them binaries are downloaded without the lock.
`Install` chooses the set of cores that refuse; `Supervisor` shows what a refusal
leaves behind. `ConfigSync` conjoins steps: `SendFrame` is `Send` and `Arrive`,
`TakeOK` is `AckOK` and `Close` of the job whose answer is awaited, `Dial` is
`Register` and the start of the Agent's session; all other steps belong to one
side. The constant `InOrder` says whether the goroutines of an Agent's frames get
to their first critical section in the order of the frames. Go does not promise
that, so it is a proviso of the passing run and the subject of a finding.

### HubRPC

Frames carry the id that `SendRPC` took from the connection's counter and the
caller that wrote them, so that an answer delivered to somebody else can be told.
The Agent reads, serves any number of requests at once and answers in any order
or never. The timers of the code (waiting for room in the queue, waiting for
the answer, the write deadline) are the steps `EnqueueFail`, `Timeout` and `WriteError`, possible at any
time.

### HubConn

A session moves through the statements of `ServeWS`; `unregisterConn` is split
where `h.mu` is released, because the row is marked offline afterwards. `Drop` and
`reconcileOnline` are goroutines of their own. A session's socket is in `closed`
once anybody closed it; reading from it then fails.

### WGAccount

One client, both directions. `Step` computes the bytes to bill and the next cursor
from the snapshot exactly as `wgStep` does (first reading, growth, drop, the second
low reading that confirms a reset), `Write` is the batch, `Save` the cursor.
`Glitch` is a reading that is too low although the counter did not restart. `real`
is what the client really transferred and exists only to state the properties.

### Meter

One customer, one direction, several connections. `PeekCore`, `PeekClash` and
`PeekCoreFail` are the first half of `BeginCollect` (the core's counters, sing-box's
list of connections when they do not answer, nothing), `PeekFlows`, `PeekFlowsCut` and
`PeekFlowsFail` the second (all sockets, what `ss` printed before its timeout,
nothing). The amount is the larger of the two differences; `Send` is `finish(true)`,
which moves the cursors, `SendFail` `finish(false)`. Conntrack is one of three sources
of the sockets' bytes and is read anew at each tick: `ct` of `FlowReading` says
whether it could be, and a tick that loses it while `ss` answers reads less. `Consume`
is the batch at the panel with the package's multiplier. `again` is a history: bytes
that two intervals can bill, because traffic fell between the two readings, `ss` hid
it, or one source was not read.

### WGLink

The interfaces of one server. A step is one command of `applyOneWG` or one statement
group between commands; each command has a failing twin. `Prepare` writes the file
before `BounceDown` and `BringUp`, as the code does. `handoff` is the one list that
`captureWGHandoff` replaces; `Collect`, `FrameSent` and `FrameFails` are the
statistics tick that takes and clears it. `torn`, `spoiled`, `born` and `talked` are
histories for the properties.

### Access

Days are an abstract calendar, a constant sequence of month and day, chosen so that a
month too short for the reset day occurs. `ShouldReset` has both branches of
`shouldResetAt`: the day of the month, the customer's own or the package's, and, if
neither has one, `cycle_days` after the beginning of the cycle; the hour at which such
a cycle ends is not modelled, so that on its last day both answers are possible
(`LaterToday`). Traffic is counted in reports. The goroutines are the 30-second tick
and any number of handlers; each works on the copy of the row its `GetUser` or
`ListUsers` returned, and `ProvisionUser` writes one client at a time and may fail at
each statement. `dirty` is the set of servers whose clients changed and that were not
named to the dispatcher since.

### Routing

`Build` is one step: it turns the rows of a server into six stages of rules, in the
order in which `buildXray` and `buildSingbox` append them; the order inside a stage
does not matter. A rule has the tags, users and sites it matches and where it sends
to. A client is the pair of a line and a customer, a site is a member of a small
set, domains and addresses alike. A mark is the row id of the client modulo
`MarkMod` (2^24 in the code). `Sent` is what a core does with the rules: the first
stage with a match decides. The users `loadUserSpeeds` or `loadUserSiteDenies` could
not read are remembered in `slow` and `open`.

### Supervisor

A configuration stands for its text, the ports it listens on and the address of its
statistics interface. `ApplyStep` is one core's turn in `Apply`: unchanged, stop and
delete, refuse because a port is taken, write, start, and roll back with each of the
rollback's own ends (`ApplyAccident` has those in which writing fails). Children die
and other programs take ports at any time. `spoiled[c]` marks a rollback that could
not write the old file back. `BeginApply` needs a reason: the panel changed something
(`asked`), or the tick pushes again, which it does only to a server with customers'
lines (`Carried`).

### Kick

A configuration stands for the set of its clients. `KickCopies` is the section under
`c.mu`; `Removed`, `NotRemoved`, `Added` and `NotAdded` are the calls of Xray's API
with what the core did and what the Agent believes; `Finish` restarts the core from its
file when any `adu` failed. `Accept`, `Refuse`, `Forget`, `Die` and `Watch` are what
`Supervisor` does in the meantime. `strays` and `cut` name the customers for whom the
code's promise fails in the two ways described in section 6.

### Firewall

`Push`, `ApplyBegins`, `ApplyLimits` and `Reject` are the end of `Cores.Apply`;
`OpenBegins`, `OneRule`, `NewTable`, `Applied` and `Save` are `openAllow`, for
ufw/firewalld, iptables and an nft ruleset, one rule at a time. Every command may
fail. `AgentEnds` is a stop, a kill or a reboot, each of which leaves different rules
behind; `AgentStarts` applies the saved list again.

### Install

A file is an inode and a name is a reference to one, so that opening with `O_TRUNC`,
renaming over a running program, and writing to a file that has been renamed do
what they do. `Ask`, `Open`, `Downloaded`, `Check`, `Rename` and `Exit` are the
statements of `handleUpgrade`, `Missing` to `RenameCore` those of `ensureCore`; both run
in a goroutine per request. `crossed` marks an upgrade that opened `program.new`, and so
cut it off, while another had it.

### Lines

A line has a server, a port, a switch, an exit and hops; a landing is another line.
Requests are `Check...` (everything read before the first write), the write, and a
push for each server concerned; `SwitchOff` is what the handler does with the busy
ports a push reports. `LoopPush` is the dispatcher, `Restart` the panel's. `told` is
the part of a server's last configuration that concerns lines: the relay users it
admits and the landings it dials. After the write of a request `ProvisionAll` may fail
(`Provision`): the handler then answers with an error and pushes nobody. A push may
reach the server or not, and be answered or not. `missed` are the servers a push was
due to that was not made or did not reach them, and none has since. `overlap` says
that something was written between another request's check and its own write.

### WGPlan

`Planned` is what `buildWireGuard` makes of the nodes of one server. A Build is two
steps, `LoopStart`/`PushStart` (read) and `BuildEnd` (write back whole rows for the
nodes that got a slot, push); `stale` says that a row was written back over a newer
one. A server has a hub's tunnels or is the home of one node. `Plannable` has the
errors of `buildWireGuard`, those after the slots were written as well: each end dials
the other at an address of its server, the host the operator gave or the IP its Agent
came from, and some servers have none (`hosted`, `Readdress`). `missed` is as in
`Lines`, and also names the servers that dial one whose address has changed since.
`reslotted` says that a slot was saved which the server was not told, by a request
whose settings are an older copy or by a Build that failed after it.

### Renewal

A tick of `day` is a round of the loop (twelve hours). An order is `Lock`, `Present`,
`Ordered`, `CleanUp`, `Save` with a failure at each; `Renew` and `IssueNew` are
started by handlers, `LoopWakes` and `LoopNext` by the loop. Handlers read and write
whole rows meanwhile. An upload (`Uploaded`) brings a certificate of any life, one
that has run out included, and leaves the row's source and renewal as they are;
`short` marks a row that got one due at once, by an upload or by a domain that works
again. `told` is what the Agents were given.

### Restore

An Agent knows its token, the panel's tables and maps know ids. `Dial` is the token's
lookup in `ServeWS`, `Register` the entry in the table, `Build` and `Send` or
`SendFails` a push with the tables in between; `failed` are the servers whose last
push failed. `DropAll` and `Import` are the two halves of `restoreFrom`; `DropServer`
and `DeleteServer` those of `handleDeleteServer`. Ids are given out anew, as SQLite
does for the highest row.

## 3. Runs

Every bound is a constant of the `.cfg` or of the instance in the MC module. A run
with parts starts in each of them.

| run | instance | distinct states | properties |
|---|---|---|---|
| `SyncLoop` | 2 handlers, 2 loop goroutines, 2 attempts, 1 change, which brings a customer's line, 2 connections | 98 348 | `OneLoop` `NothingForgotten` `PushesInOrder` `Delivers` `Settles` |
| `Requests` | agent: 3 frames, 2 cores; rpc: 2 callers with 2 calls each, 2 connections, queue of 1; table: 3 sessions, 1 administrator | 276 957 | `OkIsInstalled` `NewestStartWins`; `OwnAnswer` `NothingLeaks` `EveryCallReturns`; `ShutLeaves` |
| `ConfigSync` | 2 handlers, 1 loop, 2 attempts, 1 change, 2 connections, 2 frames, 2 cores, frames in order | 2.9 million | `ConfirmedIsRunning` `QuietMeansCurrent` |
| `Billing` | kernel: 1 reader, 3 bytes a direction, 1 reset; meter: 2 connections, 3 bytes, 1 fault, 1 frame under way, multiplier 3/2; link: 2 interfaces, 1 peer, 3 requests, 3 applies, 1 fault | 3.6 million | `NeverOverbilled` `NothingLost`; `OverbilledOnlyAgain` `NothingDropped`; `OkRuns` `NothingUnread` |
| `Access` | access: 2 inbounds, 1 handler and the tick, 3 days in 2 months, a package with reset day 2 or a cycle of 1 day, own reset day 1 or none, quota 1, 2 events; routes: 2 lines of any of 9 forms, 2 customers, 4 filters, 3 sites, marks modulo 4, 1 user unread | 1.6 million | `OneResetACycle` `AccessSettles`; `RoutedAsAsked` |
| `Supervisor` | cores: 2 cores, 3 configurations (one broken), 2 ports, 2 crashes in 3 ticks, 3 events; kick: 2 kicks, 2 clients, 2 pushes, 2 faults; filter: 3 configurations, 2 ports, 4 kinds of firewall, 1 fault, 3 events; upgrade, install: 2 goroutines, 3 inodes, 2 releases, 2 faults | 439 310 | `OnlyAccepted` `StatsAskTheRunning` `OnlyRemovalForgets` `ComesBack` `Settles`; `KickedComeBack`; `AckedGuards` `StaysOpen`; `ProgramsWhole` |
| `Panel` | table: 3 sessions, 1 administrator; lines: 4 ids, 3 servers, 2 handlers, 2 requests, 1 missed push; nodes: 3 ids, 3 servers of which 2 have an address, 2 handlers, 2 requests, 2 tunnels a server, 1 missed push; certs: 3 ids, 2 handlers and the loop, 4 ticks, 1 failure, 1 request, uploads of 0 or 3 ticks; restore: 3 Agents, 2 ids, 2 handlers, 2 changes | 987 577 | `TableRight`; `RelaysAgree` `SoldPathsStay`; `SavedBuilds` `EndsAgree` `SlotStays`; `NeverOver` `Served`; `RestoredRuns` |
| `ConfigSyncReorder` | `ConfigSync`, frames in any order | | violates `QuietMeansCurrent` |
| `HubConnFlag` | 2 sessions, 1 administrator | | violates `ConnectedIsOnline` |
| `WGAccountTwo` | 2 readers | | violates `NeverOverbilled` |
| `AccessReset` | the package with reset day 2 | | violates `ClearedOnTheDay` |
| `MeterOneSided` | meter, no traffic between readings, complete lists | | violates `BilledOnce` |

The configuration of a run is named in `PROJECT.json` (`SyncLoopMC.cfg`,
`BillingMC.cfg`, `MeterOneSided.cfg`, ...).

### What they show

**SyncLoop.** Two handlers change tables, kick, push themselves and register
connections in every interleaving with the loop. `OneLoop`: a wish always has a loop
and there is never a second loop, also when a kick falls between the loop's last look
and its end. `NothingForgotten`: while the Agent lacks the newest configuration and no
error is shown, a dispatch is waiting or underway. `PushesInOrder`: the recorded
revision and what one connection has confirmed only grow. `Delivers`: the whole
implements `Delivery`. `Settles`: it ends confirmed or visibly failed, and on a server
with customers' lines, which the tick pushes again, it ends confirmed. A server that
has only landings or administrators' lines keeps the error until something else asks
for a push.

**Requests.** An `Apply` that comes back late from its downloads neither overwrites a
newer one (`NewestStartWins`) nor is acknowledged for something that is not
installed, unless a later one is going to decide (`OkIsInstalled`). Nobody receives
somebody else's answer (`OwnAnswer`), `pending` holds exactly the requests that are
still waited for (`NothingLeaks`), and every call ends even if the Agent neither
reads nor answers (`EveryCallReturns`). A connection the writer gave up leaves the
table (`ShutLeaves`).

**ConfigSync.** With frames in order, what the panel believes confirmed is what the
cores run or older (`ConfirmedIsRunning`), and a quiet, connected, error-free
server runs the newest configuration (`QuietMeansCurrent`), through lost frames,
timeouts, retries, reconnects and restarts of both ends.

**Billing.** *WireGuard at the panel:* with one reader a client is never billed for
more than it used (`NeverOverbilled`), and while the interface was not reset all of
the reading last taken over is billed (`NothingLost`), across failed batches and
restarts. *Cores:* whatever fails in a collection, and whichever sources it finds,
only the bytes that the code's own order of readings puts in two intervals, or that a
reading missed and a later one has, can be billed twice, and the multiplier never adds
more than it says (`OverbilledOnlyAgain`); what the core counted is billed or on its
way unless a process, a frame or a batch was lost (`NothingDropped`). *Interfaces:* OK
means that every interface runs the request and who was connected still is (`OkRuns`);
counters that a bounce resets are handed over (`NothingUnread`).

**Access.** A reset by a reset day comes in another month than the one before it and a
reset by `cycle_days` a whole cycle after it, whatever is edited, rebound, fails or
restarts between reading and writing (`OneResetACycle`); once requests, reports and
days stop, the customer's clients are what his row says, and no server that has one of
them was left out (`AccessSettles`). For every pair of lines and every pair of
customers with their filters, a request goes where the rows send it, and a mark is
reported and limited as its owner's (`RoutedAsAsked`).

**Supervisor.** A live child runs what its core accepted last, which is also what a
repeated request is compared with (`OnlyAccepted`); statistics are asked of the
running configuration (`StatsAskTheRunning`); a core falls out of use behind the
panel's back only through a removal that arrives late (`OnlyRemovalForgets`); the
crash limit delays the watchdog and never stops it (`ComesBack`); in the end every
core runs what is wanted, if the tick pushes again or the panel was told OK
(`Settles`). Three states are excluded by name in these formulas because the code does
not recover from them: `spoiled` (a rollback could not write the old file: the
watchdog starts the refused one and a repeated request for the old configuration is
answered "OK" unseen), `Crossed` (two cores exchange ports in one push: each is probed
while the other still runs, so both are refused on every retry) and `Forgotten` (the
late removal above). *Kick:* a kicked customer can come back and nobody is let in
(`KickedComeBack`). *Packet filter:* what the panel shows as running is in force
(`AckedGuards`), and a port that was opened stays open through requests, failures,
restarts and reboots (`StaysOpen`). *Programs:* one under its own name is whole and no
older than what the panel shows, also when upgrades remove each other's `program.new`
or end each other, unless one opened it while another had it (`ProgramsWhole`).

**Panel.** *Table:* it never points at an ended session, and a session outside it is
shut or about to be (`TableRight`). *Lines:* when the requests are done every landing
admits the entries that dial it, between servers whose last due push reached them
(`RelaysAgree`), and no request takes a line or a landing away from customers who have
it, unless somebody wrote between its check and its write (`SoldPathsStay`).
*WireGuard nodes:* the checks of one node at a time suffice for what Build asks of all
but addresses and the number of tunnels, unless a Build has written an older row back
(`SavedBuilds`), both ends of a tunnel agree and no server that can be built is home
to a node that goes elsewhere, where the last due push got through (`EndsAgree`), a
running tunnel keeps its slot unless a slot was saved that its server was not told
(`SlotStays`). *Certificates:* none that renews itself runs out while the orders that
fail and the operator's own changes are fewer than the ticks it has, and nobody
uploaded one that was due already into its row (`NeverOver`), and a renewal ends
neither in the table only nor leaves TXT records behind (`Served`). *Restore:*
connected Agents run what the tables say of their own server, unless they dialled in
the middle or the last push to it failed (`RestoredRuns`).

### Why the bounds are enough

* *SyncLoop*: the state is a boolean queue and a mutex, so one change that lands
  before, inside or after a push, with a third goroutine waiting, exercises every
  order; two connections are needed for replacement, and two loop identities to see a
  second loop at all. Before the change the tick has nothing to push, after it the
  server is one of its own. The proofs cover all numbers.
* *Requests*: three frames give a superseding job that is itself superseded. With a
  queue of one it is full as soon as the writer pauses; two calls a caller let an
  answer of the first arrive during the second, and two connections let it arrive on
  the old one. Three sessions are a replaced one, its replacement and the next.
* *ConfigSync*: two frames are a push and its retry, or a push and its successor.
* *Billing*: with three bytes there is a reading before and after a reset and one
  above the old level. Two connections are one that ends while the other goes on,
  which is what a sum over sockets has to survive; the multiplier 3/2 rounds. Two
  interfaces are the least with an order and a leftover, three applies a change, a
  refusal and the repair. One fault at a time is what the properties promise to
  survive.
* *Access*: two inbounds let provisioning fail between them; two months of which one
  is too short for the reset day; two events are two of an edit, a report, a failure,
  a restart or a full server. A cycle of one day ends on every day of the instance, so
  that it resets twice in one month; an edit changes the package between the two
  rules. Ticks and days are not counted as events. Rules interact only through a
  shared line, a shared customer, a shared filter or a shared mark: two lines and two
  customers have all four, and two row ids of the instance share a mark and one has
  none.
* *Supervisor*: the crash limit and window are scaled from 5 in 30 ticks to 2 in 3.
  Three events suffice for an edit, a fault in it and an accident during its
  rollback. Two kicks cross each other and a push; two upgrades share one file.
* *Panel*: two handlers have one between the check and the write of the other; two
  requests are two of those, with the dispatcher, which is not counted. One missed
  push is one end of a chain or tunnel that lacks what the other has. A sold chain has
  an entry, a hop and an exit on three servers. Two tunnels a server (20 in the code)
  are full with two nodes. A certificate is due for three ticks (60 in the code) and
  one order may fail; an upload is over, or has as long to go as one that has just
  become due. A backup of another panel with a permuted token is the case in which an
  id means two servers; the second id is free again after the restore, and another
  server gets it. A push fails only while requests are left, so that something follows
  it.

The mutants show that the interesting cases occur: each property of a passing run
has a plausible bug which makes TLC report that property under the same `.cfg`.

`CHECK_DEADLOCK FALSE` stands where counters are bounded or a system may rest:
everybody idle with all events spent is not an error. `SYMMETRY` is used in
runs whose properties are all safety, over connections, handlers and cores that no
definition tells apart.

## 4. Fairness

* **Goroutines that can run do** (`WF` of their next step). The Go scheduler is
  preemptive and every section modelled as a step is finite.
* **Mutexes** (`SF` of `Lock` in `SyncLoop`, of `Watch` in `Supervisor`): Go's
  `sync.Mutex` hands over to a waiter that has waited for a millisecond.
* **Timers** (`WF` of `CallStep` in `HubRPC`): `SendRPC` selects on a timer, so a
  waiting caller can always leave.
* **Tickers** (`WF` of the tick in `Access` and `Supervisor`, of `Tick` in
  `TickFairness`): `enforceLoop` and the watchdog run as long as their process. What
  `enforceOnce` does on a tick is not assumed for every server: `Tick` and a repeated
  `BeginApply` are possible only while `Carried` holds, as only the servers that
  `ProvisionUser` names are kicked.
* **A shut socket fails its reader** (`WF` of `SessionStep` in `HubConn`).
* The second half of `SyncLoop`'s `Settles` assumes in addition (`TickFairness`) that
  `ProvisionUser` succeeds for one of the server's customers on infinitely many ticks,
  and that of infinitely many builds and applies one succeeds; it says what the
  retries are for and nothing about an Agent that refuses for ever. The first half
  needs none of this.
* In a joined instance the fairness of a part asks for nothing while another runs:
  its actions are then not enabled as steps of the whole.
* **None** in `Billing` and `Panel` and in the parts added to `Access` and
  `Supervisor`: what they say of an end ("when the requests are done") is stated of the
  states in which nothing is left to do.
* **Never fair**: administrators, customers, connections, kernels, failures,
  restarts, time. `Settles`, `AccessSettles` and `ComesBack` are about behaviours in
  which those stop by themselves; their counters are bounded, which is also what
  lets TLC see such behaviours.

## 5. Proofs

TLAPS proves the following for every value of the constants, from the modules'
named `ASSUME`s, which TLC evaluates in every run, and for some theorems a hypothesis
that their statement names. Every safety invariant and every action property of a
passing run is a theorem. The type invariants are proved with them, which is why no
run repeats them.

| theorems | inductive invariant |
|---|---|
| `SyncLoopProofs`: `TypeCorrect` `OneLoopHolds` `NothingForgottenHolds` `PushesInOrderHolds` `DeliversHolds` | `Owner`, `Bounded`, `Tracked` |
| `RequestsProofs`, Agent: `ApplyTypeCorrect` `OkIsInstalledHolds` `NewestStartWinsHolds` | `Generations`: no job's or core's generation exceeds `applyGen`, and no two started jobs share one |
| `RequestsProofs`, requests: `OwnAnswerHolds` `NothingLeaksHolds`, from `HubRPCProofs`: `RPCTypeCorrect` | `Issued`, `OneOwner`, `OwnFrames` |
| `ConfigSyncProofs`: `ConfirmedIsRunningHolds` `QuietMeansCurrentHolds` | `Frames`, `InTurn`, `Upwards`, `Matched` |
| `BillingProofs`, WireGuard at the panel: `AcctTypeCorrect` `NeverOverbilledHolds` `NothingLostHolds` | `CursorCovers`, `Fresh`; `Kept` |
| `BillingProofs`, cores: `MeterTypeCorrect` `OverbilledOnlyAgainHolds` `NothingDroppedHolds` | `MeterInv`; `DropInv` |
| `BillingProofs`, interfaces: `LinkTypeCorrect` `OkRunsHolds` `NothingUnreadHolds` | `LinkInv`; `UnreadInv` |
| `AccessProofs`: `AccessTypeCorrect` `OneResetACycleHolds`; `RoutedAsAskedHolds` | `CycleInv`; `RouteInv` |
| `SupervisorProofs`, cores: `SupervisorTypeCorrect` `OnlyAcceptedHolds` `StatsAskTheRunningHolds` `OnlyRemovalForgetsHolds` | `Coherent`; `Configured` |
| `SupervisorProofs`, the others: `KickTypeCorrect` `KickedComeBackHolds`; `FilterTypeCorrect` `AckedGuardsHolds` `StaysOpenHolds`; `InstallTypeCorrect` `ProgramsWholeHolds` | `KickInv`; `FilterInv`; `InstallInv` |
| `PanelProofs`, table: `HubTypeCorrect` `TableRightHolds` | `TableInv`: the two halves of `TableRight` with `Dropping`, by which a handler remembers the session it took out of the table exactly until it has shut it |
| `PanelProofs`, lines: `LineTypeCorrect` `SoldPathsStayHolds` `RelaysAgreeHolds` | `LinesInv`; `RelayInv` |
| `PanelProofs`, nodes: `PlanTypeCorrect` `SavedBuildsHolds` `SlotStaysHolds` `EndsAgreeHolds` | `PlanInv`; `SlotInv`; `EndsInv` |
| `PanelProofs`, certificates: `CertTypeCorrect` `ServedHolds` `NeverOverHolds` | `RenewalInv`; `OverInv` |
| `PanelProofs`, restore: `RestoreTypeCorrect` `RestoredRunsHolds` | `RestoreInv` |
| the whole way: `ConfigSyncProofs` `WholeDelivers` `AgentKeepsItsWord` | the dispatcher's, and `Generations` for any frames |
| the joined instances: `RequestsHold` `BillingHolds` `AccessHolds` `ServerHolds` `PanelHolds` | each step of a joined specification is one of each part or leaves it alone |

What the assumptions say of the constants, beyond their types: bounds are natural
numbers and counts positive, marker values are in no set of real ones, sets over
which the code sums are finite; the calendar's months do not go backwards; a list of ports
is never taken for a torn file (`FirewallAssumption`); a Mieru line runs on mita
(`RoutingAssumption`). The tables a run starts from are such as the handlers can have
left: ids without gaps, saved lines that lead to saved lines only (`LinesAssumption`),
saved WireGuard nodes that passed the checks against each other and, if enabled, hold
a slot of their own (`WGPlanAssumption`), certificates that are not overdue and are
due for less than they live (`RenewalAssumption`), servers and a
backup of known Agents (`RestoreAssumption`). Assumed by a theorem itself, because the
property needs it: one reader (`OneReader`), frames in order (`InOrder`), no session
with the name of none (`SessionsNamed`), connections and bounds that are positive numbers
(`Numbered`), and for `NeverOver` that the orders that
fail and the operator's changes are together fewer than the ticks between a
certificate's due date and its end (`MaxFails + MaxOps < Due`).

**SyncLoop.** None of the properties is inductive. `Owner` says that exactly the
goroutine between `Lock` and `Return` holds the mutex and that goroutines are where
their kind can be; without it two pushes could interleave. `Bounded` says that what
is recorded and confirmed is no newer than what the holder has built, and that no
newer than the tables: this is where "build inside the mutex" enters, and it gives
`PushesInOrder`. `NothingForgotten` fails to be inductive because a push may be
`Stale` (built before the newest change, or sent on a replaced connection) and its
success clears the error; `Tracked` adds that a stale push is always accompanied by
a dispatch that has still to read the tables. `DeliversHolds` shows that each action
maps to an action of `Delivery` or leaves its variables alone, from these
invariants and from `NothingForgotten` in the next state, which says that a debt
ends only for one of the reasons `Delivery` allows.

**ConfigSync.** The theorems assume `InOrder`, that the Agent's goroutines begin in the
order of their frames; without it `QuietMeansCurrent` is false (`ConfigSyncReorder`).
Every step is one of the dispatcher's or leaves it alone, so the invariants of
`SyncLoopProofs` carry over. `Frames`: the frame waited for is the newest, or none.
`InTurn`: generations follow the numbers of the frames, so the newest frame that has
begun is superseded by nothing and its "OK" is `OkIsInstalled`'s. `Upwards`: versions
follow the numbers as well, and what a goroutine of the panel carries is no older
than anything under way or running, which again rests on building inside the mutex;
so no installation takes a core back. `Matched` joins the two ends: the frame waited
for carries what the waiting goroutine has built. `ConfirmedIsRunning` is inductive
with these, and `NothingForgotten` turns it into `QuietMeansCurrent`. Two theorems do
without `InOrder`: `WholeDelivers`, that the dispatcher implements `Delivery` with this Agent
at the other end, and `AgentKeepsItsWord`, that `OkIsInstalled` and `NewestStartWins` hold
for whatever frames the panel sends. So the order of the goroutines is what the
end-to-end property needs, and neither end by itself.

**HubRPC.** `Issued` says that an id in use anywhere (a call, `pending`, a queue, a
frame either way) is no larger than the counter, so a new id is nobody's; `OneOwner`
that no two waiting calls of a connection share one; `OwnFrames` that a frame or an
answer with a waiting call's id was caused by that call.

**WGAccount.** `NeverOverbilled` speaks of `billed` and `real`, which meet only
through the cursor. `CursorCovers` says that what the cursor leaves to be billed
later (kernel counter minus cursor) is traffic not billed yet; `InStep`, `InWrite`
and `InSave` say the same at each place of the reader, for its reading, its amount
and the cursor it is about to save, and `Fresh` that its copy of the cursor is still
the cursor. The theorems assume one reader (`OneReader`): `Fresh` needs it, and the
run `WGAccountTwo` shows that the property does too. `NothingLost` is the other
direction: `Kept` says that while the kernel has not been reset and nothing was given
up, what is billed equals the cursor, or will once the reader has saved, and that a
pending cursor is covered by the next reading.

**Access.** The number of resets does not appear in any guard of the code; what
prevents a second one is `cycle_start`, on a row that everybody edits. `CycleInv` says
that a cycle never begins before the last reset, and that a tick which has decided to
clear, and not done it yet, is in a later month than the last reset if it goes by a
reset day and a whole cycle after it if it goes by `cycle_days`, whatever happens to
the row and the package in between.

**Supervisor.** `Coherent` per core: `last` and `lastReq` agree, a core without `last`
has no child, with one the statistics address is `last`'s, and unless a rollback could not
write, the file holds `last` and a live child runs it. The file is not mentioned by
either property and is what the watchdog starts, so nothing less is inductive.
`OnlyRemovalForgets` follows with `Configured`: a core that an `Apply` has passed, was
to run something and did not refuse has a `last`, and nothing is acknowledged while
an `Apply` is underway. That an `Apply` passes every core is `OrderAssumption`.

**Meter.** For each of the three cursors (the core's counter, the sockets', sing-box's
list) `Covered` says that what is billed, what is on its way and what that cursor still
leaves to be billed is no more than the customer moved plus what an interval could
bill again. `CoresRead` and `FrameReady` say the same in the middle of a collect, for
the reading taken and the cursors about to be saved; the fallback from the counter to
the list is where they differ. A sum over connections is stated as the cardinality of a
set of bytes (`BytesOf`), because what a recursive sum computes could not be reasoned about;
`SumIs` shows that this is the sum of the module. `NothingDropped` goes the other way:
`DropInv` says that what lies between a cursor and the first reading is billed or under
way, and that an open collect holds at least what lies between its two cursors.

**WGLink.** `OkRuns` speaks of the answer only, so `LinkInv` follows one apply: what
it has passed is done (`AllDone`), what it has not touched is as the last accepted
request left it, torn interfaces apart (`AllClean`), the interface at hand has its
file and its endpoints (`Prepared`, `Noted`), and the leftovers are what neither the
request nor the passed ones name (`JobShape`). `UnreadInv` adds to `NothingUnread` that a
frame which will clear the hand-over contains it.

**Routing.** `Build` reads rows and writes one configuration, so the invariant only says
from which rows a configuration came. The proof is about the rules: for each form of
line and each of the six stages, which rules match a request, that an earlier stage
with a match is the one the rows ask for, and that a mark computed from a row id
belongs to one client unless the ids collide.

**Kick.** A kick is a race of calls between goroutines, and yet the invariant is
short: the file says what was accepted last, a kick that has removed a client holds
him as `now` until he is back, and any failure is remembered until the restart from
the file (`OneInHand`).

**Firewall.** `Listed` relates `told`, the list on disk and the request under way, `LetIn`
the request's own progress and the rules, `ShownOpen` what was shown and the rules
while the Agent is up; only together do they survive the replay at a start.

**Install.** `Alone`: as long as no upgrade opened `program.new` while another had it,
one at most has it. `Owns`: that one's descriptor is the inode of that name or of
none, never the program's, and what it renames is what it checked, although others may
take the name away; an upgrade whose session lasts asked for the version of the panel
that runs, so what is shown only grows. Once two had the file nothing is said of the
Agent's own program, which is `crossed` in section 6; `CoreWhole` needs no such
exception, as every installation has a name of its own.

**Lines.** `ChecksHold`: what a request has checked still holds when it writes, as
long as nobody wrote in between. For `RelaysAgree`, `ToldOrToPush`: every server that
can be built has been told what the rows say, or a handler has yet to push it, or it
is `missed`; and `LinesKnown`: a line leads to ids already given out, so a landing
that is gone is never replaced by another line under its id.

**WGPlan.** The checks compare one node with the saved ones, Build asks for more:
`AllApart` with `Apart` is what the first leave and enough for the second. `SlotInv`
follows slots through a Build's two steps: rows that were read stay on their servers
with their slots while they wait to be written back (`Follows`), and the slots a
server was told are distinct and still held (`Distinct`, `Holds`). `EndsInv`: each
server was told what the rows say, and each Build has read rows that say the same, or
a request will still push it, or it is `missed` (`UpToDate`); a request's own Build
counts for that only if it has read what matters.

**Renewal.** `RenewalInv` says who orders (`OneOrders`), whose TXT records there are,
and that a served certificate which differs from the saved one is about to be pushed.
`OverInv` counts: on any day a certificate has been due for no longer than there were
failures and changes by the operator, and if it has been due for as long as that, the
loop is about to renew it today (`AboutToRenew`). It says nothing of rows marked
`short`, whose certificates an edit put in late. A handler that writes back a row it
read before a renewal has used one of his changes, which is why these count.

**Restore.** `Registered`, `OwnRow` and `WillRun`: the table and the sessions agree, a
session that did not dial during a restore has the row of its own token, and runs it
or is about to be pushed (`Fed`: there is a kick, or what was built is the row as it
is), unless the push of that failed.

**The joined instances.** `RequestsHold`, `BillingHolds`, `AccessHolds`, `ServerHolds` and
`PanelHolds` carry all of these over to the specifications that TLC runs.

**Only model-checked.** All liveness (`Settles` twice, `EveryCallReturns`,
`ShutLeaves`, `AccessSettles`, `ComesBack`): fairness and
`ENABLED` are out of the prover's reach. Induction over data (an operator as a
parameter of an induction theorem) and `RECURSIVE` operators are too, so what a
recursive definition computes for every input stays with TLC; the modules with
theorems use none. The five runs that end in a violation are counterexamples and have
no theorem.

**What the proofs changed.** Three properties held in TLC's instance and not beyond it,
and were corrected:

* `OkRuns`: with two commands that fail and four applies, an interface that a refused
  apply had left half changed stayed so when a later request went back to the old
  configuration, whose text equals the last accepted one. The property now names
  exactly these interfaces (`torn`, and the request goes back).
* `SavedBuilds`: with three handlers, a Build that writes older rows back makes two nodes
  clash although every check was made alone. It now requires `~stale` besides `~overlap`.
* `EndsAgree`: a handler removes the exit of a node, and before its push the former home
  server is given more nodes than it has tunnels; the push fails, and the server stays
  the home of a node that goes elsewhere. The second half of the property is therefore
  about servers that can be built; in exchange the whole no longer excludes `overlap`.

## 6. Findings

Each is a run that TLC ends with a counterexample.

1. **A superseded Apply is acknowledged as success** (`internal/agent/cores.go:159`,
   run `ConfigSyncReorder`). Two frames, as after a retry, are handled by two
   goroutines that nothing orders. If the newer frame's goroutine starts first, the
   older one's generation wins; the newer returns `nil`, the panel records its
   revision and clears the error, and the refusal of the older belongs to a request
   nobody waits for. Against `internal/server/hub.go:195`, "ConfigRev is only updated
   after a successful apply".
2. **A connected server can be shown offline** (`internal/server/hub.go:222`, run
   `HubConnFlag`). `unregisterConn` marks the row offline after it has released
   `h.mu`, and the next session may have marked it online in between. Against
   `CHANGELOG.md:958`.
3. **Two readers bill the same bytes** (`internal/server/wgacct.go:164`, run
   `WGAccountTwo`). The reader of a replaced connection may still be handling its
   last frame; it and its successor copy the same cursor. Against
   `internal/server/wgacct.go:13`.
4. **A reset day is passed over** (`internal/server/sync.go:253`, run `AccessReset`).
   A customer bound, or cleared by hand, earlier in the month is not cleared on the
   reset day of that month. Against `web/src/pages/Users.jsx:1220`.

5. **One failed query bills an interval twice** (`internal/agent/stats.go:103`, run
   `MeterOneSided`). Counters and sockets have a cursor each, and the cursor of a
   source that could not be read stays: the tick bills the other source's growth, and
   the next one bills the same bytes from the source that is back. Against
   `internal/agent/stats.go:102`, "measure the same interval".

Seen while modelling, without a run of its own; where a property would meet them,
the module names the case and the property excludes it.

*Dispatcher, supervisor, access*

* `wgacct.go:14-15` speaks of two low readings; a second one that is higher than the
  first re-arms the wait instead of confirming (`wgacct.go:57`). `WGAccount` follows
  the code.
* `enforceOnce` (`sync.go:157-183`) pushes again only to servers that `ProvisionUser` named
  for a customer. A server with landings or administrators' lines only keeps a failed push
  until something else asks (`Carried`); and so does the server of customers whose
  `ProvisionUser` keeps failing.
* `sync.go:30-31` records the revision of an offline server without any apply.
  `Reconcile` pushes regardless of the revision, so nothing relies on it.
* A rollback that cannot write (`cores.go:302-305`) leaves the refused file, and the
  watchdog may start it; `applyMita` returns from a failed write without restoring.
* `Remove("xray")` leaves `c.xrayAPI` (and the binary's path), so statistics go on
  asking an address at which no core answers until the next Apply.
* `dropOccupiedListen` probes with TCP for inbounds that listen on UDP.
* `maxMergeSamples` takes the larger of two counters read at different moments, tick
  by tick, so bytes between the readings may count in two ticks. A tick on which
  conntrack could not be read misses what only it knew; the next one bills its whole
  reading of them again (`again`).
* A batch "extend" on a customer without expiry gives him one; an edit sent with an
  old expiry can leave `users.expires_at` and `user_packages.expires_at` different,
  and the earlier one then decides.
* `UserNeedsProvision` only looks for clients to switch off; switching on waits for
  the tick. `ProvisionUser` fails as a whole when its second package lookup does.
* A client row deleted before `ProvisionUser` fails leaves its server to the next
  push for another reason; `AccessSettles` leaves that server out.
* The Agent's back-off is never reset after a good session (`agent.go:60-83`).

*Agent*

* A kick works without `c.mu`: after its `rmu` an Apply can take the customer out of
  the configuration, and its `adu` lets him in again until the next restart
  (`strays`). An `rmu` that took effect but was not answered within four seconds
  leaves him locked out (`cut`).
* Two upgrades of one Agent share `exe.new`: the second opens and truncates it after the
  first has checked its sum, and the first renames it over the program (`crossed`).
* `Apply` returns before the limits and the refusal of addresses when a core refuses;
  a speed table that does not load is only logged and the push acknowledged.
* `allow-ports.json` is written over in place; a torn file makes `openAllow` and the
  replay at the start fail from then on (`lapsed`). The old nft table is deleted
  before the new one is loaded.
* The list of Chinese addresses can be cut short and is then used for a week; a
  failed IPv6 list discards the IPv4 list as well.
* `applyOneWG` writes the file before `wg-quick down`, and compares the next request
  with the last accepted one: going back to that after a refusal changes nothing
  (`torn`). The hand-over of counters is one list that a second bounce replaces.
* `uninstall` stops the cores while the watchdog still runs.

*Configurations*

* `loadUserSiteDenies` and `loadUserSpeeds` skip a user they cannot read: his filter
  or limit is missing from a configuration that is confirmed (`open`, `slow`). Marks
  are 24 bits of a row id. Customers on a chain, on SOCKS5 lines and on Mieru have no
  speed limit, those on Mieru no filter.
* `allocateWGAddr` lists and inserts without a constraint on the address. A Build's
  write-back (`assignWGSlots`, `persistWGProbe`, `RepairSS2022`) writes whole rows
  over edits made since it read them (`stale`). Slots are chosen among the enabled
  nodes only, so that an older node that is enabled again takes its slot back.
* No check at saving looks whether the exit of a node, or its own server, has an address.
  `exitHostFor` and `HomeConfig` then fail, and with them the configuration of the whole
  server, after `assignWGSlots` has written its rows (`SavedBuilds`, `reslotted`). A server
  that gets another address is pushed itself; those that dial it learn it at their next
  push (`missed`). `handleUpdateInbound` takes the settings of the request, slot included,
  so an older copy of them moves a node's slot.
* A server whose push cannot be built keeps what it was told before: a node's former
  home goes on routing for it until the server can be built again (`EndsAgree`).

*Panel*

* `ServerInUse` protects sold lines only; the deletion of another hop's server makes
  Builds fail elsewhere. `handleUpdateInbound` pushes the new targets, not the old.
  When `ProvisionAll` fails after the row was written, the handlers of lines answer
  500 and push nobody (`handlers_inbounds.go:175-178`, `239-242`, `337-340`): the ends
  of a chain disagree until both are pushed for another reason (`missed`).
  `respondAfterApply` switches off the lines on busy ports on all servers it pushed.
  `DeletePackage` is two statements without a transaction.
* `handleUpdateCert` keeps source and renewal of a certificate it replaces by an
  upload, while `web/src/pages/Settings.jsx:853` says uploads are not renewed, and
  takes one that is due or over already (`short`). A stale edit undoes a renewal and
  the reverse. `handleDeleteCert` does not look at `panel_tls_cert_id`. A lost answer
  of Cloudflare leaves a TXT record (`messy`).
* An Agent that says hello between `DropAll` and the commit of `Import` is registered
  under an id of the old tables (`late`); an Agent that registers between `Drop` and
  `DeleteServer` stays registered for a server that is gone. `hub.wgCursor` survives a
  restore. Rows read before the import are written into the restored tables.

## 7. What is not modelled

* **Inside modelled components.** Matching WireGuard peers to clients by key, and live
  rates; creation and deletion of customers, administrators' own clients (never
  limited) and batch extension; `applyMita`, which drives an external service; mita's
  counters, which are handled as xray's; policy rules, the parsing of `wg` and the
  delay listeners; the draw of a free port and the settings of each profile; kicks of
  sing-box, which only close connections; the deletion of a server with WireGuard
  nodes of its own (`Lines` has the one with lines, `WGPlan` the loss of an address);
  the hour at which a cycle of days ends; the scheduled backup; packages of the
  distribution and the removal of an Agent; bodies of configurations, error texts,
  logs.
* **Agent session**: dialling and back-off are about time, which the modules leave out;
  a session may begin and end at any moment in all of them.
* **Read-only or without shared state**: subscriptions, dashboard, alerts, probes and
  audit, authentication (single statements; its limiter only counts).
* **Outside the program or run once**: the panel's own upgrade (a script under
  systemd), schema migrations, the ACME protocol, encryption of backups, the wire
  format, the web interface, what the kernel does with a loaded table.

The dispatcher, the hub and billing are modelled for one server: they key their
state by server id and nothing in them crosses servers. `Lines`, `WGPlan` and
`Restore`, where servers meet, have three.

## 8. Plan

Modules of all components whose correctness depends on order or failure exist, and
their safety is proved. What would add most, in this order:

1. `Access` with a second customer, for creation, deletion and the draw of ports.
2. Pure algorithms against a reference definition: version comparison, the cycle's
   start, the login window, amounts refused as absurd.
3. `applyMita` as a third kind of core in `Supervisor`.
