------------------------------- MODULE Access -------------------------------
(* Who may use which inbound: internal/server/sync.go enforceOnce and         *)
(* shouldResetAt, internal/corecfg/client.go ProvisionUser, the traffic       *)
(* reports of internal/server/hub.go and the admin's requests of              *)
(* internal/server/handlers_users.go, around the row of ONE customer.         *)
(*                                                                            *)
(* Everybody works on a copy of the row: the 30 second tick on what ListUsers *)
(* returned, a request on its GetUser, a report on the GetUser of             *)
(* OnTrafficUpdate. Each then writes client rows (ProvisionUser) one          *)
(* statement at a time, and only then tells the servers (kickSync, modelled   *)
(* by SyncLoop: here a kicked server is up to date).                          *)
(*                                                                            *)
(* Left out: the administrator's own clients (never limited), creation and    *)
(* deletion of the user, passwords, names, speed and site filters. One        *)
(* inbound per server.                                                        *)
EXTENDS Naturals, Sequences, FiniteSets

CONSTANTS
  Inbounds,     \* numbers: ProvisionUser takes them in the order of the ids
  Handlers,     \* goroutines that serve the administrators' requests and the
                \* Agents' reports, as many as may run at once
  Calendar,     \* the days, one after the other: a sequence of
                \* [m |-> month, d |-> day of month]
  Limit,        \* traffic_limit, in units of a report; not 0 (unlimited)
  Rules,        \* what a package may say of resets: day = reset_day, every =
                \* cycle_days, 0 = none
  ResetDays,    \* users.traffic_reset_day, 0 = the package's
  Expiries,     \* expiry days an administrator gives; 0 = never
  MaxEvents     \* bound: requests, reports, failures and restarts in all

ASSUME AccessAssumption ==
  /\ Inbounds \subseteq Nat /\ IsFiniteSet(Inbounds)
  /\ Calendar \in Seq([m : Nat, d : Nat]) /\ Len(Calendar) > 0
  /\ \A s, t \in DOMAIN Calendar : s <= t => Calendar[s].m <= Calendar[t].m
  /\ Limit \in Nat \ {0} /\ ResetDays \subseteq Nat
  /\ Rules \subseteq [day : Nat, every : Nat]
  /\ Expiries \subseteq Nat /\ MaxEvents \in Nat
  /\ "tick" \notin Handlers

Procs == Handlers \cup {"tick"}
Days  == DOMAIN Calendar
Month(t) == Calendar[t].m

(* The columns of users and user_packages that decide access: on = enabled,   *)
(* exp and pexp = the two expires_at, day = traffic_reset_day, used = the     *)
(* billed bytes, cycle = cycle_start (0 = unset), pkg = has a package.        *)
User == [on : BOOLEAN, exp : Nat, pexp : Nat, day : Nat, used : Nat,
         cycle : {0} \cup Days, pkg : BOOLEAN]

VARIABLES
  row,       \* the customer's row
  pins,      \* the inbounds of the package
  rule,      \* reset_day and cycle_days of the package
  open,      \* inbounds that are enabled on a server below its quota
  client,    \* clients rows: "none", "on" or "off" per inbound
  dirty,     \* servers whose client changed and that were not kicked since
  today,     \* the clock, in days
  proc,      \* what each of Procs is doing
  events,    \* how many of MaxEvents have happened
  resets     \* history: the days on which the tick cleared the usage and the
             \* cycle_days it went by, 0 for a reset day

vars == <<row, pins, rule, open, client, dirty, today, proc, events, resets>>

(* ok, todo and touched are ProvisionUser's locals; then is what a request    *)
(* does after UpdateUser; by is the cycle_days a due reset goes by.           *)
Proc == [pc : {"idle", "reset", "write", "package", "read", "check", "prov", "delete", "each"},
         u : User, then : {"read", "expiry", "bind", "unbind", "usage", "all"},
         ok : BOOLEAN, todo : SUBSET Inbounds, touched : SUBSET Inbounds, by : Nat]

NewUser(bound) ==
  [on |-> TRUE, exp |-> 0, pexp |-> 0, day |-> 0, used |-> 0,
   cycle |-> IF bound THEN 1 ELSE 0, pkg |-> bound]

At(pc, u, then) ==
  [pc |-> pc, u |-> u, then |-> then, ok |-> FALSE, todo |-> {}, touched |-> {}, by |-> 0]

Idle == At("idle", NewUser(FALSE), "read")

Init ==
  /\ row \in {NewUser(TRUE), NewUser(FALSE)}
  /\ pins = Inbounds /\ open = Inbounds /\ rule \in Rules
  /\ client = [i \in Inbounds |-> "none"]
  /\ dirty = {} /\ today = 1
  /\ proc = [p \in Procs |-> Idle]
  /\ events = 0
  /\ resets = <<>>

(* UserAccessOK on a copy of the row; a missing package refuses.              *)
UserAccessOK(u) ==
  /\ u.on /\ u.pkg
  /\ u.exp = 0 \/ u.exp >= today
  /\ u.pexp = 0 \/ u.pexp >= today
  /\ u.used < Limit

(* Day 31 becomes the last day of a shorter month.                            *)
DaysOf(m) == {Calendar[s].d : s \in {s \in Days : Month(s) = m}}
LastDay(m) == CHOOSE d \in DaysOf(m) : \A e \in DaysOf(m) : e <= d

ResetDayOn(t, day) == LET last == LastDay(Month(t)) IN IF day > last THEN last ELSE day

(* The user's own reset day, or the package's; without one, every so many     *)
(* days from cycle_start, if it is set.                                       *)
DayOf(u) == IF u.day > 0 THEN u.day ELSE IF u.pkg THEN rule.day ELSE 0
EveryOf(u) == IF DayOf(u) = 0 /\ u.pkg /\ u.cycle > 0 THEN rule.every ELSE 0

ShouldReset(u, t) ==
  \/ /\ DayOf(u) > 0 /\ Calendar[t].d = ResetDayOn(t, DayOf(u))
     /\ u.cycle > 0 => Month(u.cycle) # Month(t)
  \/ EveryOf(u) > 0 /\ t >= u.cycle + EveryOf(u)

(* The cycle ends today, but at an hour that has not come.                    *)
LaterToday(u) == EveryOf(u) > 0 /\ today = u.cycle + EveryOf(u)

(* Something the environment decides, at most MaxEvents times.                *)
Event == events < MaxEvents /\ events' = events + 1

Become(p, r) == proc' = [proc EXCEPT ![p] = r]

-----------------------------------------------------------------------------
(* The tick: ListUsers, the reset if one is due, then ProvisionUser.          *)
TickRead ==
  /\ proc["tick"].pc = "idle"
  /\ \/ /\ ShouldReset(row, today)
        /\ Become("tick", [At("reset", row, "read") EXCEPT !.by = EveryOf(row)])
     \/ /\ ~ShouldReset(row, today) \/ LaterToday(row)
        /\ Become("tick", At("prov", row, "read"))
  /\ UNCHANGED <<row, pins, rule, open, client, dirty, today, events, resets>>

\* Mutant: cycle_start is not written with the cleared usage.
ClearedOldCycle(u) == [u EXCEPT !.used = 0]

(* The result of ResetUserTraffic is dropped: the copy counts as cleared even *)
(* when the row is not.                                                       *)
Cleared(u) == [[u EXCEPT !.used = 0] EXCEPT !.cycle = today]

TickReset ==
  LET t == proc["tick"]
  IN /\ t.pc = "reset"
     /\ \/ /\ row' = Cleared(row)
           /\ resets' = Append(resets, [on |-> today, by |-> t.by])
           /\ UNCHANGED events
        \/ Event /\ UNCHANGED <<row, resets>>
     /\ Become("tick", At("prov", Cleared(t.u), "read"))
     /\ UNCHANGED <<pins, rule, open, client, dirty, today>>

-----------------------------------------------------------------------------
(* ProvisionUser on the copy proc[p].u.                                       *)

(* GetPackage, UserAccessOK, InboundIDsForUser and ListClientsByUser; a first *)
(* lookup that fails refuses access, the rest goes on.                        *)
ProvRead(p) ==
  LET u == proc[p].u
      ids == IF u.pkg THEN pins ELSE {}
  IN /\ proc[p].pc = "prov"
     /\ \E ok \in BOOLEAN :
          /\ \/ ok = UserAccessOK(u) /\ UNCHANGED events
             \/ ~ok /\ u.pkg /\ Event
          /\ Become(p, [pc |-> "delete", u |-> Idle.u, ok |-> ok,
                        then |-> IF proc[p].then = "all" THEN "all" ELSE "read",
                        todo |-> ids,
                        touched |-> {i \in Inbounds \ ids : client[i] # "none"}, by |-> 0])
     /\ UNCHANGED <<row, pins, rule, open, client, dirty, today, resets>>

ProvDelete(p) ==
  LET gone == {i \in Inbounds \ proc[p].todo : client[i] # "none"}
  IN /\ proc[p].pc = "delete"
     /\ client' = [i \in Inbounds |-> IF i \in gone THEN "none" ELSE client[i]]
     /\ dirty' = dirty \cup gone
     /\ Become(p, [proc[p] EXCEPT !.pc = "each"])
     /\ UNCHANGED <<row, pins, rule, open, today, events, resets>>

\* Mutant: a server whose client row stays as it is is not told, which the comment
\* "Always mark the server" warns of.
ProvEachSkipping(p) ==
  \E i \in proc[p].todo :
    LET want == IF proc[p].ok /\ i \in open THEN "on" ELSE "off"
    IN /\ proc[p].pc = "each"
       /\ \A j \in proc[p].todo : i <= j
       /\ client' = [client EXCEPT ![i] = want]
       /\ dirty' = IF client[i] = want THEN dirty ELSE dirty \cup {i}
       /\ Become(p, [proc[p] EXCEPT !.todo = @ \ {i},
                                    !.touched = IF client[i] = want THEN @ ELSE @ \cup {i}])
       /\ UNCHANGED <<row, pins, rule, open, today, events, resets>>

ProvEach(p) ==
  \E i \in proc[p].todo :
    LET want == IF proc[p].ok /\ i \in open THEN "on" ELSE "off"
    IN /\ proc[p].pc = "each"
       /\ \A j \in proc[p].todo : i <= j
       /\ client' = [client EXCEPT ![i] = want]
       /\ dirty' = IF client[i] = want THEN dirty ELSE dirty \cup {i}
       /\ Become(p, [[proc[p] EXCEPT !.todo = @ \ {i}] EXCEPT !.touched = @ \cup {i}])
       /\ UNCHANGED <<row, pins, rule, open, today, events, resets>>

(* syncServers, or syncAll after a request about a package or an inbound.     *)
ProvDone(p) ==
  /\ proc[p].pc = "each" /\ proc[p].todo = {}
  /\ dirty' = IF proc[p].then = "all" THEN {} ELSE dirty \ proc[p].touched
  /\ Become(p, Idle)
  /\ UNCHANGED <<row, pins, rule, open, client, today, events, resets>>

(* A statement fails: the caller gives up, and no server is told.             *)
Fail(p) ==
  /\ \/ proc[p].pc \in {"write", "package", "check", "prov", "delete"}
     \/ proc[p].pc = "each" /\ proc[p].todo # {}
  /\ Event
  /\ Become(p, Idle)
  /\ UNCHANGED <<row, pins, rule, open, client, dirty, today, resets>>

-----------------------------------------------------------------------------
(* A traffic report: AddTrafficBatch in one transaction, then OnTrafficUpdate *)
(* for the customer. used stops growing one unit above the limit.             *)
Report(h) ==
  /\ proc[h].pc = "idle"
  /\ row.used <= Limit /\ Event
  /\ row' = [row EXCEPT !.used = @ + 1]
  /\ Become(h, At("check", Idle.u, "read"))
  /\ UNCHANGED <<pins, rule, open, client, dirty, today, resets>>

(* UserNeedsProvision: only a client that is on and must not be.              *)
NeedsProvision == ~UserAccessOK(row) /\ \E i \in Inbounds : client[i] = "on"

ReportCheck(h) ==
  /\ proc[h].pc = "check"
  /\ Become(h, IF NeedsProvision THEN At("prov", row, "read") ELSE Idle)
  /\ UNCHANGED <<row, pins, rule, open, client, dirty, today, events, resets>>

-----------------------------------------------------------------------------
(* Requests. handleUpdateUser and handleBatchUsers read the row, change the   *)
(* copy, write the copy's columns back and touch the package after that.      *)
Edits(u) ==
  {[u EXCEPT !.on = b] : b \in BOOLEAN}
    \cup {[u EXCEPT !.exp = e] : e \in Expiries}
    \cup {[u EXCEPT !.day = d] : d \in ResetDays}

EditUser(h) ==
  /\ proc[h].pc = "idle" /\ Event
  /\ \E v \in Edits(row), then \in {"read", "expiry", "bind", "unbind"} :
       /\ then = "read" => v.exp = row.exp
       /\ then = "bind" => ~row.pkg
       /\ Become(h, At("write", v, then))
  /\ UNCHANGED <<row, pins, rule, open, client, dirty, today, resets>>

(* UpdateUser: every column of the copy but the usage.                        *)
UpdateUser(r, u) ==
  [on |-> u.on, exp |-> u.exp, pexp |-> r.pexp, day |-> u.day, used |-> r.used,
   cycle |-> r.cycle, pkg |-> r.pkg]

(* The second half: SetPackageExpiry; BindUserPackage, which starts a cycle,  *)
(* and UpdateUser again with the package's defaults; UnbindUserPackage.       *)
SetPackageExpiry(r, e) ==
  [[r EXCEPT !.exp = e] EXCEPT !.pexp = IF r.pkg THEN e ELSE r.pexp]

BindUserPackage(r, e) == Cleared(SetPackageExpiry([r EXCEPT !.pkg = TRUE], e))

UnbindUserPackage(r) == [[r EXCEPT !.pkg = FALSE] EXCEPT !.pexp = 0]

WriteUser(h) ==
  LET p == proc[h]
  IN /\ p.pc = "write"
     /\ row' = UpdateUser(row, p.u)
     /\ Become(h, [p EXCEPT !.pc = IF p.then = "read" THEN "read" ELSE "package"])
     /\ UNCHANGED <<pins, rule, open, client, dirty, today, events, resets>>

WritePackage(h) ==
  LET p == proc[h]
  IN /\ p.pc = "package"
     /\ row' = IF p.then = "expiry" THEN SetPackageExpiry(row, p.u.exp)
               ELSE IF p.then = "bind" THEN UpdateUser(BindUserPackage(row, p.u.exp), p.u)
               ELSE UnbindUserPackage(row)
     /\ Become(h, [p EXCEPT !.pc = "read"])
     /\ UNCHANGED <<pins, rule, open, client, dirty, today, events, resets>>

(* handleResetTraffic and handleSetUserTraffic write without reading first.   *)
SetUsage(h) ==
  /\ proc[h].pc = "idle" /\ Event
  /\ \/ row' = Cleared(row)
     \/ \E n \in 0..Limit : row' = [row EXCEPT !.used = n]
  /\ Become(h, At("read", Idle.u, "usage"))
  /\ UNCHANGED <<pins, rule, open, client, dirty, today, resets>>

(* A package gets other inbounds or another rule, or an inbound is switched:  *)
(* ProvisionAll for every user, then syncAll.                                 *)
EditNodes(h) ==
  /\ proc[h].pc = "idle" /\ Event
  /\ \/ pins' \in (SUBSET Inbounds) \ {{}} /\ UNCHANGED <<open, rule>>
     \/ rule' \in Rules /\ UNCHANGED <<pins, open>>
     \/ \E i \in Inbounds : open' = (open \ {i}) \cup ({i} \ open) /\ UNCHANGED <<pins, rule>>
  /\ Become(h, At("read", Idle.u, "all"))
  /\ UNCHANGED <<row, client, dirty, today, resets>>

(* GetUser before provisioning; if it fails an edit goes on with its own      *)
(* copy, the others end.                                                      *)
ReadAgain(h) ==
  LET p == proc[h]
  IN /\ p.pc = "read"
     /\ \/ Become(h, [[p EXCEPT !.pc = "prov"] EXCEPT !.u = row]) /\ UNCHANGED events
        \/ /\ Event
           /\ Become(h, IF p.then \in {"usage", "all"} THEN Idle ELSE [p EXCEPT !.pc = "prov"])
     /\ UNCHANGED <<row, pins, rule, open, client, dirty, today, resets>>

-----------------------------------------------------------------------------
(* A server reaches its traffic limit: nobody is told before the next tick.   *)
ServerFull ==
  /\ \E i \in open : open' = open \ {i}
  /\ Event
  /\ UNCHANGED <<row, pins, rule, client, dirty, today, proc, resets>>

NextDay ==
  /\ today < Len(Calendar) /\ today' = today + 1
  /\ UNCHANGED <<row, pins, rule, open, client, dirty, proc, events, resets>>

(* The panel restarts in the middle of anything; every Agent connects again   *)
(* and is sent its configuration.                                             *)
Restart ==
  /\ Event
  /\ proc' = [p \in Procs |-> Idle]
  /\ dirty' = {}
  /\ UNCHANGED <<row, pins, rule, open, client, today, resets>>

Tick == TickRead \/ TickReset
Provision(p) == ProvRead(p) \/ ProvDelete(p) \/ ProvEach(p) \/ ProvDone(p)
Request(h) == EditUser(h) \/ WriteUser(h) \/ WritePackage(h) \/ SetUsage(h)
                \/ EditNodes(h) \/ ReadAgain(h)

Next ==
  \/ Tick
  \/ \E p \in Procs : Provision(p) \/ Fail(p)
  \/ \E h \in Handlers : Request(h) \/ Report(h) \/ ReportCheck(h)
  \/ ServerFull \/ NextDay \/ Restart

Spec == Init /\ [][Next]_vars

(* The tick fires every 30 seconds, and goroutines run to their end. Nothing  *)
(* makes time pass, a request arrive or a statement fail.                     *)
Fairness ==
  /\ WF_vars(Tick)
  /\ \A p \in Procs : WF_vars(Provision(p))
  /\ \A h \in Handlers : WF_vars(WriteUser(h) \/ WritePackage(h) \/ ReadAgain(h) \/ ReportCheck(h))

FairSpec == Spec /\ Fairness

-----------------------------------------------------------------------------
TypeOK ==
  /\ row \in User /\ today \in Days
  /\ pins \subseteq Inbounds /\ open \subseteq Inbounds /\ dirty \subseteq Inbounds
  /\ client \in [Inbounds -> {"none", "on", "off"}]
  /\ proc \in [Procs -> Proc]
  /\ events \in 0..MaxEvents
  /\ resets \in Seq([on : Days, by : Nat]) /\ rule \in [day : Nat, every : Nat]

(* A reset by this rule on day t may follow one on day s.                     *)
Apart(s, t, every) == IF every = 0 THEN Month(s) < Month(t) ELSE s + every <= t

(* PROPERTY OneResetACycle: the tick clears the usage at most once a month    *)
(* when it goes by a reset day, and after a cycle of days at the earliest     *)
(* when it goes by cycle_days, whatever is edited or fails between its        *)
(* reading the row and its writing it, and whichever rule the last reset went *)
(* by: otherwise a customer would have no limit on that day.                  *)
OneResetACycle ==
  \A n \in 1 .. Len(resets) - 1 : Apart(resets[n].on, resets[n + 1].on, resets[n + 1].by)

(* The clients agree with the row, and no server was left out that still has  *)
(* one of them.                                                               *)
Right ==
  \A i \in Inbounds :
    /\ client[i] = IF ~row.pkg \/ i \notin pins THEN "none"
                   ELSE IF UserAccessOK(row) /\ i \in open THEN "on" ELSE "off"
    /\ i \in dirty => client[i] = "none"

(* PROPERTY AccessSettles: once requests, reports and days stop coming, an    *)
(* expired or used up customer has no client on any server and a paying one   *)
(* has all of them, although ticks, reports and requests wrote the clients    *)
(* from copies of the row that were already old, and statements failed.       *)
AccessSettles == <>[]Right

(* PROPERTY ClearedOnTheDay: a customer with a reset day of his own has his   *)
(* usage cleared on that day of every month ("1-31: cleared on this day of    *)
(* every month", web/src/pages/Users.jsx): a tick of that day either finds it *)
(* cleared today or clears it. The code skips the day if the cycle began      *)
(* earlier in the same month.                                                 *)
ClearedOnTheDay ==
  [][ TickRead /\ row.day > 0 /\ Calendar[today].d = ResetDayOn(today, row.day)
        => row.cycle = today \/ proc'["tick"].pc = "reset" ]_vars
=============================================================================
