---------------------------- MODULE AccessProofs ----------------------------
(* Proofs about Access, for any calendar, limits, goroutines and failures.    *)
EXTENDS AccessMC, TLAPS

LEMMA UserTypes ==
  ASSUME TypeOK, AccessAssumption
  PROVE  /\ Idle \in Proc /\ NewUser(TRUE) \in User /\ NewUser(FALSE) \in User
         /\ \A u \in User : Cleared(u) \in User
         /\ \A r, u \in User : UpdateUser(r, u) \in User
         /\ \A r \in User, e \in Nat : SetPackageExpiry(r, e) \in User
         /\ \A r \in User : UnbindUserPackage(r) \in User
         /\ \A r \in User : [r EXCEPT !.pkg = TRUE] \in User
PROOF
<1>1. 1 \in Days
  BY DEF AccessAssumption, Days
<1>2. NewUser(TRUE) \in User /\ NewUser(FALSE) \in User
  BY <1>1 DEF NewUser, User
<1>3. Idle \in Proc
  BY <1>2 DEF Idle, At, Proc
<1>4. \A u \in User : Cleared(u) \in User
  BY DEF Cleared, User, TypeOK
<1>5. \A r, u \in User : UpdateUser(r, u) \in User
  BY DEF UpdateUser, User
<1>6. \A r \in User, e \in Nat : SetPackageExpiry(r, e) \in User
  BY DEF SetPackageExpiry, User
<1>7. \A r \in User : UnbindUserPackage(r) \in User
  BY DEF UnbindUserPackage, User
<1>8. \A r \in User : [r EXCEPT !.pkg = TRUE] \in User
  BY DEF User
<1> QED BY <1>2, <1>3, <1>4, <1>5, <1>6, <1>7, <1>8

LEMMA ProcTypes ==
  ASSUME TypeOK, AccessAssumption
  PROVE  /\ \A pc \in {"idle", "reset", "write", "package", "read", "check", "prov", "delete", "each"},
              u \in User,
              then \in {"read", "expiry", "bind", "unbind", "usage", "all"} : At(pc, u, then) \in Proc
         /\ \A p \in Procs, r \in Proc : [proc EXCEPT ![p] = r] \in [Procs -> Proc]
         /\ \A p \in Procs : proc[p] \in Proc /\ proc[p].u \in User
         /\ "tick" \in Procs /\ Handlers \subseteq Procs
PROOF
<1>1. \A pc \in {"idle", "reset", "write", "package", "read", "check", "prov", "delete", "each"},
         u \in User,
         then \in {"read", "expiry", "bind", "unbind", "usage", "all"} : At(pc, u, then) \in Proc
  BY DEF At, Proc
<1>2. \A p \in Procs, r \in Proc : [proc EXCEPT ![p] = r] \in [Procs -> Proc]
  BY DEF TypeOK
<1>3. \A p \in Procs : proc[p] \in Proc
  BY DEF TypeOK
<1>4. \A r \in Proc : r.u \in User
  BY DEF Proc
<1>5. "tick" \in Procs /\ Handlers \subseteq Procs
  BY DEF Procs
<1> QED BY <1>1, <1>2, <1>3, <1>4, <1>5

LEMMA AppendTypes == \A S, s, e : s \in Seq(S) /\ e \in S => Append(s, e) \in Seq(S)
PROOF
  OBVIOUS

LEMMA TypeInit == Init => TypeOK
PROOF
<1> SUFFICES ASSUME Init PROVE TypeOK
  OBVIOUS
<1>1. 1 \in Days
  BY AccessAssumption DEF Days
<1>2. NewUser(TRUE) \in User /\ NewUser(FALSE) \in User
  BY <1>1 DEF NewUser, User
<1>3. Idle \in Proc
  BY <1>2 DEF Idle, At, Proc
<1>4. row \in User /\ today \in Days
  BY <1>1, <1>2 DEF Init
<1>5. /\ pins \subseteq Inbounds /\ open \subseteq Inbounds /\ dirty \subseteq Inbounds
      /\ client \in [Inbounds -> {"none", "on", "off"}]
  BY DEF Init
<1>6. events \in 0..MaxEvents
  BY AccessAssumption DEF Init
<1>7. /\ resets \in Seq([on : Days, by : Nat]) /\ rule \in [day : Nat, every : Nat]
      /\ proc \in [Procs -> Proc]
  BY <1>3, AccessAssumption DEF Init
<1> QED BY <1>4, <1>5, <1>6, <1>7 DEF TypeOK

(* Every action keeps the types.                                              *)
LEMMA TypeStep == TypeOK /\ [Next]_vars => TypeOK'
PROOF
<1> SUFFICES ASSUME TypeOK, [Next]_vars PROVE TypeOK'
  OBVIOUS
<1> USE AccessAssumption
<1> DEFINE Steps(p, r) == p \in Procs /\ r \in Proc /\ proc' = [proc EXCEPT ![p] = r]
<1>0. /\ Idle \in Proc
      /\ \A u \in User : Cleared(u) \in User
      /\ \A r, u \in User : UpdateUser(r, u) \in User
      /\ \A r \in User, e \in Nat : SetPackageExpiry(r, e) \in User
      /\ \A r \in User : UnbindUserPackage(r) \in User /\ [r EXCEPT !.pkg = TRUE] \in User
  BY UserTypes
<1>e. Event => events' \in 0..MaxEvents
  BY DEF Event, TypeOK
<1>p. \A p, r : Steps(p, r) => proc' \in [Procs -> Proc]
  BY ProcTypes
<1>u. /\ row \in User /\ Idle.u \in User
      /\ \A p \in Procs : proc[p] \in Proc /\ proc[p].u \in User
      /\ "tick" \in Procs /\ Handlers \subseteq Procs
  BY <1>0, ProcTypes DEF TypeOK, Proc
<1> HIDE DEF Steps
<1>1. CASE TickRead
  <2> DEFINE reset == [At("reset", row, "read") EXCEPT !.by = EveryOf(row)]
  <2>1. proc' \in {[proc EXCEPT !["tick"] = reset], [proc EXCEPT !["tick"] = At("prov", row, "read")]}
    BY <1>1 DEF TickRead, Become
  <2>2. EveryOf(row) \in Nat
    BY DEF EveryOf, TypeOK
  <2>3. At("reset", row, "read") \in Proc /\ At("prov", row, "read") \in Proc
    BY <1>u, ProcTypes
  <2>4. reset \in Proc
    BY <2>2, <2>3 DEF Proc
  <2> HIDE DEF reset
  <2>5. proc' \in [Procs -> Proc]
    BY <2>1, <2>3, <2>4, <1>u, ProcTypes
  <2> QED BY <1>1, <2>5 DEF TickRead, TypeOK
<1>2. CASE TickReset
  <2>1. proc' = [proc EXCEPT !["tick"] = At("prov", Cleared(proc["tick"].u), "read")]
    BY <1>2 DEF TickReset, Become
  <2>2. proc' \in [Procs -> Proc]
    BY <2>1, <1>0, <1>u, ProcTypes
  <2>3. row' \in User
    BY <1>2, <1>0, <1>u DEF TickReset
  <2>5. resets' \in Seq([on : Days, by : Nat])
    <3> DEFINE Reset == [on : Days, by : Nat]
    <3> DEFINE new == [on |-> today, by |-> proc["tick"].by]
    <3>1. new \in Reset
      BY <1>u DEF TypeOK, Proc
    <3>2. \/ resets' = resets
          \/ resets' = Append(resets, new)
      BY <1>2 DEF TickReset
    <3>3. resets \in Seq(Reset)
      BY DEF TypeOK
    <3> HIDE DEF Reset, new
    <3>4. Append(resets, new) \in Seq(Reset)
      BY <3>1, <3>3, AppendTypes
    <3>5. resets' \in Seq(Reset)
      BY <3>2, <3>3, <3>4, Zenon
    <3> QED BY <3>5 DEF Reset
  <2>6. events' \in 0..MaxEvents
    BY <1>2, <1>e DEF TickReset, TypeOK
  <2> QED BY <1>2, <2>2, <2>3, <2>5, <2>6 DEF TickReset, TypeOK
<1>3. ASSUME NEW p \in Procs, ProvRead(p) PROVE TypeOK'
  <2> DEFINE ids == IF proc[p].u.pkg THEN pins ELSE {}
             next(ok) == [pc |-> "delete", u |-> Idle.u, ok |-> ok,
                          then |-> IF proc[p].then = "all" THEN "all" ELSE "read",
                          todo |-> ids,
                          touched |-> {i \in Inbounds \ ids : client[i] # "none"}, by |-> 0]
  <2>1. \A ok \in BOOLEAN : next(ok) \in Proc
    BY <1>u DEF Proc, TypeOK
  <2>2. \E ok \in BOOLEAN : proc' = [proc EXCEPT ![p] = next(ok)]
    BY <1>3 DEF ProvRead, Become
  <2>3. proc' \in [Procs -> Proc]
    BY <2>1, <2>2, ProcTypes
  <2>4. events' \in 0..MaxEvents
    BY <1>3, <1>e DEF ProvRead, TypeOK
  <2> QED BY <1>3, <2>3, <2>4 DEF ProvRead, TypeOK
<1>4. ASSUME NEW p \in Procs, ProvDelete(p) PROVE TypeOK'
  <2>1. [proc[p] EXCEPT !.pc = "each"] \in Proc
    BY <1>u DEF Proc
  <2>2. proc' \in [Procs -> Proc]
    BY <1>4, <2>1, ProcTypes DEF ProvDelete, Become
  <2>3. client' \in [Inbounds -> {"none", "on", "off"}] /\ dirty' \subseteq Inbounds
    BY <1>4 DEF ProvDelete, TypeOK
  <2> QED BY <1>4, <2>2, <2>3 DEF ProvDelete, TypeOK
<1>5. ASSUME NEW p \in Procs, ProvEach(p) PROVE TypeOK'
  <2>1. PICK i \in proc[p].todo :
          /\ client' = [client EXCEPT ![i] = IF proc[p].ok /\ i \in open THEN "on" ELSE "off"]
          /\ dirty' \in {dirty, dirty \cup {i}}
          /\ proc' = [proc EXCEPT ![p] = [[proc[p] EXCEPT !.todo = @ \ {i}]
                                                  EXCEPT !.touched = @ \cup {i}]]
    BY <1>5 DEF ProvEach, Become
  <2>2. i \in Inbounds
    BY <1>u DEF Proc
  <2>3. [[proc[p] EXCEPT !.todo = @ \ {i}] EXCEPT !.touched = @ \cup {i}] \in Proc
    BY <1>u, <2>2 DEF Proc
  <2>4. proc' \in [Procs -> Proc]
    BY <2>1, <2>3, ProcTypes
  <2>5. client' \in [Inbounds -> {"none", "on", "off"}] /\ dirty' \subseteq Inbounds
    BY <2>1, <2>2 DEF TypeOK
  <2> QED BY <1>5, <2>4, <2>5 DEF ProvEach, TypeOK
<1>6. ASSUME NEW p \in Procs, ProvDone(p) PROVE TypeOK'
  <2>1. proc' \in [Procs -> Proc] /\ dirty' \subseteq Inbounds
    BY <1>6, <1>0, ProcTypes DEF ProvDone, Become, TypeOK
  <2> QED BY <1>6, <2>1 DEF ProvDone, TypeOK
<1>7. ASSUME NEW p \in Procs, Fail(p) PROVE TypeOK'
  <2>1. proc' \in [Procs -> Proc]
    BY <1>7, <1>0, ProcTypes DEF Fail, Become
  <2> QED BY <1>7, <1>e, <2>1 DEF Fail, TypeOK
<1>8. ASSUME NEW h \in Handlers, Report(h) PROVE TypeOK'
  <2>1. row' \in User
    <3>1. \A n \in Nat : [row EXCEPT !.used = n] \in User
      BY <1>u DEF User
    <3>2. row.used + 1 \in Nat
      BY <1>u DEF User
    <3> QED BY <1>8, <3>1, <3>2 DEF Report
  <2>2. proc' \in [Procs -> Proc]
    BY <1>8, <1>u, ProcTypes DEF Report, Become
  <2> QED BY <1>8, <1>e, <2>1, <2>2 DEF Report, TypeOK
<1>9. ASSUME NEW h \in Handlers, ReportCheck(h) PROVE TypeOK'
  <2>1. \/ proc' = [proc EXCEPT ![h] = At("prov", row, "read")]
        \/ proc' = [proc EXCEPT ![h] = Idle]
    BY <1>9 DEF ReportCheck, Become
  <2>2. At("prov", row, "read") \in Proc
    BY <1>u, ProcTypes
  <2>3. \A r \in Proc : [proc EXCEPT ![h] = r] \in [Procs -> Proc]
    BY <1>u, ProcTypes
  <2>4. proc' \in [Procs -> Proc]
    BY <2>1, <2>2, <2>3, <1>0
  <2> QED BY <1>9, <2>4 DEF ReportCheck, TypeOK
<1>10. ASSUME NEW h \in Handlers, EditUser(h) PROVE TypeOK'
  <2>1. PICK v \in Edits(row), then \in {"read", "expiry", "bind", "unbind"} :
          proc' = [proc EXCEPT ![h] = At("write", v, then)]
    BY <1>10 DEF EditUser, Become
  <2>2. v \in User
    <3>1. \A b \in BOOLEAN : [row EXCEPT !.on = b] \in User
      BY <1>u DEF User
    <3>2. \A e \in Nat : [row EXCEPT !.exp = e] \in User
      BY <1>u DEF User
    <3>3. \A e \in Nat : [row EXCEPT !.day = e] \in User
      BY <1>u DEF User
    <3> QED BY <3>1, <3>2, <3>3 DEF Edits, AccessAssumption
  <2>3. proc' \in [Procs -> Proc]
    BY <2>1, <2>2, <1>u, ProcTypes
  <2> QED BY <1>10, <1>e, <2>3 DEF EditUser, TypeOK
<1>11. ASSUME NEW h \in Handlers, WriteUser(h) PROVE TypeOK'
  <2>1. \A pc \in {"read", "package"} : [proc[h] EXCEPT !.pc = pc] \in Proc
    BY <1>u DEF Proc
  <2>2. \E pc \in {"read", "package"} : proc' = [proc EXCEPT ![h] = [proc[h] EXCEPT !.pc = pc]]
    BY <1>11 DEF WriteUser, Become
  <2>3. proc' \in [Procs -> Proc]
    BY <2>1, <2>2, <1>u, ProcTypes
  <2>4. row' \in User
    BY <1>11, <1>0, <1>u DEF WriteUser
  <2> QED BY <1>11, <2>3, <2>4 DEF WriteUser, TypeOK
<1>12. ASSUME NEW h \in Handlers, WritePackage(h) PROVE TypeOK'
  <2>1. [proc[h] EXCEPT !.pc = "read"] \in Proc
    BY <1>u DEF Proc
  <2>2. proc' \in [Procs -> Proc]
    BY <1>12, <2>1, <1>u, ProcTypes DEF WritePackage, Become
  <2>3. proc[h].u.exp \in Nat
    BY <1>u DEF User
  <2>4. SetPackageExpiry(row, proc[h].u.exp) \in User /\ UnbindUserPackage(row) \in User
    BY <1>0, <1>u, <2>3
  <2>5. BindUserPackage(row, proc[h].u.exp) \in User
    BY <1>0, <1>u, <2>3 DEF BindUserPackage
  <2>6. UpdateUser(BindUserPackage(row, proc[h].u.exp), proc[h].u) \in User
    BY <1>0, <1>u, <2>5
  <2>7. row' \in User
    BY <1>12, <2>4, <2>6 DEF WritePackage
  <2> QED BY <1>12, <2>2, <2>7 DEF WritePackage, TypeOK
<1>13. ASSUME NEW h \in Handlers, SetUsage(h) PROVE TypeOK'
  <2>1. \A n \in 0..Limit : [row EXCEPT !.used = n] \in User
    <3>1. \A n \in Nat : [row EXCEPT !.used = n] \in User
      BY <1>u DEF User
    <3> QED BY <3>1
  <2>2. row' \in User
    BY <1>13, <1>0, <1>u, <2>1 DEF SetUsage
  <2>3. proc' \in [Procs -> Proc]
    BY <1>13, <1>u, ProcTypes DEF SetUsage, Become
  <2> QED BY <1>13, <1>e, <2>2, <2>3 DEF SetUsage, TypeOK
<1>14. ASSUME NEW h \in Handlers, EditNodes(h) PROVE TypeOK'
  <2>1. proc' \in [Procs -> Proc]
    BY <1>14, <1>u, ProcTypes DEF EditNodes, Become
  <2>2. pins' \subseteq Inbounds /\ open' \subseteq Inbounds
    BY <1>14 DEF EditNodes, TypeOK
  <2> QED BY <1>14, <1>e, <2>1, <2>2 DEF EditNodes, TypeOK
<1>15. ASSUME NEW h \in Handlers, ReadAgain(h) PROVE TypeOK'
  <2>1. [[proc[h] EXCEPT !.pc = "prov"] EXCEPT !.u = row] \in Proc
    BY <1>u DEF Proc
  <2>2. [proc[h] EXCEPT !.pc = "prov"] \in Proc
    BY <1>u DEF Proc
  <2>3. \/ proc' = [proc EXCEPT ![h] = [[proc[h] EXCEPT !.pc = "prov"] EXCEPT !.u = row]]
        \/ proc' = [proc EXCEPT ![h] = [proc[h] EXCEPT !.pc = "prov"]]
        \/ proc' = [proc EXCEPT ![h] = Idle]
    BY <1>15 DEF ReadAgain, Become
  <2>4. proc' \in [Procs -> Proc]
    <3>1. h \in Procs
      BY <1>u
    <3>2. \A r \in Proc : [proc EXCEPT ![h] = r] \in [Procs -> Proc]
      BY <3>1, ProcTypes
    <3> QED BY <2>1, <2>2, <2>3, <1>0, <3>2
  <2>5. events' \in 0..MaxEvents
    BY <1>15, <1>e DEF ReadAgain, TypeOK
  <2> QED BY <1>15, <2>4, <2>5 DEF ReadAgain, TypeOK
<1>16. CASE ServerFull
  BY <1>16, <1>e DEF ServerFull, TypeOK
<1>17. CASE NextDay
  <2>1. today + 1 \in Days
    BY <1>17 DEF NextDay, TypeOK, Days, AccessAssumption
  <2> QED BY <1>17, <2>1 DEF NextDay, TypeOK
<1>18. CASE Restart
  BY <1>18, <1>0, <1>e DEF Restart, TypeOK
<1>19. CASE UNCHANGED vars
  BY <1>19 DEF vars, TypeOK
<1> QED
  BY <1>1, <1>2, <1>3, <1>4, <1>5, <1>6, <1>7, <1>8, <1>9, <1>10, <1>11, <1>12,
     <1>13, <1>14, <1>15, <1>16, <1>17, <1>18, <1>19
  DEF Next, Tick, Provision, Request

(* THEOREM: the variables keep their types: what ProvisionUser writes is      *)
(* about inbounds that exist.                                                 *)
THEOREM AccessTypeCorrect == Spec => []TypeOK
PROOF
<1> QED BY TypeInit, TypeStep, PTL DEF Spec

Latest == resets[Len(resets)]

(* A cycle never begins before the last reset, and a tick that is about to    *)
(* clear the usage comes a cycle after it.                                    *)
CycleInv ==
  /\ row.cycle <= today
  /\ OneResetACycle
  /\ resets # <<>> => row.cycle > 0 /\ Latest.on <= row.cycle
  /\ resets # <<>> /\ proc["tick"].pc = "reset" => Apart(Latest.on, today, proc["tick"].by)

LEMMA CalendarTypes ==
  /\ \A t \in Days : t \in Nat \ {0} /\ Month(t) \in Nat
  /\ \A s, t \in Days : s <= t => Month(s) <= Month(t)
PROOF
<1> DEFINE Date == [m : Nat, d : Nat]
<1>1. Calendar \in Seq(Date)
  BY AccessAssumption
<1> HIDE DEF Date
<1>2. \A t \in 1..Len(Calendar) : t \in Nat \ {0} /\ Calendar[t] \in Date
  BY <1>1
<1>3. Days = 1..Len(Calendar)
  BY <1>1 DEF Days
<1>4. \A s, t \in Days : s <= t => Month(s) <= Month(t)
  BY AccessAssumption DEF Days, Month
<1> QED BY <1>2, <1>3, <1>4 DEF Date, Month

(* What is a cycle after one day is so after an earlier one, and stays so.    *)
LEMMA ApartStays ==
  \A r, s, t, u \in Days, every \in Nat :
    r <= s /\ Apart(s, t, every) /\ t <= u => Apart(r, u, every)
PROOF
<1> TAKE r, s, t, u \in Days, every \in Nat
<1> HAVE r <= s /\ Apart(s, t, every) /\ t <= u
<1>1. r \in Nat /\ s \in Nat /\ t \in Nat /\ u \in Nat
  BY CalendarTypes
<1>2. CASE every = 0
  <2> DEFINE a == Month(r)
             b == Month(s)
             c == Month(t)
             d == Month(u)
  <2>1. a \in Nat /\ b \in Nat /\ c \in Nat /\ d \in Nat
    BY CalendarTypes
  <2>2. a <= b /\ b < c /\ c <= d
    BY <1>2, CalendarTypes DEF Apart
  <2> HIDE DEF a, b, c, d
  <2>3. a < d
    BY <2>1, <2>2
  <2> QED BY <1>2, <2>3 DEF Apart, a, d
<1>3. CASE every # 0
  BY <1>1, <1>3 DEF Apart
<1> QED BY <1>2, <1>3

LEMMA ApartTomorrow ==
  \A s, t \in Days, every \in Nat :
    t + 1 \in Days /\ Apart(s, t, every) => Apart(s, t + 1, every)
PROOF
<1> TAKE s, t \in Days, every \in Nat
<1> HAVE t + 1 \in Days /\ Apart(s, t, every)
<1> DEFINE tomorrow == t + 1
<1>1. s <= s /\ t <= tomorrow /\ tomorrow \in Days
  BY CalendarTypes
<1> HIDE DEF tomorrow
<1>2. Apart(s, tomorrow, every)
  BY <1>1, ApartStays, Zenon
<1> QED BY <1>2 DEF tomorrow

(* What every step does to the cycle and to the tick.                         *)
LEMMA CycleStep ==
  ASSUME TypeOK, Next
  PROVE  \/ TickReset
         \/ TickRead
         \/ /\ row'.cycle \in {row.cycle, today}
            /\ resets' = resets /\ today' = today
            /\ proc'["tick"].pc = "reset" => proc'["tick"] = proc["tick"]
         \/ NextDay
PROOF
<1> USE AccessAssumption
<1>1. ASSUME NEW p \in Procs, Provision(p) \/ Fail(p)
      PROVE  row' = row /\ resets' = resets /\ today' = today
             /\ (proc'["tick"].pc = "reset" => proc'["tick"] = proc["tick"])
  <2>1. row' = row /\ resets' = resets /\ today' = today
    BY <1>1 DEF Provision, ProvRead, ProvDelete, ProvEach, ProvDone, Fail
  <2>2. proc' = [proc EXCEPT ![p] = proc'[p]] /\ proc'[p].pc # "reset"
    <3>1. CASE ProvRead(p)
      BY <3>1 DEF ProvRead, Become, TypeOK
    <3>2. CASE ProvDelete(p)
      BY <3>2 DEF ProvDelete, Become, TypeOK, Proc
    <3>3. CASE ProvEach(p)
      BY <3>3 DEF ProvEach, Become, TypeOK, Proc
    <3>4. CASE ProvDone(p) \/ Fail(p)
      <4>1. proc' = [proc EXCEPT ![p] = Idle]
        BY <3>4 DEF ProvDone, Fail, Become
      <4>2. Idle.pc = "idle"
        BY DEF Idle, At
      <4> QED BY <4>1, <4>2 DEF TypeOK
    <3> QED BY <1>1, <3>1, <3>2, <3>3, <3>4 DEF Provision
  <2>3. CASE p = "tick"
    BY <2>1, <2>2, <2>3
  <2>4. CASE p # "tick"
    BY <2>1, <2>2, <2>4 DEF TypeOK, Procs
  <2> QED BY <2>3, <2>4
<1>2. ASSUME NEW h \in Handlers, Request(h) \/ Report(h) \/ ReportCheck(h)
      PROVE  proc'["tick"] = proc["tick"] /\ resets' = resets /\ today' = today
  BY <1>2 DEF Request, Report, ReportCheck, EditUser, WriteUser, WritePackage, SetUsage,
              EditNodes, ReadAgain, Become, TypeOK, Procs
<1>3. ASSUME NEW h \in Handlers, Request(h) \/ Report(h) \/ ReportCheck(h)
      PROVE  row'.cycle \in {row.cycle, today}
  <2>1. \A u \in User : Cleared(u).cycle = today
    BY DEF Cleared, User
  <2>2. CASE row' = row
    BY <2>2
  <2>3. CASE Report(h)
    BY <2>3 DEF Report, TypeOK, User
  <2>4. CASE WriteUser(h)
    BY <2>4 DEF WriteUser, UpdateUser
  <2>5. CASE SetUsage(h)
    BY <2>5, <2>1 DEF SetUsage, TypeOK, User
  <2>6. CASE WritePackage(h)
    <3>1. row \in User
      BY DEF TypeOK
    <3>2. \A e : SetPackageExpiry(row, e).cycle = row.cycle
      BY <3>1 DEF SetPackageExpiry, User
    <3>3. UnbindUserPackage(row).cycle = row.cycle
      BY <3>1 DEF UnbindUserPackage, User
    <3>4. \A e \in Nat, u \in User : UpdateUser(BindUserPackage(row, e), u).cycle = today
      BY <2>1, <3>1, UserTypes DEF UpdateUser, BindUserPackage
    <3>5. proc[h].u.exp \in Nat /\ proc[h].u \in User
      BY ProcTypes DEF User
    <3> QED BY <2>6, <3>2, <3>3, <3>4, <3>5 DEF WritePackage
  <2> QED BY <1>3, <2>2, <2>3, <2>4, <2>5, <2>6
       DEF Request, EditUser, EditNodes, ReadAgain, ReportCheck
<1>4. ASSUME ServerFull PROVE row' = row /\ resets' = resets /\ today' = today /\ proc' = proc
  BY <1>4 DEF ServerFull
<1>5. ASSUME Restart
      PROVE  row' = row /\ resets' = resets /\ today' = today /\ proc'["tick"].pc # "reset"
  BY <1>5 DEF Restart, Procs, Idle, At
<1> QED BY <1>1, <1>2, <1>3, <1>4, <1>5 DEF Next, Tick

LEMMA CycleInvStep == TypeOK /\ TypeOK' /\ CycleInv /\ [Next]_vars => CycleInv'
PROOF
<1> SUFFICES ASSUME TypeOK, TypeOK', CycleInv, [Next]_vars PROVE CycleInv'
  OBVIOUS
<1> DEFINE by == proc["tick"].by
<1>t. /\ today \in Days /\ today \in Nat \ {0} /\ row.cycle \in Nat /\ by \in Nat
      /\ row.cycle > 0 => row.cycle \in Days
      /\ resets \in Seq([on : Days, by : Nat])
      /\ resets # <<>> => Latest \in [on : Days, by : Nat]
  <2>1. today \in Days /\ row.cycle \in {0} \cup Days /\ "tick" \in Procs
    BY ProcTypes, AccessAssumption DEF TypeOK, User
  <2>2. by \in Nat
    BY <2>1 DEF TypeOK, Proc
  <2> DEFINE Reset == [on : Days, by : Nat]
  <2>3. resets \in Seq(Reset)
    BY DEF TypeOK
  <2> HIDE DEF Reset
  <2>4. resets # <<>> => Latest \in Reset
    BY <2>3 DEF Latest
  <2> QED BY <2>1, <2>2, <2>3, <2>4, CalendarTypes DEF Reset
<1>1. CASE TickReset
  <2> DEFINE new == [on |-> today, by |-> by]
  <2>1. today' = today /\ proc'["tick"].pc # "reset" /\ proc["tick"].pc = "reset"
    BY <1>1 DEF TickReset, Become, At, TypeOK, Procs
  <2>2. CASE row' = Cleared(row) /\ resets' = Append(resets, new)
    <3>1. row'.cycle = today
      BY <2>2 DEF Cleared, TypeOK, User
    <3>2. /\ Len(resets') = Len(resets) + 1 /\ resets' # <<>> /\ resets'[Len(resets')] = new
          /\ \A n \in 1 .. Len(resets) : resets'[n] = resets[n]
      BY <1>t, <2>2
    <3>3. OneResetACycle'
      <4> SUFFICES ASSUME NEW n \in 1 .. Len(resets)
                   PROVE  Apart(resets'[n].on, resets'[n + 1].on, resets'[n + 1].by)
        BY <1>t, <3>2 DEF OneResetACycle, Apart, Month
      <4>1. CASE n < Len(resets)
        <5>1. n \in 1 .. Len(resets) - 1 /\ n + 1 \in 1 .. Len(resets)
          BY <4>1, <1>t
        <5>2. resets'[n] = resets[n] /\ resets'[n + 1] = resets[n + 1]
          BY <3>2, <5>1
        <5> QED BY <5>1, <5>2 DEF CycleInv, OneResetACycle
      <4>2. CASE n = Len(resets)
        <5>1. resets # <<>> /\ resets'[n] = Latest /\ resets'[n + 1] = new
          BY <4>2, <1>t, <3>2 DEF Latest
        <5>2. Apart(Latest.on, today, by)
          BY <2>1, <5>1 DEF CycleInv
        <5> QED BY <5>1, <5>2
      <4>3. n < Len(resets) \/ n = Len(resets)
        BY <1>t
      <4> QED BY <4>1, <4>2, <4>3
    <3>4. Latest'.on = today
      BY <3>2 DEF Latest
    <3>5. today <= today /\ today > 0
      BY <1>t
    <3> QED BY <2>1, <3>1, <3>3, <3>4, <3>5 DEF CycleInv
  <2>3. CASE row' = row /\ resets' = resets
    BY <2>1, <2>3 DEF CycleInv, OneResetACycle, Latest, Apart, Month
  <2> QED BY <1>1, <2>2, <2>3 DEF TickReset
<1>2. CASE TickRead
  <2>1. row' = row /\ resets' = resets /\ today' = today
    BY <1>2 DEF TickRead
  <2>2. proc'["tick"].pc = "reset" =>
          ShouldReset(row, today) /\ proc'["tick"].by = EveryOf(row)
    BY <1>2 DEF TickRead, Become, At, TypeOK, Procs
  <2>3. ShouldReset(row, today) /\ row.cycle > 0 => Apart(row.cycle, today, EveryOf(row))
    <3> SUFFICES ASSUME ShouldReset(row, today), row.cycle > 0
                 PROVE  Apart(row.cycle, today, EveryOf(row))
      OBVIOUS
    <3>1. CASE EveryOf(row) > 0 /\ today >= row.cycle + EveryOf(row)
      <4>1. EveryOf(row) \in Nat
        BY DEF EveryOf, TypeOK
      <4> QED BY <1>t, <3>1, <4>1 DEF Apart
    <3>2. CASE DayOf(row) > 0 /\ Month(row.cycle) # Month(today)
      <4>1. EveryOf(row) = 0
        <5>1. DayOf(row) # 0
          BY <3>2
        <5> QED BY <5>1 DEF EveryOf
      <4> DEFINE a == Month(row.cycle)
                 b == Month(today)
      <4>2. a <= b /\ a # b /\ a \in Nat /\ b \in Nat
        BY <1>t, <3>2, CalendarTypes DEF CycleInv
      <4> HIDE DEF a, b
      <4>3. a < b
        BY <4>2
      <4> QED BY <4>1, <4>3 DEF Apart, a, b
    <3> QED BY <3>1, <3>2 DEF ShouldReset
  <2>4. resets # <<>> /\ proc'["tick"].pc = "reset" =>
          Apart(Latest.on, today, proc'["tick"].by)
    <3> SUFFICES ASSUME resets # <<>>, proc'["tick"].pc = "reset"
                 PROVE  Apart(Latest.on, today, EveryOf(row))
      BY <2>2
    <3>1. /\ Latest.on \in Days /\ row.cycle \in Days /\ Latest.on <= row.cycle
          /\ Apart(row.cycle, today, EveryOf(row))
      BY <1>t, <2>2, <2>3 DEF CycleInv
    <3>2. EveryOf(row) \in Nat /\ today <= today
      BY <1>t DEF EveryOf, TypeOK
    <3> QED BY <1>t, <3>1, <3>2, ApartStays, Zenon
  <2> QED BY <2>1, <2>4 DEF CycleInv, OneResetACycle, Latest, Apart, Month
<1>3. CASE /\ row'.cycle \in {row.cycle, today}
           /\ resets' = resets /\ today' = today
           /\ proc'["tick"].pc = "reset" => proc'["tick"] = proc["tick"]
  <2>1. resets # <<>> => Latest.on <= today
    <3> SUFFICES ASSUME resets # <<>> PROVE Latest.on <= today
      OBVIOUS
    <3>1. Latest.on <= row.cycle /\ row.cycle <= today /\ Latest.on \in Nat
      BY <1>t, CalendarTypes DEF CycleInv
    <3> QED BY <1>t, <3>1
  <2>2. row'.cycle <= today /\ (resets # <<>> => row'.cycle > 0 /\ Latest.on <= row'.cycle)
    BY <1>3, <1>t, <2>1 DEF CycleInv
  <2> QED BY <1>3, <2>2 DEF CycleInv, OneResetACycle, Latest, Apart, Month
<1>4. CASE NextDay
  <2>1. /\ row' = row /\ resets' = resets /\ proc' = proc
        /\ today' = today + 1 /\ today + 1 \in Days
    BY <1>4, <1>t, AccessAssumption DEF NextDay, Days
  <2>2. row.cycle <= today + 1 /\ today <= today + 1
    BY <1>t DEF CycleInv
  <2>3. resets # <<>> /\ proc["tick"].pc = "reset" => Apart(Latest.on, today + 1, by)
    <3> SUFFICES ASSUME resets # <<>>, proc["tick"].pc = "reset"
                 PROVE  Apart(Latest.on, today + 1, by)
      OBVIOUS
    <3>1. Latest.on \in Days /\ Apart(Latest.on, today, by)
      BY <1>t DEF CycleInv
    <3> QED BY <1>t, <2>1, <3>1, ApartTomorrow, Zenon
  <2> QED BY <2>1, <2>2, <2>3 DEF CycleInv, OneResetACycle, Latest, Apart, Month
<1>5. CASE UNCHANGED vars
  BY <1>5 DEF vars, CycleInv, OneResetACycle, Latest, Apart, Month
<1> QED BY <1>1, <1>2, <1>3, <1>4, <1>5, CycleStep

(* THEOREM: between two clearings of a customer's usage by the tick lies a    *)
(* month, or the cycle of days the package asks for: a reset is decided on an *)
(* old copy of the row, and edits, a new package or rule and midnight may     *)
(* fall between the decision and the write.                                   *)
THEOREM OneResetACycleHolds == Spec => []OneResetACycle
PROOF
<1>1. Init => CycleInv
  <2> SUFFICES ASSUME Init PROVE CycleInv
    OBVIOUS
  <2>1. row.cycle \in {0, 1} /\ today = 1
    BY DEF Init, NewUser
  <2>2. proc["tick"].pc = "idle" /\ resets = <<>>
    BY DEF Init, Idle, At, Procs
  <2> QED BY <2>1, <2>2 DEF CycleInv, OneResetACycle
<1>2. CycleInv => OneResetACycle
  BY DEF CycleInv, OneResetACycle
<1> QED BY <1>1, <1>2, TypeInit, TypeStep, CycleInvStep, PTL DEF Spec

-----------------------------------------------------------------------------
(* Proofs about Routing.  Build reads the rows and writes nothing but the     *)
(* configuration, so the invariant says how a configuration came about and    *)
(* the rest is about what the rules in it do with a request.                  *)

RouteTypes ==
  /\ line \in [Rows -> Forms] /\ has \subseteq Rows \X Customers
  /\ filter \in [Customers -> Filters] /\ speed \in [Customers -> Speeds]

FromTheRows ==
  built # None => \E slow, unread \in SUBSET Customers : built = R!Configuration(slow, unread)

RouteInv == RouteTypes /\ FromTheRows

LEMMA LineTypes ==
  ASSUME RouteTypes
  PROVE  \A l \in Rows : /\ line[l].core \in {"xray", "singbox", "mita"}
                         /\ line[l].kind \in {"user", "socks", "forward", "mieru"}
                         /\ line[l].core = "mita" => line[l].kind = "mieru"
PROOF
<1> DEFINE Line == [core : {"xray", "singbox", "mita"}, chain : BOOLEAN, on : BOOLEAN,
                    kind : {"user", "socks", "forward", "mieru"}]
<1>1. \A l \in Rows : line[l] \in Forms /\ line[l] \in Line
  BY RoutesAssumption DEF R!RoutingAssumption, RouteTypes
<1>2. \A l \in Rows : line[l].core = "mita" => line[l].kind = "mieru"
  BY <1>1, RoutesAssumption DEF R!RoutingAssumption
<1>3. \A f \in Line : /\ f.core \in {"xray", "singbox", "mita"}
                      /\ f.kind \in {"user", "socks", "forward", "mieru"}
  OBVIOUS
<1> HIDE DEF Line
<1> QED
  BY <1>1, <1>2, <1>3

LEMMA FilterTypes ==
  ASSUME RouteTypes
  PROVE  \A v \in Customers : filter[v] \in [mode : {"", "deny", "allow"}, sites : SUBSET Sites]
PROOF
  BY RoutesAssumption DEF R!RoutingAssumption, RouteTypes

LEMMA RouteInit == R!Init => RouteInv
PROOF
  BY DEF R!Init, RouteInv, RouteTypes, FromTheRows

\* A configuration depends on the rows alone.
LEMMA SameRows ==
  ASSUME UNCHANGED <<line, has, filter, speed>>
  PROVE  \A slow, unread : R!Configuration(slow, unread)' = R!Configuration(slow, unread)
PROOF
<1> USE DEF R!AcctProfile, R!Throttled, R!LinesOn
<1>1. R!Marked' = R!Marked
  BY DEF R!Marked, R!AcctMark
<1>2. R!AcctMarks' = R!AcctMarks
  BY <1>1 DEF R!AcctMarks, R!AcctMark
<1>3. \A slow : R!UserSpeeds(slow)' = R!UserSpeeds(slow)
  BY DEF R!UserSpeeds
<1>4. \A speeds : R!SpeedLimits(speeds)' = R!SpeedLimits(speeds)
  BY <1>1 DEF R!SpeedLimits, R!AcctMark
<1>5. \A unread : R!SiteDenies(unread)' = R!SiteDenies(unread)
  BY DEF R!SiteDenies, R!SiteFilter, R!NoFilter
<1>6. \A e : R!UserOutbound(e)' = R!UserOutbound(e)
  BY <1>1 DEF R!UserOutbound, R!Chain, R!Own, R!AcctMark, R!Direct
<1>7. \A core, denies, mode : R!Filtered(core, denies, mode)' = R!Filtered(core, denies, mode)
  BY DEF R!Filtered
<1>8. \A core, denies : R!DenyRules(core, denies)' = R!DenyRules(core, denies)
  BY <1>7 DEF R!DenyRules, R!Grouped, R!Rule, R!Resolve, R!Block
<1>9. \A core, denies : R!PassRules(core, denies)' = R!PassRules(core, denies)
  BY <1>6, <1>7 DEF R!PassRules, R!Grouped, R!Rule, R!Resolve
<1>10. \A core, denies : R!BlockRules(core, denies)' = R!BlockRules(core, denies)
  BY <1>7 DEF R!BlockRules, R!Grouped, R!Rule, R!Block
<1>11. \A core : R!ChainRules(core)' = R!ChainRules(core)
  BY DEF R!ChainRules, R!Rule, R!Chain, R!Anyone
<1>12. \A core : R!OwnRules(core)' = R!OwnRules(core)
  BY <1>1 DEF R!OwnRules, R!Rule, R!Own, R!AcctMark
<1>13. \A core : R!DirectRules(core)' = R!DirectRules(core)
  BY DEF R!DirectRules, R!Rule, R!Direct, R!Anyone
<1>14. \A core, denies : R!Stages(core, denies)' = R!Stages(core, denies)
  BY <1>8, <1>9, <1>10, <1>11, <1>12, <1>13 DEF R!Stages
<1> QED
  BY <1>2, <1>3, <1>4, <1>5, <1>14 DEF R!Configuration

LEMMA RouteStep == RouteInv /\ [R!Next]_R!vars => RouteInv'
PROOF
<1> SUFFICES ASSUME RouteInv, [R!Next]_R!vars PROVE RouteInv'
  OBVIOUS
<1>1. UNCHANGED <<line, has, filter, speed>>
  BY DEF R!Next, R!Build, R!vars
<1>2. RouteTypes'
  BY <1>1 DEF RouteInv, RouteTypes
<1>3. FromTheRows'
  <2>1. CASE R!Build
    <3>1. PICK slow \in SUBSET Customers, unread \in SUBSET Customers :
            built' = R!Configuration(slow, unread)
      BY <2>1 DEF R!Build
    <3> QED
      BY <3>1, <1>1, SameRows DEF FromTheRows
  <2>2. CASE UNCHANGED R!vars
    <3>1. built' = built
      BY <2>2 DEF R!vars
    <3> QED
      BY <3>1, <1>1, SameRows DEF RouteInv, FromTheRows
  <2> QED
    BY <2>1, <2>2 DEF R!Next
<1> QED
  BY <1>2, <1>3 DEF RouteInv

(* Where the rules of one stage send a request of who on line l for site s.   *)
Hits(rules, l, who, s) == {r \in rules : l \in r.tags /\ <<l, who>> \in r.users /\ s \in r.sites}

SentBy(rules, l, who, s) == {r.to : r \in Hits(rules, l, who, s)}

\* The first stage that sends a request anywhere decides.
LEMMA FirstStage ==
  ASSUME NEW stages, DOMAIN stages = 1..6, NEW l, NEW who, NEW s,
         NEW i \in 1..6, Hits(stages[i], l, who, s) # {},
         \A j \in 1..6 : j < i => Hits(stages[j], l, who, s) = {}
  PROVE  R!Sent(stages, l, who, s) = SentBy(stages[i], l, who, s)
PROOF
<1> DEFINE some == {j \in DOMAIN stages : Hits(stages[j], l, who, s) # {}}
           first == CHOOSE j \in some : \A k \in some : j <= k
<1>1. i \in some /\ \A k \in some : i <= k
  OBVIOUS
<1>2. first \in some /\ \A k \in some : first <= k
  BY <1>1
<1>3. first = i
  <2>1. first <= i /\ i <= first /\ first \in Nat /\ i \in Nat
    BY <1>1, <1>2
  <2> HIDE DEF first
  <2> QED
    BY <2>1
<1>4. R!Sent(stages, l, who, s) = {r.to : r \in Hits(stages[first], l, who, s)}
  BY <1>1 DEF R!Sent, Hits
<1> QED
  BY <1>3, <1>4 DEF SentBy

LEMMA NoStage ==
  ASSUME NEW stages, DOMAIN stages = 1..6, NEW l, NEW who, NEW s,
         \A j \in 1..6 : Hits(stages[j], l, who, s) = {}
  PROVE  R!Sent(stages, l, who, s) = {R!Direct}
PROOF
  BY DEF R!Sent, Hits

LEMMA AllStages ==
  ASSUME NEW a, NEW b, NEW c, NEW d, NEW e, NEW f, NEW l, NEW who, NEW s
  PROVE  LET By(rules) == SentBy(rules, l, who, s)
         IN R!Sent(<<a, b, c, d, e, f>>, l, who, s) =
              IF By(a) # {} THEN By(a) ELSE IF By(b) # {} THEN By(b)
              ELSE IF By(c) # {} THEN By(c) ELSE IF By(d) # {} THEN By(d)
              ELSE IF By(e) # {} THEN By(e) ELSE IF By(f) # {} THEN By(f) ELSE {R!Direct}
PROOF
<1> DEFINE stages == <<a, b, c, d, e, f>>
           By(rules) == SentBy(rules, l, who, s)
           sent == R!Sent(stages, l, who, s)
<1>1. /\ DOMAIN stages = 1..6 /\ stages[1] = a /\ stages[2] = b /\ stages[3] = c
      /\ stages[4] = d /\ stages[5] = e /\ stages[6] = f
  OBVIOUS
<1> HIDE DEF stages
<1>0. \A j : By(stages[j]) = {} <=> Hits(stages[j], l, who, s) = {}
  BY DEF SentBy
<1>2. ASSUME NEW i \in 1..6, By(stages[i]) # {}, \A j \in 1..6 : j < i => By(stages[j]) = {}
      PROVE  sent = By(stages[i])
  <2>1. /\ Hits(stages[i], l, who, s) # {}
        /\ \A j \in 1..6 : j < i => Hits(stages[j], l, who, s) = {}
    BY <1>0, <1>2
  <2> HIDE DEF By
  <2>2. sent = SentBy(stages[i], l, who, s)
    BY <1>1, <2>1, FirstStage
  <2> QED
    BY <2>2 DEF By
<1>3. (\A j \in 1..6 : By(stages[j]) = {}) => sent = {R!Direct}
  <2> HIDE DEF By
  <2> QED
    BY <1>0, <1>1, NoStage
<1>4. \A i \in 1..6 : i = 1 \/ i = 2 \/ i = 3 \/ i = 4 \/ i = 5 \/ i = 6
  OBVIOUS
<1>5. sent = IF By(a) # {} THEN By(a) ELSE IF By(b) # {} THEN By(b)
             ELSE IF By(c) # {} THEN By(c) ELSE IF By(d) # {} THEN By(d)
             ELSE IF By(e) # {} THEN By(e) ELSE IF By(f) # {} THEN By(f) ELSE {R!Direct}
  <2>1. By(a) # {} => sent = By(a)
    BY <1>1, <1>2
  <2>2. By(a) = {} /\ By(b) # {} => sent = By(b)
    BY <1>1, <1>2
  <2>3. By(a) = {} /\ By(b) = {} /\ By(c) # {} => sent = By(c)
    BY <1>1, <1>2
  <2>4. By(a) = {} /\ By(b) = {} /\ By(c) = {} /\ By(d) # {} => sent = By(d)
    BY <1>1, <1>2
  <2>5. By(a) = {} /\ By(b) = {} /\ By(c) = {} /\ By(d) = {} /\ By(e) # {} => sent = By(e)
    BY <1>1, <1>2
  <2>6. By(a) = {} /\ By(b) = {} /\ By(c) = {} /\ By(d) = {} /\ By(e) = {} /\ By(f) # {}
          => sent = By(f)
    BY <1>1, <1>2
  <2>7. By(a) = {} /\ By(b) = {} /\ By(c) = {} /\ By(d) = {} /\ By(e) = {} /\ By(f) = {}
          => sent = {R!Direct}
    BY <1>1, <1>3, <1>4
  <2> QED
    BY <2>1, <2>2, <2>3, <2>4, <2>5, <2>6, <2>7
<1> QED
  BY <1>5 DEF sent, stages, By

\* The rules made of the filters, for a client they name and for anybody else.
LEMMA DenySends ==
  ASSUME NEW core, NEW denies, NEW l, NEW who, NEW s
  PROVE  SentBy(R!DenyRules(core, denies), l, who, s) =
           IF <<l, who>> \in R!Filtered(core, denies, "deny") /\ s \in R!Resolve(denies[who])
           THEN {R!Block} ELSE {}
PROOF
<1> DEFINE e == <<l, who>>
           d == denies[who]
           D == R!Filtered(core, denies, "deny")
           rules == R!DenyRules(core, denies)
<1>0. e[1] = l /\ e[2] = who
  OBVIOUS
<1> HIDE DEF D
<1>1. ASSUME NEW r \in rules, e \in r.users, s \in r.sites
      PROVE  r.to = R!Block /\ e \in D /\ s \in R!Resolve(d)
  <2>1. PICK x \in D : r = R!Grouped({y \in D : denies[y[2]] = denies[x[2]]},
                                     R!Resolve(denies[x[2]]), R!Block)
    BY DEF R!DenyRules, D
  <2>2. /\ r.to = R!Block /\ r.users = {y \in D : denies[y[2]] = denies[x[2]]}
        /\ r.sites = R!Resolve(denies[x[2]])
    BY <2>1 DEF R!Grouped, R!Rule
  <2> QED
    BY <2>2, <1>0, <1>1
<1>2. ASSUME e \in D, s \in R!Resolve(d)
      PROVE  \E r \in rules : l \in r.tags /\ e \in r.users /\ s \in r.sites
  <2> DEFINE r == R!Grouped({x \in D : denies[x[2]] = d}, R!Resolve(d), R!Block)
  <2>1. r \in rules
    BY <1>0, <1>2 DEF R!DenyRules, D
  <2>2. l \in r.tags /\ e \in r.users /\ s \in r.sites
    BY <1>0, <1>2 DEF R!Grouped, R!Rule
  <2> QED
    BY <2>1, <2>2
<1> DEFINE to == R!Block
           given == e \in D /\ s \in R!Resolve(d)
<1>10. \A r \in rules : l \in r.tags /\ e \in r.users /\ s \in r.sites => r.to = to /\ given
  BY <1>1
<1>11. given => \E r \in rules : l \in r.tags /\ e \in r.users /\ s \in r.sites
  BY <1>2
<1> HIDE DEF rules, to, given
<1>12. SentBy(rules, l, who, s) = IF given THEN {to} ELSE {}
  BY <1>10, <1>11 DEF SentBy, Hits
<1> QED
  BY <1>12 DEF rules, D, to, given

LEMMA PassSends ==
  ASSUME NEW core, NEW denies, NEW l, NEW who, NEW s
  PROVE  SentBy(R!PassRules(core, denies), l, who, s) =
           IF <<l, who>> \in R!Filtered(core, denies, "allow") /\ s \in R!Resolve(denies[who])
           THEN {R!UserOutbound(<<l, who>>)} ELSE {}
PROOF
<1> DEFINE e == <<l, who>>
           d == denies[who]
           A == R!Filtered(core, denies, "allow")
           Out(x) == R!UserOutbound(x)
           rules == R!PassRules(core, denies)
<1>0. e[1] = l /\ e[2] = who
  OBVIOUS
<1> HIDE DEF A
<1>1. ASSUME NEW r \in rules, e \in r.users, s \in r.sites
      PROVE  r.to = Out(e) /\ e \in A /\ s \in R!Resolve(d)
  <2>1. PICK x \in A :
          r = R!Grouped({y \in A : denies[y[2]] = denies[x[2]] /\ Out(y) = Out(x)},
                        R!Resolve(denies[x[2]]), Out(x))
    <3>1. PICK k \in {<<denies[y[2]], Out(y)>> : y \in A} :
            r = R!Grouped({y \in A : denies[y[2]] = k[1] /\ Out(y) = k[2]}, R!Resolve(k[1]), k[2])
      BY DEF R!PassRules, A
    <3>2. PICK x \in A : k = <<denies[x[2]], Out(x)>>
      OBVIOUS
    <3>3. k[1] = denies[x[2]] /\ k[2] = Out(x)
      BY <3>2
    <3> QED
      BY <3>1, <3>3
  <2>2. /\ r.to = Out(x) /\ r.sites = R!Resolve(denies[x[2]])
        /\ r.users = {y \in A : denies[y[2]] = denies[x[2]] /\ Out(y) = Out(x)}
    BY <2>1 DEF R!Grouped, R!Rule
  <2> QED
    BY <2>2, <1>0, <1>1
<1>2. ASSUME e \in A, s \in R!Resolve(d)
      PROVE  \E r \in rules : l \in r.tags /\ e \in r.users /\ s \in r.sites
  <2> DEFINE k == <<d, Out(e)>>
             r == R!Grouped({y \in A : denies[y[2]] = k[1] /\ Out(y) = k[2]},
                            R!Resolve(k[1]), k[2])
  <2>1. k \in {<<denies[y[2]], Out(y)>> : y \in A}
    BY <1>0, <1>2
  <2>2. r \in rules
    BY <2>1 DEF R!PassRules, A
  <2>3. l \in r.tags /\ e \in r.users /\ s \in r.sites
    BY <1>0, <1>2 DEF R!Grouped, R!Rule
  <2> QED
    BY <2>2, <2>3
<1> DEFINE to == Out(e)
           given == e \in A /\ s \in R!Resolve(d)
<1>10. \A r \in rules : l \in r.tags /\ e \in r.users /\ s \in r.sites => r.to = to /\ given
  BY <1>1
<1>11. given => \E r \in rules : l \in r.tags /\ e \in r.users /\ s \in r.sites
  BY <1>2
<1> HIDE DEF rules, to, given
<1>12. SentBy(rules, l, who, s) = IF given THEN {to} ELSE {}
  BY <1>10, <1>11 DEF SentBy, Hits
<1> QED
  BY <1>12 DEF rules, A, to, given

LEMMA BlockSends ==
  ASSUME NEW core, NEW denies, NEW l, NEW who, NEW s \in Sites
  PROVE  SentBy(R!BlockRules(core, denies), l, who, s) =
           IF <<l, who>> \in R!Filtered(core, denies, "allow") THEN {R!Block} ELSE {}
PROOF
<1> DEFINE e == <<l, who>>
           A == R!Filtered(core, denies, "allow")
           rules == R!BlockRules(core, denies)
           r == R!Grouped(A, Sites, R!Block)
<1>1. rules = IF A = {} THEN {} ELSE {r}
  BY DEF R!BlockRules
<1>2. r.to = R!Block /\ r.users = A /\ r.sites = Sites /\ r.tags = {x[1] : x \in A}
  BY DEF R!Grouped, R!Rule
<1>3. e \in A => l \in r.tags
  <2>1. e[1] = l
    OBVIOUS
  <2> HIDE DEF A
  <2> QED
    BY <2>1, <1>2
<1> HIDE DEF rules, A, r
<1>4. SentBy(rules, l, who, s) = IF e \in A THEN {R!Block} ELSE {}
  BY <1>1, <1>2, <1>3 DEF SentBy, Hits
<1> QED
  BY <1>4 DEF rules, A

\* The rules of the lines and of the clients' own marks.
LEMMA ChainSends ==
  ASSUME NEW core, NEW l \in Rows, NEW who \in Customers \cup {Guest}, NEW s \in Sites,
         l \in R!LinesOn(core) \/ (core = "xray" /\ l \in R!LinesOn("mita"))
  PROVE  SentBy(R!ChainRules(core), l, who, s) = IF line[l].chain THEN {R!Chain(l)} ELSE {}
PROOF
<1> DEFINE e == <<l, who>>
           rules == R!ChainRules(core)
<1>0. e \in R!Anyone
  BY DEF R!Anyone
<1>1. ASSUME NEW r \in rules, l \in r.tags
      PROVE  line[l].chain /\ r.to = R!Chain(l)
  <2>1. PICK x : line[x].chain /\ r = R!Rule({x}, R!Anyone, Sites, R!Chain(x))
    BY DEF R!ChainRules
  <2>2. r.tags = {x} /\ r.to = R!Chain(x)
    BY <2>1 DEF R!Rule
  <2> QED
    BY <2>1, <2>2, <1>1
<1>2. ASSUME line[l].chain
      PROVE  \E r \in rules : l \in r.tags /\ e \in r.users /\ s \in r.sites
  <2> DEFINE r == R!Rule({l}, R!Anyone, Sites, R!Chain(l))
  <2>1. r \in rules
    BY <1>2 DEF R!ChainRules
  <2>2. l \in r.tags /\ e \in r.users /\ s \in r.sites
    BY <1>0 DEF R!Rule
  <2> QED
    BY <2>1, <2>2
<1> DEFINE to == R!Chain(l)
           given == line[l].chain
<1>10. \A r \in rules : l \in r.tags /\ e \in r.users /\ s \in r.sites => r.to = to /\ given
  BY <1>1
<1>11. given => \E r \in rules : l \in r.tags /\ e \in r.users /\ s \in r.sites
  BY <1>2
<1> HIDE DEF rules, to, given
<1>12. SentBy(rules, l, who, s) = IF given THEN {to} ELSE {}
  BY <1>10, <1>11 DEF SentBy, Hits
<1> QED
  BY <1>12 DEF rules, to, given

LEMMA OwnSends ==
  ASSUME NEW core, NEW l \in R!LinesOn(core), NEW who, NEW s \in Sites
  PROVE  SentBy(R!OwnRules(core), l, who, s) =
           IF <<l, who>> \in R!Marked THEN {R!Own(<<l, who>>)} ELSE {}
PROOF
<1> DEFINE e == <<l, who>>
           rules == R!OwnRules(core)
<1>0. e[1] = l
  OBVIOUS
<1>1. ASSUME NEW r \in rules, e \in r.users
      PROVE  e \in R!Marked /\ r.to = R!Own(e)
  <2>1. PICK x \in R!Marked : r = R!Rule({x[1]}, {x}, Sites, R!Own(x))
    BY DEF R!OwnRules
  <2>2. r.users = {x} /\ r.to = R!Own(x)
    BY <2>1 DEF R!Rule
  <2> QED
    BY <2>1, <2>2, <1>1
<1>2. ASSUME e \in R!Marked
      PROVE  \E r \in rules : l \in r.tags /\ e \in r.users /\ s \in r.sites
  <2> DEFINE r == R!Rule({e[1]}, {e}, Sites, R!Own(e))
  <2>1. r \in rules
    BY <1>0, <1>2 DEF R!OwnRules
  <2>2. l \in r.tags /\ e \in r.users /\ s \in r.sites
    BY <1>0 DEF R!Rule
  <2> QED
    BY <2>1, <2>2
<1> DEFINE to == R!Own(e)
           given == e \in R!Marked
<1>10. \A r \in rules : l \in r.tags /\ e \in r.users /\ s \in r.sites => r.to = to /\ given
  BY <1>1
<1>11. given => \E r \in rules : l \in r.tags /\ e \in r.users /\ s \in r.sites
  BY <1>2
<1> HIDE DEF rules, to, given
<1>12. SentBy(rules, l, who, s) = IF given THEN {to} ELSE {}
  BY <1>10, <1>11 DEF SentBy, Hits
<1> QED
  BY <1>12 DEF rules, to, given

LEMMA DirectSends ==
  ASSUME NEW core, NEW l, NEW who, NEW s
  PROVE  SentBy(R!DirectRules(core), l, who, s) \in {{}, {R!Direct}}
PROOF
<1>1. ASSUME NEW r \in R!DirectRules(core)
      PROVE  r.to = R!Direct
  <2>1. PICK tags : r = R!Rule(tags, R!Anyone, Sites, R!Direct)
    BY DEF R!DirectRules
  <2> QED
    BY <2>1 DEF R!Rule
<1> QED
  BY <1>1 DEF SentBy, Hits

\* A core that routes by rules sends a client's request where his filter and
\* his line say, if his row could be read.
LEMMA SentAsAsked ==
  ASSUME RouteTypes, NEW unread \in SUBSET Customers, NEW l \in Rows, NEW s \in Sites,
         line[l].on, NEW core \in {"xray", "singbox"}, line[l].core = core,
         NEW who \in Customers \cup {Guest}, who \notin unread,
         who # Guest /\ line[l].kind # "forward" => <<l, who>> \in has
  PROVE  R!Sent(R!Stages(core, R!SiteDenies(unread)), l, who, s) = {R!Wanted(l, who, s)}
PROOF
<1> DEFINE e == <<l, who>>
           denies == R!SiteDenies(unread)
           d == denies[who]
           D == e \in R!Filtered(core, denies, "deny")
           A == e \in R!Filtered(core, denies, "allow")
           In == s \in R!Resolve(d)
           may == who # Guest /\ line[l].kind \in {"user", "socks"}
           refused == may /\ R!Refused(filter[who], s)
           out == IF line[l].chain THEN {R!Chain(l)}
                  ELSE IF e \in R!Marked THEN {R!Own(e)} ELSE {R!Direct}
           sent == R!Sent(R!Stages(core, denies), l, who, s)
<1>0. e[1] = l /\ e[2] = who /\ l \in R!LinesOn(core) /\ may \in BOOLEAN
  BY DEF R!LinesOn
<1>1. PICK direct \in {{}, {R!Direct}} :
        sent = IF D /\ In THEN {R!Block} ELSE IF A /\ In THEN {R!UserOutbound(e)}
               ELSE IF A THEN {R!Block} ELSE IF line[l].chain THEN {R!Chain(l)}
               ELSE IF e \in R!Marked THEN {R!Own(e)}
               ELSE IF direct # {} THEN direct ELSE {R!Direct}
  <2> DEFINE a == R!DenyRules(core, denies)
             b == R!PassRules(core, denies)
             c == R!BlockRules(core, denies)
             f == R!ChainRules(core)
             g == R!OwnRules(core)
             h == R!DirectRules(core)
             By(rules) == SentBy(rules, l, who, s)
  <2>1. By(a) = IF D /\ In THEN {R!Block} ELSE {}
    BY DenySends
  <2>2. By(b) = IF A /\ In THEN {R!UserOutbound(e)} ELSE {}
    BY PassSends
  <2>3. By(c) = IF A THEN {R!Block} ELSE {}
    BY BlockSends
  <2>4. By(f) = IF line[l].chain THEN {R!Chain(l)} ELSE {}
    BY <1>0, ChainSends
  <2>5. By(g) = IF e \in R!Marked THEN {R!Own(e)} ELSE {}
    BY <1>0, OwnSends
  <2>6. By(h) \in {{}, {R!Direct}}
    BY DirectSends
  <2>7. sent = R!Sent(<<a, b, c, f, g, h>>, l, who, s)
    BY DEF R!Stages
  <2>8. sent = IF By(a) # {} THEN By(a) ELSE IF By(b) # {} THEN By(b)
               ELSE IF By(c) # {} THEN By(c) ELSE IF By(f) # {} THEN By(f)
               ELSE IF By(g) # {} THEN By(g) ELSE IF By(h) # {} THEN By(h) ELSE {R!Direct}
    BY <2>7, AllStages
  <2> DEFINE block == R!Block
             pass == R!UserOutbound(e)
             chain == R!Chain(l)
             own == R!Own(e)
             marked == e \in R!Marked
  <2> HIDE DEF By, sent, a, b, c, f, g, h, D, A, In, denies, block, pass, chain, own, marked
  <2> QED
    BY <2>1, <2>2, <2>3, <2>4, <2>5, <2>6, <2>8
<1>2. D \/ A => may
  <2>1. D \/ A => e \in has /\ line[l].kind \notin {"forward", "mieru"}
    BY <1>0 DEF R!Filtered
  <2>2. e \in has => who \in Customers
    BY DEF RouteTypes
  <2>3. line[l].kind \in {"user", "socks", "forward", "mieru"}
    BY LineTypes
  <2> HIDE DEF D, A
  <2> QED
    BY <2>1, <2>2, <2>3, RoutesAssumption DEF R!RoutingAssumption
<1>3. ASSUME may
      PROVE  /\ D <=> d.mode = "deny"
             /\ A <=> d.mode = "allow"
             /\ R!Refused(filter[who], s) <=> \/ d.mode = "deny" /\ In
                                              \/ d.mode = "allow" /\ ~In
  <2>1. e \in has /\ who \in Customers
    BY <1>3
  <2>2. d = R!SiteFilter(filter[who])
    BY <2>1 DEF R!SiteDenies
  <2>3. filter[who] \in [mode : {"", "deny", "allow"}, sites : SUBSET Sites]
    BY <2>1, FilterTypes
  <2>4. (D <=> d.mode = "deny") /\ (A <=> d.mode = "allow")
    BY <1>0, <1>3, <2>1 DEF R!Filtered
  <2>5. R!Refused(filter[who], s) <=> \/ d.mode = "deny" /\ In
                                      \/ d.mode = "allow" /\ ~In
    <3> DEFINE x == filter[who]
    <3>1. d = IF x.sites = {} THEN [mode |-> "", sites |-> {}]
              ELSE IF x.mode = "" THEN [x EXCEPT !.mode = "deny"] ELSE x
      BY <2>2 DEF R!SiteFilter, R!NoFilter
    <3>2. In <=> s \in d.sites \/ (d.mode = "allow" /\ s \in Always)
      BY DEF R!Resolve
    <3>3. R!Refused(x, s) <=>
            /\ x.sites # {}
            /\ IF x.mode = "allow" THEN s \notin x.sites \cup Always ELSE s \in x.sites
      BY DEF R!Refused
    <3> HIDE DEF x, d, In
    <3> QED
      BY <2>3, <3>1, <3>2, <3>3 DEF x
  <2> QED
    BY <2>4, <2>5
<1>4. {R!Wanted(l, who, s)} = IF refused THEN {R!Block} ELSE out
  BY DEF R!Wanted
<1>5. {R!UserOutbound(e)} = out
  BY <1>0 DEF R!UserOutbound
<1>6. refused <=> \/ D /\ In
                  \/ A /\ ~In
  BY <1>2, <1>3
<1>7. ~(D /\ A)
  BY <1>2, <1>3
<1>8. sent = IF D /\ In THEN {R!Block} ELSE IF A /\ In THEN out
             ELSE IF A THEN {R!Block} ELSE out
  BY <1>1, <1>5
<1> HIDE DEF sent, D, A, In, refused, out
<1> QED
  BY <1>4, <1>6, <1>7, <1>8 DEF sent

\* A chain behind mita: Xray sees somebody on a local port and no filter.
LEMMA MitaChain ==
  ASSUME RouteTypes, NEW denies, NEW l \in Rows, NEW s \in Sites,
         line[l].on, line[l].core = "mita", line[l].chain
  PROVE  R!Sent(R!Stages("xray", denies), l, Guest, s) = {R!Chain(l)}
PROOF
<1> DEFINE a == R!DenyRules("xray", denies)
           b == R!PassRules("xray", denies)
           c == R!BlockRules("xray", denies)
           f == R!ChainRules("xray")
           g == R!OwnRules("xray")
           h == R!DirectRules("xray")
           By(rules) == SentBy(rules, l, Guest, s)
           sent == R!Sent(R!Stages("xray", denies), l, Guest, s)
<1>1. \A mode : <<l, Guest>> \notin R!Filtered("xray", denies, mode)
  BY RoutesAssumption DEF R!Filtered, RouteTypes, R!RoutingAssumption
<1>2. By(a) = {} /\ By(b) = {} /\ By(c) = {}
  BY <1>1, DenySends, PassSends, BlockSends
<1>3. l \in R!LinesOn("mita")
  BY DEF R!LinesOn
<1>4. By(f) = {R!Chain(l)}
  BY <1>3, ChainSends
<1>5. sent = R!Sent(<<a, b, c, f, g, h>>, l, Guest, s)
  BY DEF R!Stages
<1>6. sent = IF By(a) # {} THEN By(a) ELSE IF By(b) # {} THEN By(b)
             ELSE IF By(c) # {} THEN By(c) ELSE IF By(f) # {} THEN By(f)
             ELSE IF By(g) # {} THEN By(g) ELSE IF By(h) # {} THEN By(h) ELSE {R!Direct}
  BY <1>5, AllStages
<1> DEFINE chain == R!Chain(l)
<1> HIDE DEF a, b, c, f, g, h, By, sent, chain
<1>7. sent = {chain}
  BY <1>2, <1>4, <1>6 DEF chain
<1> QED
  BY <1>7 DEF sent, chain

\* Marks and limits are of the client who has the mark to himself.
LEMMA MarksAndLimits ==
  ASSUME RouteTypes, NEW slow \in SUBSET Customers, NEW e \in R!Marked, R!Alone(e)
  PROVE  LET m      == R!AcctMark(e)
             limits == R!SpeedLimits(R!UserSpeeds(slow))
         IN /\ m \in DOMAIN R!AcctMarks /\ R!AcctMarks[m] = e
            /\ e[2] \notin slow =>
                 IF R!Throttled(e[1]) /\ speed[e[2]] > 0
                 THEN m \in DOMAIN limits /\ limits[m] = speed[e[2]]
                 ELSE m \notin DOMAIN limits
PROOF
<1> DEFINE m == R!AcctMark(e)
           speeds == R!UserSpeeds(slow)
           limits == R!SpeedLimits(speeds)
           capped == {x \in R!Marked : R!Throttled(x[1]) /\ speeds[x[2]] > 0}
<1>1. \A x \in R!Marked : R!AcctMark(x) = m => x = e
  BY DEF R!Alone
<1>2. m \in DOMAIN R!AcctMarks /\ R!AcctMarks[m] = e
  BY <1>1 DEF R!AcctMarks
<1>3. e[2] \in Customers /\ (e[2] \notin slow => speeds[e[2]] = speed[e[2]])
  BY DEF R!Marked, RouteTypes, R!UserSpeeds
<1>4. m \in DOMAIN limits <=> e \in capped
  BY <1>1 DEF R!SpeedLimits
<1>5. e \in capped => limits[m] = speeds[e[2]]
  <2> SUFFICES ASSUME e \in capped PROVE limits[m] = speeds[e[2]]
    OBVIOUS
  <2>1. (CHOOSE x \in capped : R!AcctMark(x) = m) = e
    BY <1>1
  <2>2. limits[m] = speeds[(CHOOSE x \in capped : R!AcctMark(x) = m)[2]]
    BY DEF R!SpeedLimits
  <2> QED
    BY <2>1, <2>2
<1> HIDE DEF limits, speeds
<1> QED
  BY <1>2, <1>3, <1>4, <1>5 DEF limits, speeds

LEMMA AllRouted == RouteInv => RoutedAsAsked
PROOF
<1> SUFFICES ASSUME RouteInv, built # None PROVE RoutedAsAsked
  BY DEF RoutedAsAsked, R!RoutedAsAsked
<1>1. PICK slow \in SUBSET Customers, unread \in SUBSET Customers :
        built = R!Configuration(slow, unread)
  BY DEF RouteInv, FromTheRows
<1>2. /\ \A core \in {"xray", "singbox"} : built.rules[core] = R!Stages(core, R!SiteDenies(unread))
      /\ built.marks = R!AcctMarks /\ built.limits = R!SpeedLimits(R!UserSpeeds(slow))
      /\ built.slow = slow /\ built.open = unread
  BY <1>1 DEF R!Configuration
<1>t. RouteTypes
  BY DEF RouteInv
<1>0. \A l \in Rows : /\ line[l].core \in {"xray", "singbox", "mita"}
                      /\ line[l].core = "mita" => line[l].kind = "mieru"
  BY <1>t, LineTypes
<1>3. ASSUME NEW l \in Rows, NEW s \in Sites, line[l].on, NEW who \in R!Comes(l) \ unread
      PROVE  R!Route(l, who, s) = {R!Wanted(l, who, s)}
  <2>0. /\ line[l].core \in {"xray", "singbox", "mita"}
        /\ line[l].core = "mita" => line[l].kind = "mieru"
    BY <1>0
  <2>1. CASE line[l].core \in {"xray", "singbox"}
    <3>1. R!Route(l, who, s) = R!Sent(R!Stages(line[l].core, R!SiteDenies(unread)), l, who, s)
      BY <2>1, <1>2 DEF R!Route
    <3>2. /\ who \in Customers \cup {Guest} /\ who \notin unread
          /\ who # Guest /\ line[l].kind # "forward" => <<l, who>> \in has
      BY <1>3 DEF R!Comes
    <3>3. R!Sent(R!Stages(line[l].core, R!SiteDenies(unread)), l, who, s)
            = {R!Wanted(l, who, s)}
      BY <2>1, <3>2, <1>3, <1>t, SentAsAsked
    <3> QED
      BY <3>1, <3>3, Zenon
  <2>2. CASE line[l].core = "mita"
    <3>1. ~R!AcctProfile(l) /\ line[l].kind \notin {"user", "socks"}
      BY <2>0, <2>2 DEF R!AcctProfile
    <3>2. R!Wanted(l, who, s) = IF line[l].chain THEN R!Chain(l) ELSE R!Direct
      BY <3>1 DEF R!Wanted, R!Marked
    <3>3. CASE line[l].chain
      <4>1. R!Route(l, who, s) = R!Sent(R!Stages("xray", R!SiteDenies(unread)), l, Guest, s)
        BY <2>2, <3>3, <1>2 DEF R!Route
      <4>2. R!Sent(R!Stages("xray", R!SiteDenies(unread)), l, Guest, s) = {R!Chain(l)}
        BY <2>2, <3>3, <1>3, MitaChain, Zenon DEF RouteInv
      <4> QED
        BY <3>2, <3>3, <4>1, <4>2, Zenon
    <3>4. CASE ~line[l].chain
      BY <2>2, <3>2, <3>4 DEF R!Route
    <3> QED
      BY <3>3, <3>4
  <2> QED
    BY <2>0, <2>1, <2>2
<1>4. \A l \in Rows, s \in Sites : line[l].on =>
        \A who \in R!Comes(l) \ built.open : R!Route(l, who, s) = {R!Wanted(l, who, s)}
  BY <1>2, <1>3, Zenon
<1>5. \A e \in R!Marked : R!Alone(e) =>
        LET m == R!AcctMark(e)
        IN /\ m \in DOMAIN built.marks /\ built.marks[m] = e
           /\ e[2] \notin built.slow =>
                IF R!Throttled(e[1]) /\ speed[e[2]] > 0
                THEN m \in DOMAIN built.limits /\ built.limits[m] = speed[e[2]]
                ELSE m \notin DOMAIN built.limits
  BY <1>2, MarksAndLimits DEF RouteInv
<1> QED
  BY <1>4, <1>5 DEF RoutedAsAsked, R!RoutedAsAsked

(* THEOREM: a customer's request goes where his row and the row of the line   *)
(* send it, and his own mark carries his own speed limit, whatever lines,     *)
(* customers, filters and row ids a server has and whichever users Build      *)
(* could not read.                                                            *)
THEOREM RoutedAsAskedHolds == R!Spec => []RoutedAsAsked
PROOF
  BY RouteInit, RouteStep, AllRouted, PTL DEF R!Spec

-----------------------------------------------------------------------------
(* Both together, as TLC runs them.                                           *)

LEMMA AccessParts ==
  /\ MCInit => Init /\ R!Init
  /\ [MCNext]_<<vars, routes, part>> => [Next]_vars /\ [R!Next]_(R!vars)
<1>1. UNCHANGED routes => UNCHANGED R!vars
  BY DEF routes, R!vars
<1>2. UNCHANGED <<vars, routes, part>> => UNCHANGED vars /\ UNCHANGED routes
  OBVIOUS
<1>3. MCNext => (Next \/ UNCHANGED vars) /\ (R!Next \/ UNCHANGED routes)
  BY DEF MCNext
<1> QED BY <1>1, <1>2, <1>3, Zenon DEF MCInit

\* What becomes of a customer's usage and where his requests go is right in the
\* joined specification, whichever of the two runs.
THEOREM AccessHolds == MCSpec => [](OneResetACycle /\ RoutedAsAsked)
<1>1. MCSpec => Spec
  BY AccessParts, PTL DEF MCSpec, Spec
<1>2. MCSpec => R!Spec
  BY AccessParts, PTL DEF MCSpec, R!Spec
<1> QED BY <1>1, <1>2, OneResetACycleHolds, RoutedAsAskedHolds, PTL
=============================================================================
