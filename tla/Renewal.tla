------------------------------ MODULE Renewal -------------------------------
(***************************************************************************)
(* The certificates of the panel (server/handlers_certs.go, certs/issue.go *)
(* and the renewal loop of server/sync.go).  A certificate is uploaded, or *)
(* issued over ACME with TXT records at Cloudflare, one order at a time    *)
(* under acmeMu; the loop renews what is due twice a day.  A renewal reads *)
(* its row, works for minutes and writes the row; handlers do other things *)
(* to it meanwhile.                                                        *)
(***************************************************************************)
EXTENDS Naturals, Sequences, FiniteSets

CONSTANTS
  Certs,     \* ids, in the order they are given out: 1..n
  Names,     \* sets of domains a certificate can be for
  Broken,    \* those ACME or Cloudflare refuse for good
  Handlers,  \* HTTP handlers
  Loop,      \* the renewal loop
  None,
  Life,      \* ticks of the loop a certificate of ACME is valid: 180 in the code
  Due,       \* ticks before its end when it is renewed: 60 in the code
  Lives,     \* ticks that an uploaded one may be valid still: 0 if it has run out
  Start,     \* the saved certificates at the beginning
  MaxFails, MaxTicks, MaxOps  \* bounds

\* short: history, an edit put a certificate into it that was due at once.
Row == [src : {"acme", "upload"}, names : Names \cup Broken, auto : BOOLEAN, until : Nat,
        ser : (Names \cup Broken) \X {"acme", "upload"} \X Nat, err : BOOLEAN, short : BOOLEAN]

\* The ids are given out in order, the loop is no handler, and neither a row nor
\* a day is nothing.  A certificate is renewed before its end, and the saved ones
\* were when they could be.
RenewalAssumption ==
  /\ IsFiniteSet(Certs) /\ Certs = 1..Cardinality(Certs)
  /\ None \notin Certs /\ None \notin Handlers \cup {Loop} /\ Loop \notin Handlers
  /\ None \notin Row /\ None \notin Nat /\ Start \in [Certs -> Row \cup {None}]
  /\ Life \in Nat /\ Due \in Nat /\ Due < Life /\ Lives \subseteq Nat /\ MaxFails \in Nat /\ MaxOps \in Nat
  /\ \A c \in Certs :
       Start[c] # None /\ Start[c].src = "acme" /\ Start[c].auto /\ Start[c].names \notin Broken =>
         Due <= Start[c].until

VARIABLES
  row,     \* certificates
  day,     \* ticks since the beginning
  woken,   \* the loop's timer or ticker has fired
  job,     \* what each goroutine is doing
  acmeMu,  \* the goroutine that holds it, or None
  txt,     \* TXT records at Cloudflare, each by the goroutine that put it
  line,    \* the certificate of an inbound, or None
  dirty,   \* syncAll has been called and not every Agent pushed since
  told,    \* the certificate the Agents have for the inbound
  fails, ops,
  messy    \* history: a crash, a lost answer or a failed deletion left TXT records

renewalVars == <<row, day, woken, job, acmeMu, txt, line, dirty, told, fails, ops, messy>>

Goroutines == Handlers \cup {Loop}
Saved == {c \in Certs : row[c] # None}
Idle == [st |-> "idle", id |-> None, names |-> None, read |-> None, got |-> None, todo |-> <<>>, changed |-> FALSE]

Init ==
  /\ row = Start /\ day = 0 /\ woken = TRUE
  /\ job = [g \in Goroutines |-> Idle] /\ acmeMu = None /\ txt = {}
  /\ line \in Saved \cup {None} /\ dirty = FALSE
  /\ told = IF line = None THEN None ELSE row[line].ser
  /\ fails = 0 /\ ops = 0 /\ messy = FALSE

At(g, st) == job[g].st = st
Goto(g, j) == job' = [job EXCEPT ![g] = j]
Fault == fails < MaxFails /\ fails' = fails + 1

-----------------------------------------------------------------------------
\* ListCertIDsDueRenew.
IsDue(c) == row[c].src = "acme" /\ row[c].auto /\ row[c].until <= day + Due

InOrder(S) == [i \in 1..Cardinality(S) |-> CHOOSE c \in S : Cardinality({d \in S : d < c}) = i - 1]

\* renewDueCerts: the ids first, every row when its turn comes.
LoopWakes ==
  /\ woken /\ At(Loop, "idle") /\ woken' = FALSE
  /\ LET ids == InOrder({c \in Saved : IsDue(c)})
     IN  Goto(Loop, IF ids = <<>> THEN Idle ELSE [Idle EXCEPT !.st = "next", !.todo = ids])
  /\ UNCHANGED <<row, day, acmeMu, txt, line, dirty, told, fails, ops, messy>>

LoopNext ==
  /\ At(Loop, "next")
  /\ LET c == Head(job[Loop].todo)  j == [job[Loop] EXCEPT !.todo = Tail(@)]
     IN  \/ /\ job[Loop].todo = <<>> /\ Goto(Loop, Idle)
            /\ dirty' = (dirty \/ job[Loop].changed)
         \/ /\ job[Loop].todo # <<>>
            /\ Goto(Loop, IF row[c] = None \/ row[c].src # "acme" THEN j
                          ELSE [j EXCEPT !.st = "lock", !.id = c, !.names = row[c].names])
            /\ UNCHANGED dirty
  /\ UNCHANGED <<row, day, woken, acmeMu, txt, line, told, fails, ops, messy>>

Begin(h) == At(h, "idle") /\ ops < MaxOps /\ ops' = ops + 1

\* handleRenewCert and handleIssueACME.
Renew(h, c) ==
  /\ Begin(h) /\ row[c] # None /\ row[c].src = "acme"
  /\ Goto(h, [Idle EXCEPT !.st = "lock", !.id = c, !.names = row[c].names])
  /\ UNCHANGED <<row, day, woken, acmeMu, txt, line, dirty, told, fails, messy>>

IssueNew(h, n) ==
  /\ Begin(h) /\ Goto(h, [Idle EXCEPT !.st = "lock", !.names = n])
  /\ UNCHANGED <<row, day, woken, acmeMu, txt, line, dirty, told, fails, messy>>

\* issueACME, under the lock.
Lock(g) ==
  /\ At(g, "lock") /\ acmeMu = None /\ acmeMu' = g
  /\ Goto(g, [job[g] EXCEPT !.st = "present"])
  /\ UNCHANGED <<row, day, woken, txt, line, dirty, told, fails, ops, messy>>

\* Issue: the records are put for names that Cloudflare and ACME take.
Present(g) ==
  /\ At(g, "present")
  /\ txt' = txt \cup {g}
  /\ Goto(g, [job[g] EXCEPT !.st = "order"])
  /\ UNCHANGED <<row, day, woken, acmeMu, line, dirty, told, fails, ops, messy>>

\* A new account, order, zone or record is refused, or the answer is lost: then
\* a record may be there that nobody deletes.
PresentFails(g) ==
  /\ At(g, "present")
  /\ IF job[g].names \in Broken THEN UNCHANGED <<fails, messy>> ELSE Fault /\ messy' \in {messy, TRUE}
  /\ Goto(g, [job[g] EXCEPT !.st = "cleanup"])
  /\ UNCHANGED <<row, day, woken, acmeMu, txt, line, dirty, told, ops>>

Ordered(g) ==
  /\ At(g, "order") /\ job[g].names \notin Broken
  /\ Goto(g, [job[g] EXCEPT !.st = "cleanup", !.got = day + Life])
  /\ UNCHANGED <<row, day, woken, acmeMu, txt, line, dirty, told, fails, ops, messy>>

\* Refused, out of time, or the browser that asked is gone.
OrderFails(g) ==
  /\ At(g, "order")
  /\ IF job[g].names \in Broken THEN UNCHANGED fails ELSE Fault
  /\ Goto(g, [job[g] EXCEPT !.st = "cleanup"])
  /\ UNCHANGED <<row, day, woken, acmeMu, txt, line, dirty, told, ops, messy>>

\* The deferred deletion, on every way out; it may fail itself.
CleanUp(g) ==
  /\ At(g, "cleanup") /\ Goto(g, [job[g] EXCEPT !.st = "save"])
  /\ \/ txt' = txt \ {g} /\ UNCHANGED <<fails, messy>>
     \/ g \in txt /\ Fault /\ messy' = TRUE /\ UNCHANGED txt
  /\ UNCHANGED <<row, day, woken, acmeMu, line, dirty, told, ops>>

Issued(g) == [src |-> "acme", names |-> job[g].names, auto |-> TRUE, until |-> job[g].got,
              ser |-> <<job[g].names, "acme", day>>, err |-> FALSE, short |-> FALSE]

Free == IF Saved = Certs THEN {} ELSE {CHOOSE c \in Certs \ Saved : \A d \in Certs \ Saved : c <= d}

Failed(g) ==
  IF job[g].id # None /\ row[job[g].id] # None THEN [row EXCEPT ![job[g].id].err = TRUE] ELSE row

\* What the loop would do if it gave up at the first failure.
DoneStopping(g, saved) ==
  Goto(g, IF g # Loop THEN [Idle EXCEPT !.st = IF saved THEN "sync" ELSE "idle"]
          ELSE [Idle EXCEPT !.st = "next", !.todo = IF saved THEN job[g].todo ELSE <<>>,
                            !.changed = job[g].changed \/ saved])

\* What the loop would do if only its last renewal counted.
DoneLast(g, saved) ==
  Goto(g, IF g # Loop THEN [Idle EXCEPT !.st = IF saved THEN "sync" ELSE "idle"]
          ELSE [Idle EXCEPT !.st = "next", !.todo = job[g].todo, !.changed = saved])

\* A handler calls syncAll, the loop goes on to its next row.
Done(g, saved) ==
  Goto(g, IF g # Loop THEN [Idle EXCEPT !.st = IF saved THEN "sync" ELSE "idle"]
          ELSE [Idle EXCEPT !.st = "next", !.todo = job[g].todo, !.changed = job[g].changed \/ saved])

\* The whole row is written, unless it is gone; a failure is noted in it.
Save(g) ==
  /\ At(g, "save") /\ acmeMu' = None
  /\ LET c == job[g].id
         kept == job[g].got # None /\ IF c = None THEN Free # {} ELSE row[c] # None
     IN  /\ row' = IF ~kept THEN Failed(g)
                   ELSE [d \in Certs |-> IF d = c \/ (c = None /\ d \in Free) THEN Issued(g) ELSE row[d]]
         /\ Done(g, kept)
  /\ UNCHANGED <<day, woken, txt, line, dirty, told, fails, ops, messy>>

SyncAll(h) ==
  /\ At(h, "sync") /\ Goto(h, Idle) /\ dirty' = TRUE
  /\ UNCHANGED <<row, day, woken, acmeMu, txt, line, told, fails, ops, messy>>

-----------------------------------------------------------------------------
\* handleUpdateCert: the row is read, changed and written whole.
UpdateRead(h, c) ==
  /\ Begin(h) /\ row[c] # None
  /\ Goto(h, [Idle EXCEPT !.st = "update", !.id = c, !.read = row[c]])
  /\ UNCHANGED <<row, day, woken, acmeMu, txt, line, dirty, told, fails, messy>>

\* Other domains, or another pair for them that runs out when it does; how the
\* row came about stays.
Renamed(r, n) == [r EXCEPT !.names = n, !.short = @ \/ (r.names \in Broken /\ r.until < day + Due)]
Uploaded(r, n, l) ==
  [r EXCEPT !.names = n, !.until = day + l, !.ser = <<n, "upload", day + l>>, !.err = FALSE, !.short = (l < Due)]
Edited(r) == {r} \cup UNION {{Renamed(r, n)} \cup {Uploaded(r, n, l) : l \in Lives} : n \in Names \cup Broken}

UpdateWrite(h) ==
  /\ At(h, "update")
  /\ \E r \in Edited(job[h].read) : row' = [row EXCEPT ![job[h].id] = IF @ = None THEN None ELSE r]
  /\ Goto(h, [Idle EXCEPT !.st = "sync"])
  /\ UNCHANGED <<day, woken, acmeMu, txt, line, dirty, told, fails, ops, messy>>

\* handleCreateCert and handleSelfSignCert.
Create(n, l) ==
  /\ ops < MaxOps /\ ops' = ops + 1
  /\ \E c \in Free : row' = [row EXCEPT ![c] =
       [src |-> "upload", names |-> n, auto |-> FALSE, until |-> day + l, ser |-> <<n, "upload", day + l>>,
        err |-> FALSE, short |-> FALSE]]
  /\ UNCHANGED <<day, woken, job, acmeMu, txt, line, dirty, told, fails, messy>>

\* handleDeleteCert counts the inbounds and deletes; the inbound of a
\* certificate that goes is left without one.
DeleteCheck(h, c) ==
  /\ Begin(h) /\ row[c] # None /\ line # c
  /\ Goto(h, [Idle EXCEPT !.st = "delete", !.id = c])
  /\ UNCHANGED <<row, day, woken, acmeMu, txt, line, dirty, told, fails, messy>>

Delete(h) ==
  /\ At(h, "delete") /\ Goto(h, Idle)
  /\ row' = [row EXCEPT ![job[h].id] = None]
  /\ line' = IF line = job[h].id THEN None ELSE line
  /\ UNCHANGED <<day, woken, acmeMu, txt, dirty, told, fails, ops, messy>>

\* An inbound takes a certificate; its handler pushes.
Use(c) ==
  /\ ops < MaxOps /\ ops' = ops + 1
  /\ row[c] # None /\ line # c /\ line' = c /\ told' = row[c].ser
  /\ UNCHANGED <<row, day, woken, job, acmeMu, txt, dirty, fails, messy>>

\* The dispatcher pushes; without a certificate the configuration cannot be built.
Dispatch ==
  /\ dirty /\ dirty' = FALSE
  /\ told' = IF line = None THEN told ELSE row[line].ser
  /\ UNCHANGED <<row, day, woken, job, acmeMu, txt, line, fails, ops, messy>>

\* Twelve hours pass: whatever was going on has ended long before.
Tick ==
  /\ day < MaxTicks /\ ~woken /\ ~dirty /\ \A g \in Goroutines : At(g, "idle")
  /\ day' = day + 1 /\ woken' = TRUE
  /\ UNCHANGED <<row, job, acmeMu, txt, line, dirty, told, fails, ops, messy>>

\* The panel starts anew: the loop runs 90 seconds later, every Agent is pushed.
Restart ==
  /\ ops < MaxOps /\ ops' = ops + 1
  /\ job' = [g \in Goroutines |-> Idle] /\ acmeMu' = None /\ woken' = TRUE /\ dirty' = TRUE
  /\ messy' = (messy \/ txt # {})
  /\ UNCHANGED <<row, day, txt, line, told, fails>>

GoroutineStep(g) ==
  \/ Lock(g) \/ Present(g) \/ PresentFails(g) \/ Ordered(g) \/ OrderFails(g) \/ CleanUp(g) \/ Save(g)

Next ==
  \/ \E g \in Goroutines : GoroutineStep(g)
  \/ \E h \in Handlers :
       \/ \E c \in Certs : Renew(h, c) \/ UpdateRead(h, c) \/ DeleteCheck(h, c)
       \/ \E n \in Names : IssueNew(h, n)
       \/ UpdateWrite(h) \/ Delete(h) \/ SyncAll(h)
  \/ (\E n \in Names, l \in Lives : Create(n, l)) \/ (\E c \in Certs : Use(c))
  \/ LoopWakes \/ LoopNext \/ Dispatch \/ Tick \/ Restart

Spec == Init /\ [][Next]_renewalVars

-----------------------------------------------------------------------------
\* No certificate that renews itself runs out, whatever becomes of the others,
\* as long as the orders that fail (MaxFails) and the renewals that a handler
\* undoes with the row it read before (MaxOps) are fewer than the ticks from the
\* time it is due to its end (Due), and nobody put one into its row that was due
\* already: an upload leaves the row one that renews itself.
NeverOver ==
  \A c \in Saved :
    row[c].src = "acme" /\ row[c].auto /\ row[c].names \notin Broken /\ ~row[c].short => row[c].until > day

\* A renewal leaves nothing half done.  The Agents have the certificate that is
\* saved, or somebody is about to see to it; and the TXT records of an order are
\* gone when it is over, unless a crash or a lost answer left them.
Served ==
  /\ line # None /\ told # row[line].ser =>
       \/ dirty \/ \E h \in Handlers : At(h, "sync")
       \/ job[Loop].changed
  /\ ~messy => txt \subseteq {acmeMu}
=============================================================================
