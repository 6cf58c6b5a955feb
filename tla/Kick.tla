-------------------------------- MODULE Kick --------------------------------
(***************************************************************************)
(* Kicking a customer off Xray (server/handlers_kick.go, agent/kick.go):   *)
(* the Agent removes him from the running core and adds him again, with    *)
(* two calls of Xray's API for each inbound he is on.  Kick copies what it *)
(* needs under c.mu and works without it, so other kicks, an Apply and the *)
(* watchdog run meanwhile; the API has the same address in every           *)
(* configuration.                                                          *)
(*                                                                         *)
(* A configuration stands for the set of its clients.                      *)
(***************************************************************************)
EXTENDS Naturals, FiniteSets

CONSTANTS
  Clients,    \* accounts on this server, each with its inbound
  Configs,    \* sets of clients the panel may send
  None,       \* no configuration, no child
  Kicks,      \* goroutines of the Agent that handle a kick
  MaxPushes,  \* bound on configurations
  MaxFaults   \* bound on accidents

KickAssumption ==
  /\ Configs \subseteq SUBSET Clients /\ None \notin Configs \cup Clients
  /\ MaxPushes \in Nat /\ MaxFaults \in Nat

VARIABLES
  last,     \* c.last["xray"]
  file,     \* xray.json
  admits,   \* the clients the child admits
  kick,     \* what each goroutine is doing
  strays,   \* clients added after the configuration they came from was replaced
  cut,      \* clients removed by a call that was thought to have failed
  pushes, faults

kickVars == <<last, file, admits, kick, strays, cut, pushes, faults>>

Idle == [st |-> "idle", todo |-> {}, now |-> None, of |-> None, failed |-> FALSE]

Init ==
  /\ last \in Configs /\ file = last /\ admits = last
  /\ kick = [k \in Kicks |-> Idle]
  /\ strays = {} /\ cut = {} /\ pushes = 0 /\ faults = 0

-----------------------------------------------------------------------------
Alive == admits # None
Admits(u) == Alive /\ u \in admits
Fault == faults < MaxFaults /\ faults' = faults + 1

\* A new child admits what its file says.
Child(f) == admits' = f /\ strays' = {} /\ cut' = {}

\* Apply, under c.mu: stopped, written, checked, started ...
Accept(f) ==
  /\ pushes < MaxPushes /\ pushes' = pushes + 1
  /\ f # last /\ last' = f /\ file' = f /\ Child(f)
  /\ UNCHANGED <<kick, faults>>

\* ... or refused and rolled back, ...
Refuse ==
  /\ last # None /\ Fault /\ Child(last)
  /\ UNCHANGED <<last, file, kick, pushes>>

\* ... or no inbound of this core is left.
Forget ==
  /\ pushes < MaxPushes /\ pushes' = pushes + 1
  /\ last # None /\ last' = None /\ file' = None /\ Child(None)
  /\ UNCHANGED <<kick, faults>>

Die ==
  /\ Alive /\ Fault /\ Child(None)
  /\ UNCHANGED <<last, file, kick, pushes>>

\* The watchdog, under c.mu.
Watch ==
  /\ ~Alive /\ last # None /\ Child(file)
  /\ UNCHANGED <<last, file, kick, pushes, faults>>

-----------------------------------------------------------------------------
Goto(k, r) == kick' = [kick EXCEPT ![k] = r]
At(k, st) == kick[k].st = st

\* handleKickUser asks for the enabled accounts of a customer; Kick copies
\* those of them that c.last has.
KickCopies(k, asked) ==
  /\ At(k, "idle") /\ last # None
  /\ Goto(k, [Idle EXCEPT !.st = "rmu", !.todo = asked \cap last, !.of = last])
  /\ UNCHANGED <<last, file, admits, strays, cut, pushes, faults>>

\* rmu takes him out, ...
Removed(k, u) ==
  /\ At(k, "rmu") /\ u \in kick[k].todo /\ Admits(u)
  /\ admits' = admits \ {u} /\ strays' = strays \ {u}
  /\ Goto(k, [kick[k] EXCEPT !.st = "adu", !.todo = @ \ {u}, !.now = u])
  /\ UNCHANGED <<last, file, cut, pushes, faults>>

\* ... does not find him, gets no answer, or is cut off by its 4 s although
\* the core did it: on to the next.
NotRemoved(k, u) ==
  /\ At(k, "rmu") /\ u \in kick[k].todo
  /\ \/ ~Admits(u) /\ UNCHANGED <<admits, strays, cut, faults>>
     \/ Admits(u) /\ Fault /\ UNCHANGED <<admits, strays, cut>>
     \/ /\ Admits(u) /\ Fault
        /\ admits' = admits \ {u} /\ strays' = strays \ {u} /\ cut' = cut \cup {u}
  /\ Goto(k, [kick[k] EXCEPT !.todo = @ \ {u}])
  /\ UNCHANGED <<last, file, pushes>>

\* adu puts him back as the copied configuration had him, ...
Added(k) ==
  LET u == kick[k].now IN
  /\ At(k, "adu") /\ Alive /\ u \notin admits
  /\ admits' = admits \cup {u} /\ cut' = cut \ {u}
  /\ strays' = IF kick[k].of = last THEN strays ELSE strays \cup {u}
  /\ Goto(k, [kick[k] EXCEPT !.st = "rmu", !.now = None])
  /\ UNCHANGED <<last, file, pushes, faults>>

\* ... or fails: no core, there already, no answer in time.
NotAdded(k) ==
  /\ At(k, "adu")
  /\ IF ~Alive \/ Admits(kick[k].now) THEN UNCHANGED faults ELSE Fault
  /\ Goto(k, [kick[k] EXCEPT !.st = "rmu", !.now = None, !.failed = TRUE])
  /\ UNCHANGED <<last, file, admits, strays, cut, pushes>>

\* What a kick would do if it only reported that failure.
FinishReporting(k) ==
  /\ At(k, "rmu") /\ kick[k].todo = {} /\ Goto(k, Idle)
  /\ UNCHANGED <<last, file, admits, strays, cut, pushes, faults>>

\* restartXrayFromDisk, under c.mu, after any failed adu.  A child that has no
\* file, or meets an accident, is not there afterwards.
Finish(k) ==
  /\ At(k, "rmu") /\ kick[k].todo = {} /\ Goto(k, Idle)
  /\ \/ ~kick[k].failed /\ UNCHANGED <<admits, strays, cut, faults>>
     \/ kick[k].failed /\ Child(file) /\ UNCHANGED faults
     \/ kick[k].failed /\ Fault /\ Child(None)
  /\ UNCHANGED <<last, file, pushes>>

-----------------------------------------------------------------------------
Next ==
  \/ \E f \in Configs : Accept(f)
  \/ Refuse \/ Forget \/ Die \/ Watch
  \/ \E k \in Kicks :
       \/ \E asked \in SUBSET Clients : KickCopies(k, asked)
       \/ \E u \in Clients : Removed(k, u) \/ NotRemoved(k, u)
       \/ Added(k) \/ NotAdded(k) \/ Finish(k)

Spec == Init /\ [][Next]_kickVars

-----------------------------------------------------------------------------
TypeOK ==
  /\ last \in Configs \cup {None} /\ file \in Configs \cup {None}
  /\ admits \in (SUBSET Clients) \cup {None}
  /\ kick \in [Kicks -> [st : {"idle", "rmu", "adu"}, todo : SUBSET Clients, now : Clients \cup {None},
                         of : Configs \cup {None}, failed : BOOLEAN]]
  /\ strays \subseteq Clients /\ cut \subseteq Clients
  /\ pushes \in 0 .. MaxPushes /\ faults \in 0 .. MaxFaults

\* Clients a kick under way is responsible for: taken out and not yet put
\* back, or waiting for the restart.
InHand == IF \E k \in Kicks : kick[k].failed THEN Clients ELSE {kick[k].now : k \in Kicks}

\* "The customer can reconnect at once": when kicks, configurations, refusals
\* and restarts cross, nobody of the accepted configuration stays locked out of
\* the running core, unless a removal took effect that was reported as failed;
\* and nobody else is let in, unless a kick that began under an older
\* configuration put him back.
KickedComeBack ==
  Alive /\ last # None =>
    /\ last \subseteq admits \cup InHand \cup cut
    /\ admits \subseteq last \cup strays
=============================================================================
