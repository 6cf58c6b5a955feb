----------------------------- MODULE WGAccount ------------------------------
(***************************************************************************)
(* Billing of ONE WireGuard client: applyWGPeers, wgStep, wgGap and        *)
(* wgCatchUp of internal/server/wgacct.go turn readings of the kernel's    *)
(* byte counters into rows of traffic_daily.  The counters start again     *)
(* from zero when wg-quick restarts the interface.  readerLoop handles     *)
(* frames one after the other; the reader of a connection that has been    *)
(* replaced may still be handling its last one.                            *)
(***************************************************************************)
EXTENDS Integers

CONSTANTS Readers,    \* reader goroutines of the server's connections
          MaxBytes,   \* bound on the traffic of each direction
          MaxResets   \* bound on restarts of the interface

ASSUME BytesAssumption == MaxBytes \in Nat /\ MaxResets \in Nat

VARIABLES
  kernel,   \* the counters of the interface now
  real,     \* the traffic the client really had
  resets,   \* restarts of the interface
  billed,   \* traffic_daily of the client, all days
  cursor,   \* h.wgCursor[server:client]
  missed,   \* history: an amount was given up
  reader    \* each reader: where it is, its reading, its snapshot, what to write

wgVars == <<kernel, real, resets, billed, cursor, missed, reader>>

Dirs == {"rx", "tx"}
Zero == [d \in Dirs |-> 0]
NoCursor == [have |-> FALSE, pending |-> FALSE, at |-> Zero, low |-> Zero]
Idle == [st |-> "idle", got |-> Zero, cur |-> NoCursor, bill |-> Zero, next |-> NoCursor]

Init ==
  /\ kernel = Zero /\ real = Zero /\ resets = 0
  /\ billed = Zero
  /\ cursor = NoCursor /\ missed = FALSE
  /\ reader = [r \in Readers |-> Idle]

(***************************************************************************)
(* wgStep, as a function of the cursor, the reading and the catch-up.      *)
(***************************************************************************)
Gap(k, b) == IF k > b THEN k - b ELSE 0

At(reading) == [have |-> TRUE, pending |-> FALSE, at |-> reading, low |-> Zero]

Dropped(cur, got) == \E d \in Dirs : got[d] < cur.at[d]

\* The second low reading confirms the first only when it is no higher.
Confirmed(cur, got) == cur.pending /\ \A d \in Dirs : got[d] <= cur.low[d]

Higher(cur, got) == [d \in Dirs |-> IF got[d] > cur.at[d] THEN got[d] ELSE cur.at[d]]

\* Mutant: one low reading is a reset.
NextCursorAtOnce(cur, got) == At(got)

NextCursor(cur, got) ==
  IF cur.have /\ Dropped(cur, got) /\ ~Confirmed(cur, got)
    THEN [have |-> TRUE, pending |-> TRUE, at |-> Higher(cur, got), low |-> got]
    ELSE At(got)

\* What is billed: the catch-up on first sight, nothing when a reset is
\* confirmed, else the growth of each direction.
ToBill(cur, got, done) ==
  IF ~cur.have THEN [d \in Dirs |-> Gap(got[d], done[d])]
  ELSE IF Dropped(cur, got) /\ Confirmed(cur, got) THEN Zero
  ELSE [d \in Dirs |-> Gap(got[d], cur.at[d])]

(***************************************************************************)
(* The client and the kernel.                                              *)
(***************************************************************************)
Traffic(d) ==
  /\ real[d] < MaxBytes
  /\ kernel' = [kernel EXCEPT ![d] = @ + 1]
  /\ real' = [real EXCEPT ![d] = @ + 1]
  /\ UNCHANGED <<resets, billed, cursor, missed, reader>>

WGReset ==
  /\ resets < MaxResets
  /\ resets' = resets + 1
  /\ kernel' = Zero
  /\ UNCHANGED <<real, billed, cursor, missed, reader>>

(***************************************************************************)
(* applyWGPeers for this client.                                           *)
(***************************************************************************)

\* A stats frame arrives, with the counters as they were when it was sent, and
\* the cursor is copied under wgMu.
Snapshot(r, reading) ==
  /\ reader[r].st = "idle"
  /\ reader' = [reader EXCEPT ![r] =
       [st |-> "step", got |-> reading, cur |-> cursor, bill |-> Zero, next |-> NoCursor]]
  /\ UNCHANGED <<kernel, real, resets, billed, cursor, missed>>

Report(r) == Snapshot(r, kernel)

\* A reading that is too low once ("a drop is ignored once").
Glitch(r, d) ==
  /\ cursor.have /\ ~cursor.pending /\ cursor.at[d] > 0
  /\ Snapshot(r, [kernel EXCEPT ![d] = 0])

\* wgCatchUp reads the billed totals only when there is no cursor.
Step(r) ==
  /\ reader[r].st = "step"
  /\ LET cur == reader[r].cur
         got == reader[r].got
     IN reader' = [reader EXCEPT ![r] =
          IF NextCursor(cur, got) = cur THEN Idle
          ELSE [st |-> "write", got |-> got, cur |-> cur,
                bill |-> ToBill(cur, got, billed), next |-> NextCursor(cur, got)]]
  /\ UNCHANGED <<kernel, real, resets, billed, cursor, missed>>

\* wgCatchUp cannot read the totals, or billBytes refuses an absurd amount: the
\* cursor moves on and nothing is billed.
StepMiss(r) ==
  /\ reader[r].st = "step"
  /\ LET cur == reader[r].cur
         got == reader[r].got
     IN /\ ToBill(cur, got, billed) # Zero
        /\ reader' = [reader EXCEPT ![r] =
             [st |-> "write", got |-> got, cur |-> cur, bill |-> Zero, next |-> NextCursor(cur, got)]]
  /\ missed' = TRUE
  /\ UNCHANGED <<kernel, real, resets, billed, cursor>>

\* AddTrafficBatch commits; with nothing to bill there is no batch.
Write(r) ==
  /\ reader[r].st = "write"
  /\ billed' = [d \in Dirs |-> billed[d] + reader[r].bill[d]]
  /\ reader' = [reader EXCEPT ![r].st = "save"]
  /\ UNCHANGED <<kernel, real, resets, cursor, missed>>

\* Mutant: the cursor is saved before the batch is known to have committed.
WriteFailMoved(r) ==
  /\ reader[r].st = "write" /\ reader[r].bill # Zero
  /\ cursor' = reader[r].next
  /\ reader' = [reader EXCEPT ![r] = Idle]
  /\ UNCHANGED <<kernel, real, resets, billed, missed>>

\* The batch rolls back, and the cursor stays.
WriteFail(r) ==
  /\ reader[r].st = "write" /\ reader[r].bill # Zero
  /\ reader' = [reader EXCEPT ![r] = Idle]
  /\ UNCHANGED <<kernel, real, resets, billed, cursor, missed>>

Save(r) ==
  /\ reader[r].st = "save"
  /\ cursor' = reader[r].next
  /\ reader' = [reader EXCEPT ![r] = Idle]
  /\ UNCHANGED <<kernel, real, resets, billed, missed>>

\* The panel restarts: cursors are only in memory.
PanelRestart ==
  /\ cursor' = NoCursor
  /\ reader' = [r \in Readers |-> Idle]
  /\ UNCHANGED <<kernel, real, resets, billed, missed>>

ReaderStep(r) == Step(r) \/ StepMiss(r) \/ Write(r) \/ WriteFail(r) \/ Save(r)

Next ==
  \/ \E d \in Dirs : Traffic(d)
  \/ WGReset
  \/ \E r \in Readers : Report(r) \/ ReaderStep(r) \/ \E d \in Dirs : Glitch(r, d)
  \/ PanelRestart

Spec == Init /\ [][Next]_wgVars

-----------------------------------------------------------------------------
Bytes == [Dirs -> Nat]
Cursors == [have : BOOLEAN, pending : BOOLEAN, at : Bytes, low : Bytes]

TypeOK ==
  /\ kernel \in Bytes /\ real \in Bytes /\ resets \in Nat
  /\ billed \in Bytes
  /\ cursor \in Cursors /\ missed \in BOOLEAN
  /\ reader \in [Readers -> [st : {"idle", "step", "write", "save"}, got : Bytes,
                             cur : Cursors, bill : Bytes, next : Cursors]]

\* No customer is billed for more than he used, whatever resets, low readings,
\* failed writes and panel restarts fall between two readings.
NeverOverbilled == \A d \in Dirs : billed[d] <= real[d]

\* And while the interface was never restarted nothing is lost either: once a
\* reading has been taken over, all of it is billed, across failed writes and
\* panel restarts, unless an amount was given up on purpose.
NothingLost ==
  resets = 0 /\ ~missed /\ cursor.have /\ (\A r \in Readers : reader[r].st = "idle") => billed = cursor.at
=============================================================================
