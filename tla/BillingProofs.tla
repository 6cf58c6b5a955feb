--------------------------- MODULE BillingProofs ----------------------------
(***************************************************************************)
(* The ways of a customer's bytes, for every value of the constants.  With *)
(* one reader at a time the kernel's WireGuard counters never bill a       *)
(* client for more than he used, for any amount of traffic and any number  *)
(* of resets (WGAccount).  Counters of cores and sockets are billed once,  *)
(* but for the intervals Meter names, and no reading is dropped, for any   *)
(* connections, failures, frames and multiplier.  An apply of the Agent's  *)
(* WireGuard interfaces that answers OK left them as the request says, for  *)
(* any interfaces, requests and failing commands, and the counters it reset *)
(* reach the next frame (WGLink).                                          *)
(***************************************************************************)
EXTENDS BillingMC, Sequences, FiniteSetTheorems, WellFoundedInduction, TLAPS

(***************************************************************************)
(* WGAccount.                                                              *)
(***************************************************************************)
OneReader == \A r, s \in Readers : r = s

\* What a cursor (or the cursor about to be saved) leaves to be billed later,
\* kernel[d] - c.at[d], is traffic that has not been billed yet.
Covers(at, done, d) == done + kernel[d] <= real[d] + at

InStep(r, d) ==
  LET cur == reader[r].cur
      got == reader[r].got
  IN reader[r].st = "step" =>
       /\ got[d] <= real[d]
       /\ cur.have => billed[d] + got[d] <= real[d] + cur.at[d]
       /\ ~cur.have \/ cur.pending \/ got[d] >= cur.at[d] => Covers(got[d], billed[d], d)

InWrite(r, d) ==
  reader[r].st = "write" =>
    /\ billed[d] + reader[r].bill[d] <= real[d]
    /\ Covers(reader[r].next.at[d], billed[d] + reader[r].bill[d], d)

InSave(r, d) ==
  reader[r].st = "save" => Covers(reader[r].next.at[d], billed[d], d)

CursorCovers(d) ==
  cursor.have /\ (\A r \in Readers : reader[r].st # "save") => Covers(cursor.at[d], billed[d], d)

Fresh == \A r \in Readers : reader[r].st \in {"step", "write"} => reader[r].cur = cursor

AcctInv ==
  /\ TypeOK /\ Fresh
  /\ \A d \in Dirs :
       /\ kernel[d] <= real[d] /\ billed[d] <= real[d]
       /\ CursorCovers(d)
       /\ \A r \in Readers : InStep(r, d) /\ InWrite(r, d) /\ InSave(r, d)

-----------------------------------------------------------------------------
(***************************************************************************)
(* What wgStep computes.                                                   *)
(***************************************************************************)
LEMMA GapFacts ==
  ASSUME NEW k \in Nat, NEW b \in Nat
  PROVE  Gap(k, b) \in Nat /\ (k <= b => Gap(k, b) = 0) /\ (k > b => Gap(k, b) = k - b)
BY DEF Gap

LEMMA StepTypes ==
  ASSUME NEW cur \in Cursors, NEW got \in Bytes, NEW done \in Bytes
  PROVE  NextCursor(cur, got) \in Cursors /\ ToBill(cur, got, done) \in Bytes
<1>1. Zero \in Bytes /\ At(got) \in Cursors /\ Higher(cur, got) \in Bytes
  BY DEF Zero, Bytes, Cursors, At, Higher
<1>2. ToBill(cur, got, done) \in Bytes
  BY <1>1, GapFacts DEF ToBill, Bytes, Cursors
<1>3. NextCursor(cur, got) \in Cursors
  BY <1>1 DEF NextCursor, Cursors
<1> QED BY <1>2, <1>3

\* In each direction the next cursor is the reading or the old cursor, and the
\* reading only where it was taken seriously.
LEMMA NextAt ==
  ASSUME NEW cur \in Cursors, NEW got \in Bytes, NEW d \in Dirs
  PROVE  \/ NextCursor(cur, got).at[d] = got[d] /\ (~cur.have \/ cur.pending \/ got[d] >= cur.at[d])
         \/ cur.have /\ NextCursor(cur, got).at[d] = cur.at[d]
<1>1. CASE cur.have /\ Dropped(cur, got) /\ ~Confirmed(cur, got)
  <2>1. NextCursor(cur, got).at[d] = Higher(cur, got)[d]
    BY <1>1 DEF NextCursor
  <2> QED BY <1>1, <2>1 DEF Higher, Bytes, Cursors
<1>2. CASE ~(cur.have /\ Dropped(cur, got) /\ ~Confirmed(cur, got))
  <2>1. NextCursor(cur, got).at[d] = got[d]
    BY <1>2 DEF NextCursor, At
  <2>2. ~cur.have \/ cur.pending \/ got[d] >= cur.at[d]
    BY <1>2 DEF Dropped, Confirmed, Bytes, Cursors
  <2> QED BY <2>1, <2>2
<1> QED BY <1>1, <1>2

\* What is billed is the distance to the next cursor, or nothing.
LEMMA Billing ==
  ASSUME NEW cur \in Cursors, NEW got \in Bytes, NEW done \in Bytes, NEW d \in Dirs
  PROVE  \/ ToBill(cur, got, done)[d] = 0
         \/ ~cur.have /\ got[d] > done[d] /\ ToBill(cur, got, done)[d] = got[d] - done[d]
         \/ /\ cur.have /\ got[d] > cur.at[d] /\ ToBill(cur, got, done)[d] = got[d] - cur.at[d]
            /\ NextCursor(cur, got).at[d] = got[d]
<1>1. got[d] \in Nat /\ done[d] \in Nat /\ cur.at[d] \in Nat
  BY DEF Bytes, Cursors
<1>2. CASE ~cur.have
  <2>1. ToBill(cur, got, done)[d] = Gap(got[d], done[d])
    BY <1>2 DEF ToBill
  <2> QED BY <1>1, <1>2, <2>1 DEF Gap
<1>3. CASE cur.have /\ Dropped(cur, got) /\ Confirmed(cur, got)
  <2>1. ToBill(cur, got, done)[d] = 0
    BY <1>3 DEF ToBill, Zero
  <2> QED BY <2>1
<1>4. CASE cur.have /\ ~(Dropped(cur, got) /\ Confirmed(cur, got))
  <2>1. ToBill(cur, got, done)[d] = Gap(got[d], cur.at[d])
    BY <1>4 DEF ToBill
  <2>2. got[d] > cur.at[d] => NextCursor(cur, got).at[d] = got[d]
    BY <1>1, <1>4 DEF NextCursor, At, Higher
  <2> QED BY <1>1, <1>4, <2>1, <2>2 DEF Gap
<1> QED BY <1>2, <1>3, <1>4

-----------------------------------------------------------------------------
LEMMA AcctInit == Init => AcctInv
<1> SUFFICES ASSUME Init PROVE AcctInv
  OBVIOUS
<1>1. Zero \in Bytes /\ NoCursor \in Cursors
  BY DEF Zero, Bytes, NoCursor, Cursors
<1>2. TypeOK
  BY <1>1 DEF Init, TypeOK, Idle
<1>3. \A r \in Readers : reader[r].st = "idle"
  BY DEF Init, Idle
<1>4. ~cursor.have
  BY DEF Init, NoCursor
<1> QED BY <1>2, <1>3, <1>4
        DEF Init, Zero, AcctInv, Fresh, CursorCovers, InStep, InWrite, InSave

\* Traffic and resets: what is still to be billed never grows beyond the traffic.
LEMMA AcctKernel ==
  ASSUME AcctInv, (\E e \in Dirs : Traffic(e)) \/ WGReset
  PROVE  AcctInv'
<1> USE DEF AcctInv
<1>1. kernel' \in Bytes /\ real' \in Bytes /\ resets' \in Nat
      /\ UNCHANGED <<billed, cursor, missed, reader>>
  BY DEF Traffic, WGReset, TypeOK, Bytes, Dirs, Zero
<1>2. \A d \in Dirs : kernel'[d] <= real'[d] /\ real'[d] >= real[d]
                      /\ kernel'[d] - real'[d] <= kernel[d] - real[d]
  BY DEF Traffic, WGReset, TypeOK, Bytes, Dirs, Zero
<1>3. TypeOK' /\ Fresh'
  BY <1>1 DEF TypeOK, Fresh
<1>4. ASSUME NEW d \in Dirs, NEW at \in Nat, NEW done \in Nat, Covers(at, done, d)
      PROVE  Covers(at, done, d)'
  BY <1>1, <1>2, <1>4 DEF Covers, TypeOK, Bytes
<1>5. ASSUME NEW d \in Dirs
      PROVE  /\ kernel'[d] <= real'[d] /\ billed'[d] <= real'[d]
             /\ CursorCovers(d)'
             /\ \A r \in Readers : InStep(r, d)' /\ InWrite(r, d)' /\ InSave(r, d)'
  <2>0. /\ billed[d] \in Nat /\ real[d] \in Nat /\ real'[d] \in Nat /\ cursor.at[d] \in Nat
        /\ \A r \in Readers : /\ reader[r].got[d] \in Nat /\ reader[r].cur.at[d] \in Nat
                              /\ reader[r].bill[d] \in Nat /\ reader[r].next.at[d] \in Nat
    BY <1>1 DEF TypeOK, Bytes, Cursors
  <2>1. kernel'[d] <= real'[d] /\ billed'[d] <= real'[d]
    BY <1>1, <1>2, <2>0
  <2>2. CursorCovers(d)'
    BY <1>1, <1>4, <2>0 DEF CursorCovers
  <2>3. ASSUME NEW r \in Readers PROVE InStep(r, d)' /\ InWrite(r, d)' /\ InSave(r, d)'
    <3>1. InStep(r, d)'
      BY <1>1, <1>2, <1>4, <2>0 DEF InStep
    <3>2. InWrite(r, d)'
      <4>1. billed[d] + reader[r].bill[d] \in Nat
        BY <2>0
      <4> QED BY <1>1, <1>2, <1>4, <2>0, <4>1 DEF InWrite
    <3>3. InSave(r, d)'
      BY <1>1, <1>4, <2>0 DEF InSave
    <3> QED BY <3>1, <3>2, <3>3
  <2> QED BY <2>1, <2>2, <2>3
<1> QED BY <1>3, <1>5

\* The reader takes a reading; a low one only concerns directions below the cursor.
LEMMA AcctSnapshot ==
  ASSUME OneReader, AcctInv, NEW r \in Readers, NEW reading \in Bytes, Snapshot(r, reading),
         \A d \in Dirs : \/ reading[d] = kernel[d]
                         \/ reading[d] = 0 /\ cursor.have /\ ~cursor.pending /\ cursor.at[d] > 0
  PROVE  AcctInv'
<1> USE DEF AcctInv
<1> DEFINE taken == [st |-> "step", got |-> reading, cur |-> cursor, bill |-> Zero, next |-> NoCursor]
<1>1. reader' = [reader EXCEPT ![r] = taken]
      /\ UNCHANGED <<kernel, real, resets, billed, cursor, missed>>
  BY DEF Snapshot
<1>3. Zero \in Bytes /\ NoCursor \in Cursors
  BY DEF Zero, Bytes, NoCursor, Cursors
<1>4. TypeOK' /\ Fresh'
  BY <1>1, <1>3 DEF TypeOK, Fresh
<1>5. \A s \in Readers : s = r
  BY DEF OneReader
<1>6. reader'[r].st = "step" /\ reader'[r].got = reading /\ reader'[r].cur = cursor
  BY <1>1 DEF TypeOK
<1>7. reader[r].st = "idle"
  BY DEF Snapshot
<1>8. ASSUME NEW d \in Dirs
      PROVE  /\ kernel'[d] <= real'[d] /\ billed'[d] <= real'[d]
             /\ CursorCovers(d)'
             /\ InStep(r, d)' /\ InWrite(r, d)' /\ InSave(r, d)'
  <2>1. /\ kernel[d] \in Nat /\ billed[d] \in Nat /\ real[d] \in Nat /\ cursor.at[d] \in Nat
        /\ reading[d] \in Nat /\ cursor.have \in BOOLEAN /\ cursor.pending \in BOOLEAN
    BY DEF TypeOK, Bytes, Cursors
  <2>2. kernel[d] <= real[d] /\ billed[d] <= real[d] /\ (cursor.have => Covers(cursor.at[d], billed[d], d))
    BY <1>5, <1>7 DEF CursorCovers
  <2>3. CursorCovers(d)' /\ InWrite(r, d)' /\ InSave(r, d)'
    BY <1>1, <1>6, <2>2 DEF CursorCovers, InWrite, InSave, Covers
  <2>4. reading[d] <= kernel[d]
    BY <2>1
  <2>5. cursor.have => billed[d] + reading[d] <= real[d] + cursor.at[d]
    BY <2>1, <2>2, <2>4 DEF Covers
  <2>6. ~cursor.have \/ cursor.pending \/ reading[d] >= cursor.at[d] => Covers(reading[d], billed[d], d)
    BY <2>1, <2>2 DEF Covers
  <2>7. InStep(r, d)'
    BY <1>1, <1>6, <2>1, <2>2, <2>4, <2>5, <2>6 DEF InStep, Covers
  <2> QED BY <1>1, <2>2, <2>3, <2>7
<1> QED BY <1>4, <1>5, <1>8

LEMMA AcctStep ==
  ASSUME OneReader, AcctInv, NEW r \in Readers, Step(r) \/ StepMiss(r)
  PROVE  AcctInv'
<1> USE DEF AcctInv
<1> DEFINE cur == reader[r].cur
           got == reader[r].got
           next == NextCursor(cur, got)
           some == ToBill(cur, got, billed)
<1>1. reader[r].st = "step" /\ UNCHANGED <<kernel, real, resets, billed, cursor>> /\ missed' \in BOOLEAN
  BY DEF Step, StepMiss, TypeOK
<1>2. cur \in Cursors /\ got \in Bytes /\ billed \in Bytes /\ cur = cursor
  BY <1>1 DEF TypeOK, Fresh
<1>3. next \in Cursors /\ some \in Bytes
  BY <1>2, StepTypes
<1>4. Zero \in Bytes /\ NoCursor \in Cursors
  BY DEF Zero, Bytes, NoCursor, Cursors
<1>5. PICK bill \in {some, Zero} :
        reader' = [reader EXCEPT ![r] =
          [st |-> "write", got |-> got, cur |-> cur, bill |-> bill, next |-> next]]
        \/ reader' = [reader EXCEPT ![r] = Idle]
  BY DEF Step, StepMiss
<1>6. \A s \in Readers : s = r
  BY DEF OneReader
<1>7. TypeOK' /\ Fresh'
  BY <1>1, <1>2, <1>3, <1>4, <1>5 DEF TypeOK, Fresh, Idle
<1>8. ASSUME NEW d \in Dirs
      PROVE  /\ kernel'[d] <= real'[d] /\ billed'[d] <= real'[d]
             /\ CursorCovers(d)'
             /\ InStep(r, d)' /\ InWrite(r, d)' /\ InSave(r, d)'
  <2>1. /\ kernel[d] \in Nat /\ billed[d] \in Nat /\ real[d] \in Nat /\ cur.at[d] \in Nat
        /\ got[d] \in Nat /\ bill[d] \in Nat /\ next.at[d] \in Nat
        /\ cur.have \in BOOLEAN /\ cur.pending \in BOOLEAN
    BY <1>2, <1>3, <1>4 DEF TypeOK, Bytes, Cursors
  <2>2. /\ kernel[d] <= real[d] /\ billed[d] <= real[d] /\ got[d] <= real[d]
        /\ cur.have => billed[d] + kernel[d] <= real[d] + cur.at[d]
        /\ cur.have => billed[d] + got[d] <= real[d] + cur.at[d]
        /\ ~cur.have \/ cur.pending \/ got[d] >= cur.at[d] => billed[d] + kernel[d] <= real[d] + got[d]
    BY <1>1, <1>2, <1>6 DEF CursorCovers, InStep, Covers
  <2>3. \/ next.at[d] = got[d] /\ (~cur.have \/ cur.pending \/ got[d] >= cur.at[d])
        \/ cur.have /\ next.at[d] = cur.at[d]
    BY <1>2, NextAt
  <2>4. \/ bill[d] = 0
        \/ ~cur.have /\ got[d] > billed[d] /\ bill[d] = got[d] - billed[d]
        \/ cur.have /\ got[d] > cur.at[d] /\ bill[d] = got[d] - cur.at[d] /\ next.at[d] = got[d]
    <3>1. CASE bill = Zero
      BY <3>1 DEF Zero
    <3>2. CASE bill = some
      BY <1>2, <3>2, Billing
    <3> QED BY <3>1, <3>2
  <2>5. billed[d] + bill[d] <= real[d]
    BY <2>1, <2>2, <2>4
  <2>6. billed[d] + bill[d] + kernel[d] <= real[d] + next.at[d]
    BY <2>1, <2>2, <2>3, <2>4
  <2>7. \/ reader'[r].st = "idle"
        \/ reader'[r].st = "write" /\ reader'[r].bill = bill /\ reader'[r].next = next
    <3>1. CASE reader' = [reader EXCEPT ![r] = Idle]
      BY <3>1 DEF TypeOK, Idle
    <3>2. CASE reader' = [reader EXCEPT ![r] =
                 [st |-> "write", got |-> got, cur |-> cur, bill |-> bill, next |-> next]]
      BY <3>2 DEF TypeOK
    <3> QED BY <1>5, <3>1, <3>2
  <2>8. CursorCovers(d)'
    BY <1>1, <1>2, <2>2 DEF CursorCovers, Covers
  <2>9. InStep(r, d)' /\ InSave(r, d)'
    BY <2>7 DEF InStep, InSave
  <2>10. InWrite(r, d)'
    BY <1>1, <2>5, <2>6, <2>7 DEF InWrite, Covers
  <2> QED BY <1>1, <2>2, <2>8, <2>9, <2>10
<1> QED BY <1>6, <1>7, <1>8

LEMMA AcctSave ==
  ASSUME OneReader, AcctInv, NEW r \in Readers, Write(r) \/ WriteFail(r) \/ Save(r)
  PROVE  AcctInv'
<1> USE DEF AcctInv
<1>1. \A s \in Readers : s = r
  BY DEF OneReader
<1>2. Zero \in Bytes /\ NoCursor \in Cursors
  BY DEF Zero, Bytes, NoCursor, Cursors
<1>3. CASE Write(r)
  <2>1. reader[r].st = "write" /\ UNCHANGED <<kernel, real, resets, cursor, missed>>
        /\ reader' = [reader EXCEPT ![r].st = "save"]
        /\ billed' = [d \in Dirs |-> billed[d] + reader[r].bill[d]]
    BY <1>3 DEF Write
  <2> DEFINE now == [reader[r] EXCEPT !.st = "save"]
  <2>5. reader' = [reader EXCEPT ![r] = now]
    BY <2>1
  <2>6. /\ now \in [st : {"idle", "step", "write", "save"}, got : Bytes, cur : Cursors, bill : Bytes, next : Cursors]
        /\ now.st = "save" /\ reader[r].bill \in Bytes
    BY DEF TypeOK
  <2>7. billed' \in Bytes
    BY <2>1, <2>6 DEF TypeOK, Bytes
  <2> HIDE DEF now
  <2>8. TypeOK'
    BY <2>1, <2>5, <2>6, <2>7 DEF TypeOK
  <2>9. Fresh'
    BY <1>1, <2>5, <2>6 DEF TypeOK, Fresh
  <2>2. TypeOK' /\ Fresh'
    BY <2>8, <2>9
  <2>3. reader'[r].st = "save" /\ reader'[r].next = reader[r].next
    BY <2>1 DEF TypeOK
  <2>4. ASSUME NEW d \in Dirs
        PROVE  kernel'[d] <= real'[d] /\ billed'[d] <= real'[d] /\ CursorCovers(d)'
               /\ InStep(r, d)' /\ InWrite(r, d)' /\ InSave(r, d)'
    <3>1. billed[d] + reader[r].bill[d] <= real[d]
          /\ Covers(reader[r].next.at[d], billed[d] + reader[r].bill[d], d)
      BY <2>1 DEF InWrite
    <3>2. kernel'[d] <= real'[d] /\ billed'[d] <= real'[d]
      BY <2>1, <3>1
    <3>3. CursorCovers(d)'
      BY <2>3 DEF CursorCovers
    <3>4. InStep(r, d)' /\ InWrite(r, d)'
      BY <2>3 DEF InStep, InWrite
    <3>5. InSave(r, d)'
      BY <2>1, <2>3, <3>1 DEF InSave, Covers
    <3> QED BY <3>2, <3>3, <3>4, <3>5
  <2> QED BY <1>1, <2>2, <2>4
<1>4. CASE WriteFail(r)
  <2>1. reader[r].st = "write" /\ UNCHANGED <<kernel, real, resets, billed, cursor, missed>>
        /\ reader' = [reader EXCEPT ![r] = Idle]
    BY <1>4 DEF WriteFail
  <2>2. TypeOK' /\ Fresh'
    BY <1>2, <2>1 DEF TypeOK, Fresh, Idle
  <2>3. reader'[r].st = "idle"
    BY <2>1 DEF TypeOK, Idle
  <2>4. \A d \in Dirs : CursorCovers(d)'
    BY <1>1, <2>1 DEF CursorCovers, Covers
  <2>5. \A d \in Dirs : InStep(r, d)' /\ InWrite(r, d)' /\ InSave(r, d)'
    BY <2>3 DEF InStep, InWrite, InSave
  <2> QED BY <1>1, <2>1, <2>2, <2>4, <2>5
<1>5. CASE Save(r)
  <2>1. reader[r].st = "save" /\ UNCHANGED <<kernel, real, resets, billed, missed>>
        /\ reader' = [reader EXCEPT ![r] = Idle] /\ cursor' = reader[r].next
    BY <1>5 DEF Save
  <2>2. reader'[r].st = "idle"
    BY <2>1 DEF TypeOK, Idle
  <2>3. TypeOK' /\ Fresh'
    BY <1>1, <1>2, <2>1, <2>2 DEF TypeOK, Fresh, Idle
  <2>4. \A d \in Dirs : CursorCovers(d)'
    BY <2>1 DEF CursorCovers, InSave, Covers
  <2>5. \A d \in Dirs : InStep(r, d)' /\ InWrite(r, d)' /\ InSave(r, d)'
    BY <2>2 DEF InStep, InWrite, InSave
  <2> QED BY <1>1, <2>1, <2>3, <2>4, <2>5
<1> QED BY <1>3, <1>4, <1>5

LEMMA AcctNext == OneReader /\ AcctInv /\ [Next]_wgVars => AcctInv'
<1> SUFFICES ASSUME OneReader, AcctInv, [Next]_wgVars PROVE AcctInv'
  OBVIOUS
<1> USE DEF AcctInv
<1>1. ASSUME NEW r \in Readers, Report(r) PROVE AcctInv'
  <2>1. kernel \in Bytes /\ Snapshot(r, kernel)
    BY <1>1 DEF Report, TypeOK
  <2> QED BY <2>1, AcctSnapshot
<1>2. ASSUME NEW r \in Readers, NEW d \in Dirs, Glitch(r, d) PROVE AcctInv'
  <2> DEFINE reading == [kernel EXCEPT ![d] = 0]
  <2>1. reading \in Bytes /\ Snapshot(r, reading)
    BY <1>2 DEF Glitch, TypeOK, Bytes
  <2>2. \A e \in Dirs : \/ reading[e] = kernel[e]
                        \/ reading[e] = 0 /\ cursor.have /\ ~cursor.pending /\ cursor.at[e] > 0
    BY <1>2 DEF Glitch, TypeOK, Bytes
  <2> QED BY <2>1, <2>2, AcctSnapshot
<1>3. CASE PanelRestart
  <2>1. ~cursor'.have /\ \A r \in Readers : reader'[r].st = "idle"
    BY <1>3 DEF PanelRestart, NoCursor, Idle
  <2>2. TypeOK'
    BY <1>3 DEF PanelRestart, TypeOK, NoCursor, Idle, Zero, Cursors, Bytes
  <2>3. Fresh'
    BY <2>1 DEF Fresh
  <2>4. \A d \in Dirs : CursorCovers(d)' /\ \A r \in Readers : InStep(r, d)' /\ InWrite(r, d)' /\ InSave(r, d)'
    BY <2>1 DEF CursorCovers, InStep, InWrite, InSave
  <2> QED BY <1>3, <2>2, <2>3, <2>4 DEF PanelRestart
<1>4. CASE UNCHANGED wgVars
  BY <1>4 DEF wgVars, TypeOK, Fresh, CursorCovers, InStep, InWrite, InSave, Covers
<1> QED BY <1>1, <1>2, <1>3, <1>4, AcctKernel, AcctStep, AcctSave DEF Next, ReaderStep

\* The variables of the accounting keep their types.
THEOREM AcctTypeCorrect == ASSUME OneReader PROVE Spec => []TypeOK
<1>1. AcctInv => TypeOK
  BY DEF AcctInv
<1>2. AcctInv /\ [Next]_wgVars => AcctInv'
  BY AcctNext
<1> QED BY <1>1, <1>2, AcctInit, PTL DEF Spec

\* With one reader at a time, no resets, low readings, failed writes or panel
\* restarts make the panel bill more than the client's traffic.
THEOREM NeverOverbilledHolds == ASSUME OneReader PROVE Spec => []NeverOverbilled
<1>1. AcctInv => NeverOverbilled
  BY DEF AcctInv, NeverOverbilled
<1>2. AcctInv /\ [Next]_wgVars => AcctInv'
  BY AcctNext
<1> QED BY <1>1, <1>2, AcctInit, PTL DEF Spec

-----------------------------------------------------------------------------
(***************************************************************************)
(* While the interface was not restarted and no amount was given up, what  *)
(* is billed is exactly what the cursor covers, or will cover.             *)
(***************************************************************************)
KeptInStep(r, d) ==
  LET cur == reader[r].cur
      got == reader[r].got
  IN reader[r].st = "step" =>
       /\ cur.have /\ cur.pending => got[d] >= cur.at[d]
       /\ ~cur.have => got[d] >= billed[d]

KeptInWrite(r, d) == reader[r].st = "write" => reader[r].next.at[d] = billed[d] + reader[r].bill[d]

KeptInSave(r, d) == reader[r].st = "save" => reader[r].next.at[d] = billed[d]

KeptCursor(d) == cursor.have /\ (\A r \in Readers : reader[r].st # "save") => cursor.at[d] = billed[d]

Kept ==
  resets = 0 /\ ~missed =>
    \A d \in Dirs : /\ kernel[d] = real[d] /\ KeptCursor(d)
                    /\ \A r \in Readers : KeptInStep(r, d) /\ KeptInWrite(r, d) /\ KeptInSave(r, d)

KeptInv == AcctInv /\ Kept

\* wgStep without a confirmed reset: the bill is the distance to the next cursor.
LEMMA WholeDistance ==
  ASSUME NEW cur \in Cursors, NEW got \in Bytes, NEW done \in Bytes, NEW d \in Dirs,
         cur.have /\ Dropped(cur, got) => ~Confirmed(cur, got),
         cur.have => cur.at[d] = done[d], ~cur.have => got[d] >= done[d]
  PROVE  NextCursor(cur, got).at[d] = done[d] + ToBill(cur, got, done)[d]
<1>1. got[d] \in Nat /\ done[d] \in Nat /\ cur.at[d] \in Nat
  BY DEF Bytes, Cursors
<1>2. CASE ~cur.have
  <2>1. ToBill(cur, got, done)[d] = Gap(got[d], done[d]) /\ NextCursor(cur, got).at[d] = got[d]
    BY <1>2 DEF ToBill, NextCursor, At
  <2> QED BY <1>1, <1>2, <2>1 DEF Gap
<1>3. CASE cur.have /\ Dropped(cur, got)
  <2>1. ToBill(cur, got, done)[d] = Gap(got[d], cur.at[d]) /\ NextCursor(cur, got).at[d] = Higher(cur, got)[d]
    BY <1>3 DEF ToBill, NextCursor
  <2> QED BY <1>1, <1>3, <2>1 DEF Gap, Higher
<1>4. CASE cur.have /\ ~Dropped(cur, got)
  <2>1. ToBill(cur, got, done)[d] = Gap(got[d], cur.at[d]) /\ NextCursor(cur, got).at[d] = got[d]
    BY <1>4 DEF ToBill, NextCursor, At
  <2>2. ~(got[d] < cur.at[d])
    BY <1>4 DEF Dropped
  <2> QED BY <1>1, <1>4, <2>1, <2>2 DEF Gap
<1> QED BY <1>2, <1>3, <1>4

LEMMA KeptInit == Init => Kept
BY DEF Init, Kept, KeptCursor, KeptInStep, KeptInWrite, KeptInSave, Idle, NoCursor, Zero

\* A counter that was not restarted only grows; so does the reader's distance to it.
LEMMA KeptKernel ==
  ASSUME KeptInv, (\E e \in Dirs : Traffic(e)) \/ WGReset PROVE Kept'
<1>1. CASE WGReset
  <2>1. resets' = resets + 1 /\ resets \in Nat
    BY <1>1 DEF WGReset, KeptInv, AcctInv, TypeOK
  <2>2. resets' # 0
    BY <2>1
  <2> QED BY <2>2 DEF Kept
<1>2. ASSUME NEW e \in Dirs, Traffic(e) PROVE Kept'
  <2>1. /\ UNCHANGED <<resets, billed, cursor, missed, reader>>
        /\ kernel' = [kernel EXCEPT ![e] = @ + 1] /\ real' = [real EXCEPT ![e] = @ + 1]
        /\ kernel \in Bytes /\ real \in Bytes
    BY <1>2 DEF Traffic, KeptInv, AcctInv, TypeOK
  <2>2. ASSUME NEW d \in Dirs, kernel[d] = real[d] PROVE kernel'[d] = real'[d]
    BY <2>1, <2>2 DEF Bytes
  <2> QED BY <2>1, <2>2 DEF KeptInv, Kept, KeptCursor, KeptInStep, KeptInWrite, KeptInSave
<1> QED BY <1>1, <1>2

\* A low reading is taken only once: with a pending cursor the reading is the
\* kernel's own, and that covers the cursor.
LEMMA KeptSnapshot ==
  ASSUME OneReader, KeptInv, NEW r \in Readers, NEW reading \in Bytes, Snapshot(r, reading),
         \A d \in Dirs : reading[d] = kernel[d] \/ (cursor.have /\ ~cursor.pending)
  PROVE  Kept'
<1> SUFFICES ASSUME resets' = 0, ~missed', NEW d \in Dirs
             PROVE  /\ kernel'[d] = real'[d] /\ KeptCursor(d)'
                    /\ \A s \in Readers : KeptInStep(s, d)' /\ KeptInWrite(s, d)' /\ KeptInSave(s, d)'
  BY DEF Kept
<1>1. /\ reader[r].st = "idle" /\ UNCHANGED <<kernel, real, resets, billed, cursor, missed>>
      /\ reader'[r].st = "step" /\ reader'[r].got = reading /\ reader'[r].cur = cursor
      /\ \A s \in Readers : s = r
  BY DEF Snapshot, OneReader, KeptInv, AcctInv, TypeOK
<1>2. /\ kernel[d] = real[d] /\ (cursor.have => cursor.at[d] = billed[d]) /\ billed[d] <= real[d]
      /\ reading[d] = kernel[d] \/ (cursor.have /\ ~cursor.pending)
  BY <1>1 DEF KeptInv, Kept, KeptCursor, AcctInv
<1>3. kernel[d] \in Nat /\ real[d] \in Nat /\ billed[d] \in Nat /\ reading[d] \in Nat
  BY DEF KeptInv, AcctInv, TypeOK, Bytes
<1>4. KeptInStep(r, d)'
  BY <1>1, <1>2, <1>3 DEF KeptInStep
<1> QED BY <1>1, <1>2, <1>4 DEF KeptCursor, KeptInWrite, KeptInSave

LEMMA KeptStep ==
  ASSUME OneReader, KeptInv, NEW r \in Readers, Step(r) PROVE Kept'
<1> DEFINE cur == reader[r].cur
           got == reader[r].got
<1> SUFFICES ASSUME resets' = 0, ~missed', NEW d \in Dirs
             PROVE  /\ kernel'[d] = real'[d] /\ KeptCursor(d)'
                    /\ \A s \in Readers : KeptInStep(s, d)' /\ KeptInWrite(s, d)' /\ KeptInSave(s, d)'
  BY DEF Kept
<1>1. /\ reader[r].st = "step" /\ UNCHANGED <<kernel, real, resets, billed, cursor, missed>>
      /\ cur \in Cursors /\ got \in Bytes /\ billed \in Bytes /\ cur = cursor
      /\ \A s \in Readers : s = r
  BY DEF Step, OneReader, KeptInv, AcctInv, TypeOK, Fresh
<1>2. \A e \in Dirs : /\ kernel[e] = real[e] /\ KeptCursor(e) /\ KeptInStep(r, e)
  BY <1>1 DEF KeptInv, Kept
<1>3. cur.have /\ Dropped(cur, got) => ~Confirmed(cur, got)
  BY <1>1, <1>2 DEF Dropped, Confirmed, KeptInStep, Cursors, Bytes
<1>4. (cur.have => cur.at[d] = billed[d]) /\ (~cur.have => got[d] >= billed[d])
  BY <1>1, <1>2 DEF KeptInStep, KeptCursor
<1>5. NextCursor(cur, got).at[d] = billed[d] + ToBill(cur, got, billed)[d]
  BY <1>1, <1>3, <1>4, WholeDistance
<1>6. \/ reader'[r].st = "idle"
      \/ /\ reader'[r].st = "write" /\ reader'[r].bill = ToBill(cur, got, billed)
         /\ reader'[r].next = NextCursor(cur, got)
  BY DEF Step, KeptInv, AcctInv, TypeOK, Idle
<1>7. KeptCursor(d)'
  BY <1>1, <1>4 DEF KeptCursor
<1>8. KeptInStep(r, d)' /\ KeptInWrite(r, d)' /\ KeptInSave(r, d)'
  BY <1>1, <1>5, <1>6 DEF KeptInStep, KeptInWrite, KeptInSave
<1> QED BY <1>1, <1>2, <1>7, <1>8

LEMMA KeptSave ==
  ASSUME OneReader, KeptInv, NEW r \in Readers, Write(r) \/ WriteFail(r) \/ Save(r) PROVE Kept'
<1> SUFFICES ASSUME resets' = 0, ~missed', NEW d \in Dirs
             PROVE  /\ kernel'[d] = real'[d] /\ KeptCursor(d)'
                    /\ \A s \in Readers : KeptInStep(s, d)' /\ KeptInWrite(s, d)' /\ KeptInSave(s, d)'
  BY DEF Kept
<1>1. UNCHANGED <<kernel, real, resets, missed>> /\ \A s \in Readers : s = r
  BY DEF Write, WriteFail, Save, OneReader
<1>2. kernel[d] = real[d] /\ KeptCursor(d) /\ KeptInWrite(r, d) /\ KeptInSave(r, d)
  BY <1>1 DEF KeptInv, Kept
<1>3. CASE Write(r)
  <2>1. /\ reader[r].st = "write" /\ UNCHANGED cursor
        /\ billed'[d] = billed[d] + reader[r].bill[d]
        /\ reader'[r].st = "save" /\ reader'[r].next = reader[r].next
    BY <1>3 DEF Write, KeptInv, AcctInv, TypeOK
  <2>2. KeptInSave(r, d)'
    BY <1>2, <2>1 DEF KeptInWrite, KeptInSave
  <2> QED BY <1>1, <1>2, <2>1, <2>2 DEF KeptCursor, KeptInStep, KeptInWrite
<1>4. CASE WriteFail(r)
  <2>1. reader[r].st = "write" /\ UNCHANGED <<cursor, billed>> /\ reader'[r].st = "idle"
    BY <1>4 DEF WriteFail, KeptInv, AcctInv, TypeOK, Idle
  <2> QED BY <1>1, <1>2, <2>1 DEF KeptCursor, KeptInStep, KeptInWrite, KeptInSave
<1>5. CASE Save(r)
  <2>1. reader[r].st = "save" /\ UNCHANGED billed /\ cursor' = reader[r].next /\ reader'[r].st = "idle"
    BY <1>5 DEF Save, KeptInv, AcctInv, TypeOK, Idle
  <2> QED BY <1>1, <1>2, <2>1 DEF KeptCursor, KeptInStep, KeptInWrite, KeptInSave
<1> QED BY <1>3, <1>4, <1>5

LEMMA KeptNext == OneReader /\ KeptInv /\ [Next]_wgVars => KeptInv'
<1> SUFFICES ASSUME OneReader, KeptInv, [Next]_wgVars PROVE Kept'
  BY AcctNext DEF KeptInv
<1> USE DEF KeptInv
<1>1. ASSUME NEW r \in Readers, Report(r) PROVE Kept'
  <2>1. kernel \in Bytes /\ Snapshot(r, kernel)
    BY <1>1 DEF Report, AcctInv, TypeOK
  <2> QED BY <2>1, KeptSnapshot
<1>2. ASSUME NEW r \in Readers, NEW d \in Dirs, Glitch(r, d) PROVE Kept'
  <2>1. [kernel EXCEPT ![d] = 0] \in Bytes /\ Snapshot(r, [kernel EXCEPT ![d] = 0])
        /\ cursor.have /\ ~cursor.pending
    BY <1>2 DEF Glitch, AcctInv, TypeOK, Bytes
  <2> QED BY <2>1, KeptSnapshot
<1>3. ASSUME NEW r \in Readers, StepMiss(r) PROVE Kept'
  BY <1>3 DEF StepMiss, Kept
<1>4. CASE PanelRestart
  <2>1. /\ ~cursor'.have /\ (\A r \in Readers : reader'[r].st = "idle")
        /\ UNCHANGED <<kernel, real, resets, missed>>
    BY <1>4 DEF PanelRestart, NoCursor, Idle
  <2> QED BY <2>1 DEF Kept, KeptCursor, KeptInStep, KeptInWrite, KeptInSave
<1>5. CASE UNCHANGED wgVars
  BY <1>5 DEF wgVars, Kept, KeptCursor, KeptInStep, KeptInWrite, KeptInSave
<1> QED BY <1>1, <1>2, <1>3, <1>4, <1>5, KeptKernel, KeptStep, KeptSave DEF Next, ReaderStep

\* With one reader at a time, and while the interface was never restarted and no
\* amount was given up, all of the reading last taken over is billed, for any
\* amount of traffic, low readings, failed writes and restarts of the panel.
THEOREM NothingLostHolds == ASSUME OneReader PROVE Spec => []NothingLost
<1>1. KeptInv => NothingLost
  <2> SUFFICES ASSUME KeptInv, resets = 0, ~missed, cursor.have, \A r \in Readers : reader[r].st = "idle"
               PROVE  billed = cursor.at
    BY DEF NothingLost
  <2>1. \A d \in Dirs : cursor.at[d] = billed[d]
    BY DEF KeptInv, Kept, KeptCursor
  <2> QED BY <2>1 DEF KeptInv, AcctInv, TypeOK, Cursors, Bytes
<1>2. Init => KeptInv
  BY AcctInit, KeptInit DEF KeptInv
<1>3. KeptInv /\ [Next]_wgVars => KeptInv'
  BY KeptNext
<1> QED BY <1>1, <1>2, <1>3, PTL DEF Spec

-----------------------------------------------------------------------------
(***************************************************************************)
(* Sums.  Sum(f, S) is the number of the bytes f counts on S.              *)
(***************************************************************************)
BytesOf(f, S) == UNION {{c} \X (1 .. f[c]) : c \in S}
SumOf(f, S) == Cardinality(BytesOf(f, S))

LEMMA SumIs == ASSUME NEW f, NEW S PROVE M!Sum(f, S) = SumOf(f, S)
BY Zenon DEF M!Sum, M!Bytes, SumOf, BytesOf, M!Cardinality, Cardinality

LEMMA RowFinite ==
  ASSUME NEW c, NEW n \in Nat
  PROVE  IsFiniteSet({c} \X (1 .. n)) /\ Cardinality({c} \X (1 .. n)) = n
<1> DEFINE g == [k \in 1 .. n |-> <<c, k>>]
<1>1. IsFiniteSet(1 .. n) /\ Cardinality(1 .. n) = n
  BY FS_Interval
<1> DEFINE R == {c} \X (1 .. n)
<1>2. g \in [1 .. n -> R] /\ \A k \in 1 .. n : g[k] = <<c, k>>
  OBVIOUS
<1>3. \A r \in R : \E k \in 1 .. n : r = <<c, k>>
  OBVIOUS
<1> HIDE DEF g, R
<1>4. \A k, j \in 1 .. n : g[k] = g[j] => k = j
  BY <1>2
<1>5. g \in Bijection(1 .. n, R)
  BY <1>2, <1>3, <1>4 DEF Bijection, Injection, Surjection, IsInjective
<1>6. IsFiniteSet(R) /\ Cardinality(R) = n
  BY <1>1, <1>5, FS_Bijection DEF ExistsBijection
<1> QED BY <1>6 DEF R

LEMMA InBytes ==
  ASSUME NEW f, NEW S
  PROVE  \A b : b \in BytesOf(f, S) <=> \E c \in S : \E j \in 1 .. f[c] : b = <<c, j>>
BY DEF BytesOf

LEMMA BytesFinite ==
  ASSUME NEW S, IsFiniteSet(S), NEW f, \A c \in S : f[c] \in Nat
  PROVE  IsFiniteSet(BytesOf(f, S)) /\ SumOf(f, S) \in Nat
<1> DEFINE Row(c) == {c} \X (1 .. f[c])
           g == [c \in S |-> Row(c)]
           T == {Row(c) : c \in S}
<1>1. g \in Surjection(S, T)
  BY DEF Surjection
<1>2. IsFiniteSet(T)
  BY <1>1, FS_Surjection
<1>3. \A c \in S : IsFiniteSet(Row(c))
  BY RowFinite
<1>4. IsFiniteSet(BytesOf(f, S))
  BY <1>2, <1>3, FS_UNION DEF BytesOf
<1> QED BY <1>4, FS_CardinalityType DEF SumOf

\* Smaller summands, some left out, and nothings added sum to less.
LEMMA SumLess ==
  ASSUME NEW S, IsFiniteSet(S), NEW f, \A c \in S : f[c] \in Nat, NEW T, IsFiniteSet(T), NEW g,
         \A c \in T : g[c] \in Nat /\ (g[c] = 0 \/ (c \in S /\ g[c] <= f[c]))
  PROVE  SumOf(f, S) \in Nat /\ SumOf(g, T) \in Nat /\ SumOf(g, T) <= SumOf(f, S)
<1>1. \A c \in T : 1 .. g[c] = {} \/ (c \in S /\ 1 .. g[c] \subseteq 1 .. f[c])
  OBVIOUS
<1>2. BytesOf(g, T) \subseteq BytesOf(f, S)
  BY <1>1 DEF BytesOf
<1>3. SumOf(g, T) <= SumOf(f, S)
  BY <1>2, BytesFinite, FS_Subset DEF SumOf
<1> QED BY <1>3, BytesFinite

\* One more at one point is one more in the sum.
LEMMA SumMore ==
  ASSUME NEW S, IsFiniteSet(S), NEW f, \A c \in S : f[c] \in Nat,
         NEW d \in S, NEW g, \A c \in S : g[c] \in Nat /\ g[c] <= f[c] + (IF c = d THEN 1 ELSE 0)
  PROVE  SumOf(g, S) \in Nat /\ SumOf(g, S) <= SumOf(f, S) + 1
<1> DEFINE x == <<d, f[d] + 1>>
<1>1. \A c \in S : c # d => 1 .. g[c] \subseteq 1 .. f[c]
  OBVIOUS
<1>2. 1 .. g[d] \subseteq (1 .. f[d]) \cup {f[d] + 1}
  OBVIOUS
<1>3. BytesOf(g, S) \subseteq (BytesOf(f, S) \cup {x})
  BY <1>1, <1>2 DEF BytesOf
<1>4. IsFiniteSet(BytesOf(f, S)) /\ SumOf(f, S) \in Nat /\ SumOf(g, S) \in Nat
  BY BytesFinite
<1> DEFINE B == BytesOf(f, S)
<1> HIDE DEF B, x
<1>8. IsFiniteSet(B) /\ Cardinality(B) \in Nat /\ Cardinality(B) = SumOf(f, S)
  BY <1>4 DEF B, SumOf
<1>9. IsFiniteSet(B \cup {x}) /\ Cardinality(B \cup {x}) = (IF x \in B THEN Cardinality(B) ELSE Cardinality(B) + 1)
  BY <1>8, FS_AddElement, Zenon
<1>10. Cardinality(B \cup {x}) <= SumOf(f, S) + 1
  BY <1>8, <1>9
<1>5. IsFiniteSet(BytesOf(f, S) \cup {x}) /\ Cardinality(BytesOf(f, S) \cup {x}) <= SumOf(f, S) + 1
  BY <1>9, <1>10 DEF B
<1>6. Cardinality(BytesOf(g, S)) <= Cardinality(BytesOf(f, S) \cup {x})
  BY <1>3, <1>5, FS_Subset
<1>7. Cardinality(BytesOf(f, S) \cup {x}) \in Nat
  BY <1>5, FS_CardinalityType
<1> QED BY <1>4, <1>5, <1>6, <1>7 DEF SumOf

\* Where nothing is counted the sum is nothing.
LEMMA SumNone ==
  ASSUME NEW S, NEW f, \A c \in S : f[c] = 0
  PROVE  SumOf(f, S) = 0
<1>1. BytesOf(f, S) = {}
  BY DEF BytesOf
<1> QED BY <1>1, FS_EmptySet DEF SumOf

-----------------------------------------------------------------------------
(***************************************************************************)
(* The bytes under way.                                                    *)
(***************************************************************************)
OnWire(w) == SumOf(w, DOMAIN w)

LEMMA WireFinite ==
  ASSUME NEW w \in Seq(Nat)
  PROVE  IsFiniteSet(BytesOf(w, DOMAIN w)) /\ OnWire(w) \in Nat
<1>1. IsFiniteSet(DOMAIN w)
  BY FS_Interval
<1> QED BY <1>1, BytesFinite DEF OnWire

LEMMA WireEmpty == OnWire(<<>>) = 0
<1>1. DOMAIN <<>> = {}
  OBVIOUS
<1> QED BY <1>1, SumNone DEF OnWire

LEMMA Disjoint ==
  ASSUME NEW S, IsFiniteSet(S), NEW T, IsFiniteSet(T), S \cap T = {}
  PROVE  Cardinality(S \cup T) = Cardinality(S) + Cardinality(T)
<1>1. Cardinality(S) \in Nat /\ Cardinality(T) \in Nat /\ Cardinality({}) = 0
  BY FS_CardinalityType, FS_EmptySet
<1>2. Cardinality(S \cup T) = Cardinality(S) + Cardinality(T) - Cardinality(S \cap T)
  BY FS_Union
<1>3. Cardinality(S \cap T) = 0
  BY <1>1, Zenon
<1> DEFINE s == Cardinality(S)
           t == Cardinality(T)
           u == Cardinality(S \cup T)
<1>4. s \in Nat /\ t \in Nat /\ u = s + t - 0
  BY <1>1, <1>2, <1>3, Zenon
<1> HIDE DEF s, t, u
<1>5. u = s + t
  BY <1>4
<1> QED BY <1>5 DEF s, t, u

LEMMA WireAppend ==
  ASSUME NEW w \in Seq(Nat), NEW n \in Nat
  PROVE  OnWire(Append(w, n)) = OnWire(w) + n
<1> DEFINE v == Append(w, n)
           k == Len(w) + 1
           R == {k} \X (1 .. n)
<1>1. DOMAIN v = (DOMAIN w) \cup {k} /\ v[k] = n /\ \A i \in DOMAIN w : v[i] = w[i]
  OBVIOUS
<1>2. DOMAIN w = 1 .. Len(w) /\ k \notin DOMAIN w
  OBVIOUS
<1> HIDE DEF v, k
<1>3. BytesOf(v, DOMAIN v) = BytesOf(w, DOMAIN w) \cup R
  BY <1>1 DEF BytesOf
<1>4. BytesOf(w, DOMAIN w) \cap R = {}
  BY <1>2 DEF BytesOf
<1>5. IsFiniteSet(R) /\ Cardinality(R) = n
  BY RowFinite
<1>6. IsFiniteSet(BytesOf(w, DOMAIN w)) /\ OnWire(w) \in Nat
  BY WireFinite
<1>7. Cardinality(BytesOf(w, DOMAIN w) \cup R) = Cardinality(BytesOf(w, DOMAIN w)) + n
  BY <1>4, <1>5, <1>6, Disjoint
<1> QED BY <1>3, <1>7 DEF OnWire, SumOf, v

LEMMA WireTail ==
  ASSUME NEW w \in Seq(Nat), w # <<>>
  PROVE  Head(w) \in Nat /\ Tail(w) \in Seq(Nat) /\ OnWire(w) = Head(w) + OnWire(Tail(w))
<1> DEFINE t == Tail(w)
           h == Head(w)
           R == {1} \X (1 .. h)
           B == BytesOf(t, DOMAIN t)
           D == BytesOf(w, 2 .. Len(w))
           g == [b \in B |-> <<b[1] + 1, b[2]>>]
<1>1. h \in Nat /\ t \in Seq(Nat) /\ h = w[1] /\ Len(w) \in Nat \ {0}
  OBVIOUS
<1>2. DOMAIN t = 1 .. Len(w) - 1 /\ DOMAIN w = 1 .. Len(w) /\ \A i \in DOMAIN t : t[i] = w[i + 1]
  OBVIOUS
<1> HIDE DEF t, h
<1>3. BytesOf(w, DOMAIN w) = D \cup R /\ D \cap R = {}
  <2>1. DOMAIN w = {1} \cup (2 .. Len(w)) /\ 1 \notin 2 .. Len(w)
    BY <1>1, <1>2
  <2>2. \A b : b \in R <=> \E j \in 1 .. w[1] : b = <<1, j>>
    BY <1>1
  <2>3. \A b : b \in D <=> \E i \in 2 .. Len(w) : \E j \in 1 .. w[i] : b = <<i, j>>
    BY DEF BytesOf
  <2>4. \A b : b \in BytesOf(w, DOMAIN w) <=> \E i \in DOMAIN w : \E j \in 1 .. w[i] : b = <<i, j>>
    BY InBytes
  <2> HIDE DEF D, R
  <2>5. BytesOf(w, DOMAIN w) = D \cup R
    <3>1. ASSUME NEW b \in BytesOf(w, DOMAIN w) PROVE b \in D \cup R
      <4>1. PICK i \in DOMAIN w : \E j \in 1 .. w[i] : b = <<i, j>>
        BY <2>4
      <4>2. CASE i = 1
        BY <4>1, <4>2, <2>2
      <4>3. CASE i \in 2 .. Len(w)
        BY <4>1, <4>3, <2>3
      <4> QED BY <4>2, <4>3, <2>1
    <3>2. \A b \in D : b \in BytesOf(w, DOMAIN w)
      BY <2>1, <2>3, <2>4
    <3>3. \A b \in R : b \in BytesOf(w, DOMAIN w)
      BY <2>1, <2>2, <2>4
    <3> QED BY <3>1, <3>2, <3>3
  <2>6. D \cap R = {}
    BY <2>1, <2>2, <2>3
  <2> QED BY <2>5, <2>6
<1>15. \A i \in DOMAIN t : i + 1 \in 2 .. Len(w) /\ w[i + 1] = t[i]
  <2> DEFINE k == Len(w)
  <2>1. k \in Nat \ {0} /\ DOMAIN t = 1 .. k - 1 /\ \A i \in DOMAIN t : t[i] = w[i + 1]
    BY <1>1, <1>2
  <2> HIDE DEF k
  <2>2. \A i \in 1 .. k - 1 : i + 1 \in 2 .. k
    BY <2>1
  <2> QED BY <2>1, <2>2, Zenon DEF k
<1>4. \A b : b \in D <=> \E i \in 2 .. Len(w) : \E j \in 1 .. w[i] : b = <<i, j>>
  BY DEF BytesOf
<1>5. \A b : b \in B <=> \E i \in DOMAIN t : \E j \in 1 .. t[i] : b = <<i, j>>
  BY InBytes
<1>6. \A i \in 2 .. Len(w) : i - 1 \in DOMAIN t /\ t[i - 1] = w[i]
  <2> TAKE i \in 2 .. Len(w)
  <2>1. i - 1 \in DOMAIN t /\ (i - 1) + 1 = i
    BY <1>1, <1>2
  <2> QED BY <2>1, <1>2
<1> HIDE DEF B, D
<1>16. \A b \in B : \E i \in DOMAIN t : \E j \in 1 .. t[i] : b = <<i, j>> /\ g[b] = <<i + 1, j>>
  BY <1>5
<1>7. g \in [B -> D]
  BY <1>4, <1>15, <1>16
<1>8. \A b \in D : \E a \in B : g[a] = b
  <2> TAKE b \in D
  <2>0. PICK i \in 2 .. Len(w) : \E j \in 1 .. w[i] : b = <<i, j>>
    BY <1>4
  <2>1. PICK j \in 1 .. w[i] : b = <<i, j>>
    BY <2>0
  <2>2. i - 1 \in DOMAIN t /\ j \in 1 .. t[i - 1] /\ (i - 1) + 1 = i
    BY <1>6
  <2>3. <<i - 1, j>> \in B
    BY <2>2, <1>5
  <2>4. g[<<i - 1, j>>] = b
    BY <2>1, <2>2, <2>3
  <2> QED BY <2>3, <2>4
<1>9. \A a, b \in B : g[a] = g[b] => a = b
  <2> HIDE DEF g
  <2>1. \A i \in DOMAIN t : i \in Nat
    BY <1>2
  <2> TAKE a, b \in B
  <2> HAVE g[a] = g[b]
  <2>2. PICK i \in DOMAIN t : \E j \in 1 .. t[i] : a = <<i, j>> /\ g[a] = <<i + 1, j>>
    BY <1>16
  <2>3. PICK k \in DOMAIN t : \E j \in 1 .. t[k] : b = <<k, j>> /\ g[b] = <<k + 1, j>>
    BY <1>16
  <2>4. i = k
    BY <2>1, <2>2, <2>3
  <2> QED BY <2>2, <2>3, <2>4
<1>10. g \in Bijection(B, D)
  <2> HIDE DEF g
  <2> QED BY <1>7, <1>8, <1>9 DEF Bijection, Injection, Surjection, IsInjective
<1>11. IsFiniteSet(B) /\ OnWire(t) \in Nat
  BY <1>1, WireFinite DEF B
<1>12. IsFiniteSet(D) /\ Cardinality(D) = Cardinality(B)
  BY <1>10, <1>11, FS_Bijection DEF ExistsBijection
<1>13. IsFiniteSet(R) /\ Cardinality(R) = h
  BY <1>1, RowFinite
<1>14. Cardinality(D \cup R) = Cardinality(D) + Cardinality(R)
  BY <1>3, <1>12, <1>13, Disjoint
<1>17. OnWire(w) = Cardinality(D \cup R) /\ OnWire(t) = Cardinality(B)
  BY <1>3 DEF OnWire, SumOf, B
<1>18. OnWire(w) = h + OnWire(t)
  BY <1>1, <1>11, <1>12, <1>13, <1>14, <1>17
<1> QED BY <1>1, <1>18 DEF t, h

-----------------------------------------------------------------------------
(***************************************************************************)
(* The meter.                                                              *)
(***************************************************************************)
Owned == moved + again
Claimed == raw + M!Wire
Reading(seen) == M!FlowReading(seen, node.conntrack)
CutReading(seen, ct) == M!FlowReading(seen, ct)
CoreDue(was) == M!CoreDelta(was, counter)
FlowDue(was) == M!FlowDelta(was, Reading(M!Open))
Deltas(clash) == [c \in Conns |-> M!CoreDelta(clash[c], conn[c].core)]
ClashDue(clash) == M!Sum(Deltas(clash), M!Open)
NoClash == [c \in Conns |-> M!None]
Seen == Nat \cup {-1}
Clashes == [Conns -> Seen]

MeterTypes ==
  /\ M!TypeOK
  /\ \A c \in Conns : conn[c].st = "new" => conn[c].core = 0 /\ conn[c].sock = 0
  /\ node.core = "xray" => last.clash = NoClash /\ collect.next.clash = NoClash

Covered(bill, twice, cur) ==
  /\ Claimed + bill + CoreDue(cur.core) <= Owned + twice
  /\ Claimed + bill + FlowDue(cur.flow) <= Owned + twice
  /\ Claimed + bill + ClashDue(cur.clash) <= Owned + twice

CoresRead ==
  collect.st = "cores" =>
    /\ collect.next.flow = last.flow
    /\ collect.ok => /\ collect.next.clash = NoClash
                     /\ Claimed + collect.core + CoreDue(collect.next.core) <= Owned
                     /\ Claimed + FlowDue(last.flow) + CoreDue(collect.next.core) <= Owned
    /\ ~collect.ok => /\ collect.next.core = last.core
                      /\ Claimed + collect.core + ClashDue(collect.next.clash) <= Owned

FrameReady == collect.st = "send" => Covered(collect.amount, collect.again, collect.next)

MeterInv == MeterTypes /\ Covered(0, 0, last) /\ CoresRead /\ FrameReady

Multiplied == used * Den <= raw * Num

-----------------------------------------------------------------------------
LEMMA DeltaNat ==
  ASSUME NEW was \in Seen, NEW now \in Nat
  PROVE  /\ M!CoreDelta(was, now) \in Nat /\ M!FlowDelta(was, now) \in Nat
         /\ M!Moved(was, now) \in Seen
BY DEF M!CoreDelta, M!FlowDelta, M!Moved, M!None, Seen

LEMMA DeltaStep ==
  ASSUME NEW was \in Seen, NEW now \in Nat, NEW later \in Nat
  PROVE  /\ later = now + 1 => M!CoreDelta(was, later) <= M!CoreDelta(was, now) + 1
         /\ M!CoreDelta(was, 0) = 0 /\ M!FlowDelta(was, 0) = 0
         /\ later <= now => M!FlowDelta(was, later) <= M!FlowDelta(was, now)
         /\ later <= now + 1 => M!FlowDelta(was, later) <= M!FlowDelta(was, now) + 1
BY DEF M!CoreDelta, M!FlowDelta, M!None, Seen

LEMMA DeltaAfter ==
  ASSUME NEW was \in Seen, NEW now \in Nat
  PROVE  /\ M!CoreDelta(M!Moved(was, now), now) = 0 /\ M!FlowDelta(M!Moved(was, now), now) = 0
         /\ M!CoreDelta(now, now) = 0 /\ M!CoreDelta(-1, now) = 0
BY DEF M!CoreDelta, M!FlowDelta, M!Moved, M!None, Seen

LEMMA LargerNat ==
  ASSUME NEW a \in Nat, NEW b \in Nat
  PROVE  M!Larger(a, b) \in Nat /\ a <= M!Larger(a, b) /\ b <= M!Larger(a, b)
         /\ M!Larger(a, b) \in {a, b}
BY DEF M!Larger

\* The larger of three sums rises no faster than they do.
LEMMA LargestStep ==
  ASSUME NEW x \in Nat, NEW y \in Nat, NEW z \in Nat, NEW x2 \in Nat, NEW y2 \in Nat, NEW z2 \in Nat,
         NEW k \in Nat, x2 <= x + k, y2 <= y + k, z2 <= z + k
  PROVE  M!Larger(M!Larger(x2, y2), z2) <= M!Larger(M!Larger(x, y), z) + k
BY DEF M!Larger

-----------------------------------------------------------------------------
Sockets == [c \in Conns |-> conn[c].sock]
OverTCP(seen) == {c \in seen : ~conn[c].udp}
Marked == IF node.conntrack /\ node.copied THEN SumOf(Sockets, M!Open) ELSE 0
Printed(seen) == SumOf(Sockets, OverTCP(seen))
Rows(seen) == IF node.conntrack THEN SumOf(Sockets, seen) ELSE 0

LEMMA ReadingIs ==
  \A seen : Reading(seen) = M!Larger(M!Larger(Marked, Printed(seen)), Rows(seen))
<1> TAKE seen
<1>1. \A S : M!Sum(Sockets, S) = SumOf(Sockets, S)
  BY SumIs
<1>2. M!CtMarks(node.conntrack) = Marked
  BY <1>1 DEF M!CtMarks, Marked, M!Sock, Sockets
<1>3. M!SSMarks(seen) = Printed(seen)
  BY <1>1 DEF M!SSMarks, Printed, OverTCP, M!Sock, Sockets
<1>4. M!Joined(seen, node.conntrack) = Rows(seen)
  BY <1>1 DEF M!Joined, Rows, M!Sock, Sockets
<1> QED BY <1>2, <1>3, <1>4, Zenon DEF Reading, M!FlowReading

LEMMA OpenReading ==
  Reading(M!Open) = M!Larger(M!Larger(Marked, Printed(M!Open)), Rows(M!Open))
BY ReadingIs

Links == conn \in [Conns -> [st : {"new", "open", "closed"}, udp : BOOLEAN, core : Nat, sock : Nat]]

LEMMA ConnsFinite ==
  ASSUME NEW S, S \subseteq Conns
  PROVE  IsFiniteSet(S)
<1>1. IsFiniteSet(Conns)
  BY MeterAssumption DEF M!MeterAssumption, M!IsFiniteSet, IsFiniteSet
<1> QED BY <1>1, FS_Subset

LEMMA ReadingParts ==
  ASSUME Links, NEW seen, seen \subseteq Conns
  PROVE  Marked \in Nat /\ Printed(seen) \in Nat /\ Rows(seen) \in Nat /\ Reading(seen) \in Nat
<1>1. \A c \in Conns : Sockets[c] \in Nat
  BY DEF Links, Sockets
<1>2. OverTCP(seen) \subseteq Conns /\ M!Open \subseteq Conns
  BY DEF OverTCP, M!Open
<1>3. \A S : S \subseteq Conns => SumOf(Sockets, S) \in Nat
  BY <1>1, ConnsFinite, BytesFinite
<1>4. Marked \in Nat /\ Printed(seen) \in Nat /\ Rows(seen) \in Nat
  BY <1>2, <1>3 DEF Marked, Printed, Rows
<1> QED BY <1>4, ReadingIs, LargerNat

\* Fewer sockets in the list of ss are a smaller reading.
LEMMA ReadingLess ==
  ASSUME Links, NEW seen, seen \subseteq M!Open
  PROVE  Reading(seen) \in Nat /\ Reading(M!Open) \in Nat /\ Reading(seen) <= Reading(M!Open)
<1>1. M!Open \subseteq Conns /\ seen \subseteq Conns
  BY DEF M!Open
<1>2. \A c \in Conns : Sockets[c] \in Nat /\ Sockets[c] <= Sockets[c]
  BY DEF Links, Sockets
<1>3. OverTCP(seen) \subseteq OverTCP(M!Open) /\ OverTCP(M!Open) \subseteq Conns
  BY <1>1 DEF OverTCP
<1>4. Printed(seen) <= Printed(M!Open)
  BY <1>2, <1>3, SumLess, ConnsFinite DEF Printed
<1>5. SumOf(Sockets, seen) <= SumOf(Sockets, M!Open)
  BY <1>1, <1>2, SumLess, ConnsFinite
<1>6. Rows(seen) <= Rows(M!Open)
  BY <1>5 DEF Rows
<1>7. /\ Marked \in Nat /\ Printed(seen) \in Nat /\ Rows(seen) \in Nat /\ Reading(seen) \in Nat
      /\ Printed(M!Open) \in Nat /\ Rows(M!Open) \in Nat /\ Reading(M!Open) \in Nat
  BY <1>1, ReadingParts, Zenon
<1>8. Marked <= Marked + 0 /\ Printed(seen) <= Printed(M!Open) + 0 /\ Rows(seen) <= Rows(M!Open) + 0
  BY <1>4, <1>6, <1>7
<1>9. M!Larger(M!Larger(Marked, Printed(seen)), Rows(seen))
        <= M!Larger(M!Larger(Marked, Printed(M!Open)), Rows(M!Open)) + 0
  BY <1>7, <1>8, LargestStep
<1>10. Reading(seen) <= Reading(M!Open) + 0
  BY <1>9, ReadingIs, Zenon
<1> QED BY <1>7, <1>10

\* Nor is a tick without conntrack a larger reading than a tick with it.
LEMMA CutLess ==
  ASSUME Links, NEW seen, seen \subseteq M!Open, NEW ct \in BOOLEAN, ct => node.conntrack
  PROVE  /\ CutReading(seen, ct) \in Nat /\ Reading(M!Open) \in Nat
         /\ CutReading(seen, ct) <= Reading(M!Open)
<1>1. Reading(seen) \in Nat /\ Reading(M!Open) \in Nat /\ Reading(seen) <= Reading(M!Open)
  BY ReadingLess
<1>2. CASE ct
  <2>1. CutReading(seen, ct) = Reading(seen)
    BY <1>2 DEF CutReading, Reading, M!FlowReading, M!CtMarks, M!Joined
  <2> QED BY <1>1, <2>1
<1>3. CASE ~ct
  <2>1. M!SSMarks(seen) = Printed(seen)
    <3>1. \A S : M!Sum(Sockets, S) = SumOf(Sockets, S)
      BY SumIs
    <3> QED BY <3>1 DEF M!SSMarks, Printed, OverTCP, M!Sock, Sockets
  <2>2. CutReading(seen, ct) = M!Larger(M!Larger(0, Printed(seen)), 0)
    BY <1>3, <2>1 DEF CutReading, M!FlowReading, M!CtMarks, M!Joined
  <2>3. Marked \in Nat /\ Printed(seen) \in Nat /\ Rows(seen) \in Nat
    <3>1. seen \subseteq Conns
      BY DEF M!Open
    <3> QED BY <3>1, ReadingParts
  <2>4. 0 <= Marked + 0 /\ Printed(seen) <= Printed(seen) + 0 /\ 0 <= Rows(seen) + 0
    BY <2>3
  <2>5. M!Larger(M!Larger(0, Printed(seen)), 0)
          <= M!Larger(M!Larger(Marked, Printed(seen)), Rows(seen)) + 0
    BY <2>3, <2>4, LargestStep
  <2>6. CutReading(seen, ct) <= Reading(seen) + 0
    BY <2>2, <2>5, ReadingIs
  <2>7. CutReading(seen, ct) \in Nat
    BY <2>2, <2>3, LargerNat
  <2> QED BY <1>1, <2>6, <2>7
<1> QED BY <1>2, <1>3

-----------------------------------------------------------------------------
(***************************************************************************)
(* What the cursors leave to be billed, before and after a step.           *)
(***************************************************************************)
Counters == Links /\ counter \in Nat /\ node \in M!Node

DeltasAre ==
  Counters => \A clash \in Clashes : \A c \in Conns :
    Deltas(clash)[c] = M!CoreDelta(clash[c], conn[c].core) /\ Deltas(clash)[c] \in Nat

LEMMA DeltasNat == DeltasAre
BY DeltaNat DEF DeltasAre, Deltas, Clashes, Counters, Links

LEMMA DueNat ==
  Counters => /\ \A was \in Seen : CoreDue(was) \in Nat /\ FlowDue(was) \in Nat
              /\ \A clash \in Clashes : ClashDue(clash) \in Nat
<1> HAVE Counters
<1>1. M!Open \subseteq Conns
  BY DEF M!Open
<1>2. Reading(M!Open) \in Nat
  BY <1>1, ReadingParts DEF Counters
<1>3. \A was \in Seen : CoreDue(was) \in Nat /\ FlowDue(was) \in Nat
  BY <1>2, DeltaNat DEF CoreDue, FlowDue, Counters
<1>4. ASSUME NEW clash \in Clashes PROVE ClashDue(clash) \in Nat
  <2>1. \A c \in M!Open : Deltas(clash)[c] \in Nat
    BY <1>1, DeltasNat DEF DeltasAre
  <2>2. SumOf(Deltas(clash), M!Open) \in Nat
    BY <1>1, <2>1, ConnsFinite, BytesFinite
  <2> QED BY <2>2, SumIs DEF ClashDue
<1> QED BY <1>3, <1>4

\* No cursor leaves more than k bytes more than before.
Rise(k) ==
  /\ \A was \in Seen : CoreDue(was)' <= CoreDue(was) + k /\ FlowDue(was)' <= FlowDue(was) + k
  /\ \A clash \in Clashes : ClashDue(clash)' <= ClashDue(clash) + k

LEMMA OpenParts ==
  Counters => /\ Marked \in Nat /\ Printed(M!Open) \in Nat /\ Rows(M!Open) \in Nat
              /\ Reading(M!Open) \in Nat
BY ReadingParts DEF Counters, M!Open

\* A reading rises no faster than its three sources.
LEMMA ReadingStep ==
  ASSUME Counters, Counters', NEW k \in Nat, Marked' <= Marked + k,
         Printed(M!Open)' <= Printed(M!Open) + k, Rows(M!Open)' <= Rows(M!Open) + k
  PROVE  Reading(M!Open)' <= Reading(M!Open) + k /\ Reading(M!Open)' \in Nat /\ Reading(M!Open) \in Nat
<1> DEFINE O == M!Open
           x == M!Larger(M!Larger(Marked, Printed(O)), Rows(O))
           y == M!Larger(M!Larger(Marked', Printed(O)'), Rows(O)')
<1>1. (Counters => /\ Marked \in Nat /\ Printed(M!Open) \in Nat /\ Rows(M!Open) \in Nat
                   /\ Reading(M!Open) \in Nat)'
  BY OpenParts, PTL
<1>2. (Reading(M!Open) = M!Larger(M!Larger(Marked, Printed(M!Open)), Rows(M!Open)))'
  BY OpenReading, PTL
<1>3. Reading(O) = x /\ Reading(O)' = y
  BY <1>2, OpenReading, Zenon
<1>4. /\ Marked \in Nat /\ Printed(O) \in Nat /\ Rows(O) \in Nat /\ Reading(O) \in Nat
      /\ Marked' \in Nat /\ Printed(O)' \in Nat /\ Rows(O)' \in Nat /\ Reading(O)' \in Nat
  BY <1>1, OpenParts, Zenon
<1>5. Marked' <= Marked + k /\ Printed(O)' <= Printed(O) + k /\ Rows(O)' <= Rows(O) + k
  OBVIOUS
<1> HIDE DEF O
<1>6. y <= x + k
  BY <1>4, <1>5, LargestStep
<1> QED BY <1>3, <1>4, <1>6, Zenon DEF O

\* A step in which connection d counts at most one byte, and none is opened.
LEMMA RiseByOne ==
  ASSUME Counters, Counters', node' = node, NEW d \in M!Open, (M!Open)' = M!Open,
         counter' = counter \/ counter' = counter + 1,
         \A c \in Conns : /\ conn'[c].udp = conn[c].udp
                          /\ conn'[c].sock <= conn[c].sock + (IF c = d THEN 1 ELSE 0)
                          /\ \/ conn'[c].core = conn[c].core
                             \/ c = d /\ conn'[c].core = conn[c].core + 1
  PROVE  Rise(1)
<1>1. M!Open \subseteq Conns /\ d \in Conns
  BY DEF M!Open
<1>2. \A was \in Seen : CoreDue(was)' <= CoreDue(was) + 1
  BY DeltaStep, DeltaNat DEF CoreDue, Counters
<1>3. ASSUME NEW S, S \subseteq Conns
      PROVE  SumOf(Sockets, S) \in Nat /\ SumOf(Sockets', S) \in Nat /\ SumOf(Sockets', S) <= SumOf(Sockets, S) + 1
  <2>1. \A c \in Conns : /\ Sockets[c] \in Nat /\ Sockets'[c] \in Nat
                         /\ Sockets'[c] <= Sockets[c] + (IF c = d THEN 1 ELSE 0)
    BY DEF Sockets, Counters, Links
  <2>2. IsFiniteSet(S)
    BY <1>3, ConnsFinite
  <2>3. CASE d \in S
    BY <1>3, <2>1, <2>2, <2>3, SumMore
  <2>4. CASE d \notin S
    <3>1. \A c \in S : Sockets[c] \in Nat /\ Sockets'[c] \in Nat /\ Sockets'[c] <= Sockets[c]
      BY <1>3, <2>1, <2>4
    <3>2. SumOf(Sockets', S) \in Nat /\ SumOf(Sockets', S) <= SumOf(Sockets, S) /\ SumOf(Sockets, S) \in Nat
      BY <3>1, <2>2, SumLess
    <3> QED BY <3>2
  <2> QED BY <2>3, <2>4
<1>4. Reading(M!Open)' <= Reading(M!Open) + 1 /\ Reading(M!Open)' \in Nat /\ Reading(M!Open) \in Nat
  <2>1. OverTCP(M!Open)' = OverTCP(M!Open) /\ OverTCP(M!Open) \subseteq Conns
    BY <1>1 DEF OverTCP
  <2>2. Marked' <= Marked + 1
    BY <1>1, <1>3 DEF Marked
  <2>3. Printed(M!Open)' <= Printed(M!Open) + 1
    BY <2>1, <1>3 DEF Printed
  <2>4. Rows(M!Open)' <= Rows(M!Open) + 1
    BY <1>1, <1>3 DEF Rows
  <2> QED BY <2>2, <2>3, <2>4, ReadingStep
<1>5. \A was \in Seen : FlowDue(was)' <= FlowDue(was) + 1
  BY <1>4, DeltaStep DEF FlowDue
<1>6. ASSUME NEW clash \in Clashes PROVE ClashDue(clash)' <= ClashDue(clash) + 1
  <2>1. \A c \in Conns : /\ Deltas(clash)[c] \in Nat /\ Deltas(clash)'[c] \in Nat
                         /\ Deltas(clash)'[c] <= Deltas(clash)[c] + (IF c = d THEN 1 ELSE 0)
    <3> TAKE c \in Conns
    <3>1. Deltas(clash)[c] = M!CoreDelta(clash[c], conn[c].core) /\ Deltas(clash)[c] \in Nat
      BY DeltasNat DEF DeltasAre
    <3>2. Deltas(clash)'[c] = M!CoreDelta(clash[c], conn'[c].core) /\ Deltas(clash)'[c] \in Nat
      <4>1. DeltasAre'
        BY DeltasNat, PTL
      <4> QED BY <4>1, Zenon DEF DeltasAre
    <3>3. clash[c] \in Seen /\ conn[c].core \in Nat /\ conn'[c].core \in Nat
      BY DEF Clashes, Counters, Links
    <3> QED BY <3>1, <3>2, <3>3, DeltaStep
  <2>2. SumOf(Deltas(clash)', M!Open) <= SumOf(Deltas(clash), M!Open) + 1
    BY <1>1, <2>1, ConnsFinite, SumMore
  <2>3. ClashDue(clash) = SumOf(Deltas(clash), M!Open) /\ ClashDue(clash)' = SumOf(Deltas(clash)', M!Open)
    BY SumIs DEF ClashDue
  <2> QED BY <2>2, <2>3
<1> QED BY <1>2, <1>5, <1>6 DEF Rise

\* A step in which connections are opened that counted nothing, or are closed,
\* and the counter may start again.
LEMMA RiseByNone ==
  ASSUME Counters, Counters', node' = node, counter' = counter \/ counter' = 0,
         \A c \in (M!Open)' :
           /\ conn'[c].udp = conn[c].udp
           /\ \/ conn'[c].sock = 0 /\ conn'[c].core = 0
              \/ c \in M!Open /\ conn'[c].sock = conn[c].sock /\ conn'[c].core = conn[c].core
  PROVE  Rise(0)
<1>1. M!Open \subseteq Conns /\ (M!Open)' \subseteq Conns
  BY DEF M!Open
<1>2. \A was \in Seen : CoreDue(was)' <= CoreDue(was) + 0
  <2> TAKE was \in Seen
  <2>1. counter \in Nat /\ counter' \in Nat
    BY DEF Counters
  <2>2. M!CoreDelta(was, counter') = M!CoreDelta(was, counter) \/ M!CoreDelta(was, counter') = 0
    BY <2>1, DeltaStep
  <2>3. M!CoreDelta(was, counter) \in Nat
    BY <2>1, DeltaNat
  <2> QED BY <2>2, <2>3 DEF CoreDue
<1>3. ASSUME NEW S, NEW T, S \subseteq Conns, T \subseteq Conns,
             \A c \in T : conn'[c].sock = 0 \/ (c \in S /\ conn'[c].sock = conn[c].sock)
      PROVE  SumOf(Sockets, S) \in Nat /\ SumOf(Sockets', T) \in Nat /\ SumOf(Sockets', T) <= SumOf(Sockets, S) + 0
  <2>1. IsFiniteSet(S) /\ IsFiniteSet(T)
    BY <1>3, ConnsFinite
  <2>2. /\ \A c \in S : Sockets[c] \in Nat
        /\ \A c \in T : Sockets'[c] \in Nat /\ (Sockets'[c] = 0 \/ (c \in S /\ Sockets'[c] <= Sockets[c]))
    BY <1>3 DEF Sockets, Counters, Links
  <2>3. SumOf(Sockets, S) \in Nat /\ SumOf(Sockets', T) \in Nat /\ SumOf(Sockets', T) <= SumOf(Sockets, S)
    BY <2>1, <2>2, SumLess
  <2> QED BY <2>3
<1>4. Reading(M!Open)' <= Reading(M!Open) + 0 /\ Reading(M!Open)' \in Nat /\ Reading(M!Open) \in Nat
  <2>1. SumOf(Sockets', (M!Open)') <= SumOf(Sockets, M!Open) + 0
    BY <1>1, <1>3
  <2>2. Marked' <= Marked + 0 /\ Rows(M!Open)' <= Rows(M!Open) + 0
    BY <2>1 DEF Marked, Rows
  <2>3. SumOf(Sockets', OverTCP(M!Open)') <= SumOf(Sockets, OverTCP(M!Open)) + 0
    <3>1. OverTCP(M!Open)' \subseteq Conns /\ OverTCP(M!Open) \subseteq Conns
      BY <1>1 DEF OverTCP
    <3>2. \A c \in OverTCP(M!Open)' : conn'[c].sock = 0 \/ (c \in OverTCP(M!Open) /\ conn'[c].sock = conn[c].sock)
      BY <1>1 DEF OverTCP
    <3> QED BY <3>1, <3>2, <1>3
  <2>4. Printed(M!Open)' <= Printed(M!Open) + 0
    BY <2>3 DEF Printed
  <2> QED BY <2>2, <2>4, ReadingStep
<1>5. \A was \in Seen : FlowDue(was)' <= FlowDue(was) + 0
  BY <1>4, DeltaStep, DeltaNat DEF FlowDue
<1>6. ASSUME NEW clash \in Clashes PROVE ClashDue(clash)' <= ClashDue(clash) + 0
  <2>1. \A c \in (M!Open)' : /\ Deltas(clash)'[c] \in Nat
                             /\ \/ Deltas(clash)'[c] = 0
                                \/ c \in M!Open /\ Deltas(clash)'[c] <= Deltas(clash)[c]
    <3> TAKE c \in (M!Open)'
    <3>0. c \in Conns
      BY <1>1
    <3>1. Deltas(clash)[c] = M!CoreDelta(clash[c], conn[c].core) /\ Deltas(clash)[c] \in Nat
      BY <3>0, DeltasNat DEF DeltasAre
    <3>2. Deltas(clash)'[c] = M!CoreDelta(clash[c], conn'[c].core) /\ Deltas(clash)'[c] \in Nat
      <4>1. DeltasAre'
        BY DeltasNat, PTL
      <4> QED BY <3>0, <4>1, Zenon DEF DeltasAre
    <3>3. clash[c] \in Seen
      BY <3>0 DEF Clashes
    <3> QED BY <3>1, <3>2, <3>3, DeltaStep
  <2>2. \A c \in M!Open : Deltas(clash)[c] \in Nat
    BY <1>1, DeltasNat DEF DeltasAre
  <2>3. /\ SumOf(Deltas(clash), M!Open) \in Nat
        /\ SumOf(Deltas(clash)', (M!Open)') <= SumOf(Deltas(clash), M!Open)
    BY <1>1, <2>1, <2>2, ConnsFinite, SumLess
  <2>4. ClashDue(clash) = SumOf(Deltas(clash), M!Open) /\ ClashDue(clash)' = SumOf(Deltas(clash)', (M!Open)')
    BY SumIs DEF ClashDue
  <2> QED BY <2>3, <2>4
<1> QED BY <1>2, <1>5, <1>6 DEF Rise

-----------------------------------------------------------------------------
(***************************************************************************)
(* Types.                                                                  *)
(***************************************************************************)
MeterCursors == [core : Seen, flow : Seen, clash : Clashes]
MeterCollects == [st : {"idle", "cores", "send"}, core : Nat, ok : BOOLEAN, amount : Nat, again : Nat,
             next : MeterCursors]

LEMMA TypeSets ==
  /\ M!Readings = Seen /\ M!Cursor = MeterCursors /\ M!Collect = MeterCollects
  /\ M!NoCursor = [core |-> -1, flow |-> -1, clash |-> NoClash] /\ M!NoCursor \in MeterCursors
  /\ M!NoCollect = [st |-> "idle", core |-> 0, ok |-> FALSE, amount |-> 0, again |-> 0, next |-> M!NoCursor]
  /\ M!NoCollect \in MeterCollects /\ NoClash \in Clashes
BY DEF M!Readings, M!Cursor, M!Collect, M!None, M!NoCursor, M!NoCollect, Seen, MeterCursors, MeterCollects, Clashes, NoClash

LEMMA TypesAre ==
  MeterTypes =>
    /\ Counters /\ last \in MeterCursors /\ collect \in MeterCollects
    /\ moved \in Nat /\ again \in Nat /\ raw \in Nat /\ used \in Nat /\ wire \in Seq(Nat)
    /\ Claimed = raw + OnWire(wire) /\ OnWire(wire) \in Nat /\ Claimed \in Nat /\ Owned \in Nat
<1> HAVE MeterTypes
<1>1. /\ Counters /\ last \in MeterCursors /\ collect \in MeterCollects
      /\ moved \in Nat /\ again \in Nat /\ raw \in Nat /\ used \in Nat /\ wire \in Seq(Nat)
  BY TypeSets DEF MeterTypes, M!TypeOK, Counters, Links, M!Conn
<1>2. M!Wire = OnWire(wire)
  BY SumIs DEF M!Wire, OnWire
<1>3. OnWire(wire) \in Nat
  BY <1>1, WireFinite
<1>4. Claimed = raw + OnWire(wire)
  BY <1>2 DEF Claimed
<1>5. Claimed \in Nat /\ Owned \in Nat
  BY <1>1, <1>3, <1>4 DEF Owned
<1> QED BY <1>1, <1>3, <1>4, <1>5

\* A failed, cut or finished reading is a collect.
LEMMA CollectTypes ==
  ASSUME last \in MeterCursors, collect \in MeterCollects, NEW n \in Nat, NEW m \in Nat, NEW ok \in BOOLEAN,
         NEW cursor2 \in MeterCursors, NEW was \in Seen
  PROVE  /\ [st |-> "cores", core |-> n, ok |-> ok, amount |-> 0, again |-> 0, next |-> cursor2] \in MeterCollects
         /\ [collect EXCEPT !.st = "send", !.amount = n, !.next.flow = was, !.again = m] \in MeterCollects
<1>1. [st |-> "cores", core |-> n, ok |-> ok, amount |-> 0, again |-> 0, next |-> cursor2] \in MeterCollects
  BY DEF MeterCollects
<1> DEFINE new2 == [collect EXCEPT !.st = "send", !.amount = n, !.next.flow = was, !.again = m]
<1>2. [collect.next EXCEPT !.flow = was] \in MeterCursors
  BY DEF MeterCollects, MeterCursors
<1>3. new2 \in MeterCollects
  BY <1>2 DEF MeterCollects
<1> QED BY <1>1, <1>3

LEMMA ConnTypes ==
  ASSUME Links, \A c \in Conns : conn[c].st = "new" => conn[c].core = 0 /\ conn[c].sock = 0,
         M!Next
  PROVE  Links' /\ \A c \in Conns : conn'[c].st = "new" => conn'[c].core = 0 /\ conn'[c].sock = 0
<1>1. CASE \E c \in Conns : M!Connect(c)
  BY <1>1 DEF M!Connect, Links
<1>2. CASE \E c \in Conns : M!Transfer(c)
  BY <1>2 DEF M!Transfer, M!Open, Links
<1>3. CASE \E c \in Conns : M!Splice(c)
  BY <1>3 DEF M!Splice, M!Open, Links
<1>4. CASE \E c \in Conns : M!Disconnect(c)
  <2>1. PICK c \in Conns : M!Disconnect(c)
    BY <1>4
  <2> DEFINE r == [conn[c] EXCEPT !.st = "closed", !.core = 0, !.sock = 0]
  <2>2. r \in [st : {"new", "open", "closed"}, udp : BOOLEAN, core : Nat, sock : Nat] /\ r.st = "closed"
    BY DEF Links
  <2>3. conn' = [conn EXCEPT ![c] = r]
    BY <2>1 DEF M!Disconnect
  <2> HIDE DEF r
  <2> QED BY <2>2, <2>3 DEF Links
<1>5. CASE conn' = M!AllClosed
  BY <1>5 DEF M!AllClosed, Links
<1>6. CASE UNCHANGED conn
  BY <1>6 DEF Links
<1> QED BY <1>1, <1>2, <1>3, <1>4, <1>5, <1>6
  DEF M!Next, M!CoreRestart, M!AgentRestart, M!PeekCore, M!PeekClash, M!PeekCoreFail, M!PeekFlows,
      M!PeekFlowsFail, M!PeekFlowsCut, M!Send, M!SendFail, M!Consume, M!ConsumeFail

-----------------------------------------------------------------------------
(***************************************************************************)
(* Steps between the readings.                                             *)
(***************************************************************************)
\* The six amounts the invariant speaks of.
DuesTyped ==
  /\ CoreDue(last.core) \in Nat /\ FlowDue(last.flow) \in Nat /\ ClashDue(last.clash) \in Nat
  /\ CoreDue(collect.next.core) \in Nat /\ FlowDue(collect.next.flow) \in Nat
  /\ ClashDue(collect.next.clash) \in Nat
  /\ last.core \in Seen /\ last.flow \in Seen /\ last.clash \in Clashes
  /\ collect.next.core \in Seen /\ collect.next.flow \in Seen /\ collect.next.clash \in Clashes
  /\ collect.core \in Nat /\ collect.amount \in Nat /\ collect.again \in Nat
  /\ Claimed \in Nat /\ Owned \in Nat

LEMMA DuesAreNat == MeterTypes => DuesTyped
<1> HAVE MeterTypes
<1>1. /\ last.core \in Seen /\ last.flow \in Seen /\ last.clash \in Clashes
      /\ collect.next.core \in Seen /\ collect.next.flow \in Seen /\ collect.next.clash \in Clashes
      /\ collect.core \in Nat /\ collect.amount \in Nat /\ collect.again \in Nat
  BY TypesAre DEF MeterCursors, MeterCollects
<1> QED BY <1>1, TypesAre, DueNat DEF DuesTyped

\* A step that leaves cursors and collect alone, bills nothing more and moves as
\* many bytes as any cursor's due can rise, twice as many between two readings.
LEMMA Steady ==
  ASSUME MeterInv, MeterTypes', NEW k \in Nat, Rise(k), UNCHANGED <<last, collect>>,
         Claimed' <= Claimed, Owned' = Owned + k + (IF collect.st = "cores" THEN k ELSE 0)
  PROVE  MeterInv'
<1>1. MeterTypes /\ Covered(0, 0, last) /\ CoresRead /\ FrameReady
  BY DEF MeterInv
<1>2. DuesTyped
  BY <1>1, DuesAreNat
<1>3. DuesTyped'
  BY DuesAreNat, PTL
<1>4. /\ CoreDue(last.core)' <= CoreDue(last.core) + k
      /\ FlowDue(last.flow)' <= FlowDue(last.flow) + k
      /\ ClashDue(last.clash)' <= ClashDue(last.clash) + k
      /\ CoreDue(collect.next.core)' <= CoreDue(collect.next.core) + k
      /\ FlowDue(collect.next.flow)' <= FlowDue(collect.next.flow) + k
      /\ ClashDue(collect.next.clash)' <= ClashDue(collect.next.clash) + k
  BY <1>2 DEF DuesTyped, Rise, CoreDue, FlowDue, ClashDue, Deltas
<1> USE <1>2, <1>3, <1>4 DEF DuesTyped
<1>5. Covered(0, 0, last)'
  BY <1>1 DEF Covered
<1>6. CoresRead'
  BY <1>1 DEF CoresRead
<1>7. FrameReady'
  BY <1>1 DEF FrameReady, Covered
<1> QED BY <1>5, <1>6, <1>7 DEF MeterInv

\* What the types of a step's result come down to.
LEMMA TypesAfter ==
  ASSUME MeterInv, M!Next, last' \in MeterCursors, collect' \in MeterCollects, node' = node,
         moved' \in Nat, counter' \in Nat, wire' \in Seq(Nat), raw' \in Nat, used' \in Nat, faults' \in Nat,
         again' \in Nat, lost' \in BOOLEAN, base' \in Seen,
         node.core = "xray" => last'.clash = NoClash /\ collect'.next.clash = NoClash
  PROVE  MeterTypes'
<1>1. Links /\ (\A c \in Conns : conn[c].st = "new" => conn[c].core = 0 /\ conn[c].sock = 0) /\ node \in M!Node
  BY TypesAre DEF MeterInv, MeterTypes, Counters
<1>2. Links' /\ \A c \in Conns : conn'[c].st = "new" => conn'[c].core = 0 /\ conn'[c].sock = 0
  BY <1>1, ConnTypes
<1>3. M!TypeOK'
  BY <1>1, <1>2, TypeSets DEF M!TypeOK, Links, M!Conn
<1> QED BY <1>2, <1>3 DEF MeterTypes

LEMMA MeterVars ==
  ASSUME MeterInv
  PROVE  /\ last \in MeterCursors /\ collect \in MeterCollects /\ moved \in Nat /\ counter \in Nat
         /\ wire \in Seq(Nat) /\ raw \in Nat /\ used \in Nat /\ faults \in Nat /\ again \in Nat
         /\ lost \in BOOLEAN /\ base \in Seen /\ Links /\ Counters
         /\ node.core \in {"xray", "singbox"}
         /\ node.core = "xray" => last.clash = NoClash /\ collect.next.clash = NoClash
BY TypesAre, TypeSets DEF MeterInv, MeterTypes, M!TypeOK, Counters, M!Node

LEMMA FaultTypes ==
  ASSUME faults \in Nat, M!Fault
  PROVE  faults' \in Nat
BY DEF M!Fault

LEMMA CountersAfter == MeterTypes => Counters
BY TypesAre

\* Nothing under way changes.
LEMMA SameClaims ==
  ASSUME UNCHANGED <<wire, raw>>
  PROVE  Claimed' = Claimed
BY DEF Claimed, M!Wire

ClaimedIs == Claimed = raw + OnWire(wire) /\ OnWire(wire) \in Nat

LEMMA ClaimsAre == MeterTypes => ClaimedIs
BY TypesAre DEF ClaimedIs

LEMMA RiseStill ==
  ASSUME Counters, UNCHANGED <<node, counter, conn>>
  PROVE  Rise(0)
<1>1. Counters' /\ (M!Open)' = M!Open
  BY DEF Counters, Links, M!Open
<1> QED BY <1>1, RiseByNone

LEMMA DivFacts ==
  ASSUME NEW m \in Nat, NEW d \in Nat \ {0}
  PROVE  m \div d \in Nat /\ (m \div d) * d <= m
OBVIOUS

\* The account grows by no more than the multiplier says.
LEMMA BilledFacts ==
  ASSUME NEW n \in Nat
  PROVE  M!Billed(n) \in Nat /\ M!Billed(n) * Den <= n * Num
<1>1. Num \in Nat /\ Den \in Nat \ {0}
  BY MeterAssumption DEF M!MeterAssumption
<1>2. n * Num \in Nat
  BY <1>1
<1> QED BY <1>1, <1>2, DivFacts DEF M!Billed

LEMMA ConnectKeeps ==
  ASSUME MeterInv, NEW c \in Conns, M!Connect(c)
  PROVE  MeterInv'
<1>0. M!Next
  BY DEF M!Next
<1>1. MeterTypes'
  BY MeterVars, TypesAfter, <1>0 DEF M!Connect
<1>2. Counters /\ Counters'
  <2>1. (MeterTypes => Counters)'
    BY CountersAfter, PTL
  <2> QED BY <1>1, <2>1, MeterVars
<1>3. Rise(0)
  <2> DEFINE r == [conn[c] EXCEPT !.st = "open"]
  <2>1. conn' = [conn EXCEPT ![c] = r] /\ r.st = "open" /\ r.core = 0 /\ r.sock = 0 /\ r.udp = conn[c].udp
    BY DEF M!Connect, MeterInv, MeterTypes, Counters, Links
  <2> HIDE DEF r
  <2>2. \A b \in (M!Open)' : b = c \/ (b \in M!Open /\ conn'[b] = conn[b])
    BY <1>2, <2>1 DEF M!Open, Counters, Links
  <2>3. \A b \in (M!Open)' :
           /\ conn'[b].udp = conn[b].udp
           /\ \/ conn'[b].sock = 0 /\ conn'[b].core = 0
              \/ b \in M!Open /\ conn'[b].sock = conn[b].sock /\ conn'[b].core = conn[b].core
    BY <1>2, <2>1, <2>2 DEF Counters, Links
  <2> QED BY <1>2, <2>3, RiseByNone DEF M!Connect
<1>4. Claimed' = Claimed /\ Owned' = Owned /\ Claimed \in Nat /\ Owned \in Nat
  BY SameClaims, TypesAre DEF M!Connect, Owned, MeterInv
<1>5. Claimed' <= Claimed /\ Owned' = Owned + 0 + (IF collect.st = "cores" THEN 0 ELSE 0)
  BY <1>4
<1> QED BY <1>1, <1>3, <1>5, Steady DEF M!Connect

LEMMA DisconnectKeeps ==
  ASSUME MeterInv, NEW c \in Conns, M!Disconnect(c)
  PROVE  MeterInv'
<1>0. M!Next
  BY DEF M!Next
<1>1. MeterTypes'
  BY MeterVars, TypesAfter, <1>0 DEF M!Disconnect
<1>2. Counters /\ Counters'
  <2>1. (MeterTypes => Counters)'
    BY CountersAfter, PTL
  <2> QED BY <1>1, <2>1, MeterVars
<1>3. Rise(0)
  <2> DEFINE r == [conn[c] EXCEPT !.st = "closed", !.core = 0, !.sock = 0]
  <2>1. conn' = [conn EXCEPT ![c] = r] /\ r.st = "closed"
    BY <1>2 DEF M!Disconnect, Counters, Links
  <2> HIDE DEF r
  <2>2. \A b \in (M!Open)' : b \in M!Open /\ conn'[b] = conn[b]
    BY <1>2, <2>1 DEF M!Open, Counters, Links
  <2> QED BY <1>2, <2>2, RiseByNone DEF M!Disconnect
<1>4. Claimed' = Claimed /\ Owned' = Owned /\ Claimed \in Nat /\ Owned \in Nat
  BY SameClaims, TypesAre DEF M!Disconnect, Owned, MeterInv
<1>5. Claimed' <= Claimed /\ Owned' = Owned + 0 + (IF collect.st = "cores" THEN 0 ELSE 0)
  BY <1>4
<1> QED BY <1>1, <1>3, <1>5, Steady DEF M!Disconnect

\* A byte moved, or two when it may be in both readings.
LEMMA CountOwned ==
  ASSUME M!Count, moved \in Nat, again \in Nat
  PROVE  /\ moved' \in Nat /\ again' \in Nat
         /\ Owned' = Owned + 1 + (IF collect.st = "cores" THEN 1 ELSE 0)
BY DEF M!Count, Owned

LEMMA TransferKeeps ==
  ASSUME MeterInv, NEW c \in Conns, M!Transfer(c)
  PROVE  MeterInv'
<1>0. M!Next
  BY DEF M!Next
<1>1. moved' \in Nat /\ again' \in Nat /\ Owned' = Owned + 1 + (IF collect.st = "cores" THEN 1 ELSE 0)
  BY CountOwned, MeterVars DEF M!Transfer
<1>2. MeterTypes'
  BY <1>1, MeterVars, TypesAfter, <1>0 DEF M!Transfer
<1>3. Counters /\ Counters'
  <2>1. (MeterTypes => Counters)'
    BY CountersAfter, PTL
  <2> QED BY <1>2, <2>1, MeterVars
<1>4. Rise(1)
  <2> DEFINE r == [conn[c] EXCEPT !.core = @ + 1, !.sock = @ + 1]
  <2>1. /\ conn' = [conn EXCEPT ![c] = r] /\ r.st = conn[c].st /\ r.udp = conn[c].udp
        /\ r.core = conn[c].core + 1 /\ r.sock = conn[c].sock + 1
    BY <1>3 DEF M!Transfer, Counters, Links
  <2> HIDE DEF r
  <2>2. (M!Open)' = M!Open /\ c \in M!Open
    BY <1>3, <2>1 DEF M!Transfer, M!Open, Counters, Links
  <2>3. \A b \in Conns : /\ conn'[b].udp = conn[b].udp
                         /\ conn'[b].sock <= conn[b].sock + (IF b = c THEN 1 ELSE 0)
                         /\ \/ conn'[b].core = conn[b].core
                            \/ b = c /\ conn'[b].core = conn[b].core + 1
    BY <1>3, <2>1 DEF Counters, Links
  <2> QED BY <1>3, <2>2, <2>3, RiseByOne DEF M!Transfer
<1>5. Claimed' = Claimed /\ Claimed \in Nat
  BY SameClaims, TypesAre DEF M!Transfer, MeterInv
<1>6. Claimed' <= Claimed
  BY <1>5
<1> QED BY <1>1, <1>2, <1>4, <1>6, Steady DEF M!Transfer

LEMMA SpliceKeeps ==
  ASSUME MeterInv, NEW c \in Conns, M!Splice(c)
  PROVE  MeterInv'
<1>0. M!Next
  BY DEF M!Next
<1>1. moved' \in Nat /\ again' \in Nat /\ Owned' = Owned + 1 + (IF collect.st = "cores" THEN 1 ELSE 0)
  BY CountOwned, MeterVars DEF M!Splice
<1>2. MeterTypes'
  BY <1>1, MeterVars, TypesAfter, <1>0 DEF M!Splice
<1>3. Counters /\ Counters'
  <2>1. (MeterTypes => Counters)'
    BY CountersAfter, PTL
  <2> QED BY <1>2, <2>1, MeterVars
<1>4. Rise(1)
  <2> DEFINE r == [conn[c] EXCEPT !.sock = @ + 1]
  <2>1. /\ conn' = [conn EXCEPT ![c] = r] /\ r.st = conn[c].st /\ r.udp = conn[c].udp
        /\ r.core = conn[c].core /\ r.sock = conn[c].sock + 1
    BY <1>3 DEF M!Splice, Counters, Links
  <2> HIDE DEF r
  <2>2. (M!Open)' = M!Open /\ c \in M!Open
    BY <1>3, <2>1 DEF M!Splice, M!Open, Counters, Links
  <2>3. \A b \in Conns : /\ conn'[b].udp = conn[b].udp
                         /\ conn'[b].sock <= conn[b].sock + (IF b = c THEN 1 ELSE 0)
                         /\ \/ conn'[b].core = conn[b].core
                            \/ b = c /\ conn'[b].core = conn[b].core + 1
    BY <1>3, <2>1 DEF Counters, Links
  <2> QED BY <1>3, <2>2, <2>3, RiseByOne DEF M!Splice
<1>5. Claimed' = Claimed /\ Claimed \in Nat
  BY SameClaims, TypesAre DEF M!Splice, MeterInv
<1>6. Claimed' <= Claimed
  BY <1>5
<1> QED BY <1>1, <1>2, <1>4, <1>6, Steady DEF M!Splice

\* Counters and sockets start anew: every cursor's due is gone.
LEMMA NoneOpenRise ==
  ASSUME MeterInv, MeterTypes', node' = node, counter' = 0, conn' = M!AllClosed
  PROVE  Rise(0)
<1>1. Counters /\ Counters'
  <2>1. (MeterTypes => Counters)'
    BY CountersAfter, PTL
  <2> QED BY <2>1, MeterVars
<1>2. (M!Open)' = {}
  BY <1>1 DEF M!Open, M!AllClosed, Counters, Links
<1> QED BY <1>1, <1>2, RiseByNone

LEMMA CoreRestartKeeps ==
  ASSUME MeterInv, M!CoreRestart
  PROVE  MeterInv'
<1>0. M!Next
  BY DEF M!Next
<1>1. MeterTypes'
  BY MeterVars, TypesAfter, FaultTypes, <1>0 DEF M!CoreRestart
<1>2. Rise(0)
  BY <1>1, NoneOpenRise DEF M!CoreRestart
<1>3. Claimed' = Claimed /\ Owned' = Owned /\ Claimed \in Nat /\ Owned \in Nat
  BY SameClaims, TypesAre DEF M!CoreRestart, Owned, MeterInv
<1>4. Claimed' <= Claimed /\ Owned' = Owned + 0 + (IF collect.st = "cores" THEN 0 ELSE 0)
  BY <1>3
<1> QED BY <1>1, <1>2, <1>4, Steady DEF M!CoreRestart

LEMMA ConsumeClaims ==
  ASSUME MeterInv, M!Consume
  PROVE  MeterTypes' /\ Claimed' = Claimed /\ Claimed \in Nat
<1>0. M!Next
  BY DEF M!Next
<1>1. Head(wire) \in Nat /\ Tail(wire) \in Seq(Nat) /\ OnWire(wire) = Head(wire) + OnWire(Tail(wire))
  BY MeterVars, WireTail DEF M!Consume
<1>2. raw' \in Nat /\ used' \in Nat /\ wire' \in Seq(Nat) /\ last' \in MeterCursors /\ collect' \in MeterCollects
  <2>1. M!Billed(Head(wire)) \in Nat
    BY <1>1, BilledFacts
  <2>2. /\ raw' = raw + Head(wire) /\ used' = used + M!Billed(Head(wire)) /\ wire' = Tail(wire)
        /\ last' = last /\ collect' = collect
    BY DEF M!Consume
  <2>3. raw \in Nat /\ used \in Nat /\ last \in MeterCursors /\ collect \in MeterCollects
    BY MeterVars
  <2>4. raw' \in Nat /\ used' \in Nat
    <3> DEFINE h == Head(wire)
               b == M!Billed(h)
    <3>1. h \in Nat /\ b \in Nat /\ raw' = raw + h /\ used' = used + b
      BY <1>1, <2>1, <2>2, Zenon
    <3> HIDE DEF h, b
    <3> QED BY <2>3, <3>1
  <2> QED BY <1>1, <2>2, <2>3, <2>4
<1>3. MeterTypes'
  <2>1. UNCHANGED <<node, moved, counter, conn, last, collect, faults, again, lost, base>>
    BY DEF M!Consume
  <2> QED BY MeterVars, TypesAfter, <1>0, <1>2, <2>1
<1>4. Claimed' = Claimed /\ Claimed \in Nat
  <2>1. Claimed = raw + OnWire(wire) /\ OnWire(wire) \in Nat /\ Claimed \in Nat /\ raw \in Nat
    BY TypesAre DEF MeterInv
  <2>2. Claimed' = raw' + OnWire(wire') /\ OnWire(wire') \in Nat
    <3>1. ClaimedIs'
      BY <1>3, ClaimsAre, PTL
    <3> QED BY <3>1 DEF ClaimedIs
  <2> QED BY <1>1, <2>1, <2>2 DEF M!Consume
<1> QED BY <1>3, <1>4

LEMMA ConsumeKeeps ==
  ASSUME MeterInv, M!Consume
  PROVE  MeterInv'
<1>5. Rise(0)
  BY MeterVars, RiseStill DEF M!Consume
<1>6. Owned' = Owned /\ Owned \in Nat
  BY TypesAre DEF M!Consume, Owned, MeterInv
<1>7. Claimed' <= Claimed /\ Owned' = Owned + 0 + (IF collect.st = "cores" THEN 0 ELSE 0)
  BY ConsumeClaims, <1>6
<1> QED BY ConsumeClaims, <1>5, <1>7, Steady DEF M!Consume

LEMMA ConsumeFailKeeps ==
  ASSUME MeterInv, M!ConsumeFail
  PROVE  MeterInv'
<1>0. M!Next
  BY DEF M!Next
<1>1. Head(wire) \in Nat /\ Tail(wire) \in Seq(Nat) /\ OnWire(wire) = Head(wire) + OnWire(Tail(wire))
  BY MeterVars, WireTail DEF M!ConsumeFail
<1>2. MeterTypes'
  BY MeterVars, TypesAfter, FaultTypes, <1>0, <1>1 DEF M!ConsumeFail
<1>3. Claimed' <= Claimed
  <2>1. Claimed = raw + OnWire(wire) /\ OnWire(wire) \in Nat /\ Claimed \in Nat /\ raw \in Nat
    BY TypesAre DEF MeterInv
  <2>2. Claimed' = raw' + OnWire(wire') /\ OnWire(wire') \in Nat
    <3>1. ClaimedIs'
      BY <1>2, ClaimsAre, PTL
    <3> QED BY <3>1 DEF ClaimedIs
  <2> QED BY <1>1, <2>1, <2>2 DEF M!ConsumeFail
<1>4. Rise(0)
  BY MeterVars, RiseStill DEF M!ConsumeFail
<1>5. Owned' = Owned /\ Owned \in Nat
  BY TypesAre DEF M!ConsumeFail, Owned, MeterInv
<1>6. Owned' = Owned + 0 + (IF collect.st = "cores" THEN 0 ELSE 0)
  BY <1>5
<1> QED BY <1>2, <1>3, <1>4, <1>6, Steady DEF M!ConsumeFail

-----------------------------------------------------------------------------
(***************************************************************************)
(* The readings.                                                           *)
(***************************************************************************)
\* A step of a collect changes neither what is owed nor what is claimed.
CollectOnly == UNCHANGED <<node, moved, counter, conn, last, wire, raw, used, again, lost, base>>

LEMMA SameDues ==
  ASSUME CollectOnly
  PROVE  /\ Claimed' = Claimed /\ Owned' = Owned
         /\ CoreDue(last.core)' = CoreDue(last.core) /\ FlowDue(last.flow)' = FlowDue(last.flow)
         /\ ClashDue(last.clash)' = ClashDue(last.clash)
         /\ CoreDue(collect.next.core)' = CoreDue(collect'.next.core)
         /\ FlowDue(collect.next.flow)' = FlowDue(collect'.next.flow)
         /\ ClashDue(collect.next.clash)' = ClashDue(collect'.next.clash)
<1>1. Claimed' = Claimed /\ Owned' = Owned
  BY SameClaims DEF CollectOnly, Owned
<1>2. CoreDue(last.core)' = CoreDue(last.core) /\ CoreDue(collect.next.core)' = CoreDue(collect'.next.core)
  BY DEF CoreDue, CollectOnly
<1>3. Reading(M!Open)' = Reading(M!Open)
  BY DEF Reading, M!FlowReading, M!Open, CollectOnly, M!CtMarks, M!SSMarks, M!Joined, M!Sock
<1>4. FlowDue(last.flow)' = FlowDue(last.flow) /\ FlowDue(collect.next.flow)' = FlowDue(collect'.next.flow)
  BY <1>3 DEF FlowDue, CollectOnly
<1>5. ClashDue(last.clash)' = ClashDue(last.clash) /\ ClashDue(collect.next.clash)' = ClashDue(collect'.next.clash)
  BY DEF ClashDue, Deltas, M!Open, CollectOnly
<1> QED BY <1>1, <1>2, <1>4, <1>5

\* Where no connection has a cursor none is due.
LEMMA NoClashDue == ClashDue(NoClash) = 0
<1>1. \A c \in M!Open : Deltas(NoClash)[c] = 0
  BY DEF M!Open, Deltas, NoClash, M!CoreDelta, M!None
<1>2. SumOf(Deltas(NoClash), M!Open) = 0
  BY <1>1, SumNone
<1> QED BY <1>2, SumIs DEF ClashDue

LEMMA ClashNextDue ==
  ASSUME Counters
  PROVE  M!ClashNext \in Clashes /\ ClashDue(M!ClashNext) = 0 /\ M!ClashDelta = ClashDue(last.clash)
<1>1. \A c \in M!Open : c \in Conns /\ M!ClashNext[c] = conn[c].core /\ conn[c].core \in Nat
  BY DEF M!Open, M!ClashNext, Counters, Links
<1>2. \A c \in M!Open : Deltas(M!ClashNext)[c] = M!CoreDelta(conn[c].core, conn[c].core)
  BY <1>1 DEF Deltas
<1>3. \A c \in M!Open : Deltas(M!ClashNext)[c] = 0
  BY <1>1, <1>2, DeltaAfter DEF Seen
<1>4. SumOf(Deltas(M!ClashNext), M!Open) = 0
  BY <1>3, SumNone
<1>5. M!ClashNext \in Clashes
  BY DEF M!ClashNext, Clashes, Seen, M!None, Counters, Links
<1>6. M!ClashDelta = ClashDue(last.clash)
  BY DEF M!ClashDelta, ClashDue, Deltas
<1> QED BY <1>4, <1>5, <1>6, SumIs DEF ClashDue

\* What was found at the cores, with the cursors to commit.
LEMMA FoundKeeps ==
  ASSUME MeterInv, M!Next, CollectOnly, faults' \in Nat, collect.st = "idle",
         NEW n \in Nat, NEW ok \in BOOLEAN, NEW next \in MeterCursors,
         collect' = [st |-> "cores", core |-> n, ok |-> ok, amount |-> 0, again |-> 0, next |-> next],
         next.flow = last.flow, node.core = "xray" => next.clash = NoClash,
         ok => n <= CoreDue(last.core) /\ CoreDue(next.core) = 0 /\ next.clash = NoClash,
         ~ok => next.core = last.core /\ Claimed + n + ClashDue(next.clash) <= Owned
  PROVE  MeterInv'
<1>1. collect' \in MeterCollects
  BY MeterVars, CollectTypes
<1>2. MeterTypes'
  BY MeterVars, TypesAfter, <1>1 DEF CollectOnly
<1>3. DuesTyped /\ Covered(0, 0, last)
  BY DuesAreNat DEF MeterInv
<1>4. Covered(0, 0, last)'
  BY <1>3, SameDues DEF Covered
<1>5. CoresRead'
  <2>1. /\ collect'.next = next /\ collect'.core = n /\ collect'.ok = ok /\ last' = last
        /\ Claimed' = Claimed /\ Owned' = Owned
        /\ CoreDue(collect.next.core)' = CoreDue(next.core) /\ FlowDue(last.flow)' = FlowDue(last.flow)
        /\ ClashDue(collect.next.clash)' = ClashDue(next.clash)
    BY SameDues DEF CollectOnly
  <2>2. CASE ok
    <3>1. Claimed + n + 0 <= Owned /\ Claimed + FlowDue(last.flow) + 0 <= Owned
      BY <1>3, <2>2 DEF Covered, DuesTyped
    <3> QED BY <2>1, <2>2, <3>1 DEF CoresRead
  <2>3. CASE ~ok
    BY <2>1, <2>3 DEF CoresRead
  <2> QED BY <2>2, <2>3
<1>6. FrameReady'
  BY DEF FrameReady
<1> QED BY <1>2, <1>4, <1>5, <1>6 DEF MeterInv

LEMMA PeekCoreKeeps ==
  ASSUME MeterInv, M!PeekCore
  PROVE  MeterInv'
<1> DEFINE next == [last EXCEPT !.core = M!Moved(@, M!CoreReading),
                                !.clash = IF node.core = "singbox" THEN M!NoCursor.clash ELSE @]
           n == M!CoreDelta(last.core, M!CoreReading)
<1>0. M!Next
  BY DEF M!Next
<1>1. last \in MeterCursors /\ counter \in Nat /\ faults \in Nat /\ node.core \in {"xray", "singbox"}
      /\ (node.core = "xray" => last.clash = NoClash)
  BY MeterVars
<1>2. last.core \in Seen /\ last.flow \in Seen /\ last.clash \in Clashes
  BY <1>1 DEF MeterCursors
<1>3. M!CoreReading = counter /\ M!NoCursor.clash = NoClash /\ NoClash \in Clashes
  BY TypeSets DEF M!CoreReading
<1>4. n \in Nat /\ M!Moved(last.core, counter) \in Seen /\ n = CoreDue(last.core)
  BY <1>1, <1>2, <1>3, DeltaNat DEF CoreDue
<1>5. next = [last EXCEPT !.core = M!Moved(last.core, counter), !.clash = NoClash]
  <2>1. (IF node.core = "singbox" THEN M!NoCursor.clash ELSE last.clash) = NoClash
    BY <1>1, <1>3
  <2> QED BY <1>3, <2>1, Zenon
<1>6. collect.st = "idle" /\ collect' = [st |-> "cores", core |-> n, ok |-> TRUE, amount |-> 0, again |-> 0, next |-> next]
  BY DEF M!PeekCore, M!Found
<1> HIDE DEF n, next
<1>7. next \in MeterCursors /\ next.core = M!Moved(last.core, counter) /\ next.flow = last.flow /\ next.clash = NoClash
  BY <1>1, <1>3, <1>4, <1>5 DEF MeterCursors
<1>8. CoreDue(next.core) = 0
  BY <1>1, <1>2, <1>7, DeltaAfter DEF CoreDue
<1>9. n <= CoreDue(last.core)
  BY <1>4
<1>10. CollectOnly /\ faults' \in Nat
  BY <1>1 DEF M!PeekCore, CollectOnly
<1> QED BY <1>0, <1>4, <1>6, <1>7, <1>8, <1>9, <1>10, FoundKeeps

LEMMA PeekClashKeeps ==
  ASSUME MeterInv, M!PeekClash
  PROVE  MeterInv'
<1> DEFINE next == [last EXCEPT !.clash = M!ClashNext]
<1>0. M!Next
  BY DEF M!Next
<1>1. last \in MeterCursors /\ faults' \in Nat /\ Counters
  BY MeterVars, FaultTypes DEF M!PeekClash
<1>2. M!ClashNext \in Clashes /\ ClashDue(M!ClashNext) = 0 /\ M!ClashDelta = ClashDue(last.clash)
  BY <1>1, ClashNextDue
<1>3. next \in MeterCursors /\ next.core = last.core /\ next.flow = last.flow /\ next.clash = M!ClashNext
  BY <1>1, <1>2 DEF MeterCursors
<1>4. collect.st = "idle" /\ collect' = [st |-> "cores", core |-> M!ClashDelta, ok |-> FALSE, amount |-> 0, again |-> 0, next |-> next]
  BY DEF M!PeekClash, M!Found
<1> HIDE DEF next
<1>5. M!ClashDelta \in Nat /\ Claimed + M!ClashDelta + ClashDue(next.clash) <= Owned
  <2>1. DuesTyped /\ Covered(0, 0, last)
    BY DuesAreNat DEF MeterInv
  <2> QED BY <1>2, <1>3, <2>1 DEF DuesTyped, Covered
<1>6. CollectOnly /\ node.core # "xray"
  BY DEF M!PeekClash, CollectOnly
<1> QED BY <1>0, <1>1, <1>3, <1>4, <1>5, <1>6, FoundKeeps

LEMMA PeekCoreFailKeeps ==
  ASSUME MeterInv, M!PeekCoreFail
  PROVE  MeterInv'
<1>0. M!Next
  BY DEF M!Next
<1>1. last \in MeterCursors /\ faults' \in Nat /\ (node.core = "xray" => last.clash = NoClash)
  BY MeterVars, FaultTypes DEF M!PeekCoreFail
<1>2. collect.st = "idle" /\ collect' = [st |-> "cores", core |-> 0, ok |-> FALSE, amount |-> 0, again |-> 0, next |-> last]
  BY DEF M!PeekCoreFail, M!Found
<1>3. Claimed + 0 + ClashDue(last.clash) <= Owned
  BY DuesAreNat DEF MeterInv, Covered, DuesTyped
<1>4. CollectOnly
  BY DEF M!PeekCoreFail, CollectOnly
<1> QED BY <1>0, <1>1, <1>2, <1>3, <1>4, FoundKeeps

\* A shorter list of sockets bills no more than the full one would have, and the
\* difference to it is what the next list brings back.
LEMMA CutList ==
  ASSUME NEW was \in Seen, NEW now \in Nat, NEW full \in Nat, now <= full
  PROVE  /\ M!FlowDelta(was, now) \in Nat /\ M!FlowDelta(was, now) <= M!FlowDelta(was, full)
         /\ M!Moved(was, now) \in Seen /\ M!FlowDelta(M!Moved(was, now), full) <= full - now
BY DEF M!FlowDelta, M!Moved, M!None, Seen

\* The larger of the two differences covers both sources: where each was read
\* over the same interval neither comes again, and the rest is noted as twice.
LEMMA PeekedKeeps ==
  ASSUME MeterInv, M!Next, CollectOnly, faults' \in Nat, collect.st = "cores",
         NEW flow \in Nat, NEW was \in Seen, NEW ok \in BOOLEAN, NEW hidden \in Nat,
         M!Peeked(flow, was, ok, hidden),
         flow <= FlowDue(last.flow), ok => FlowDue(was) <= hidden, ~ok => was = last.flow
  PROVE  MeterInv'
<1> DEFINE amount == M!Larger(collect.core, flow)
           twice == hidden + (IF collect.ok /\ ok THEN 0 ELSE amount)
           new2 == [collect EXCEPT !.st = "send", !.amount = amount, !.next.flow = was, !.again = twice]
<1>1. DuesTyped /\ Covered(0, 0, last) /\ CoresRead /\ MeterTypes
  BY DuesAreNat DEF MeterInv
<1>2. last \in MeterCursors /\ collect \in MeterCollects /\ collect.ok \in BOOLEAN
      /\ (node.core = "xray" => last.clash = NoClash /\ collect.next.clash = NoClash)
  BY MeterVars DEF MeterCollects
<1>3. amount \in Nat /\ collect.core \in Nat /\ collect.core <= amount /\ (amount = collect.core \/ amount = flow)
  <2>1. collect.core \in Nat
    BY <1>1 DEF DuesTyped
  <2> QED BY <2>1, LargerNat
<1>4. twice \in Nat /\ hidden <= twice /\ (~(collect.ok /\ ok) => twice = hidden + amount)
  BY <1>3
<1>5. collect' = new2
  BY DEF M!Peeked, M!Merged
<1>6. new2 \in MeterCollects
  BY <1>2, <1>3, <1>4, CollectTypes
<1>7. /\ new2.next.core = collect.next.core /\ new2.next.flow = was /\ new2.next.clash = collect.next.clash
      /\ new2.amount = amount /\ new2.again = twice /\ new2.st = "send"
  BY <1>2 DEF MeterCollects, MeterCursors
<1> HIDE DEF new2, amount, twice
<1>8. MeterTypes'
  BY MeterVars, TypesAfter, <1>2, <1>5, <1>6, <1>7 DEF CollectOnly
<1>9. Covered(0, 0, last)'
  BY <1>1, SameDues DEF Covered
<1>10. FlowDue(was) \in Nat
  BY MeterVars, DueNat
<1>11. Claimed + amount + CoreDue(collect.next.core) <= Owned + twice
  BY <1>1, <1>3, <1>4, <1>2 DEF DuesTyped, Covered, CoresRead
<1>12. Claimed + amount + FlowDue(was) <= Owned + twice
  BY <1>1, <1>3, <1>4, <1>2, <1>10 DEF DuesTyped, Covered, CoresRead
<1>13. Claimed + amount + ClashDue(collect.next.clash) <= Owned + twice
  BY <1>1, <1>3, <1>4, <1>2, NoClashDue DEF DuesTyped, Covered, CoresRead
<1>14. FrameReady'
  <2>1. /\ collect'.amount = amount /\ collect'.again = twice
        /\ Claimed' = Claimed /\ Owned' = Owned
        /\ CoreDue(collect.next.core)' = CoreDue(collect.next.core) /\ FlowDue(collect.next.flow)' = FlowDue(was)
        /\ ClashDue(collect.next.clash)' = ClashDue(collect.next.clash)
    BY <1>5, <1>7, SameDues
  <2> QED BY <1>11, <1>12, <1>13, <2>1 DEF FrameReady, Covered
<1>15. CoresRead'
  BY <1>5, <1>7 DEF CoresRead
<1> QED BY <1>8, <1>9, <1>14, <1>15 DEF MeterInv

LEMMA PeekFlowsCutKeeps ==
  ASSUME MeterInv, NEW seen \in SUBSET M!Open, NEW ct \in BOOLEAN,
         M!PeekFlowsCut(seen, ct)
  PROVE  MeterInv'
<1> DEFINE now == CutReading(seen, ct)
           full == Reading(M!Open)
<1>0. M!Next
  BY DEF M!Next
<1>1. now \in Nat /\ full \in Nat /\ now <= full
  <2>1. ct => node.conntrack
    BY DEF M!PeekFlowsCut
  <2> QED BY <2>1, CutLess, MeterVars
<1>2. last.flow \in Seen /\ faults' \in Nat
  BY MeterVars, FaultTypes DEF M!PeekFlowsCut, MeterCursors
<1>3. M!Peeked(M!FlowDelta(last.flow, now), M!Moved(last.flow, now), TRUE, full - now)
  BY DEF M!PeekFlowsCut, Reading, CutReading, M!FullReading
<1>4. FlowDue(last.flow) = M!FlowDelta(last.flow, full) /\ FlowDue(M!Moved(last.flow, now)) = M!FlowDelta(M!Moved(last.flow, now), full)
  BY DEF FlowDue
<1>5. CollectOnly /\ collect.st = "cores"
  BY DEF M!PeekFlowsCut, CollectOnly
<1> HIDE DEF now, full
<1>6. full - now \in Nat
  BY <1>1
<1>7. M!FlowDelta(last.flow, now) \in Nat /\ M!FlowDelta(last.flow, now) <= FlowDue(last.flow)
      /\ M!Moved(last.flow, now) \in Seen /\ FlowDue(M!Moved(last.flow, now)) <= full - now
  BY <1>1, <1>2, <1>4, CutList
<1> QED BY <1>0, <1>2, <1>3, <1>5, <1>6, <1>7, PeekedKeeps

LEMMA PeekFlowsKeeps ==
  ASSUME MeterInv, M!PeekFlows
  PROVE  MeterInv'
<1> DEFINE full == Reading(M!Open)
<1>0. M!Next
  BY DEF M!Next
<1>1. full \in Nat
  BY ReadingLess, MeterVars
<1>2. last.flow \in Seen /\ faults' \in Nat
  BY MeterVars DEF M!PeekFlows, MeterCursors
<1>3. M!Peeked(M!FlowDelta(last.flow, full), M!Moved(last.flow, full), TRUE, 0)
  BY DEF M!PeekFlows, Reading, M!FullReading
<1>4. FlowDue(last.flow) = M!FlowDelta(last.flow, full) /\ FlowDue(M!Moved(last.flow, full)) = M!FlowDelta(M!Moved(last.flow, full), full)
  BY DEF FlowDue
<1>5. CollectOnly /\ collect.st = "cores"
  BY DEF M!PeekFlows, CollectOnly
<1> HIDE DEF full
<1>6. M!FlowDelta(last.flow, full) \in Nat /\ M!FlowDelta(last.flow, full) <= FlowDue(last.flow)
      /\ M!Moved(last.flow, full) \in Seen /\ FlowDue(M!Moved(last.flow, full)) <= 0
  BY <1>1, <1>2, <1>4, DeltaNat, DeltaAfter
<1> QED BY <1>0, <1>2, <1>3, <1>5, <1>6, PeekedKeeps

LEMMA PeekFlowsFailKeeps ==
  ASSUME MeterInv, M!PeekFlowsFail
  PROVE  MeterInv'
<1>0. M!Next
  BY DEF M!Next
<1>1. last.flow \in Seen /\ faults' \in Nat
  BY MeterVars, FaultTypes DEF M!PeekFlowsFail, MeterCursors
<1>2. M!Peeked(0, last.flow, FALSE, 0) /\ CollectOnly /\ collect.st = "cores"
  BY DEF M!PeekFlowsFail, CollectOnly
<1>3. 0 <= FlowDue(last.flow)
  BY DuesAreNat DEF MeterInv, DuesTyped
<1> QED BY <1>0, <1>1, <1>2, <1>3, PeekedKeeps

-----------------------------------------------------------------------------
(***************************************************************************)
(* Frames and the Agent's restart.                                         *)
(***************************************************************************)
LEMMA IdleAfter ==
  ASSUME collect' = M!NoCollect
  PROVE  CoresRead' /\ FrameReady'
BY TypeSets DEF CoresRead, FrameReady

LEMMA SendClaims ==
  ASSUME MeterInv, M!Send
  PROVE  MeterTypes' /\ Claimed' = Claimed + collect.amount
<1>0. M!Next
  BY DEF M!Next
<1>1. /\ last' = collect.next /\ collect' = M!NoCollect /\ again' = again + collect.again
      /\ wire' = IF collect.amount > 0 THEN Append(wire, collect.amount) ELSE wire
      /\ UNCHANGED <<node, moved, counter, conn, raw, used, faults, lost>>
  BY DEF M!Send
<1>2. DuesTyped /\ Covered(collect.amount, collect.again, collect.next)
  BY DuesAreNat DEF MeterInv, FrameReady, M!Send
<1>10. collect.again \in Nat /\ collect.amount \in Nat
  BY <1>2 DEF DuesTyped
<1>11. raw \in Nat /\ again \in Nat /\ moved \in Nat
  BY MeterVars
<1>3. wire' \in Seq(Nat) /\ OnWire(wire') = OnWire(wire) + collect.amount
  <2>1. wire \in Seq(Nat) /\ collect.amount \in Nat /\ OnWire(wire) \in Nat
    BY <1>2, MeterVars, WireFinite DEF DuesTyped
  <2> QED BY <1>1, <2>1, WireAppend
<1>4. collect.next \in MeterCursors /\ collect.next.core \in Seen
  BY <1>2, MeterVars DEF MeterCollects, DuesTyped
<1>5. MeterTypes'
  <2>1. base' \in Seen
    BY <1>4, MeterVars DEF M!Send
  <2>2. again' \in Nat
    BY <1>1, <1>10, <1>11
  <2>3. M!NoCollect \in MeterCollects /\ M!NoCollect.next.clash = NoClash
    BY TypeSets
  <2> QED BY <1>0, <1>1, <1>3, <1>4, <2>1, <2>2, <2>3, MeterVars, TypesAfter
<1>6. Claimed' = Claimed + collect.amount
  <2>1. ClaimedIs'
    BY <1>5, ClaimsAre, PTL
  <2>2. ClaimedIs
    BY ClaimsAre DEF MeterInv
  <2>3. /\ Claimed' = raw' + OnWire(wire') /\ raw' = raw /\ OnWire(wire') = OnWire(wire) + collect.amount
        /\ Claimed = raw + OnWire(wire) /\ OnWire(wire) \in Nat
    BY <1>1, <1>3, <2>1, <2>2 DEF ClaimedIs
  <2> QED BY <1>10, <1>11, <2>3
<1> QED BY <1>5, <1>6

LEMMA SendKeeps ==
  ASSUME MeterInv, M!Send
  PROVE  MeterInv'
<1>1. /\ last' = collect.next /\ collect' = M!NoCollect /\ again' = again + collect.again
      /\ UNCHANGED <<node, moved, counter, conn>>
  BY DEF M!Send
<1>2. DuesTyped /\ Covered(collect.amount, collect.again, collect.next)
  BY DuesAreNat DEF MeterInv, FrameReady, M!Send
<1>10. collect.again \in Nat
  BY <1>2 DEF DuesTyped
<1>11. again \in Nat /\ moved \in Nat
  BY MeterVars
<1>7. Owned' = Owned + collect.again
  BY <1>1, <1>10, <1>11 DEF Owned
<1>8. /\ CoreDue(last.core)' = CoreDue(collect.next.core) /\ FlowDue(last.flow)' = FlowDue(collect.next.flow)
      /\ ClashDue(last.clash)' = ClashDue(collect.next.clash)
  <2>1. Reading(M!Open)' = Reading(M!Open)
    BY <1>1 DEF Reading, M!FlowReading, M!Open, M!CtMarks, M!SSMarks, M!Joined, M!Sock
  <2> QED BY <1>1, <2>1 DEF CoreDue, FlowDue, ClashDue, Deltas, M!Open
<1>9. Covered(0, 0, last)'
  BY <1>2, SendClaims, <1>7, <1>8 DEF Covered, DuesTyped
<1> QED BY <1>1, SendClaims, <1>9, IdleAfter DEF MeterInv

LEMMA SendFailKeeps ==
  ASSUME MeterInv, M!SendFail
  PROVE  MeterInv'
<1>0. M!Next
  BY DEF M!Next
<1>1. /\ collect' = M!NoCollect /\ wire' = <<>> /\ lost' = (lost \/ wire # <<>>)
      /\ UNCHANGED <<node, moved, counter, conn, last, raw, used, again, base>> /\ M!Fault
  BY DEF M!SendFail
<1>2. MeterTypes'
  <2>1. M!NoCollect \in MeterCollects /\ M!NoCollect.next.clash = NoClash
    BY TypeSets
  <2>2. wire' \in Seq(Nat) /\ lost' \in BOOLEAN /\ faults' \in Nat
    BY <1>1, MeterVars, FaultTypes
  <2> QED BY <1>0, <1>1, <2>1, <2>2, MeterVars, TypesAfter
<1>3. DuesTyped /\ Covered(0, 0, last)
  BY DuesAreNat DEF MeterInv
<1>4. Claimed' <= Claimed /\ Claimed' \in Nat
  <2>1. ClaimedIs' /\ DuesTyped'
    BY <1>2, ClaimsAre, DuesAreNat, PTL
  <2>2. ClaimedIs
    BY ClaimsAre DEF MeterInv
  <2>3. /\ Claimed' = raw' + OnWire(wire') /\ raw' = raw /\ OnWire(wire') = 0
        /\ Claimed = raw + OnWire(wire) /\ OnWire(wire) \in Nat
    BY <1>1, <2>1, <2>2, WireEmpty DEF ClaimedIs
  <2>4. raw \in Nat
    BY MeterVars
  <2> QED BY <2>3, <2>4
<1>5. /\ CoreDue(last.core)' = CoreDue(last.core) /\ FlowDue(last.flow)' = FlowDue(last.flow)
      /\ ClashDue(last.clash)' = ClashDue(last.clash) /\ Owned' = Owned
  <2>1. Reading(M!Open)' = Reading(M!Open)
    BY <1>1 DEF Reading, M!FlowReading, M!Open, M!CtMarks, M!SSMarks, M!Joined, M!Sock
  <2> QED BY <1>1, <2>1 DEF CoreDue, FlowDue, ClashDue, Deltas, M!Open, Owned
<1>6. Covered(0, 0, last)'
  BY <1>3, <1>4, <1>5 DEF Covered, DuesTyped
<1> QED BY <1>1, <1>2, <1>6, IdleAfter DEF MeterInv

\* Without cursors nothing is due.
NothingDue == last = M!NoCursor => CoreDue(last.core) = 0 /\ FlowDue(last.flow) = 0 /\ ClashDue(last.clash) = 0

LEMMA NoCursorDue == NothingDue
<1>1. M!NoCursor.core = -1 /\ M!NoCursor.flow = -1 /\ M!NoCursor.clash = NoClash
  BY TypeSets
<1>2. \A n : M!CoreDelta(-1, n) = 0 /\ M!FlowDelta(-1, n) = 0
  BY DEF M!CoreDelta, M!FlowDelta, M!None
<1> QED BY <1>1, <1>2, NoClashDue DEF NothingDue, CoreDue, FlowDue

LEMMA AgentRestartKeeps ==
  ASSUME MeterInv, M!AgentRestart
  PROVE  MeterInv'
<1>0. M!Next
  BY DEF M!Next
<1>1. /\ last' = M!NoCursor /\ collect' = M!NoCollect /\ lost' = TRUE /\ counter' = 0
      /\ UNCHANGED <<node, moved, wire, raw, used, again, base>> /\ M!Fault
  BY DEF M!AgentRestart
<1>2. MeterTypes'
  <2>1. M!NoCollect \in MeterCollects /\ M!NoCollect.next.clash = NoClash /\ M!NoCursor \in MeterCursors
        /\ M!NoCursor.clash = NoClash
    BY TypeSets
  <2>2. faults' \in Nat
    BY <1>1, MeterVars, FaultTypes
  <2> QED BY <1>0, <1>1, <2>1, <2>2, MeterVars, TypesAfter
<1>3. DuesTyped /\ Covered(0, 0, last)
  BY DuesAreNat DEF MeterInv
<1>4. Claimed' = Claimed /\ Owned' = Owned
  BY <1>1, SameClaims DEF Owned
<1>5. CoreDue(last.core)' = 0 /\ FlowDue(last.flow)' = 0 /\ ClashDue(last.clash)' = 0
  <2>1. NothingDue'
    BY NoCursorDue, PTL
  <2> QED BY <1>1, <2>1 DEF NothingDue
<1>6. Covered(0, 0, last)'
  BY <1>3, <1>4, <1>5 DEF Covered, DuesTyped
<1> QED BY <1>1, <1>2, <1>6, IdleAfter DEF MeterInv

-----------------------------------------------------------------------------
LEMMA MeterInit == M!Init => MeterInv
<1> HAVE M!Init
<1>1. MeterTypes
  <2>1. node \in M!Node /\ conn \in [Conns -> M!Conn] /\ \A c \in Conns : conn[c].core = 0 /\ conn[c].sock = 0
    BY DEF M!Init, M!Node, M!Conn
  <2>2. last = M!NoCursor /\ collect = M!NoCollect /\ last \in M!Cursor /\ collect \in M!Collect
    BY TypeSets DEF M!Init
  <2>3. last.clash = NoClash /\ collect.next.clash = NoClash
    BY <2>2, TypeSets
  <2>4. /\ moved \in Nat /\ counter \in Nat /\ wire \in Seq(Nat) /\ raw \in Nat /\ used \in Nat
        /\ faults \in Nat /\ again \in Nat /\ lost \in BOOLEAN /\ base \in M!Readings
    <3>1. wire \in Seq(Nat) /\ lost \in BOOLEAN
      <4>1. wire = <<>>
        BY DEF M!Init
      <4>2. wire \in Seq(Nat)
        BY <4>1
      <4>3. lost \in BOOLEAN
        BY Zenon DEF M!Init
      <4> QED BY <4>2, <4>3
    <3> QED BY <3>1 DEF M!Init, M!Readings
  <2> QED BY <2>1, <2>2, <2>3, <2>4 DEF MeterTypes, M!TypeOK
<1>2. DuesTyped /\ ClaimedIs
  BY <1>1, DuesAreNat, ClaimsAre
<1>3. Claimed = 0
  BY <1>2, WireEmpty DEF ClaimedIs, M!Init
<1>4. CoreDue(last.core) = 0 /\ FlowDue(last.flow) = 0 /\ ClashDue(last.clash) = 0
  BY NoCursorDue DEF NothingDue, M!Init
<1>5. Covered(0, 0, last)
  BY <1>2, <1>3, <1>4 DEF Covered, DuesTyped
<1>6. CoresRead /\ FrameReady
  BY TypeSets DEF CoresRead, FrameReady, M!Init
<1> QED BY <1>1, <1>5, <1>6 DEF MeterInv

LEMMA MeterStutter ==
  ASSUME MeterInv, UNCHANGED M!meterVars
  PROVE  MeterInv'
<1>1. CollectOnly /\ collect' = collect /\ UNCHANGED <<used, faults>>
  BY DEF CollectOnly, M!meterVars
<1>2. MeterTypes'
  BY <1>1 DEF MeterInv, MeterTypes, CollectOnly, M!TypeOK
<1>3. Rise(0)
  BY <1>1, MeterVars, RiseStill DEF CollectOnly
<1>4. Claimed' = Claimed /\ Owned' = Owned /\ Claimed \in Nat /\ Owned \in Nat
  BY <1>1, SameDues, DuesAreNat DEF MeterInv, DuesTyped
<1>5. Claimed' <= Claimed /\ Owned' = Owned + 0 + (IF collect.st = "cores" THEN 0 ELSE 0)
  BY <1>4
<1> QED BY <1>1, <1>2, <1>3, <1>5, Steady DEF CollectOnly

LEMMA MeterStep == MeterInv /\ [M!Next]_(M!meterVars) => MeterInv'
<1> SUFFICES ASSUME MeterInv, [M!Next]_(M!meterVars) PROVE MeterInv'
  OBVIOUS
<1>1. CASE \E c \in Conns : M!Connect(c) \/ M!Transfer(c) \/ M!Splice(c) \/ M!Disconnect(c)
  BY <1>1, ConnectKeeps, TransferKeeps, SpliceKeeps, DisconnectKeeps
<1>2. CASE M!CoreRestart \/ M!AgentRestart
  BY <1>2, CoreRestartKeeps, AgentRestartKeeps
<1>3. CASE M!PeekCore \/ M!PeekClash \/ M!PeekCoreFail
  BY <1>3, PeekCoreKeeps, PeekClashKeeps, PeekCoreFailKeeps
<1>4. CASE M!PeekFlows \/ M!PeekFlowsFail \/ \E seen \in SUBSET M!Open, ct \in BOOLEAN : M!PeekFlowsCut(seen, ct)
  BY <1>4, PeekFlowsKeeps, PeekFlowsFailKeeps, PeekFlowsCutKeeps
<1>5. CASE M!Send \/ M!SendFail \/ M!Consume \/ M!ConsumeFail
  BY <1>5, SendKeeps, SendFailKeeps, ConsumeKeeps, ConsumeFailKeeps
<1>6. CASE UNCHANGED M!meterVars
  BY <1>6, MeterStutter
<1> QED BY <1>1, <1>2, <1>3, <1>4, <1>5, <1>6 DEF M!Next

\* The types of Meter's state, for any number of connections, bytes and faults.
THEOREM MeterTypeCorrect == M!Spec => []M!TypeOK
<1>1. MeterInv => M!TypeOK
  BY DEF MeterInv, MeterTypes
<1> QED BY <1>1, MeterInit, MeterStep, PTL DEF M!Spec

-----------------------------------------------------------------------------
(***************************************************************************)
(* The multiplier.                                                         *)
(***************************************************************************)
LEMMA TwoBills ==
  ASSUME NEW u \in Nat, NEW b \in Nat, NEW d \in Nat, NEW r \in Nat, NEW n \in Nat, NEW m \in Nat,
         u * d <= r * m, b * d <= n * m
  PROVE  (u + b) * d <= (r + n) * m
<1>1. (u + b) * d = u * d + b * d /\ (r + n) * m = r * m + n * m
  OBVIOUS
<1>2. u * d \in Nat /\ b * d \in Nat /\ r * m \in Nat /\ n * m \in Nat
  OBVIOUS
<1> QED BY <1>1, <1>2

LEMMA MultipliedStep == MeterInv /\ Multiplied /\ [M!Next]_(M!meterVars) => Multiplied'
<1> SUFFICES ASSUME MeterInv, Multiplied, [M!Next]_(M!meterVars) PROVE Multiplied'
  OBVIOUS
<1>1. CASE M!Consume
  <2> DEFINE n == Head(wire)
             b == M!Billed(n)
  <2>1. n \in Nat /\ raw \in Nat /\ used \in Nat
    BY <1>1, MeterVars, WireTail DEF M!Consume
  <2>2. b \in Nat /\ b * Den <= n * Num
    BY <2>1, BilledFacts
  <2>3. raw' = raw + n /\ used' = used + b
    BY <1>1 DEF M!Consume
  <2>4. Num \in Nat /\ Den \in Nat
    BY MeterAssumption DEF M!MeterAssumption
  <2> HIDE DEF n, b
  <2>5. (used + b) * Den <= (raw + n) * Num
    BY <2>1, <2>2, <2>4, TwoBills DEF Multiplied
  <2> QED BY <2>3, <2>5 DEF Multiplied
<1>2. CASE UNCHANGED <<used, raw>>
  BY <1>2 DEF Multiplied
<1>3. M!Next => M!Consume \/ UNCHANGED <<used, raw>>
  BY DEF M!Next, M!Connect, M!Transfer, M!Splice, M!Disconnect, M!CoreRestart, M!AgentRestart, M!PeekCore,
         M!PeekClash, M!PeekCoreFail, M!PeekFlows, M!PeekFlowsFail, M!PeekFlowsCut, M!Send, M!SendFail,
         M!ConsumeFail
<1> QED BY <1>1, <1>2, <1>3 DEF M!meterVars

\* A byte is billed once, but for what the intervals of BeginCollect share, for any
\* traffic, any connections, any failures and any multiplier.
THEOREM OverbilledOnlyAgainHolds == M!Spec => []OverbilledOnlyAgain
<1>1. MeterInv /\ Multiplied => OverbilledOnlyAgain
  <2> HAVE MeterInv /\ Multiplied
  <2>1. Covered(0, 0, last) /\ DuesTyped
    BY DuesAreNat DEF MeterInv
  <2>2. Claimed <= Owned
    BY <2>1 DEF Covered, DuesTyped
  <2> QED BY <2>2 DEF Claimed, Owned, Multiplied, OverbilledOnlyAgain, M!OverbilledOnlyAgain
<1>2. M!Init => Multiplied
  BY MeterAssumption DEF M!Init, Multiplied, M!MeterAssumption
<1> QED BY <1>1, <1>2, MeterInit, MeterStep, MultipliedStep, PTL DEF M!Spec

-----------------------------------------------------------------------------
(***************************************************************************)
(* Nothing is dropped.                                                     *)
(***************************************************************************)
Reached == IF collect.st = "send" THEN collect.amount ELSE collect.core

\* What lies between the two cursors of the core is found, or to be sent.
DropInv ==
  ~lost =>
    /\ base = -1 <=> last.core = -1
    /\ base # -1 => Claimed >= last.core - base
    /\ collect.st # "idle" /\ last.core # -1 =>
         collect.next.core # -1 /\ Reached >= collect.next.core - last.core

LEMMA DropSteady ==
  ASSUME DropInv, UNCHANGED <<last, collect, base, lost>>, Claimed' = Claimed
  PROVE  DropInv'
BY DEF DropInv, Reached

LEMMA DropFound ==
  ASSUME MeterInv, DropInv, CollectOnly, NEW n \in Nat, NEW ok \in BOOLEAN, NEW next \in MeterCursors,
         collect' = [st |-> "cores", core |-> n, ok |-> ok, amount |-> 0, again |-> 0, next |-> next],
         last.core # -1 => next.core # -1 /\ n >= next.core - last.core
  PROVE  DropInv'
<1>1. Claimed' = Claimed /\ UNCHANGED <<last, base, lost>>
  BY SameDues DEF CollectOnly
<1>2. collect'.st = "cores" /\ collect'.core = n /\ collect'.next = next
  OBVIOUS
<1> QED BY <1>1, <1>2 DEF DropInv, Reached

LEMMA DropPeeked ==
  ASSUME MeterInv, DropInv, CollectOnly, collect.st = "cores", NEW flow \in Nat, NEW was, NEW ok, NEW hidden,
         M!Peeked(flow, was, ok, hidden)
  PROVE  DropInv'
<1> DEFINE amount == M!Larger(collect.core, flow)
           twice == hidden + (IF collect.ok /\ ok THEN 0 ELSE amount)
           new2 == [collect EXCEPT !.st = "send", !.amount = amount, !.next.flow = was, !.again = twice]
<1>1. Claimed' = Claimed /\ UNCHANGED <<last, base, lost>>
  BY SameDues DEF CollectOnly
<1>2. collect \in MeterCollects
  BY MeterVars
<1>3. collect.core \in Nat /\ collect.next.core \in Seen /\ last.core \in Seen
  BY MeterVars DEF MeterCollects, MeterCursors
<1>4. amount \in Nat /\ collect.core <= amount
  BY <1>3, LargerNat
<1>5. collect' = new2
  BY DEF M!Peeked, M!Merged
<1>6. new2.next.core = collect.next.core /\ new2.amount = amount /\ new2.st = "send"
  BY <1>2 DEF MeterCollects, MeterCursors
<1> HIDE DEF new2, amount, twice
<1>7. collect'.next.core = collect.next.core /\ Reached' = amount /\ Reached = collect.core /\ collect'.st = "send"
  BY <1>5, <1>6 DEF Reached
<1> QED BY <1>1, <1>3, <1>4, <1>7 DEF DropInv, Seen

LEMMA DropSend ==
  ASSUME MeterInv, DropInv, M!Send
  PROVE  DropInv'
<1>1. /\ collect.st = "send" /\ last' = collect.next /\ collect' = M!NoCollect /\ lost' = lost
      /\ base' = IF base = -1 THEN collect.next.core ELSE base
  BY DEF M!Send, M!None
<1>2. Claimed' = Claimed + collect.amount
  BY SendClaims
<1>3. collect.amount \in Nat /\ collect.next.core \in Seen /\ last.core \in Seen /\ Claimed \in Nat
  BY DuesAreNat DEF MeterInv, DuesTyped
<1>4. base \in Seen
  BY MeterVars
<1>5. collect'.st = "idle" /\ last'.core = collect.next.core
  BY <1>1, TypeSets
<1> QED BY <1>1, <1>2, <1>3, <1>4, <1>5 DEF DropInv, Reached, Seen

LEMMA DropSendFail ==
  ASSUME MeterInv, DropInv, M!SendFail
  PROVE  DropInv'
<1>1. /\ collect' = M!NoCollect /\ wire' = <<>> /\ lost' = (lost \/ wire # <<>>)
      /\ UNCHANGED <<last, raw, base>>
  BY DEF M!SendFail
<1>2. CASE wire = <<>> /\ ~lost
  <2>1. Claimed' = Claimed
    BY <1>1, <1>2, SameClaims
  <2>2. collect'.st = "idle"
    BY <1>1, TypeSets
  <2> QED BY <1>1, <1>2, <2>1, <2>2 DEF DropInv
<1>3. CASE ~(wire = <<>> /\ ~lost)
  BY <1>1, <1>3 DEF DropInv
<1> QED BY <1>2, <1>3

LEMMA DropPeekCore ==
  ASSUME MeterInv, DropInv, M!PeekCore \/ M!PeekClash \/ M!PeekCoreFail
  PROVE  DropInv'
<1>1. last \in MeterCursors /\ counter \in Nat /\ Counters /\ node.core \in {"xray", "singbox"}
  BY MeterVars
<1>2. last.core \in Seen /\ last.flow \in Seen /\ last.clash \in Clashes
  BY <1>1 DEF MeterCursors
<1>3. CollectOnly
  BY DEF M!PeekCore, M!PeekClash, M!PeekCoreFail, CollectOnly
<1>4. CASE M!PeekCore
  <2> DEFINE clash2 == IF node.core = "singbox" THEN M!NoCursor.clash ELSE last.clash
             next == [last EXCEPT !.core = M!Moved(last.core, counter), !.clash = clash2]
             n == M!CoreDelta(last.core, counter)
  <2>1. collect' = [st |-> "cores", core |-> n, ok |-> TRUE, amount |-> 0, again |-> 0, next |-> next]
    BY <1>4 DEF M!PeekCore, M!Found, M!CoreReading
  <2>2. clash2 \in Clashes /\ n \in Nat /\ M!Moved(last.core, counter) \in Seen
    <3>1. M!NoCursor.clash \in Clashes
      BY TypeSets
    <3> QED BY <1>1, <1>2, <3>1, DeltaNat
  <2>3. last.core # -1 => M!Moved(last.core, counter) # -1 /\ n >= M!Moved(last.core, counter) - last.core
    BY <1>1, <1>2 DEF M!Moved, M!CoreDelta, M!None, Seen
  <2> HIDE DEF clash2, n
  <2>4. next \in MeterCursors /\ next.core = M!Moved(last.core, counter)
    BY <1>1, <2>2 DEF MeterCursors
  <2> HIDE DEF next
  <2> QED BY <1>3, <2>1, <2>2, <2>3, <2>4, DropFound
<1>5. CASE M!PeekClash
  <2> DEFINE next == [last EXCEPT !.clash = M!ClashNext]
  <2>1. collect' = [st |-> "cores", core |-> M!ClashDelta, ok |-> FALSE, amount |-> 0, again |-> 0, next |-> next]
    BY <1>5 DEF M!PeekClash, M!Found
  <2>2. M!ClashNext \in Clashes /\ M!ClashDelta \in Nat
    BY <1>1, <1>2, ClashNextDue, DueNat
  <2>3. next \in MeterCursors /\ next.core = last.core
    BY <1>1, <2>2 DEF MeterCursors
  <2> HIDE DEF next
  <2>4. last.core # -1 => next.core # -1 /\ M!ClashDelta >= next.core - last.core
    BY <1>2, <2>2, <2>3 DEF Seen
  <2> QED BY <1>3, <2>1, <2>2, <2>3, <2>4, DropFound
<1>6. CASE M!PeekCoreFail
  <2>1. collect' = [st |-> "cores", core |-> 0, ok |-> FALSE, amount |-> 0, again |-> 0, next |-> last]
    BY <1>6 DEF M!PeekCoreFail, M!Found
  <2>2. last.core # -1 => last.core # -1 /\ 0 >= last.core - last.core
    BY <1>2 DEF Seen
  <2> QED BY <1>1, <1>3, <2>1, <2>2, DropFound
<1> QED BY <1>4, <1>5, <1>6

LEMMA DropPeekFlows ==
  ASSUME MeterInv, DropInv,
         M!PeekFlows \/ M!PeekFlowsFail \/ \E seen \in SUBSET M!Open, ct \in BOOLEAN : M!PeekFlowsCut(seen, ct)
  PROVE  DropInv'
<1>1. last.flow \in Seen
  BY MeterVars DEF MeterCursors
<1>2. CollectOnly /\ collect.st = "cores"
  BY DEF M!PeekFlows, M!PeekFlowsFail, M!PeekFlowsCut, CollectOnly
<1>3. \A seen \in SUBSET M!Open : Reading(seen) \in Nat
  BY MeterVars, ReadingLess
<1>4. CASE M!PeekFlows
  <2> DEFINE now == Reading(M!Open)
  <2>1. M!Peeked(M!FlowDelta(last.flow, now), M!Moved(last.flow, now), TRUE, 0)
    BY <1>4 DEF M!PeekFlows, Reading, M!FullReading
  <2>2. M!FlowDelta(last.flow, now) \in Nat
    BY <1>1, <1>3, DeltaNat
  <2> QED BY <1>2, <2>1, <2>2, DropPeeked
<1>5. CASE M!PeekFlowsFail
  BY <1>2, <1>5, DropPeeked DEF M!PeekFlowsFail
<1>6. CASE \E seen \in SUBSET M!Open, ct \in BOOLEAN : M!PeekFlowsCut(seen, ct)
  <2>1. PICK seen \in SUBSET M!Open, ct \in BOOLEAN : M!PeekFlowsCut(seen, ct)
    BY <1>6
  <2> DEFINE now == CutReading(seen, ct)
  <2>2. M!Peeked(M!FlowDelta(last.flow, now), M!Moved(last.flow, now), TRUE, Reading(M!Open) - now)
    BY <2>1 DEF M!PeekFlowsCut, Reading, CutReading, M!FullReading
  <2>3. M!FlowDelta(last.flow, now) \in Nat
    <3>1. ct => node.conntrack
      BY <2>1 DEF M!PeekFlowsCut
    <3>2. now \in Nat
      BY <3>1, CutLess, MeterVars
    <3> HIDE DEF now
    <3> QED BY <1>1, <3>2, DeltaNat
  <2> QED BY <1>2, <2>2, <2>3, DropPeeked
<1> QED BY <1>4, <1>5, <1>6

LEMMA DropStep == MeterInv /\ DropInv /\ [M!Next]_(M!meterVars) => DropInv'
<1> SUFFICES ASSUME MeterInv, DropInv, [M!Next]_(M!meterVars) PROVE DropInv'
  OBVIOUS
<1>1. CASE lost' = TRUE
  BY <1>1 DEF DropInv
<1>2. CASE UNCHANGED <<last, collect, base, lost, wire, raw>>
  BY <1>2, DropSteady, SameClaims
<1>3. CASE M!Consume
  <2>1. UNCHANGED <<last, collect, base, lost>>
    BY <1>3 DEF M!Consume
  <2> QED BY <1>3, <2>1, ConsumeClaims, DropSteady
<1>4. CASE M!PeekCore \/ M!PeekClash \/ M!PeekCoreFail
  BY <1>4, DropPeekCore
<1>5. CASE M!PeekFlows \/ M!PeekFlowsFail \/ \E seen \in SUBSET M!Open, ct \in BOOLEAN : M!PeekFlowsCut(seen, ct)
  BY <1>5, DropPeekFlows
<1>6. CASE M!Send
  BY <1>6, DropSend
<1>7. CASE M!SendFail
  BY <1>7, DropSendFail
<1>8. CASE \E c \in Conns : M!Connect(c) \/ M!Transfer(c) \/ M!Splice(c) \/ M!Disconnect(c)
  BY <1>2, <1>8 DEF M!Connect, M!Transfer, M!Splice, M!Disconnect
<1>9. CASE M!CoreRestart \/ M!AgentRestart \/ M!ConsumeFail
  BY <1>1, <1>9 DEF M!CoreRestart, M!AgentRestart, M!ConsumeFail
<1>10. CASE UNCHANGED M!meterVars
  BY <1>2, <1>10 DEF M!meterVars
<1> QED BY <1>3, <1>4, <1>5, <1>6, <1>7, <1>8, <1>9, <1>10 DEF M!Next

\* What the core counted is billed or on its way as long as no frame, batch or
\* process was lost, whatever else fails.
THEOREM NothingDroppedHolds == M!Spec => []NothingDropped
<1>1. MeterInv /\ DropInv => NothingDropped
  BY DEF DropInv, NothingDropped, M!NothingDropped, Claimed, M!None
<1>2. M!Init => DropInv
  BY TypeSets DEF M!Init, DropInv, M!None
<1> QED BY <1>1, <1>2, MeterInit, MeterStep, DropStep, PTL DEF M!Spec

-----------------------------------------------------------------------------
(***************************************************************************)
(* WGLink: what an OK answer means, and the bytes that an apply resets.    *)
(***************************************************************************)
JobTypes == [st : {"idle", "one", "down", "up", "sync", "left", "ok"}, req : L!Tunnels,
             todo : SUBSET L!Ifaces, same : BOOLEAN, blind : BOOLEAN, errs : BOOLEAN,
             hit : SUBSET L!Ifaces, was : L!Tunnels]

LinkTypes ==
  /\ lastReq \in L!Tunnels /\ names \in SUBSET L!Ifaces /\ disk \in L!Tunnels
  /\ kern \in [L!Ifaces -> L!Running \cup {NoBlock}]
  /\ ifBytes \in [L!Ifaces -> SUBSET L!Ifaces] /\ dial \in [L!Ifaces -> SUBSET Peers]
  /\ applyJob \in JobTypes
  /\ keeper \in [st : {"off", "copied"}, conf : L!Tunnels]
  /\ handoff \in SUBSET L!Ifaces
  /\ frame \in [st : {"off", "out"}, bytes : SUBSET L!Ifaces, clear : BOOLEAN]
  /\ sent \in SUBSET L!Ifaces /\ applies \in Nat /\ failed \in Nat
  /\ born \in SUBSET L!Ifaces /\ talked \in [L!Ifaces -> SUBSET Peers]
  /\ agreed \in L!Tunnels /\ torn \in SUBSET L!Ifaces /\ spoiled \in BOOLEAN

OwnBytes == \A i \in L!Ifaces : ifBytes[i] \subseteq {i} \cap born
HandedOver == ~spoiled /\ frame.clear => handoff \subseteq frame.bytes
UnreadInv == OwnBytes /\ HandedOver /\ NothingUnread

Asked == L!TunnelsOf(applyJob.req)
Working == applyJob.st \in {"one", "down", "up", "sync"}
AtOne == applyJob.st \in {"down", "up", "sync"}

FiledOnes == \A i \in L!Ifaces : L!IfaceUp(i) => disk[i] # NoBlock
Noted == \A i \in L!Ifaces : talked[i] \subseteq dial[i] \cup L!Endpoints(i)
JobShape ==
  /\ applyJob.st \in {"idle", "ok"} => applyJob.hit = {} /\ applyJob.todo = {}
  /\ Working => /\ applyJob.todo # {} /\ ~applyJob.same
                /\ Asked = applyJob.hit \cup applyJob.todo
                /\ applyJob.hit \cap applyJob.todo = {}
  /\ applyJob.st = "left" =>
       /\ applyJob.todo \cap Asked = {}
       /\ IF applyJob.same
          THEN /\ applyJob.req = lastReq /\ applyJob.hit \cap Asked = {}
               /\ \A i \in Asked : L!IfaceUp(i)
          ELSE Asked \subseteq applyJob.hit
       /\ ~applyJob.blind /\ ~applyJob.errs =>
            \A i \in L!Ifaces : L!IfaceUp(i) => i \in Asked \cup applyJob.todo

Excused(i) ==
  i \in torn /\ (lastReq[i] = NoBlock \/ lastReq[i].block = applyJob.req[i].block)
Prepared ==
  /\ AtOne => /\ disk[L!Here] = applyJob.req[L!Here]
              /\ talked[L!Here] \subseteq dial[L!Here]
  /\ applyJob.st = "sync" =>
       /\ L!IfaceUp(L!Here)
       /\ (kern[L!Here].block = applyJob.req[L!Here].block \/ Excused(L!Here))
Done(i) ==
  IF applyJob.req[i] = NoBlock THEN ~L!IfaceUp(i)
  ELSE /\ disk[i] = applyJob.req[i] /\ L!IfaceUp(i)
       /\ kern[i].peers = applyJob.req[i].peers
       /\ (kern[i].block = applyJob.req[i].block \/ Excused(i))
AllDone == ~applyJob.errs => \A i \in applyJob.hit : Done(i)
Clean(i) ==
  L!IfaceUp(i) =>
    /\ kern[i].block = disk[i].block
    /\ lastReq[i] # NoBlock => kern[i].block = lastReq[i].block /\ kern[i].peers = lastReq[i].peers
AllClean ==
  \A i \in (L!Ifaces \ torn) \ applyJob.hit : ~(AtOne /\ i = L!Here) => Clean(i)
LinkInv ==
  /\ LinkTypes /\ lastReq = agreed /\ FiledOnes /\ Noted /\ JobShape
  /\ Prepared /\ AllDone /\ AllClean /\ OkRuns

-----------------------------------------------------------------------------
\* The interface at hand is one of those still to do.
LEMMA FirstOfSome ==
  ASSUME NEW S \in SUBSET L!Ifaces, S # {}
  PROVE  L!First(S) \in S
<1> DEFINE at == {k \in DOMAIN Order : Order[k] \in S}
<1>1. at \subseteq Nat /\ at # {}
  BY WGLinkAssumption DEF L!WGLinkAssumption, L!Ifaces
<1>2. PICK k \in at : \A n \in at : ~(<<n, k>> \in OpToRel(<, Nat))
  <2> HIDE DEF at
  <2> QED BY <1>1, WFMin, NatLessThanWellFounded
<1>3. \A n \in DOMAIN Order : n < k => Order[n] \notin S
  BY <1>1, <1>2 DEF OpToRel
<1>4. k \in DOMAIN Order /\ Order[k] \in S
  BY <1>2
<1> QED BY <1>3, <1>4 DEF L!First

LEMMA HereIn == LinkTypes /\ applyJob.todo # {} => L!Here \in applyJob.todo /\ L!Here \in L!Ifaces
BY FirstOfSome DEF LinkTypes, JobTypes, L!Here

LEMMA LinkConstants ==
  /\ NoBlock \notin L!Confs /\ NoBlock \notin L!Running /\ Requests \subseteq L!Tunnels
  /\ L!NoTunnel \in L!Tunnels /\ L!Idle \in JobTypes
  /\ MaxApplies \in Nat /\ MaxCommands \in Nat
<1>1. L!WGLinkAssumption
  BY WGLinkAssumption
<1>2. L!NoTunnel \in L!Tunnels
  BY DEF L!NoTunnel, L!Tunnels
<1> QED BY <1>1, <1>2 DEF L!WGLinkAssumption, L!Idle, JobTypes

\* The kernel's state of an interface that is up.
LEMMA RunningFacts ==
  ASSUME LinkTypes, NEW i \in L!Ifaces
  PROVE  /\ L!IfaceUp(i) => /\ kern[i] \in L!Running /\ kern[i].block \in Blocks
                            /\ kern[i].peers \in SUBSET Peers /\ kern[i].ends \in SUBSET Peers
         /\ L!Endpoints(i) \in SUBSET Peers
BY DEF LinkTypes, L!Running, L!IfaceUp, L!Endpoints

\* The same interfaces run the same blocks and peers, and no endpoint is forgotten.
SameRunning ==
  \A i \in L!Ifaces :
    /\ L!IfaceUp(i)' <=> L!IfaceUp(i)
    /\ L!IfaceUp(i) => /\ kern'[i].block = kern[i].block /\ kern'[i].peers = kern[i].peers
                       /\ kern[i].ends \subseteq kern'[i].ends

LEMMA KeepTunnelsFacts ==
  ASSUME LinkTypes, NEW conf \in L!Tunnels, L!KeepTunnels(conf)
  PROVE  /\ kern' \in [L!Ifaces -> L!Running \cup {NoBlock}]
         /\ dial' \in [L!Ifaces -> SUBSET Peers]
         /\ SameRunning
         /\ \A i \in L!Ifaces :
              /\ dial[i] \subseteq dial'[i] /\ dial'[i] \subseteq dial[i] \cup L!Endpoints(i)
              /\ conf[i] # NoBlock /\ L!IfaceUp(i) =>
                   /\ L!Endpoints(i) \subseteq dial'[i]
                   /\ conf[i].peers \cap dial'[i] \subseteq kern'[i].ends
<1>1. dial' \in [L!Ifaces -> SUBSET Peers]
  BY RunningFacts DEF L!KeepTunnels, LinkTypes
<1>2. ASSUME NEW i \in L!Ifaces
      PROVE  /\ kern'[i] \in L!Running \cup {NoBlock}
             /\ L!IfaceUp(i)' <=> L!IfaceUp(i)
             /\ L!IfaceUp(i) => /\ kern'[i].block = kern[i].block /\ kern'[i].peers = kern[i].peers
                                /\ kern[i].ends \subseteq kern'[i].ends
             /\ conf[i] # NoBlock /\ L!IfaceUp(i) => conf[i].peers \cap dial'[i] \subseteq kern'[i].ends
  <2>1. CASE conf[i] # NoBlock /\ L!IfaceUp(i)
    <3> DEFINE known == dial'[i]
               more == (conf[i].peers \cap known) \ kern[i].ends
    <3>1. kern'[i] = [kern[i] EXCEPT !.ends = @ \cup more]
      BY <1>1, <2>1 DEF L!KeepTunnels, L!Restored
    <3>2. kern[i] \in L!Running /\ more \in SUBSET Peers
      BY <1>1, <2>1, RunningFacts
    <3> HIDE DEF more
    <3>3. kern'[i] = [block |-> kern[i].block, peers |-> kern[i].peers, ends |-> kern[i].ends \cup more]
      BY <3>1, <3>2 DEF L!Running
    <3>4. kern'[i] \in L!Running
      BY <3>2, <3>3 DEF L!Running
    <3>5. conf[i].peers \cap known \subseteq kern[i].ends \cup more
      BY DEF more
    <3> QED BY <2>1, <3>3, <3>4, <3>5, LinkConstants DEF L!IfaceUp
  <2>2. CASE ~(conf[i] # NoBlock /\ L!IfaceUp(i))
    <3>1. kern'[i] = kern[i]
      BY <2>2 DEF L!KeepTunnels
    <3> QED BY <2>2, <3>1 DEF L!IfaceUp, LinkTypes
  <2> QED BY <2>1, <2>2
<1>3. kern' \in [L!Ifaces -> L!Running \cup {NoBlock}]
  BY <1>2 DEF L!KeepTunnels
<1>4. SameRunning
  BY <1>2 DEF SameRunning
<1>5. \A i \in L!Ifaces : dial'[i] = IF conf[i] # NoBlock THEN dial[i] \cup L!Endpoints(i) ELSE dial[i]
  BY DEF L!KeepTunnels
<1> QED BY <1>1, <1>2, <1>3, <1>4, <1>5

\* The job after a tunnel was finished.
LEMMA NextTunnelFacts ==
  ASSUME LinkTypes, applyJob.todo # {}, NEW bad \in BOOLEAN, L!NextTunnel(bad)
  PROVE  /\ applyJob' \in JobTypes
         /\ applyJob'.req = applyJob.req /\ applyJob'.same = applyJob.same
         /\ applyJob'.blind = applyJob.blind /\ applyJob'.was = applyJob.was
         /\ applyJob'.errs = (applyJob.errs \/ bad)
         /\ applyJob'.hit = applyJob.hit \cup {L!Here}
         /\ IF applyJob.todo \ {L!Here} = {}
            THEN applyJob'.st = "left" /\ applyJob'.todo = L!KnownIfaces \ L!TunnelsOf(applyJob.req)
            ELSE applyJob'.st = "one" /\ applyJob'.todo = applyJob.todo \ {L!Here}
<1> DEFINE rest == applyJob.todo \ {L!Here}
           st == IF rest = {} THEN "left" ELSE "one"
           more == IF rest = {} THEN L!KnownIfaces \ L!TunnelsOf(applyJob.req) ELSE rest
<1>1. applyJob' = [applyJob EXCEPT !.st = st, !.todo = more, !.errs = @ \/ bad, !.hit = @ \cup {L!Here}]
  BY DEF L!NextTunnel
<1>2. applyJob \in JobTypes /\ L!Here \in L!Ifaces
  BY HereIn DEF LinkTypes
<1>3. L!KnownIfaces \subseteq L!Ifaces
  BY DEF L!KnownIfaces, L!TunnelsOf, LinkTypes
<1>4. st \in {"left", "one"} /\ more \in SUBSET L!Ifaces
  BY <1>2, <1>3 DEF JobTypes
<1>5. /\ rest = {} => st = "left" /\ more = L!KnownIfaces \ L!TunnelsOf(applyJob.req)
      /\ rest # {} => st = "one" /\ more = rest
  OBVIOUS
<1> HIDE DEF st, more
<1>6. applyJob' \in JobTypes
  BY <1>1, <1>2, <1>4 DEF JobTypes
<1> QED BY <1>1, <1>2, <1>4, <1>5, <1>6 DEF JobTypes

-----------------------------------------------------------------------------
LEMMA LinkInit == L!Init => LinkTypes
<1> SUFFICES ASSUME L!Init PROVE LinkTypes
  OBVIOUS
<1>1. L!NoKeep \in [st : {"off", "copied"}, conf : L!Tunnels]
  BY LinkConstants DEF L!NoKeep
<1>2. kern \in [L!Ifaces -> L!Running \cup {NoBlock}]
  BY DEF L!Init, L!NoTunnel
<1>3. frame \in [st : {"off", "out"}, bytes : SUBSET L!Ifaces, clear : BOOLEAN]
  BY DEF L!Init
<1> QED BY <1>1, <1>2, <1>3, LinkConstants DEF L!Init, LinkTypes

\* What the kernel has after wg-quick up, syncconf and wg-quick down.
LEMMA KernTypes ==
  ASSUME LinkTypes, NEW i \in L!Ifaces
  PROVE  /\ \A conf \in L!Confs :
              [kern EXCEPT ![i] = [block |-> conf.block, peers |-> conf.peers, ends |-> {}]]
                \in [L!Ifaces -> L!Running \cup {NoBlock}]
         /\ [kern EXCEPT ![i] = NoBlock] \in [L!Ifaces -> L!Running \cup {NoBlock}]
<1>1. \A conf \in L!Confs : [block |-> conf.block, peers |-> conf.peers, ends |-> {}] \in L!Running
  BY DEF L!Confs, L!Running
<1> QED BY <1>1 DEF LinkTypes

\* The record of a running interface with other peers and endpoints.
LEMMA OtherEnds ==
  ASSUME NEW run \in L!Running, NEW more \in SUBSET Peers
  PROVE  [run EXCEPT !.ends = @ \cup more] = [block |-> run.block, peers |-> run.peers, ends |-> run.ends \cup more]
<1> DEFINE ends == run.ends \cup more
<1> HIDE DEF ends
<1>1. [run EXCEPT !.ends = ends] = [block |-> run.block, peers |-> run.peers, ends |-> ends]
  BY DEF L!Running
<1> QED BY <1>1 DEF ends

LEMMA OtherPeers ==
  ASSUME NEW run \in L!Running, NEW ps \in SUBSET Peers
  PROVE  [[run EXCEPT !.peers = ps] EXCEPT !.ends = {}] = [block |-> run.block, peers |-> ps, ends |-> {}]
<1> DEFINE one == [run EXCEPT !.peers = ps]
<1>1. one = [block |-> run.block, peers |-> ps, ends |-> run.ends]
  BY DEF L!Running
<1>2. one \in L!Running
  BY <1>1 DEF L!Running
<1> HIDE DEF one
<1>3. [one EXCEPT !.ends = {}] = [block |-> one.block, peers |-> one.peers, ends |-> {}]
  BY <1>2 DEF L!Running
<1> QED BY <1>1, <1>3 DEF one

LEMMA SyncedFacts ==
  ASSUME LinkTypes, NEW i \in L!Ifaces, L!IfaceUp(i), NEW conf \in L!Confs,
         kern' = [kern EXCEPT ![i].peers = conf.peers, ![i].ends = {}]
  PROVE  /\ kern' = [kern EXCEPT ![i] = [block |-> kern[i].block, peers |-> conf.peers, ends |-> {}]]
         /\ kern' \in [L!Ifaces -> L!Running \cup {NoBlock}]
<1>1. kern[i] \in L!Running /\ kern \in [L!Ifaces -> L!Running \cup {NoBlock}]
  BY RunningFacts DEF LinkTypes
<1> DEFINE one == [kern[i] EXCEPT !.peers = conf.peers]
           two == [one EXCEPT !.ends = {}]
<1>2. kern' = [kern EXCEPT ![i] = two]
  BY <1>1
<1>3. two = [block |-> kern[i].block, peers |-> conf.peers, ends |-> {}]
  <2>1. kern[i] \in L!Running /\ conf.peers \in SUBSET Peers
    BY <1>1 DEF L!Confs
  <2> QED BY <2>1, OtherPeers
<1>4. two \in L!Running
  BY <1>1, <1>3 DEF L!Running, L!Confs
<1> QED BY <1>1, <1>2, <1>3, <1>4

LEMMA HeardFacts ==
  ASSUME LinkTypes, NEW i \in L!Ifaces, NEW q \in Peers, L!Handshake(i, q)
  PROVE  /\ kern' \in [L!Ifaces -> L!Running \cup {NoBlock}]
         /\ SameRunning /\ q \in kern'[i].ends
<1>1. kern[i] \in L!Running /\ kern \in [L!Ifaces -> L!Running \cup {NoBlock}] /\ L!IfaceUp(i)
  BY RunningFacts DEF LinkTypes, L!Handshake
<1> DEFINE one == [kern[i] EXCEPT !.ends = @ \cup {q}]
<1>2. kern' = [kern EXCEPT ![i] = one]
  BY DEF L!Handshake
<1>3. one = [block |-> kern[i].block, peers |-> kern[i].peers, ends |-> kern[i].ends \cup {q}]
  BY <1>1, OtherEnds
<1>4. one \in L!Running
  BY <1>1, <1>3 DEF L!Running
<1> HIDE DEF one
<1>5. \A k \in L!Ifaces : kern'[k] = IF k = i THEN one ELSE kern[k]
  BY <1>1, <1>2
<1>6. kern' \in [L!Ifaces -> L!Running \cup {NoBlock}]
  BY <1>1, <1>2, <1>4
<1>7. SameRunning
  BY <1>1, <1>3, <1>4, <1>5, LinkConstants DEF SameRunning, L!IfaceUp
<1> QED BY <1>3, <1>5, <1>6, <1>7

\* The tunnel at hand is one the request has.
LEMMA AskedConf ==
  ASSUME LinkTypes, JobShape, Working
  PROVE  /\ applyJob.todo # {} /\ L!Here \in L!Ifaces /\ L!Here \in applyJob.todo
         /\ applyJob.req \in L!Tunnels /\ applyJob.req[L!Here] \in L!Confs
<1>1. applyJob.todo # {} /\ Asked = applyJob.hit \cup applyJob.todo
  BY DEF JobShape
<1>2. L!Here \in L!Ifaces /\ L!Here \in applyJob.todo
  BY <1>1, HereIn
<1>3. applyJob.req \in L!Tunnels
  BY DEF LinkTypes, JobTypes
<1>4. applyJob.req[L!Here] # NoBlock
  BY <1>1, <1>2 DEF Asked, L!TunnelsOf
<1>5. applyJob.req[L!Here] \in L!Confs \cup {NoBlock}
  BY <1>2, <1>3 DEF L!Tunnels
<1> QED BY <1>1, <1>2, <1>3, <1>4, <1>5

-----------------------------------------------------------------------------
\* A step that leaves the Apply, the files and what runs as they are.
LEMMA QuietStep ==
  ASSUME LinkInv, UNCHANGED <<lastReq, disk, applyJob, agreed, torn>>, LinkTypes', SameRunning,
         \A i \in L!Ifaces : dial[i] \subseteq dial'[i] /\ talked'[i] \subseteq dial'[i] \cup L!Endpoints(i)',
         applyJob.st # "idle" => talked' = talked
  PROVE  LinkInv'
<1>1. L!Here' = L!Here /\ Asked' = Asked /\ Working' = Working /\ AtOne' = AtOne
  BY DEF LinkInv, L!Here, Asked, Working, AtOne
<1>2. \A i \in L!Ifaces : L!IfaceUp(i)' <=> L!IfaceUp(i)
  BY DEF SameRunning
<1>3. FiledOnes' /\ Noted' /\ lastReq' = agreed'
  BY <1>2 DEF LinkInv, FiledOnes, Noted
<1>4. JobShape'
  <2>1. applyJob \in JobTypes /\ Asked \subseteq L!Ifaces
    BY DEF LinkInv, LinkTypes, Asked, L!TunnelsOf
  <2> QED BY <1>1, <1>2, <2>1 DEF LinkInv, JobShape
<1>5. \A i : Excused(i)' = Excused(i)
  BY DEF Excused
<1>6. Prepared'
  <2>1. CASE ~AtOne
    BY <1>1, <2>1 DEF Prepared, AtOne
  <2>2. CASE AtOne
    <3>1. PICK h \in L!Ifaces : h = L!Here
      BY <2>2, AskedConf DEF LinkInv, AtOne, Working
    <3>2. talked'[h] \subseteq dial'[h] /\ disk'[h] = applyJob'.req[h]
      BY <2>2, <3>1 DEF LinkInv, Prepared, AtOne
    <3>3. ASSUME applyJob.st = "sync"
          PROVE  kern'[h] # NoBlock /\ (kern'[h].block = applyJob.req[h].block \/ Excused(h))
      <4>1. L!IfaceUp(h) /\ (kern[h].block = applyJob.req[h].block \/ Excused(h))
        BY <3>1, <3>3 DEF LinkInv, Prepared, L!IfaceUp, Excused
      <4> QED BY <4>1 DEF SameRunning, L!IfaceUp
    <3> QED BY <1>1, <3>1, <3>2, <3>3 DEF Prepared, L!IfaceUp, Excused
  <2> QED BY <2>1, <2>2
<1>7. AllDone'
  <2>1. ASSUME NEW i \in L!Ifaces, Done(i) PROVE Done(i)'
    BY <1>2, <1>5, <2>1 DEF Done, SameRunning
  <2>2. applyJob.hit \subseteq L!Ifaces
    BY DEF LinkInv, LinkTypes, JobTypes
  <2> QED BY <2>1, <2>2 DEF LinkInv, AllDone
<1>8. AllClean'
  <2>1. ASSUME NEW i \in L!Ifaces, Clean(i) PROVE Clean(i)'
    BY <1>2, <2>1 DEF Clean, SameRunning
  <2> QED BY <1>1, <2>1 DEF LinkInv, AllClean
<1>9. OkRuns'
  <2> SUFFICES ASSUME applyJob.st = "ok" PROVE OkRuns'
    BY DEF OkRuns, L!OkRuns
  <2>1. (~applyJob.blind => \A i \in L!Ifaces : L!Right(i, applyJob.req) \/ L!Reverted(i)) /\ L!StillDialled
    BY DEF LinkInv, OkRuns, L!OkRuns
  <2>2. \A i \in L!Ifaces : (L!Right(i, applyJob.req) => L!Right(i, applyJob.req)') /\ (L!Reverted(i)' = L!Reverted(i))
    BY <1>2 DEF L!Right, L!Reverted, SameRunning
  <2>3. L!StillDialled'
    <3> SUFFICES ASSUME NEW i \in L!Ifaces, applyJob.req[i] # NoBlock, L!IfaceUp(i)'
                 PROVE  talked'[i] \cap applyJob.req[i].peers \subseteq kern'[i].ends
      BY DEF L!StillDialled, L!TunnelsOf
    <3>1. talked[i] \cap applyJob.req[i].peers \subseteq kern[i].ends
      BY <1>2, <2>1 DEF L!StillDialled, L!TunnelsOf
    <3> QED BY <1>2, <3>1 DEF SameRunning
  <2> QED BY <2>1, <2>2, <2>3 DEF OkRuns, L!OkRuns
<1> QED BY <1>3, <1>4, <1>6, <1>7, <1>8, <1>9 DEF LinkInv

\* A step that finishes the tunnel at hand, h.
LEMMA EndTunnel ==
  ASSUME LinkInv, LinkTypes', Working, NEW bad \in BOOLEAN, L!NextTunnel(bad),
         UNCHANGED <<lastReq, disk, agreed, torn, talked>>,
         NEW h \in L!Ifaces, h = L!Here,
         \A i \in L!Ifaces : (i # h => kern'[i] = kern[i]) /\ dial[i] \subseteq dial'[i],
         kern'[h] # NoBlock => disk[h] # NoBlock,
         talked[h] \subseteq dial'[h] \cup L!Endpoints(h)',
         ~bad => /\ disk[h] = applyJob.req[h] /\ kern'[h] # NoBlock
                 /\ kern'[h].peers = applyJob.req[h].peers
                 /\ (kern'[h].block = applyJob.req[h].block \/ Excused(h))
  PROVE  LinkInv'
<1>1. /\ h \in applyJob.todo /\ applyJob.todo # {} /\ applyJob.req[h] \in L!Confs
      /\ ~applyJob.same /\ Asked = applyJob.hit \cup applyJob.todo
      /\ applyJob.hit \cap applyJob.todo = {}
  BY AskedConf DEF LinkInv, JobShape
<1> DEFINE rest == applyJob.todo \ {h}
<1>2. /\ applyJob' \in JobTypes
      /\ applyJob'.req = applyJob.req /\ ~applyJob'.same
      /\ applyJob'.blind = applyJob.blind
      /\ applyJob'.errs = (applyJob.errs \/ bad)
      /\ applyJob'.hit = applyJob.hit \cup {h}
      /\ rest = {} => applyJob'.st = "left" /\ applyJob'.todo = L!KnownIfaces \ Asked
      /\ rest # {} => applyJob'.st = "one" /\ applyJob'.todo = rest
  BY <1>1, NextTunnelFacts DEF LinkInv, Asked
<1>3. Asked' = Asked /\ applyJob'.st \in {"left", "one"}
  BY <1>2 DEF Asked, L!TunnelsOf
<1>4. FiledOnes' /\ Noted' /\ lastReq' = agreed'
  <2>1. \A i \in L!Ifaces : kern'[i] # NoBlock => disk[i] # NoBlock
    BY DEF LinkInv, FiledOnes, L!IfaceUp
  <2>2. ASSUME NEW i \in L!Ifaces PROVE talked[i] \subseteq dial'[i] \cup L!Endpoints(i)'
    <3>1. CASE i = h
      BY <3>1
    <3>2. CASE i # h
      BY <3>2 DEF LinkInv, Noted, L!Endpoints, L!IfaceUp
    <3> QED BY <3>1, <3>2
  <2> QED BY <2>1, <2>2 DEF LinkInv, FiledOnes, Noted, L!IfaceUp
<1>5. JobShape'
  <2>1. CASE rest # {}
    <3>1. /\ applyJob'.st = "one" /\ applyJob'.todo = rest /\ applyJob'.hit = applyJob.hit \cup {h}
          /\ ~applyJob'.same
      BY <1>2, <2>1
    <3>2. Asked' = applyJob'.hit \cup applyJob'.todo /\ applyJob'.hit \cap applyJob'.todo = {}
      BY <1>1, <1>3, <3>1
    <3> QED BY <2>1, <3>1, <3>2 DEF JobShape, Working
  <2>2. CASE rest = {}
    <3>1. /\ applyJob'.st = "left" /\ applyJob'.todo = L!KnownIfaces \ Asked
          /\ ~applyJob'.same
      BY <1>2, <2>2
    <3>2. Asked' \subseteq applyJob'.hit /\ applyJob'.todo \cap Asked' = {}
      BY <1>1, <1>2, <1>3, <2>2, <3>1
    <3>3. \A i \in L!Ifaces : kern'[i] # NoBlock => i \in Asked \cup L!KnownIfaces
      <4>1. \A i \in L!Ifaces : kern[i] # NoBlock => i \in L!KnownIfaces
        BY DEF LinkInv, FiledOnes, L!IfaceUp, L!KnownIfaces, L!TunnelsOf
      <4> QED BY <1>1, <4>1
    <3> QED BY <1>3, <3>1, <3>2, <3>3 DEF JobShape, Working, L!IfaceUp
  <2> QED BY <2>1, <2>2
<1>6. Prepared' /\ OkRuns'
  BY <1>3 DEF Prepared, AtOne, OkRuns, L!OkRuns
<1>7. AllDone'
  <2> SUFFICES ASSUME ~applyJob.errs, ~bad, NEW i \in L!Ifaces, i \in applyJob.hit \cup {h} PROVE Done(i)'
    <3>1. applyJob'.hit \subseteq L!Ifaces
      BY <1>2 DEF JobTypes
    <3> QED BY <1>2, <3>1 DEF AllDone
  <2>1. CASE i = h
    BY <1>1, <1>2, <2>1, LinkConstants DEF Done, Excused, L!IfaceUp
  <2>2. CASE i # h
    <3>1. Done(i)
      BY <2>2 DEF LinkInv, AllDone
    <3> QED BY <1>2, <2>2, <3>1 DEF Done, Excused, L!IfaceUp
  <2> QED BY <2>1, <2>2
<1>8. AllClean'
  <2> SUFFICES ASSUME NEW i \in L!Ifaces, i \notin torn, i \notin applyJob.hit, i # h PROVE Clean(i)'
    BY <1>2 DEF AllClean
  <2>1. Clean(i)
    BY DEF LinkInv, AllClean
  <2> QED BY <2>1 DEF Clean, L!IfaceUp
<1> QED BY <1>4, <1>5, <1>6, <1>7, <1>8 DEF LinkInv

\* Of a tunnel that is being applied.
LEMMA AtHand ==
  ASSUME LinkInv, Working
  PROVE  \E h \in L!Ifaces :
           /\ h = L!Here /\ h \in applyJob.todo /\ applyJob.todo # {}
           /\ applyJob.req[h] \in L!Confs
           /\ h \notin applyJob.hit
           /\ AtOne => disk[h] = applyJob.req[h] /\ talked[h] \subseteq dial[h]
           /\ applyJob.st = "sync" =>
                kern[h] # NoBlock /\ (kern[h].block = applyJob.req[h].block \/ Excused(h))
<1>1. PICK h \in L!Ifaces : h = L!Here
  BY AskedConf DEF LinkInv
<1>2. h \in applyJob.todo /\ applyJob.todo # {} /\ applyJob.req[h] \in L!Confs /\ h \notin applyJob.hit
  BY <1>1, AskedConf DEF LinkInv, JobShape
<1> QED BY <1>1, <1>2 DEF LinkInv, Prepared, L!IfaceUp, Excused

LEMMA LinkTunnelFails ==
  ASSUME LinkInv,
         L!WriteFails \/ L!BounceDownFails \/ L!BringUpFails \/ L!SyncFails
  PROVE  LinkInv'
<1>0. Working /\ L!NextTunnel(TRUE)
  BY DEF L!WriteFails, L!BounceDownFails, L!BringUpFails, L!SyncFails, L!Working, Working
<1>1. PICK h \in L!Ifaces :
         /\ h = L!Here /\ h \in applyJob.todo /\ applyJob.todo # {}
         /\ applyJob.req[h] \in L!Confs
         /\ AtOne => disk[h] = applyJob.req[h] /\ talked[h] \subseteq dial[h]
  BY <1>0, AtHand
<1>2. applyJob' \in JobTypes
  BY <1>0, <1>1, NextTunnelFacts DEF LinkInv
<1>3. UNCHANGED <<lastReq, names, disk, kern, ifBytes, keeper, frame, sent, born, talked, applies, agreed, torn>>
  BY DEF L!WriteFails, L!BounceDownFails, L!BringUpFails, L!SyncFails
<1>4. dial' \in [L!Ifaces -> SUBSET Peers] /\ (\A i \in L!Ifaces : dial[i] \subseteq dial'[i])
  <2>1. CASE L!WriteFails
    <3>1. dial' = [dial EXCEPT ![h] = @ \cup L!Endpoints(h)]
      BY <1>1, <2>1 DEF L!WriteFails
    <3>2. L!Endpoints(h) \in SUBSET Peers
      BY RunningFacts DEF LinkInv
    <3> QED BY <3>1, <3>2 DEF LinkInv, LinkTypes
  <2>2. CASE dial' = dial
    BY <2>2 DEF LinkInv, LinkTypes
  <2> QED BY <2>1, <2>2 DEF L!BounceDownFails, L!BringUpFails, L!SyncFails
<1>5. handoff' \in SUBSET L!Ifaces /\ spoiled' \in BOOLEAN /\ failed' \in Nat
  <2>1. failed' = failed + 1
    BY DEF L!WriteFails, L!BounceDownFails, L!BringUpFails, L!SyncFails, L!Fault
  <2>2. (handoff' = handoff /\ spoiled' = spoiled) \/ L!Capture(h)
    BY <1>1 DEF L!WriteFails, L!BounceDownFails, L!BringUpFails, L!SyncFails
  <2>3. handoff' \in SUBSET L!Ifaces
    BY <2>2 DEF LinkInv, LinkTypes, L!Capture
  <2>4. spoiled' \in BOOLEAN
    BY Zenon, <2>2 DEF LinkInv, LinkTypes, L!Capture
  <2> QED BY <2>1, <2>3, <2>4 DEF LinkInv, LinkTypes
<1>6. LinkTypes'
  BY <1>2, <1>3, <1>4, <1>5 DEF LinkInv, LinkTypes
<1>7. kern'[h] # NoBlock => disk[h] # NoBlock
  BY <1>3 DEF LinkInv, FiledOnes, L!IfaceUp
<1>8. talked[h] \subseteq dial'[h] \cup L!Endpoints(h)'
  BY <1>3, <1>4 DEF LinkInv, Noted, L!Endpoints, L!IfaceUp
<1> QED BY <1>0, <1>1, <1>3, <1>4, <1>6, <1>7, <1>8, EndTunnel

LEMMA LinkBringUp == LinkInv /\ L!BringUp => LinkInv'
<1> SUFFICES ASSUME LinkInv, L!BringUp PROVE LinkInv'
  OBVIOUS
<1>0. Working /\ L!NextTunnel(FALSE) /\ AtOne
  BY DEF L!BringUp, L!Working, Working, AtOne
<1>1. PICK h \in L!Ifaces :
         /\ h = L!Here /\ applyJob.todo # {}
         /\ applyJob.req[h] \in L!Confs
         /\ disk[h] = applyJob.req[h] /\ talked[h] \subseteq dial[h]
  BY <1>0, AtHand
<1> DEFINE conf == applyJob.req[h]
           run == [block |-> conf.block, peers |-> conf.peers, ends |-> {}]
<1>2. /\ kern' = [kern EXCEPT ![h] = run]
      /\ UNCHANGED <<lastReq, names, disk, ifBytes, dial, keeper, handoff, frame, sent, born, talked, applies, failed, agreed, torn, spoiled>>
  BY <1>1 DEF L!BringUp
<1>3. kern' \in [L!Ifaces -> L!Running \cup {NoBlock}]
  BY <1>1, <1>2, KernTypes DEF LinkInv
<1>4. applyJob' \in JobTypes
  BY <1>0, <1>1, NextTunnelFacts DEF LinkInv
<1>5. LinkTypes'
  BY <1>2, <1>3, <1>4 DEF LinkInv, LinkTypes
<1>6. kern'[h] = run /\ (\A i \in L!Ifaces : i # h => kern'[i] = kern[i])
  BY <1>2 DEF LinkInv, LinkTypes
<1>7. run \in L!Running
  BY <1>1 DEF L!Running, L!Confs
<1>8. run # NoBlock /\ conf # NoBlock
  BY <1>1, <1>7, LinkConstants
<1>9. /\ disk[h] = applyJob.req[h] /\ kern'[h] # NoBlock
      /\ kern'[h].peers = applyJob.req[h].peers
      /\ kern'[h].block = applyJob.req[h].block
  BY <1>1, <1>6, <1>8
<1>10. UNCHANGED <<lastReq, disk, agreed, torn, talked>> /\ (\A i \in L!Ifaces : dial[i] \subseteq dial'[i])
  BY <1>2
<1>11. talked[h] \subseteq dial'[h] \cup L!Endpoints(h)'
  BY <1>1, <1>2
<1> QED BY <1>0, <1>1, <1>5, <1>6, <1>8, <1>9, <1>10, <1>11, EndTunnel

LEMMA LinkSyncPeers == LinkInv /\ L!SyncPeers => LinkInv'
<1> SUFFICES ASSUME LinkInv, L!SyncPeers PROVE LinkInv'
  OBVIOUS
<1>0. Working /\ L!NextTunnel(FALSE) /\ AtOne /\ applyJob.st = "sync"
  BY DEF L!SyncPeers, L!Working, Working, AtOne
<1>1. PICK h \in L!Ifaces :
         /\ h = L!Here /\ applyJob.todo # {}
         /\ applyJob.req[h] \in L!Confs
         /\ disk[h] = applyJob.req[h] /\ talked[h] \subseteq dial[h]
         /\ kern[h] # NoBlock /\ (kern[h].block = applyJob.req[h].block \/ Excused(h))
  BY <1>0, AtHand
<1> DEFINE conf == applyJob.req[h]
           run == [block |-> kern[h].block, peers |-> conf.peers, ends |-> {}]
<1>2. /\ kern' = [kern EXCEPT ![h].peers = conf.peers, ![h].ends = {}]
      /\ UNCHANGED <<lastReq, names, disk, ifBytes, dial, keeper, handoff, frame, sent, born, talked, applies, failed, agreed, torn, spoiled>>
  BY <1>1 DEF L!SyncPeers
<1>3. kern' = [kern EXCEPT ![h] = run] /\ kern' \in [L!Ifaces -> L!Running \cup {NoBlock}]
  BY <1>1, <1>2, SyncedFacts DEF LinkInv, L!IfaceUp
<1>4. applyJob' \in JobTypes
  BY <1>0, <1>1, NextTunnelFacts DEF LinkInv
<1>5. LinkTypes'
  BY <1>2, <1>3, <1>4 DEF LinkInv, LinkTypes
<1>6. kern'[h] = run /\ (\A i \in L!Ifaces : i # h => kern'[i] = kern[i])
  BY <1>3 DEF LinkInv, LinkTypes
<1>7. run \in L!Running
  BY <1>1, RunningFacts DEF LinkInv, L!Running, L!Confs, L!IfaceUp
<1>8. run # NoBlock /\ conf # NoBlock
  BY <1>1, <1>7, LinkConstants
<1>9. /\ disk[h] = applyJob.req[h] /\ kern'[h] # NoBlock
      /\ kern'[h].peers = applyJob.req[h].peers
      /\ (kern'[h].block = applyJob.req[h].block \/ Excused(h))
  BY <1>1, <1>6, <1>8
<1>10. UNCHANGED <<lastReq, disk, agreed, torn, talked>> /\ (\A i \in L!Ifaces : dial[i] \subseteq dial'[i])
  BY <1>2
<1>11. talked[h] \subseteq dial'[h] \cup L!Endpoints(h)'
  BY <1>1, <1>2
<1> QED BY <1>0, <1>1, <1>5, <1>6, <1>8, <1>9, <1>10, <1>11, EndTunnel

\* The job goes on with the tunnel at hand.
LEMMA NextState ==
  ASSUME LinkTypes, NEW st \in {"idle", "one", "down", "up", "sync", "left", "ok"},
         applyJob' = [applyJob EXCEPT !.st = st]
  PROVE  /\ applyJob' \in JobTypes /\ applyJob'.st = st
         /\ applyJob'.req = applyJob.req /\ applyJob'.todo = applyJob.todo
         /\ applyJob'.same = applyJob.same /\ applyJob'.blind = applyJob.blind
         /\ applyJob'.errs = applyJob.errs /\ applyJob'.hit = applyJob.hit
         /\ applyJob'.was = applyJob.was /\ L!Here' = L!Here /\ Asked' = Asked
<1>1. applyJob \in JobTypes
  BY DEF LinkTypes
<1>2. applyJob' \in JobTypes /\ applyJob'.st = st
  BY <1>1 DEF JobTypes
<1>3. /\ applyJob'.req = applyJob.req /\ applyJob'.todo = applyJob.todo
      /\ applyJob'.same = applyJob.same /\ applyJob'.blind = applyJob.blind
      /\ applyJob'.errs = applyJob.errs /\ applyJob'.hit = applyJob.hit
      /\ applyJob'.was = applyJob.was
  BY <1>1 DEF JobTypes
<1> QED BY <1>2, <1>3 DEF L!Here, Asked

\* A step on the tunnel at hand, h, that leaves the others alone.
LEMMA OnTunnel ==
  ASSUME LinkInv, LinkTypes', Working, NEW st \in {"down", "up", "sync"},
         applyJob' = [applyJob EXCEPT !.st = st],
         UNCHANGED <<lastReq, agreed, torn, talked>>,
         NEW h \in L!Ifaces, h = L!Here,
         \A i \in L!Ifaces : (i # h => kern'[i] = kern[i] /\ disk'[i] = disk[i])
                            /\ dial[i] \subseteq dial'[i],
         kern'[h] = kern[h] \/ kern'[h] = NoBlock,
         disk'[h] = applyJob.req[h], talked[h] \subseteq dial'[h],
         st = "sync" => kern'[h] # NoBlock /\ (kern'[h].block = applyJob.req[h].block \/ Excused(h))
  PROVE  LinkInv'
<1>1. h \in applyJob.todo /\ applyJob.req[h] # NoBlock /\ h \notin applyJob.hit
  BY AtHand, LinkConstants DEF LinkInv
<1>2. /\ applyJob' \in JobTypes /\ applyJob'.st = st
      /\ applyJob'.req = applyJob.req /\ applyJob'.todo = applyJob.todo
      /\ applyJob'.same = applyJob.same /\ applyJob'.errs = applyJob.errs
      /\ applyJob'.hit = applyJob.hit /\ L!Here' = h /\ Asked' = Asked
  BY NextState DEF LinkInv
<1>3. \A i \in L!Ifaces : kern'[i] # NoBlock => kern'[i] = kern[i]
  OBVIOUS
<1>4. FiledOnes' /\ Noted' /\ lastReq' = agreed'
  <2>1. ASSUME NEW i \in L!Ifaces, kern'[i] # NoBlock PROVE disk'[i] # NoBlock
    BY <1>1, <1>3, <2>1 DEF LinkInv, FiledOnes, L!IfaceUp
  <2>2. ASSUME NEW i \in L!Ifaces PROVE talked[i] \subseteq dial'[i] \cup L!Endpoints(i)'
    BY DEF LinkInv, Noted, L!Endpoints, L!IfaceUp
  <2> QED BY <2>1, <2>2 DEF LinkInv, FiledOnes, Noted, L!IfaceUp
<1>5. JobShape'
  BY <1>2 DEF LinkInv, JobShape, Working
<1>6. Prepared'
  BY <1>2 DEF Prepared, Excused, L!IfaceUp
<1>7. AllDone'
  <2> SUFFICES ASSUME ~applyJob.errs, NEW i \in L!Ifaces, i \in applyJob.hit PROVE Done(i)'
    <3>1. applyJob'.hit \subseteq L!Ifaces
      BY <1>2 DEF JobTypes
    <3> QED BY <1>2, <3>1 DEF AllDone
  <2>1. Done(i) /\ i # h
    BY <1>1 DEF LinkInv, AllDone
  <2> QED BY <1>2, <2>1 DEF Done, Excused, L!IfaceUp
<1>8. AllClean'
  <2> SUFFICES ASSUME NEW i \in L!Ifaces, i \notin torn, i \notin applyJob.hit, i # h PROVE Clean(i)'
    BY <1>2 DEF AllClean, AtOne
  <2>1. Clean(i)
    BY DEF LinkInv, AllClean
  <2> QED BY <2>1 DEF Clean, L!IfaceUp
<1>9. OkRuns'
  BY <1>2 DEF OkRuns, L!OkRuns
<1> QED BY <1>4, <1>5, <1>6, <1>7, <1>8, <1>9 DEF LinkInv

LEMMA LinkPrepare == LinkInv /\ L!Prepare => LinkInv'
<1> SUFFICES ASSUME LinkInv, L!Prepare PROVE LinkInv'
  OBVIOUS
<1>0. Working /\ applyJob.st = "one"
  BY DEF L!Prepare, L!Working, Working
<1>1. PICK h \in L!Ifaces :
         /\ h = L!Here /\ applyJob.todo # {} /\ h \notin applyJob.hit
         /\ applyJob.req[h] \in L!Confs
  BY <1>0, AtHand
<1> DEFINE b == ~L!IfaceUp(h) \/ L!NeedsBounce(h, applyJob.req[h])
           st == IF ~b THEN "sync" ELSE IF L!IfaceUp(h) THEN "down" ELSE "up"
<1>2. /\ dial' = [dial EXCEPT ![h] = @ \cup L!Endpoints(h)]
      /\ applyJob' = [applyJob EXCEPT !.st = st]
      /\ disk' = [disk EXCEPT ![h] = applyJob.req[h]]
      /\ UNCHANGED <<lastReq, names, kern, ifBytes, keeper, handoff, frame, sent, born, talked, applies, failed, agreed, torn, spoiled>>
  BY <1>1 DEF L!Prepare
<1>3. st \in {"down", "up", "sync"}
  OBVIOUS
<1>4. applyJob' \in JobTypes
  BY <1>2, <1>3, NextState DEF LinkInv
<1>5. L!Endpoints(h) \in SUBSET Peers
  BY RunningFacts DEF LinkInv
<1>6. dial' \in [L!Ifaces -> SUBSET Peers] /\ disk' \in L!Tunnels
  BY <1>1, <1>2, <1>5 DEF LinkInv, LinkTypes, L!Tunnels
<1>7. LinkTypes'
  BY <1>2, <1>4, <1>6 DEF LinkInv, LinkTypes
<1>8. ASSUME st = "sync"
      PROVE  kern[h] # NoBlock /\ (kern[h].block = applyJob.req[h].block \/ Excused(h))
  <2>1. L!IfaceUp(h) /\ ~L!NeedsBounce(h, applyJob.req[h])
    BY <1>8
  <2>2. IF lastReq[h] # NoBlock THEN lastReq[h].block = applyJob.req[h].block
        ELSE disk[h].block = applyJob.req[h].block
    BY <2>1 DEF L!NeedsBounce
  <2>3. CASE h \in torn
    BY <2>1, <2>2, <2>3 DEF Excused, L!IfaceUp
  <2>4. CASE h \notin torn
    <3>1. Clean(h)
      BY <1>0, <1>1, <2>4 DEF LinkInv, AllClean, AtOne
    <3> QED BY <2>1, <2>2, <3>1 DEF Clean, L!IfaceUp
  <2> QED BY <2>3, <2>4
<1> HIDE DEF st
<1>9. /\ disk'[h] = applyJob.req[h]
      /\ \A i \in L!Ifaces : (i # h => disk'[i] = disk[i]) /\ dial[i] \subseteq dial'[i]
  BY <1>2 DEF LinkInv, LinkTypes, L!Tunnels
<1>10. talked[h] \subseteq dial'[h]
  BY <1>2 DEF LinkInv, LinkTypes, Noted
<1> QED BY <1>0, <1>1, <1>2, <1>3, <1>7, <1>8, <1>9, <1>10, OnTunnel

LEMMA LinkBounceDown == LinkInv /\ L!BounceDown => LinkInv'
<1> SUFFICES ASSUME LinkInv, L!BounceDown PROVE LinkInv'
  OBVIOUS
<1>0. Working /\ AtOne
  BY DEF L!BounceDown, L!Working, Working, AtOne
<1>1. PICK h \in L!Ifaces :
         /\ h = L!Here
         /\ disk[h] = applyJob.req[h] /\ talked[h] \subseteq dial[h]
  BY <1>0, AtHand
<1>2. /\ L!Capture(h) /\ L!TakeDown(h)
      /\ applyJob' = [applyJob EXCEPT !.st = "up"]
      /\ UNCHANGED <<lastReq, names, disk, dial, keeper, frame, sent, born, talked, applies, failed, agreed, torn>>
  BY <1>1 DEF L!BounceDown
<1>3. applyJob' \in JobTypes
  BY <1>2, NextState DEF LinkInv
<1>4. /\ kern' = [kern EXCEPT ![h] = NoBlock] /\ kern' \in [L!Ifaces -> L!Running \cup {NoBlock}]
      /\ ifBytes' \in [L!Ifaces -> SUBSET L!Ifaces]
  BY <1>2, KernTypes DEF LinkInv, LinkTypes, L!TakeDown, L!Down
<1>5. handoff' \in SUBSET L!Ifaces
  BY <1>2 DEF LinkInv, LinkTypes, L!Capture
<1>6. spoiled' \in BOOLEAN
  BY Zenon, <1>2 DEF LinkInv, LinkTypes, L!Capture
<1>7. LinkTypes'
  BY <1>2, <1>3, <1>4, <1>5, <1>6 DEF LinkInv, LinkTypes
<1>8. kern'[h] = NoBlock /\ (\A i \in L!Ifaces : i # h => kern'[i] = kern[i])
  BY <1>4 DEF LinkInv, LinkTypes
<1> QED BY <1>0, <1>1, <1>2, <1>7, <1>8, OnTunnel

-----------------------------------------------------------------------------
\* A step on the leftover at hand, h: the job goes on without it.
LEMMA OnLeftover ==
  ASSUME LinkInv, LinkTypes', applyJob.st = "left",
         NEW h \in applyJob.todo, NEW bad \in BOOLEAN,
         applyJob' = [applyJob EXCEPT !.todo = @ \ {h}, !.errs = @ \/ bad, !.hit = @ \cup {h}],
         UNCHANGED <<lastReq, dial, agreed, torn>>,
         \A i \in L!Ifaces : i # h => kern'[i] = kern[i] /\ disk'[i] = disk[i] /\ talked'[i] = talked[i],
         (kern'[h] = kern[h] /\ bad) \/ kern'[h] = NoBlock,
         kern'[h] # NoBlock => disk'[h] = disk[h],
         talked'[h] \subseteq dial[h] \cup L!Endpoints(h)'
  PROVE  LinkInv'
<1>1. applyJob \in JobTypes /\ h \in L!Ifaces
  BY DEF LinkInv, LinkTypes, JobTypes
<1>2. /\ applyJob'.st = "left" /\ applyJob'.todo = applyJob.todo \ {h}
      /\ applyJob'.req = applyJob.req /\ applyJob'.same = applyJob.same
      /\ applyJob'.blind = applyJob.blind /\ applyJob'.errs = (applyJob.errs \/ bad)
      /\ applyJob'.hit = applyJob.hit \cup {h}
  BY <1>1 DEF JobTypes
<1>3. Asked' = Asked /\ h \notin Asked /\ applyJob.req[h] = NoBlock
  <2>1. h \notin Asked
    BY DEF LinkInv, JobShape
  <2> QED BY <1>1, <1>2, <2>1 DEF Asked, L!TunnelsOf
<1>4. \A i \in L!Ifaces : kern'[i] # NoBlock => kern'[i] = kern[i] /\ disk'[i] = disk[i]
  OBVIOUS
<1>5. FiledOnes' /\ Noted' /\ lastReq' = agreed'
  <2>1. \A i \in L!Ifaces : kern'[i] # NoBlock => disk'[i] # NoBlock
    BY <1>4 DEF LinkInv, FiledOnes, L!IfaceUp
  <2>2. ASSUME NEW i \in L!Ifaces PROVE talked'[i] \subseteq dial[i] \cup L!Endpoints(i)'
    BY DEF LinkInv, Noted, L!Endpoints, L!IfaceUp
  <2> QED BY <2>1, <2>2 DEF LinkInv, FiledOnes, Noted, L!IfaceUp
<1>6. JobShape'
  <2>1. applyJob'.todo \cap Asked' = {}
    BY <1>2, <1>3 DEF LinkInv, JobShape
  <2>2. IF applyJob.same
        THEN /\ applyJob.req = lastReq /\ applyJob'.hit \cap Asked = {}
             /\ \A i \in Asked : kern'[i] # NoBlock
        ELSE Asked \subseteq applyJob'.hit
    <3>1. Asked \subseteq L!Ifaces
      BY DEF Asked, L!TunnelsOf
    <3> QED BY <1>2, <1>3, <3>1 DEF LinkInv, JobShape, L!IfaceUp
  <2>3. ~applyJob'.blind /\ ~applyJob'.errs =>
           \A i \in L!Ifaces : kern'[i] # NoBlock => i \in Asked \cup applyJob'.todo
    BY <1>2 DEF LinkInv, JobShape, L!IfaceUp
  <2> QED BY <1>2, <1>3, <2>1, <2>2, <2>3 DEF JobShape, Working, L!IfaceUp
<1>7. Prepared' /\ OkRuns'
  BY <1>2 DEF Prepared, AtOne, OkRuns, L!OkRuns
<1>8. AllDone'
  <2> SUFFICES ASSUME ~applyJob.errs, ~bad, NEW i \in L!Ifaces, i \in applyJob.hit \cup {h} PROVE Done(i)'
    <3>1. applyJob'.hit \subseteq L!Ifaces
      BY <1>1, <1>2 DEF JobTypes
    <3> QED BY <1>2, <3>1 DEF AllDone
  <2>1. CASE i = h
    BY <1>2, <1>3, <2>1 DEF Done, L!IfaceUp
  <2>2. CASE i # h
    <3>1. Done(i)
      BY <2>2 DEF LinkInv, AllDone
    <3> QED BY <1>2, <2>2, <3>1 DEF Done, Excused, L!IfaceUp
  <2> QED BY <2>1, <2>2
<1>9. AllClean'
  <2> SUFFICES ASSUME NEW i \in L!Ifaces, i \notin torn, i \notin applyJob.hit, i # h PROVE Clean(i)'
    BY <1>2 DEF AllClean
  <2>1. Clean(i)
    BY DEF LinkInv, AllClean, AtOne
  <2> QED BY <2>1 DEF Clean, L!IfaceUp
<1> QED BY <1>5, <1>6, <1>7, <1>8, <1>9 DEF LinkInv

\* The job without the leftover h.
LEMMA WithoutLeftover ==
  ASSUME LinkTypes, NEW h \in applyJob.todo, NEW bad \in BOOLEAN,
         applyJob' = [applyJob EXCEPT !.todo = @ \ {h}, !.errs = @ \/ bad, !.hit = @ \cup {h}]
  PROVE  applyJob' \in JobTypes
BY DEF LinkTypes, JobTypes

LEMMA LinkDropLeftover == LinkInv /\ L!DropLeftover => LinkInv'
<1> SUFFICES ASSUME LinkInv, L!DropLeftover PROVE LinkInv'
  OBVIOUS
<1>0. applyJob.st = "left" /\ applyJob.todo # {} /\ LinkTypes /\ applyJob \in JobTypes
  BY DEF L!DropLeftover, L!Working, LinkInv, LinkTypes
<1>1. PICK h \in applyJob.todo : h = L!Here /\ h \in L!Ifaces
  BY <1>0, HereIn
<1>2. /\ IF L!IfaceUp(h) THEN L!Capture(h) /\ L!TakeDown(h) ELSE UNCHANGED <<kern, ifBytes, handoff, spoiled>>
      /\ L!Unheard(h)
      /\ disk' = [disk EXCEPT ![h] = NoBlock]
      /\ applyJob' = [applyJob EXCEPT !.todo = @ \ {h}, !.hit = @ \cup {h}]
      /\ UNCHANGED <<lastReq, names, dial, keeper, frame, sent, born, applies, failed, agreed, torn>>
  BY <1>1 DEF L!DropLeftover, L!IfaceUp
<1>3. applyJob' = [applyJob EXCEPT !.todo = @ \ {h}, !.errs = @ \/ FALSE, !.hit = @ \cup {h}]
  BY <1>0, <1>2 DEF JobTypes
<1>4. applyJob' \in JobTypes
  BY <1>0, <1>3, WithoutLeftover
<1>5. disk' \in L!Tunnels /\ (\A i \in L!Ifaces : i # h => disk'[i] = disk[i])
  BY <1>0, <1>2 DEF LinkTypes, L!Tunnels
<1>6. talked' \in [L!Ifaces -> SUBSET Peers] /\ (\A i \in L!Ifaces : i # h => talked'[i] = talked[i])
      /\ talked'[h] \subseteq dial[h]
  BY <1>0, <1>1, <1>2 DEF LinkTypes, L!Unheard
<1>7. /\ kern' \in [L!Ifaces -> L!Running \cup {NoBlock}] /\ ifBytes' \in [L!Ifaces -> SUBSET L!Ifaces]
      /\ kern'[h] = NoBlock /\ (\A i \in L!Ifaces : i # h => kern'[i] = kern[i])
  <2>1. CASE L!IfaceUp(h)
    <3>1. kern' = [kern EXCEPT ![h] = NoBlock] /\ ifBytes' = [ifBytes EXCEPT ![h] = {}]
      BY <1>2, <2>1 DEF L!TakeDown, L!Down
    <3> QED BY <1>0, <1>1, <3>1 DEF LinkTypes
  <2>2. CASE ~L!IfaceUp(h)
    BY <1>0, <1>1, <1>2, <2>2 DEF LinkTypes, L!IfaceUp
  <2> QED BY <2>1, <2>2
<1>8. handoff' \in SUBSET L!Ifaces
  BY <1>0, <1>1, <1>2 DEF LinkTypes, L!Capture
<1>9. spoiled' \in BOOLEAN
  BY Zenon, <1>0, <1>2 DEF LinkTypes, L!Capture
<1>10. LinkTypes'
  BY <1>0, <1>2, <1>4, <1>5, <1>6, <1>7, <1>8, <1>9 DEF LinkTypes
<1>11. talked'[h] \subseteq dial[h] \cup L!Endpoints(h)'
  BY <1>6
<1> QED BY <1>0, <1>2, <1>3, <1>5, <1>6, <1>7, <1>10, <1>11, OnLeftover

LEMMA LinkDropFails == LinkInv /\ L!DropFails => LinkInv'
<1> SUFFICES ASSUME LinkInv, L!DropFails PROVE LinkInv'
  OBVIOUS
<1>0. applyJob.st = "left" /\ applyJob.todo # {} /\ LinkTypes /\ applyJob \in JobTypes
  BY DEF L!DropFails, L!Working, LinkInv, LinkTypes
<1>1. PICK h \in applyJob.todo : h = L!Here /\ h \in L!Ifaces
  BY <1>0, HereIn
<1>2. /\ L!Capture(h)
      /\ applyJob' = [applyJob EXCEPT !.todo = @ \ {h}, !.errs = TRUE, !.hit = @ \cup {h}]
      /\ failed' = failed + 1
      /\ UNCHANGED <<lastReq, names, disk, kern, ifBytes, dial, keeper, frame, sent, born, talked, applies, agreed, torn>>
  BY <1>1 DEF L!DropFails, L!Fault
<1>3. applyJob' = [applyJob EXCEPT !.todo = @ \ {h}, !.errs = @ \/ TRUE, !.hit = @ \cup {h}]
  BY <1>0, <1>2 DEF JobTypes
<1>4. applyJob' \in JobTypes
  BY <1>0, <1>3, WithoutLeftover
<1>5. handoff' \in SUBSET L!Ifaces
  BY <1>0, <1>1, <1>2 DEF LinkTypes, L!Capture
<1>6. spoiled' \in BOOLEAN
  BY Zenon, <1>0, <1>2 DEF LinkTypes, L!Capture
<1>7. LinkTypes'
  BY <1>0, <1>2, <1>4, <1>5, <1>6 DEF LinkTypes
<1>8. talked'[h] \subseteq dial[h] \cup L!Endpoints(h)'
  BY <1>1, <1>2 DEF LinkInv, Noted, L!Endpoints, L!IfaceUp
<1> QED BY <1>0, <1>2, <1>3, <1>7, <1>8, OnLeftover

-----------------------------------------------------------------------------
\* The job that an Apply of r begins with.
LEMMA Started ==
  ASSUME LinkInv, NEW r \in L!Tunnels, L!ApplyStart(r)
  PROVE  /\ applyJob' \in JobTypes /\ applyJob'.req = r
         /\ applyJob'.same = L!Unchanged(r) /\ applyJob'.blind = L!Blind(r)
         /\ ~applyJob'.errs /\ applyJob'.hit = {}
         /\ IF L!TunnelsOf(r) = {} \/ L!Unchanged(r)
            THEN /\ applyJob'.st = "left"
                 /\ applyJob'.todo = IF L!Blind(r) THEN {} ELSE L!KnownIfaces \ L!TunnelsOf(r)
            ELSE applyJob'.st = "one" /\ applyJob'.todo = L!TunnelsOf(r)
<1> DEFINE rest == L!TunnelsOf(r) = {} \/ L!Unchanged(r)
           st == IF rest THEN "left" ELSE "one"
           todo == IF L!Blind(r) THEN {} ELSE IF rest THEN L!KnownIfaces \ L!TunnelsOf(r) ELSE L!TunnelsOf(r)
           same == L!Unchanged(r)
           blind == L!Blind(r)
<1>1. applyJob' = [L!Idle EXCEPT !.req = r, !.same = same, !.blind = blind, !.st = st, !.todo = todo]
  BY DEF L!ApplyStart
<1>2. L!KnownIfaces \in SUBSET L!Ifaces /\ L!TunnelsOf(r) \in SUBSET L!Ifaces
  BY DEF LinkInv, LinkTypes, L!KnownIfaces, L!TunnelsOf
<1>3. todo \in SUBSET L!Ifaces /\ st \in {"left", "one"}
  BY <1>2
<1>4. same \in BOOLEAN /\ blind \in BOOLEAN
  BY Zenon DEF L!Unchanged, L!Blind
<1>5. /\ rest => st = "left" /\ todo = IF L!Blind(r) THEN {} ELSE L!KnownIfaces \ L!TunnelsOf(r)
      /\ ~rest => st = "one" /\ todo = L!TunnelsOf(r)
  BY DEF L!Blind
<1> HIDE DEF todo, st, same, blind
<1>6. applyJob' = [st |-> st, req |-> r, todo |-> todo, same |-> same, blind |-> blind,
                   errs |-> FALSE, hit |-> {}, was |-> L!NoTunnel]
  BY <1>1 DEF L!Idle
<1>7. applyJob' \in JobTypes
  BY <1>3, <1>4, <1>6, LinkConstants DEF JobTypes
<1> HIDE DEF rest
<1>8. applyJob'.req = r /\ applyJob'.same = same /\ applyJob'.blind = blind /\ ~applyJob'.errs /\ applyJob'.hit = {}
      /\ applyJob'.st = st /\ applyJob'.todo = todo
  BY <1>6
<1> QED BY <1>5, <1>7, <1>8 DEF rest, same, blind

LEMMA LinkApplyStart ==
  ASSUME LinkInv, NEW r \in Requests, L!ApplyStart(r)
  PROVE  LinkInv'
<1>1. r \in L!Tunnels
  BY LinkConstants
<1>2. /\ applyJob' \in JobTypes /\ applyJob'.req = r
      /\ applyJob'.same = L!Unchanged(r) /\ applyJob'.blind = L!Blind(r)
      /\ ~applyJob'.errs /\ applyJob'.hit = {}
      /\ IF L!TunnelsOf(r) = {} \/ L!Unchanged(r)
         THEN /\ applyJob'.st = "left"
              /\ applyJob'.todo = IF L!Blind(r) THEN {} ELSE L!KnownIfaces \ L!TunnelsOf(r)
         ELSE applyJob'.st = "one" /\ applyJob'.todo = L!TunnelsOf(r)
  BY <1>1, Started
<1>3. /\ applyJob.st = "idle" /\ applies' = applies + 1
      /\ names' = IF L!Unchanged(r) THEN L!Remembered(r) ELSE names
      /\ UNCHANGED <<lastReq, disk, kern, ifBytes, dial, keeper, handoff, frame, sent, born, talked, failed, agreed, torn, spoiled>>
  BY DEF L!ApplyStart
<1>4. LinkTypes'
  <2>1. names' \in SUBSET L!Ifaces
    BY <1>3 DEF LinkInv, LinkTypes, L!Remembered, L!TunnelsOf
  <2> QED BY <1>2, <1>3, <2>1 DEF LinkInv, LinkTypes
<1>5. applyJob.hit = {}
  BY <1>3 DEF LinkInv, JobShape
<1>6. applyJob'.st \in {"left", "one"} /\ Asked' = L!TunnelsOf(r)
  BY <1>2 DEF Asked
<1>7. FiledOnes' /\ Noted' /\ lastReq' = agreed'
  BY <1>3 DEF LinkInv, FiledOnes, Noted, L!IfaceUp, L!Endpoints
<1>8. JobShape'
  <2>1. CASE L!TunnelsOf(r) = {} \/ L!Unchanged(r)
    <3>1. applyJob'.st = "left" /\ applyJob'.todo \cap Asked' = {}
      BY <1>2, <1>6, <2>1
    <3>2. L!Unchanged(r) => r = lastReq /\ \A i \in Asked' : kern[i] # NoBlock
      BY <1>6 DEF L!Unchanged, L!IfaceUp
    <3>3. ~L!Unchanged(r) => Asked' = {}
      BY <1>6, <2>1
    <3>4. ~L!Blind(r) => \A i \in L!Ifaces : kern[i] # NoBlock => i \in Asked' \cup applyJob'.todo
      <4>1. \A i \in L!Ifaces : kern[i] # NoBlock => i \in L!KnownIfaces
        BY DEF LinkInv, FiledOnes, L!IfaceUp, L!KnownIfaces, L!TunnelsOf
      <4> QED BY <1>2, <1>6, <2>1, <4>1
    <3>5. ~Working'
      BY <3>1 DEF Working
    <3>6. IF applyJob'.same
          THEN /\ applyJob'.req = lastReq' /\ applyJob'.hit \cap Asked' = {}
               /\ \A i \in Asked' : kern'[i] # NoBlock
          ELSE Asked' \subseteq applyJob'.hit
      BY <1>2, <1>3, <3>2, <3>3
    <3>7. ~applyJob'.blind => \A i \in L!Ifaces : kern'[i] # NoBlock => i \in Asked' \cup applyJob'.todo
      BY <1>2, <1>3, <3>4
    <3> QED BY <3>1, <3>5, <3>6, <3>7 DEF JobShape, L!IfaceUp
  <2>2. CASE ~(L!TunnelsOf(r) = {} \/ L!Unchanged(r))
    BY <1>2, <1>6, <2>2 DEF JobShape, Working
  <2> QED BY <2>1, <2>2
<1>9. Prepared' /\ OkRuns' /\ AllDone'
  BY <1>2, <1>6 DEF Prepared, AtOne, OkRuns, L!OkRuns, AllDone
<1>10. AllClean'
  <2> SUFFICES ASSUME NEW i \in L!Ifaces, i \notin torn PROVE Clean(i)'
    BY <1>3 DEF AllClean
  <2>1. Clean(i)
    BY <1>3, <1>5 DEF LinkInv, AllClean, AtOne
  <2> QED BY <1>3, <2>1 DEF Clean, L!IfaceUp
<1> QED BY <1>4, <1>7, <1>8, <1>9, <1>10 DEF LinkInv

\* Nothing under way: with the answer given, or none owed.
LEMMA AtRest ==
  ASSUME LinkTypes', FiledOnes', Noted', lastReq' = agreed',
         applyJob'.st \in {"idle", "ok"}, applyJob'.hit = {}, applyJob'.todo = {},
         \A i \in L!Ifaces : i \in torn' \/ Clean(i)', OkRuns'
  PROVE  LinkInv'
<1>1. JobShape'
  BY DEF JobShape, Working
<1>2. Prepared' /\ AllDone' /\ AllClean'
  BY DEF Prepared, AtOne, AllDone, AllClean
<1> QED BY <1>1, <1>2 DEF LinkInv

LEMMA LinkAnswered == LinkInv /\ L!Answered => LinkInv'
<1> SUFFICES ASSUME LinkInv, L!Answered PROVE LinkInv'
  OBVIOUS
<1>1. /\ applyJob.st = "ok" /\ applyJob' = L!Idle
      /\ UNCHANGED <<lastReq, names, disk, kern, ifBytes, dial, keeper, handoff, frame, sent, born, talked, applies, failed, agreed, torn, spoiled>>
  BY DEF L!Answered
<1>2. applyJob' \in JobTypes /\ applyJob'.st = "idle" /\ applyJob'.hit = {} /\ applyJob'.todo = {}
  BY <1>1, LinkConstants DEF L!Idle
<1>3. LinkTypes'
  BY <1>1, <1>2 DEF LinkInv, LinkTypes
<1>4. FiledOnes' /\ Noted' /\ lastReq' = agreed'
  BY <1>1 DEF LinkInv, FiledOnes, Noted, L!IfaceUp, L!Endpoints
<1>5. ASSUME NEW i \in L!Ifaces, i \notin torn PROVE Clean(i)'
  <2>1. Clean(i)
    BY <1>1, <1>5 DEF LinkInv, JobShape, AllClean, AtOne
  <2> QED BY <1>1, <2>1 DEF Clean, L!IfaceUp
<1>6. OkRuns'
  BY <1>2 DEF OkRuns, L!OkRuns
<1> QED BY <1>1, <1>2, <1>3, <1>4, <1>5, <1>6, AtRest

LEMMA LinkIfaceFails ==
  ASSUME LinkInv, NEW h \in L!Ifaces, L!IfaceFails(h)
  PROVE  LinkInv'
<1>1. /\ applyJob.st = "idle" /\ failed' = failed + 1
      /\ kern' = [kern EXCEPT ![h] = NoBlock] /\ ifBytes' = [ifBytes EXCEPT ![h] = {}]
      /\ talked' = [talked EXCEPT ![h] = @ \cap dial[h]]
      /\ UNCHANGED <<lastReq, names, disk, dial, applyJob, keeper, handoff, frame, sent, born, applies, agreed, torn>>
  BY DEF L!IfaceFails, L!Fault, L!TakeDown, L!Down, L!Unheard
<1>2. spoiled' \in BOOLEAN
  BY Zenon DEF L!IfaceFails
<1>3. LinkTypes'
  BY <1>1, <1>2 DEF LinkInv, LinkTypes
<1>4. kern'[h] = NoBlock /\ talked'[h] \subseteq dial[h]
      /\ (\A i \in L!Ifaces : i # h => kern'[i] = kern[i] /\ talked'[i] = talked[i])
  BY <1>1 DEF LinkInv, LinkTypes
<1>5. FiledOnes' /\ lastReq' = agreed'
  BY <1>1, <1>4 DEF LinkInv, FiledOnes, L!IfaceUp
<1>6. Noted'
  <2>1. ASSUME NEW i \in L!Ifaces PROVE talked'[i] \subseteq dial[i] \cup L!Endpoints(i)'
    BY <1>4 DEF LinkInv, Noted, L!Endpoints, L!IfaceUp
  <2> QED BY <1>1, <2>1 DEF Noted
<1>7. ASSUME NEW i \in L!Ifaces, i \notin torn PROVE Clean(i)'
  <2>1. Clean(i)
    BY <1>1, <1>7 DEF LinkInv, JobShape, AllClean, AtOne
  <2> QED BY <1>1, <1>4, <2>1 DEF Clean, L!IfaceUp
<1>8. applyJob'.st = "idle" /\ applyJob'.hit = {} /\ applyJob'.todo = {}
  BY <1>1 DEF LinkInv, JobShape
<1>9. OkRuns'
  BY <1>8 DEF OkRuns, L!OkRuns
<1> QED BY <1>1, <1>3, <1>5, <1>6, <1>7, <1>8, <1>9, AtRest

LEMMA LinkAgentRestart == LinkInv /\ L!AgentRestart => LinkInv'
<1> SUFFICES ASSUME LinkInv, L!AgentRestart PROVE LinkInv'
  OBVIOUS
<1> DEFINE half == IF applyJob.st \in {"down", "up", "sync"} THEN {L!Here} ELSE {}
<1>1. /\ lastReq' = L!NoTunnel /\ names' = {} /\ agreed' = L!NoTunnel /\ failed' = failed + 1
      /\ applyJob' = L!Idle /\ keeper' = L!NoKeep /\ frame' = L!NoFrame /\ handoff' = {}
      /\ torn' = (torn \cup applyJob.hit) \cup half
      /\ UNCHANGED <<disk, kern, ifBytes, dial, sent, born, talked, applies>>
  BY DEF L!AgentRestart, L!Fault
<1>2. spoiled' \in BOOLEAN
  BY Zenon DEF L!AgentRestart
<1>3. applyJob' \in JobTypes /\ applyJob'.st = "idle" /\ applyJob'.hit = {} /\ applyJob'.todo = {}
  BY <1>1, LinkConstants DEF L!Idle
<1>4. half \subseteq L!Ifaces
  BY AtHand DEF Working
<1>5. LinkTypes'
  <2>1. torn' \in SUBSET L!Ifaces
    BY <1>1, <1>4 DEF LinkInv, LinkTypes, JobTypes
  <2>2. keeper' \in [st : {"off", "copied"}, conf : L!Tunnels]
    BY <1>1, LinkConstants DEF L!NoKeep
  <2>3. frame' \in [st : {"off", "out"}, bytes : SUBSET L!Ifaces, clear : BOOLEAN]
    BY <1>1 DEF L!NoFrame
  <2> QED BY <1>1, <1>2, <1>3, <2>1, <2>2, <2>3, LinkConstants DEF LinkInv, LinkTypes
<1>6. FiledOnes' /\ Noted' /\ lastReq' = agreed'
  BY <1>1 DEF LinkInv, FiledOnes, Noted, L!IfaceUp, L!Endpoints
<1>7. ASSUME NEW i \in L!Ifaces, i \notin torn' PROVE Clean(i)'
  <2>1. i \notin torn /\ i \notin applyJob.hit /\ ~(AtOne /\ i = L!Here)
    BY <1>1, <1>7 DEF AtOne
  <2>2. Clean(i)
    BY <2>1 DEF LinkInv, AllClean
  <2> QED BY <1>1, <2>2 DEF Clean, L!IfaceUp, L!NoTunnel
<1>8. OkRuns'
  BY <1>3 DEF OkRuns, L!OkRuns
<1> QED BY <1>3, <1>5, <1>6, <1>7, <1>8, AtRest

LEMMA LinkApplyEnd == LinkInv /\ L!ApplyEnd => LinkInv'
<1> SUFFICES ASSUME LinkInv, L!ApplyEnd PROVE LinkInv'
  OBVIOUS
<1> DEFINE req == applyJob.req
<1>0. /\ applyJob \in JobTypes /\ req \in L!Tunnels /\ LinkTypes
      /\ lastReq = agreed /\ lastReq \in L!Tunnels
  BY DEF LinkInv, LinkTypes, JobTypes
<1>1. /\ applyJob.st = "left" /\ applyJob.todo = {}
      /\ lastReq' = (IF applyJob.errs THEN lastReq ELSE req)
      /\ IF applyJob.errs /\ ~applyJob.same THEN UNCHANGED <<dial, kern>> ELSE L!KeepTunnels(req)
      /\ UNCHANGED <<disk, ifBytes, keeper, handoff, frame, sent, born, talked, applies, failed, spoiled>>
  BY DEF L!ApplyEnd, L!NextRequest
<1>2. /\ kern' \in [L!Ifaces -> L!Running \cup {NoBlock}] /\ dial' \in [L!Ifaces -> SUBSET Peers]
      /\ SameRunning /\ \A i \in L!Ifaces : dial[i] \subseteq dial'[i]
  <2>1. CASE applyJob.errs /\ ~applyJob.same
    BY <1>0, <1>1, <2>1 DEF LinkTypes, SameRunning, L!IfaceUp
  <2>2. CASE ~(applyJob.errs /\ ~applyJob.same)
    BY <1>0, <1>1, <2>2, KeepTunnelsFacts
  <2> QED BY <2>1, <2>2
<1>3. \A i \in L!Ifaces : L!IfaceUp(i)' <=> L!IfaceUp(i)
  BY <1>2 DEF SameRunning
<1>4. FiledOnes' /\ Noted'
  <2>1. ASSUME NEW i \in L!Ifaces PROVE talked'[i] \subseteq dial'[i] \cup L!Endpoints(i)'
    BY <1>1, <1>2, <1>3 DEF LinkInv, Noted, L!Endpoints, SameRunning
  <2> QED BY <1>1, <1>3, <2>1 DEF LinkInv, FiledOnes, Noted
<1>5. \A i \in L!Ifaces : (Clean(i) \/ i \in torn \/ i \in applyJob.hit)
                          /\ (~applyJob.errs /\ i \in applyJob.hit => Done(i))
  BY <1>1 DEF LinkInv, AllClean, AllDone, AtOne
<1>6. CASE applyJob.errs
  <2>1. applyJob' = L!Idle /\ torn' = torn \cup applyJob.hit /\ UNCHANGED <<names, agreed>> /\ lastReq' = lastReq
    BY <1>1, <1>6 DEF L!ApplyEnd
  <2>2. applyJob' \in JobTypes /\ applyJob'.st = "idle" /\ applyJob'.hit = {} /\ applyJob'.todo = {}
    BY <2>1, LinkConstants DEF L!Idle
  <2>3. torn' \in SUBSET L!Ifaces
    BY <1>0, <2>1 DEF LinkTypes, JobTypes
  <2>4. LinkTypes'
    BY <1>0, <1>1, <1>2, <2>1, <2>2, <2>3 DEF LinkTypes
  <2>5. ASSUME NEW i \in L!Ifaces, i \notin torn' PROVE Clean(i)'
    BY <1>1, <1>2, <1>3, <1>5, <2>1, <2>5 DEF Clean, SameRunning
  <2>6. OkRuns'
    BY <2>2 DEF OkRuns, L!OkRuns
  <2> QED BY <1>0, <1>4, <2>1, <2>2, <2>4, <2>5, <2>6, AtRest
<1>7. CASE ~applyJob.errs
  <2>1. /\ applyJob' = [L!Idle EXCEPT !.st = "ok", !.req = req, !.blind = applyJob.blind, !.was = agreed]
        /\ names' = L!Remembered(req) /\ agreed' = req /\ lastReq' = req
        /\ torn' = {i \in torn : ~L!Right(i, req) \/ disk[i] # req[i]}
    BY <1>1, <1>7 DEF L!ApplyEnd
  <2>2. applyJob' = [st |-> "ok", req |-> req, todo |-> {}, same |-> FALSE, blind |-> applyJob.blind,
                     errs |-> FALSE, hit |-> {}, was |-> agreed]
    BY <2>1 DEF L!Idle
  <2>3. /\ applyJob'.st = "ok" /\ applyJob'.hit = {} /\ applyJob'.todo = {}
        /\ applyJob'.req = req /\ applyJob'.blind = applyJob.blind /\ applyJob'.was = lastReq
    BY <1>0, <2>2
  <2>4. applyJob' \in JobTypes
    BY <1>0, <2>2 DEF JobTypes
  <2>5. LinkTypes'
    <3>1. names' \in SUBSET L!Ifaces /\ torn' \in SUBSET L!Ifaces
      BY <1>0, <2>1 DEF LinkTypes, L!Remembered, L!TunnelsOf
    <3> QED BY <1>0, <1>1, <1>2, <2>1, <2>4, <3>1 DEF LinkTypes
  \* What the answer finds: the request, or a block it took for it.
  <2>6. ASSUME NEW i \in L!Ifaces, i \in applyJob.hit \/ req[i] # NoBlock
        PROVE  L!Right(i, req) \/ (i \in torn /\ req[i] # NoBlock /\ (lastReq[i] = NoBlock \/ lastReq[i].block = req[i].block))
    <3>1. CASE i \in applyJob.hit
      BY <1>5, <1>7, <3>1 DEF Done, Excused, L!Right
    <3>2. CASE i \notin applyJob.hit /\ req[i] # NoBlock
      <4>1. i \in Asked
        BY <3>2 DEF Asked, L!TunnelsOf
      <4>2. req = lastReq /\ L!IfaceUp(i)
        BY <1>1, <3>2, <4>1 DEF LinkInv, JobShape
      <4> QED BY <1>5, <3>2, <4>2 DEF Clean, L!Right
    <3> QED BY <2>6, <3>1, <3>2
  <2>7. ASSUME NEW i \in L!Ifaces, i \notin torn' PROVE Clean(i)'
    <3>1. CASE i \in torn
      <4>1. L!Right(i, req) /\ disk[i] = req[i]
        BY <2>1, <2>7, <3>1
      <4> QED BY <1>1, <1>2, <1>3, <2>1, <4>1 DEF Clean, L!Right, SameRunning
    <3>2. CASE i \notin torn /\ i \in applyJob.hit
      <4>1. Done(i) /\ ~Excused(i)
        BY <1>5, <1>7, <3>2 DEF Excused
      <4> QED BY <1>1, <1>2, <1>3, <2>1, <4>1 DEF Clean, Done, SameRunning
    <3>3. CASE i \notin torn /\ i \notin applyJob.hit
      <4>1. Clean(i)
        BY <1>5, <3>3
      <4>2. CASE req[i] = NoBlock
        BY <1>1, <1>2, <1>3, <2>1, <4>1, <4>2 DEF Clean, SameRunning
      <4>3. CASE req[i] # NoBlock
        <5>1. i \in Asked
          BY <4>3 DEF Asked, L!TunnelsOf
        <5>2. req = lastReq
          BY <1>1, <3>3, <5>1 DEF LinkInv, JobShape
        <5> QED BY <1>1, <1>2, <1>3, <2>1, <4>1, <5>2 DEF Clean, SameRunning
      <4> QED BY <4>2, <4>3
    <3> QED BY <3>1, <3>2, <3>3
  <2>8. ASSUME ~applyJob.blind, NEW i \in L!Ifaces
        PROVE  L!Right(i, req) \/ (i \in torn /\ req[i] # NoBlock /\ (lastReq[i] = NoBlock \/ lastReq[i].block = req[i].block))
    <3>1. CASE i \in applyJob.hit \/ req[i] # NoBlock
      BY <2>6, <3>1
    <3>2. CASE i \notin applyJob.hit /\ req[i] = NoBlock
      <4>1. i \notin Asked
        BY <3>2 DEF Asked, L!TunnelsOf
      <4>2. ~L!IfaceUp(i)
        BY <1>1, <1>7, <2>8, <4>1 DEF LinkInv, JobShape
      <4> QED BY <3>2, <4>2 DEF L!Right
    <3> QED BY <3>1, <3>2
  <2>9. ASSUME NEW i \in L!Ifaces, req[i] # NoBlock, L!IfaceUp(i)
        PROVE  talked[i] \cap req[i].peers \subseteq kern'[i].ends
    <3>1. L!KeepTunnels(req)
      BY <1>1, <1>7
    <3>2. /\ L!Endpoints(i) \subseteq dial'[i] /\ dial[i] \subseteq dial'[i]
          /\ req[i].peers \cap dial'[i] \subseteq kern'[i].ends
      BY <1>0, <2>9, <3>1, KeepTunnelsFacts
    <3>3. talked[i] \subseteq dial[i] \cup L!Endpoints(i)
      BY DEF LinkInv, Noted
    <3> QED BY <3>2, <3>3
  <2>10. L!StillDialled'
    BY <1>1, <1>3, <2>3, <2>9 DEF L!StillDialled, L!TunnelsOf
  <2>11. ASSUME ~applyJob.blind, NEW i \in L!Ifaces
         PROVE  IF req[i] = NoBlock THEN kern'[i] = NoBlock
                ELSE \/ kern'[i] # NoBlock /\ kern'[i].block = req[i].block /\ kern'[i].peers = req[i].peers
                     \/ i \in torn' /\ (lastReq[i] = NoBlock \/ lastReq[i].block = req[i].block)
    BY <1>2, <2>1, <2>8, <2>11 DEF L!Right, L!IfaceUp, SameRunning
  <2>12. OkRuns'
    BY <2>3, <2>10, <2>11 DEF OkRuns, L!OkRuns, L!Right, L!Reverted, L!IfaceUp
  <2> QED BY <1>4, <2>1, <2>3, <2>5, <2>7, <2>12, AtRest
<1> QED BY <1>6, <1>7

LEMMA LinkKeep == LinkInv /\ (L!KeepStart \/ L!KeepRun) => LinkInv'
<1> SUFFICES ASSUME LinkInv, L!KeepStart \/ L!KeepRun PROVE LinkInv'
  OBVIOUS
<1>0. LinkTypes /\ keeper.conf \in L!Tunnels /\ L!NoKeep \in [st : {"off", "copied"}, conf : L!Tunnels]
  BY LinkConstants DEF LinkInv, LinkTypes, L!NoKeep
<1>1. CASE L!KeepStart
  <2>1. /\ keeper' = [st |-> "copied", conf |-> lastReq]
        /\ UNCHANGED <<lastReq, names, disk, kern, ifBytes, dial, applyJob, handoff, frame, sent, born, talked, applies, failed, agreed, torn, spoiled>>
    BY <1>1 DEF L!KeepStart
  <2>2. LinkTypes'
    BY <1>0, <2>1 DEF LinkTypes
  <2>3. SameRunning
    BY <2>1 DEF SameRunning, L!IfaceUp
  <2>4. \A i \in L!Ifaces : dial[i] \subseteq dial'[i] /\ talked'[i] \subseteq dial'[i] \cup L!Endpoints(i)'
    BY <2>1 DEF LinkInv, Noted, L!Endpoints, L!IfaceUp
  <2> QED BY <2>1, <2>2, <2>3, <2>4, QuietStep
<1>2. CASE L!KeepRun
  <2>1. /\ L!KeepTunnels(keeper.conf) /\ keeper' = L!NoKeep
        /\ UNCHANGED <<lastReq, names, disk, ifBytes, applyJob, handoff, frame, sent, born, talked, applies, failed, agreed, torn, spoiled>>
    BY <1>2 DEF L!KeepRun
  <2>2. /\ kern' \in [L!Ifaces -> L!Running \cup {NoBlock}] /\ dial' \in [L!Ifaces -> SUBSET Peers]
        /\ SameRunning /\ \A i \in L!Ifaces : dial[i] \subseteq dial'[i]
    BY <1>0, <2>1, KeepTunnelsFacts
  <2>3. LinkTypes'
    BY <1>0, <2>1, <2>2 DEF LinkTypes
  <2>4. ASSUME NEW i \in L!Ifaces PROVE dial[i] \subseteq dial'[i] /\ talked'[i] \subseteq dial'[i] \cup L!Endpoints(i)'
    BY <2>1, <2>2 DEF LinkInv, Noted, L!Endpoints, SameRunning
  <2> QED BY <2>1, <2>2, <2>3, <2>4, QuietStep
<1> QED BY <1>1, <1>2

LEMMA LinkHandshake ==
  ASSUME LinkInv, NEW h \in L!Ifaces, NEW q \in Peers, L!Handshake(h, q)
  PROVE  LinkInv'
<1>0. LinkTypes
  BY DEF LinkInv
<1>1. /\ talked' = IF applyJob.st = "idle" THEN [talked EXCEPT ![h] = @ \cup {q}] ELSE talked
      /\ UNCHANGED <<lastReq, names, disk, ifBytes, dial, applyJob, keeper, handoff, frame, sent, born, applies, failed, agreed, torn, spoiled>>
      /\ L!IfaceUp(h)
  BY DEF L!Handshake
<1>2. kern' \in [L!Ifaces -> L!Running \cup {NoBlock}] /\ SameRunning /\ q \in kern'[h].ends
  BY <1>0, HeardFacts
<1>3. talked' \in [L!Ifaces -> SUBSET Peers]
      /\ (\A i \in L!Ifaces : talked'[i] = talked[i] \/ (i = h /\ talked'[i] = talked[i] \cup {q}))
  BY <1>0, <1>1 DEF LinkTypes
<1>4. LinkTypes'
  BY <1>0, <1>1, <1>2, <1>3 DEF LinkTypes
<1>5. ASSUME NEW i \in L!Ifaces PROVE dial[i] \subseteq dial'[i] /\ talked'[i] \subseteq dial'[i] \cup L!Endpoints(i)'
  <2>1. talked[i] \subseteq dial'[i] \cup L!Endpoints(i)'
    BY <1>1, <1>2 DEF LinkInv, Noted, L!Endpoints, SameRunning
  <2>2. q \in L!Endpoints(h)'
    BY <1>1, <1>2 DEF L!Endpoints, SameRunning
  <2> QED BY <1>1, <1>3, <2>1, <2>2
<1> QED BY <1>1, <1>2, <1>4, <1>5, QuietStep

LEMMA LinkQuiet ==
  ASSUME LinkInv,
         \/ \E i \in L!Ifaces : L!Traffic(i)
         \/ L!Collect \/ L!FrameSent \/ L!FrameFails \/ UNCHANGED L!wgLinkVars
  PROVE  LinkInv'
<1>1. UNCHANGED <<lastReq, names, disk, kern, dial, applyJob, keeper, talked, applies, agreed, torn, spoiled>>
  BY DEF L!Traffic, L!Collect, L!FrameSent, L!FrameFails, L!wgLinkVars
<1>2. LinkTypes
  BY DEF LinkInv
<1>3. /\ ifBytes' \in [L!Ifaces -> SUBSET L!Ifaces] /\ handoff' \in SUBSET L!Ifaces
      /\ frame' \in [st : {"off", "out"}, bytes : SUBSET L!Ifaces, clear : BOOLEAN]
      /\ sent' \in SUBSET L!Ifaces /\ failed' \in Nat /\ born' \in SUBSET L!Ifaces
  <2>1. CASE \E i \in L!Ifaces : L!Traffic(i)
    BY <1>2, <2>1 DEF LinkTypes, L!Traffic
  <2>2. CASE L!Collect
    <3> DEFINE read == IF names # {} THEN names ELSE L!TunnelsOf(disk)
               bytes == IF handoff # {} THEN handoff ELSE UNION {ifBytes[i] : i \in read}
               clear == handoff # {}
    <3>1. read \subseteq L!Ifaces
      BY <1>2 DEF LinkTypes, L!TunnelsOf
    <3>2. bytes \in SUBSET L!Ifaces
      BY <1>2, <3>1 DEF LinkTypes
    <3>3. clear \in BOOLEAN
      OBVIOUS
    <3>4. frame' = [st |-> "out", clear |-> clear, bytes |-> bytes]
          /\ UNCHANGED <<ifBytes, handoff, sent, failed, born>>
      BY <2>2 DEF L!Collect
    <3> HIDE DEF bytes, clear
    <3> QED BY <1>2, <3>2, <3>3, <3>4 DEF LinkTypes
  <2>3. CASE L!FrameSent
    BY <1>2, <2>3 DEF LinkTypes, L!FrameSent, L!NoFrame
  <2>4. CASE L!FrameFails
    BY <1>2, <2>4 DEF LinkTypes, L!FrameFails, L!NoFrame, L!Fault
  <2>5. CASE UNCHANGED L!wgLinkVars
    BY <1>2, <2>5 DEF LinkTypes, L!wgLinkVars
  <2> QED BY <2>1, <2>2, <2>3, <2>4, <2>5
<1>4. LinkTypes'
  BY <1>1, <1>2, <1>3 DEF LinkTypes
<1>5. SameRunning
  BY <1>1 DEF SameRunning, L!IfaceUp
<1>6. \A i \in L!Ifaces : dial[i] \subseteq dial'[i] /\ talked'[i] \subseteq dial'[i] \cup L!Endpoints(i)'
  BY <1>1 DEF LinkInv, Noted, L!Endpoints, L!IfaceUp
<1> QED BY <1>1, <1>4, <1>5, <1>6, QuietStep

LEMMA LinkStep == LinkInv /\ [L!Next]_(L!wgLinkVars) => LinkInv'
<1> SUFFICES ASSUME LinkInv, [L!Next]_(L!wgLinkVars) PROVE LinkInv'
  OBVIOUS
<1>1. CASE \E r \in Requests : L!ApplyStart(r)
  BY <1>1, LinkApplyStart
<1>2. CASE L!WriteFails \/ L!BounceDownFails \/ L!BringUpFails \/ L!SyncFails
  BY <1>2, LinkTunnelFails
<1>3. CASE L!Prepare \/ L!BounceDown \/ L!BringUp \/ L!SyncPeers
  BY <1>3, LinkPrepare, LinkBounceDown, LinkBringUp, LinkSyncPeers
<1>4. CASE L!DropLeftover \/ L!DropFails
  BY <1>4, LinkDropLeftover, LinkDropFails
<1>5. CASE L!ApplyEnd \/ L!Answered
  BY <1>5, LinkApplyEnd, LinkAnswered
<1>6. CASE L!KeepStart \/ L!KeepRun
  BY <1>6, LinkKeep
<1>7. CASE \E i \in L!Ifaces : L!IfaceFails(i)
  BY <1>7, LinkIfaceFails
<1>8. CASE \E i \in L!Ifaces : \E q \in Peers : L!Handshake(i, q)
  BY <1>8, LinkHandshake
<1>9. CASE \/ \E i \in L!Ifaces : L!Traffic(i)
           \/ L!Collect \/ L!FrameSent \/ L!FrameFails \/ UNCHANGED L!wgLinkVars
  BY <1>9, LinkQuiet
<1>10. CASE L!AgentRestart
  BY <1>10, LinkAgentRestart
<1> QED BY <1>1, <1>2, <1>3, <1>4, <1>5, <1>6, <1>7, <1>8, <1>9, <1>10 DEF L!Next

LEMMA LinkBegins == L!Init => LinkInv
<1> SUFFICES ASSUME L!Init PROVE LinkInv
  OBVIOUS
<1>1. LinkTypes
  BY LinkInit
<1>2. /\ applyJob.st = "idle" /\ applyJob.hit = {} /\ applyJob.todo = {}
      /\ lastReq = agreed /\ \A i \in L!Ifaces : kern[i] = NoBlock /\ talked[i] = {}
  BY DEF L!Init, L!Idle, L!NoTunnel
<1>3. FiledOnes /\ Noted /\ AllClean
  BY <1>2 DEF FiledOnes, Noted, AllClean, Clean, L!IfaceUp
<1>4. JobShape /\ Prepared /\ AllDone /\ OkRuns
  BY <1>2 DEF JobShape, Working, Prepared, AtOne, AllDone, OkRuns, L!OkRuns
<1> QED BY <1>1, <1>2, <1>3, <1>4 DEF LinkInv

\* The model's values stay of their types, for any interfaces, blocks, peers,
\* requests and failures.
THEOREM LinkTypeCorrect == L!Spec => []LinkTypes
<1>1. LinkInv => LinkTypes
  BY DEF LinkInv
<1> QED BY <1>1, LinkBegins, LinkStep, PTL DEF L!Spec

\* An OK answer means that every interface runs the request, but for the
\* reverted ones the property names, and that whoever talked can be dialled.
THEOREM OkRunsHolds == L!Spec => []OkRuns
<1>1. LinkInv => OkRuns
  BY DEF LinkInv
<1> QED BY <1>1, LinkBegins, LinkStep, PTL DEF L!Spec

-----------------------------------------------------------------------------
LEMMA UnreadBegins == L!Init => UnreadInv
BY DEF L!Init, UnreadInv, OwnBytes, HandedOver, NothingUnread, L!NothingUnread, L!Held

\* A step that moves no byte, but may give up the hand-over's claim.
LEMMA UnreadQuiet ==
  ASSUME UnreadInv, UNCHANGED <<ifBytes, handoff, frame, sent, born, spoiled>>
  PROVE  UnreadInv'
BY DEF UnreadInv, OwnBytes, HandedOver, NothingUnread, L!NothingUnread, L!Held

\* An interface's bytes are captured, and it may be taken down.
LEMMA UnreadCapture ==
  ASSUME LinkInv, UnreadInv, NEW h \in L!Ifaces, L!Capture(h), UNCHANGED <<frame, sent, born>>,
         UNCHANGED ifBytes \/ L!TakeDown(h)
  PROVE  UnreadInv'
<1>1. \A i \in L!Ifaces : ifBytes'[i] = ifBytes[i] \/ (i = h /\ ifBytes'[i] = {})
  BY DEF LinkInv, LinkTypes, L!TakeDown
<1>2. OwnBytes'
  BY <1>1 DEF UnreadInv, OwnBytes
<1>3. CASE ifBytes[h] = {}
  <2>1. handoff' = handoff /\ spoiled' = spoiled
    BY Zenon, <1>3 DEF L!Capture, LinkInv, LinkTypes
  <2>2. UNION {ifBytes[i] : i \in L!Ifaces} \subseteq UNION {ifBytes'[i] : i \in L!Ifaces}
    BY <1>1, <1>3
  <2> QED BY <1>2, <2>1, <2>2 DEF UnreadInv, HandedOver, NothingUnread, L!NothingUnread, L!Held
<1>4. CASE ifBytes[h] # {}
  <2>1. handoff' = ifBytes[h] /\ (spoiled' \/ (~spoiled /\ handoff = {} /\ ~frame.clear))
    BY Zenon, <1>4 DEF L!Capture
  <2>2. UNION {ifBytes[i] : i \in L!Ifaces} \subseteq handoff' \cup UNION {ifBytes'[i] : i \in L!Ifaces}
    BY <1>1, <2>1
  <2>3. CASE spoiled'
    BY <1>2, <2>3 DEF UnreadInv, HandedOver, NothingUnread, L!NothingUnread
  <2>4. CASE ~spoiled /\ handoff = {} /\ ~frame.clear
    <3>1. born' \subseteq L!Held'
      BY <2>2, <2>4 DEF UnreadInv, NothingUnread, L!NothingUnread, L!Held
    <3> QED BY <1>2, <2>4, <3>1 DEF UnreadInv, HandedOver, NothingUnread, L!NothingUnread
  <2> QED BY <2>1, <2>3, <2>4
<1> QED BY <1>3, <1>4

LEMMA UnreadStep == LinkInv /\ UnreadInv /\ [L!Next]_(L!wgLinkVars) => UnreadInv'
<1> SUFFICES ASSUME LinkInv, UnreadInv, [L!Next]_(L!wgLinkVars) PROVE UnreadInv'
  OBVIOUS
<1>1. CASE \/ \E r \in Requests : L!ApplyStart(r)
           \/ L!Prepare \/ L!WriteFails \/ L!BringUp \/ L!BringUpFails \/ L!SyncPeers \/ L!SyncFails
           \/ L!ApplyEnd \/ L!Answered \/ L!KeepStart \/ L!KeepRun
           \/ \E i \in L!Ifaces : \E q \in Peers : L!Handshake(i, q)
           \/ UNCHANGED L!wgLinkVars
  <2>1. UNCHANGED <<ifBytes, handoff, frame, sent, born, spoiled>>
    BY <1>1 DEF L!ApplyStart, L!Prepare, L!WriteFails, L!BringUp, L!BringUpFails, L!SyncPeers, L!SyncFails,
         L!ApplyEnd, L!Answered, L!KeepStart, L!KeepRun, L!Handshake, L!wgLinkVars
  <2> QED BY <2>1, UnreadQuiet
<1>2. CASE L!BounceDown \/ L!BounceDownFails
  <2>1. PICK h \in L!Ifaces : h = L!Here
    BY <1>2, AtHand DEF L!BounceDown, L!BounceDownFails, L!Working, Working
  <2>2. /\ L!Capture(h) /\ UNCHANGED <<frame, sent, born>>
        /\ UNCHANGED ifBytes \/ L!TakeDown(h)
    BY <1>2, <2>1 DEF L!BounceDown, L!BounceDownFails
  <2> QED BY <2>1, <2>2, UnreadCapture
<1>3. CASE L!DropLeftover \/ L!DropFails
  <2>1. PICK h \in L!Ifaces : h = L!Here
    BY <1>3, HereIn DEF L!DropLeftover, L!DropFails, L!Working, LinkInv
  <2>2. UNCHANGED <<frame, sent, born>>
    BY <1>3 DEF L!DropLeftover, L!DropFails
  <2>3. \/ L!Capture(h) /\ (UNCHANGED ifBytes \/ L!TakeDown(h))
        \/ UNCHANGED <<ifBytes, handoff, spoiled>>
    BY <1>3, <2>1 DEF L!DropLeftover, L!DropFails
  <2> QED BY <2>1, <2>2, <2>3, UnreadCapture, UnreadQuiet
<1>4. CASE \E i \in L!Ifaces : L!IfaceFails(i)
  <2>1. PICK h \in L!Ifaces : L!IfaceFails(h)
    BY <1>4
  <2>2. /\ ifBytes' = [ifBytes EXCEPT ![h] = {}] /\ UNCHANGED <<handoff, frame, sent, born>>
        /\ spoiled' \/ (~spoiled /\ ifBytes[h] \subseteq sent)
    BY Zenon, <2>1 DEF L!IfaceFails, L!TakeDown
  <2>3. \A i \in L!Ifaces : ifBytes'[i] = IF i = h THEN {} ELSE ifBytes[i]
    BY <2>2 DEF LinkInv, LinkTypes
  <2>4. OwnBytes'
    BY <2>2, <2>3 DEF UnreadInv, OwnBytes
  <2>5. CASE spoiled'
    BY <2>4, <2>5 DEF UnreadInv, HandedOver, NothingUnread, L!NothingUnread
  <2>6. CASE ~spoiled /\ ifBytes[h] \subseteq sent
    <3>1. UNION {ifBytes[i] : i \in L!Ifaces} \subseteq sent \cup UNION {ifBytes'[i] : i \in L!Ifaces}
      BY <2>3, <2>6
    <3> QED BY <2>2, <2>4, <2>6, <3>1 DEF UnreadInv, HandedOver, NothingUnread, L!NothingUnread, L!Held
  <2> QED BY <2>2, <2>5, <2>6
<1>5. CASE \E i \in L!Ifaces : L!Traffic(i)
  <2>1. PICK h \in L!Ifaces : L!Traffic(h)
    BY <1>5
  <2>2. /\ h \notin born /\ ifBytes' = [ifBytes EXCEPT ![h] = {h}] /\ born' = born \cup {h}
        /\ UNCHANGED <<handoff, frame, sent, spoiled>>
    BY <2>1 DEF L!Traffic
  <2>3. \A i \in L!Ifaces : ifBytes'[i] = IF i = h THEN {h} ELSE ifBytes[i]
    BY <2>2 DEF LinkInv, LinkTypes
  <2>4. ifBytes[h] = {}
    BY <2>2 DEF UnreadInv, OwnBytes
  <2>5. OwnBytes'
    BY <2>2, <2>3 DEF UnreadInv, OwnBytes
  <2>6. {h} \cup UNION {ifBytes[i] : i \in L!Ifaces} \subseteq UNION {ifBytes'[i] : i \in L!Ifaces}
    BY <2>3, <2>4
  <2> QED BY <2>2, <2>5, <2>6 DEF UnreadInv, HandedOver, NothingUnread, L!NothingUnread, L!Held
<1>6. CASE L!Collect
  <2>1. /\ frame'.clear => frame'.bytes = handoff
        /\ UNCHANGED <<ifBytes, handoff, sent, born, spoiled>>
    BY <1>6 DEF L!Collect
  <2> QED BY <2>1 DEF UnreadInv, OwnBytes, HandedOver, NothingUnread, L!NothingUnread, L!Held
<1>7. CASE L!FrameSent
  <2>1. /\ sent' = sent \cup frame.bytes /\ handoff' = (IF frame.clear THEN {} ELSE handoff)
        /\ ~frame'.clear /\ UNCHANGED <<ifBytes, born, spoiled>>
    BY <1>7 DEF L!FrameSent, L!NoFrame
  <2>2. ~spoiled => handoff \subseteq sent' \cup handoff'
    BY <2>1 DEF UnreadInv, HandedOver
  <2> QED BY <2>1, <2>2 DEF UnreadInv, OwnBytes, HandedOver, NothingUnread, L!NothingUnread, L!Held
<1>8. CASE L!FrameFails
  <2>1. ~frame'.clear /\ UNCHANGED <<ifBytes, handoff, sent, born, spoiled>>
    BY <1>8 DEF L!FrameFails, L!NoFrame
  <2> QED BY <2>1 DEF UnreadInv, OwnBytes, HandedOver, NothingUnread, L!NothingUnread, L!Held
<1>9. CASE L!AgentRestart
  <2>1. /\ handoff' = {} /\ ~frame'.clear /\ UNCHANGED <<ifBytes, sent, born>>
        /\ spoiled' \/ (~spoiled /\ handoff \subseteq sent)
    BY <1>9 DEF L!AgentRestart, L!NoFrame
  <2> QED BY <2>1 DEF UnreadInv, OwnBytes, HandedOver, NothingUnread, L!NothingUnread, L!Held
<1> QED BY <1>1, <1>2, <1>3, <1>4, <1>5, <1>6, <1>7, <1>8, <1>9 DEF L!Next

\* The bytes that an apply resets are in the hand-over until a frame with them
\* was written, but for the cases the property names.
THEOREM NothingUnreadHolds == L!Spec => []NothingUnread
<1>1. UnreadInv => NothingUnread
  BY DEF UnreadInv
<1> QED BY <1>1, LinkBegins, LinkStep, UnreadBegins, UnreadStep, PTL DEF L!Spec

-----------------------------------------------------------------------------
(* The three together, as TLC runs them.                                      *)

\* The meter does not run and has billed nothing.
Resting == part # "meter" /\ MeterAtRest

LEMMA BillingParts ==
  /\ BillingInit => Init /\ L!Init /\ (M!Init \/ Resting)
  /\ [BillingNext]_<<wgVars, meter, link, part>> =>
       /\ [Next]_wgVars /\ [L!Next]_(L!wgLinkVars) /\ [M!Next]_(M!meterVars)
       /\ Resting => Resting'
<1>1. BillingInit => Init /\ L!Init /\ (M!Init \/ Resting)
  BY DEF BillingInit, Resting
<1>2. /\ UNCHANGED link => UNCHANGED L!wgLinkVars
      /\ UNCHANGED meter => UNCHANGED M!meterVars
  BY DEF link, meter, L!wgLinkVars, M!meterVars
<1>3. UNCHANGED <<wgVars, meter, link, part>> =>
        UNCHANGED wgVars /\ UNCHANGED meter /\ UNCHANGED link /\ part' = part
  OBVIOUS
<1>4. BillingNext => /\ Next \/ UNCHANGED wgVars
                     /\ L!Next \/ UNCHANGED link
                     /\ M!Next \/ UNCHANGED meter
                     /\ part # "meter" => part' # "meter" /\ UNCHANGED meter
  BY DEF BillingNext
<1>5. UNCHANGED meter /\ MeterAtRest => MeterAtRest'
  BY DEF MeterAtRest, meter, M!NoCursor, M!NoCollect, M!None
<1>6. [BillingNext]_<<wgVars, meter, link, part>> /\ part # "meter" => part' # "meter" /\ UNCHANGED meter
  BY <1>3, <1>4, Zenon
<1>7. [BillingNext]_<<wgVars, meter, link, part>> /\ Resting => Resting'
  BY <1>5, <1>6, Zenon DEF Resting
<1> QED BY <1>1, <1>2, <1>3, <1>4, <1>7, Zenon

\* A meter that does not run has billed nothing.
LEMMA IdleMeter == MeterAtRest => OverbilledOnlyAgain /\ NothingDropped
<1> SUFFICES ASSUME MeterAtRest PROVE OverbilledOnlyAgain /\ NothingDropped
  OBVIOUS
<1>1. wire = <<>> /\ raw = 0 /\ used = 0 /\ moved = 0 /\ again = 0 /\ base = M!None
  BY DEF MeterAtRest
<1>2. M!Wire = OnWire(wire)
  BY SumIs DEF M!Wire, OnWire
<1>3. M!Wire = 0
  BY <1>1, <1>2, WireEmpty
<1>4. Num \in Nat /\ Den \in Nat
  BY MeterAssumption DEF M!MeterAssumption
<1> QED BY <1>1, <1>3, <1>4 DEF OverbilledOnlyAgain, M!OverbilledOnlyAgain, NothingDropped, M!NothingDropped

\* With one reader, no byte is billed twice or forgotten on any of the three ways
\* of the joined specification, and applies hand over what they reset.
THEOREM BillingHolds ==
  ASSUME OneReader
  PROVE  BillingSpec =>
           [](NeverOverbilled /\ NothingLost /\ OverbilledOnlyAgain /\ NothingDropped /\ OkRuns /\ NothingUnread)
<1>1. BillingSpec => Spec
  BY BillingParts, PTL DEF BillingSpec, Spec
<1>2. BillingSpec => L!Spec
  BY BillingParts, PTL DEF BillingSpec, L!Spec
<1>3. BillingSpec => M!Spec \/ []Resting
  BY BillingParts, PTL DEF BillingSpec, M!Spec
<1>4. Resting => OverbilledOnlyAgain /\ NothingDropped
  BY IdleMeter DEF Resting
<1>5. /\ M!Spec => []OverbilledOnlyAgain
      /\ M!Spec => []NothingDropped
  BY OverbilledOnlyAgainHolds, NothingDroppedHolds
<1>6. BillingSpec => [](OverbilledOnlyAgain /\ NothingDropped)
  BY <1>3, <1>4, <1>5, PTL
<1>7. /\ Spec => []NeverOverbilled
      /\ Spec => []NothingLost
  BY NeverOverbilledHolds, NothingLostHolds
<1> QED BY <1>1, <1>2, <1>6, <1>7, OkRunsHolds, NothingUnreadHolds, PTL
=============================================================================
