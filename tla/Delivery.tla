------------------------------ MODULE Delivery ------------------------------
(***************************************************************************)
(* What the panel promises about the configuration of one server, without  *)
(* queues, mutexes, goroutines or retries.  The newest configuration is    *)
(* owed to every connection of the Agent from the moment the tables or the *)
(* connection change; the debt ends only when the Agent has confirmed it,  *)
(* when the administrator can see an error, or when the Agent is gone.     *)
(***************************************************************************)
EXTENDS Naturals

VARIABLES
  want,   \* the newest configuration
  link,   \* the Agent's connection, 0 when there is none
  got,    \* what the Agent has confirmed on it
  err,    \* an error is shown for the server
  owed    \* a dispatch is still to come

deliveryVars == <<want, link, got, err, owed>>

Init == want = 0 /\ link = 0 /\ got = 0 /\ err = FALSE /\ owed = FALSE

\* The debt may end in this step only for one of the three reasons.
MayEnd == owed => owed' \/ link' = 0 \/ got' = want' \/ err'

NewConfig ==
  /\ want' = want + 1 /\ owed'
  /\ UNCHANGED <<link, got, err>>

Ask ==
  /\ owed'
  /\ UNCHANGED <<want, link, got, err>>

\* A connection is new: nothing has been confirmed on it.
Connect ==
  /\ link' > link /\ got' = 0 /\ owed'
  /\ UNCHANGED <<want, err>>

\* The connection ends, or the panel does and takes the debt with it.
Disconnect ==
  /\ link' = 0 /\ got' \in {0, got} /\ owed' \in BOOLEAN
  /\ UNCHANGED <<want, err>>

\* Configurations are confirmed in the order they were made.
Confirm ==
  /\ owed /\ got' \in 0 .. want
  /\ link # 0 => got' >= got
  /\ owed' \in BOOLEAN /\ MayEnd
  /\ UNCHANGED <<want, link, err>>

\* A dispatch ends with an error, or clears the error of an earlier one.  It
\* never clears an error while a connected Agent lacks a configuration that no
\* dispatch is going to bring.
Report ==
  /\ err' \in BOOLEAN
  /\ ~err' => (owed' \/ got = want \/ link = 0)
  /\ owed' \in BOOLEAN /\ MayEnd
  /\ UNCHANGED <<want, link, got>>

Next == NewConfig \/ Ask \/ Connect \/ Disconnect \/ Confirm \/ Report

Spec == Init /\ [][Next]_deliveryVars
=============================================================================
