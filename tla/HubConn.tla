------------------------------ MODULE HubConn -------------------------------
(***************************************************************************)
(* The connection table of the panel for ONE server: Hub.ServeWS,          *)
(* registerConn, unregisterConn, Drop (internal/server/hub.go), and the    *)
(* online flag of the server's row, which reconcileOnline of               *)
(* handlers_servers.go repairs.  Every ServeWS call is a session.          *)
(***************************************************************************)
EXTENDS FiniteSets

CONSTANTS Sessions,  \* WebSocket connections of the server's Agent
          Admins     \* HTTP handlers that drop the Agent or list the servers

\* What the proofs need: "none" names no session.
SessionsNamed == "none" \notin Sessions

VARIABLES
  conn,     \* h.conns[id], or None
  closed,   \* sessions whose ac.closed is closed and whose socket is shut
  pc,       \* where each session is
  admin,    \* where each handler is
  dropped,  \* the session each handler has taken out of the table and not shut yet
  online    \* servers.online

hubVars == <<conn, closed, pc, admin, dropped, online>>

None == "none"
SessionPlaces == {"new", "register", "ack", "mark", "read", "leave", "clear", "offline", "over"}
AdminPlaces == {"idle", "listed", "repair", "shut", "clear", "offline"}

Init ==
  /\ conn = None /\ closed = {}
  /\ pc = [s \in Sessions |-> "new"]
  /\ admin = [a \in Admins |-> "idle"]
  /\ dropped = [a \in Admins |-> None]
  /\ online = FALSE

SessionAt(s, from, to) == pc[s] = from /\ pc' = [pc EXCEPT ![s] = to]
AdminAt(a, from, to) == admin[a] = from /\ admin' = [admin EXCEPT ![a] = to]

(***************************************************************************)
(* ServeWS.                                                                *)
(***************************************************************************)

\* A hello with a known token, or one that is turned away.
Hello(s) ==
  /\ SessionAt(s, "new", "register") \/ SessionAt(s, "new", "over")
  /\ UNCHANGED <<conn, closed, admin, dropped, online>>

RegisterConn(s) ==
  /\ SessionAt(s, "register", "ack")
  /\ conn' = s
  /\ closed' = closed \cup ({conn} \ {None})
  /\ UNCHANGED <<admin, dropped, online>>

\* hello_ack is written to the socket directly; a shut socket cannot take it.
Ack(s) ==
  /\ \/ SessionAt(s, "ack", "leave")
     \/ s \notin closed /\ SessionAt(s, "ack", "mark")
  /\ UNCHANGED <<conn, closed, admin, dropped, online>>

MarkServerOnline(s) ==
  /\ SessionAt(s, "mark", "read")
  /\ online' = TRUE
  /\ UNCHANGED <<conn, closed, admin, dropped>>

\* writerLoop fails and shuts the socket; the reader has still to notice.
WriteError(s) ==
  /\ pc[s] = "read" /\ s \notin closed
  /\ closed' = closed \cup {s}
  /\ UNCHANGED <<conn, pc, admin, dropped, online>>

\* The read fails: the socket is shut, the Agent went away or was silent too long.
ReadError(s) ==
  /\ SessionAt(s, "read", "leave")
  /\ UNCHANGED <<conn, closed, admin, dropped, online>>

\* Mutant: the cleanup takes out whatever connection is registered.
UnregisterAny(s) ==
  /\ SessionAt(s, "leave", "clear")
  /\ conn' = None
  /\ closed' = closed \cup {s}
  /\ UNCHANGED <<admin, dropped, online>>

\* Mutant: the cleanup shuts the connection and leaves it in the table.
UnregisterKeeping(s) ==
  /\ SessionAt(s, "leave", IF conn = s THEN "clear" ELSE "over")
  /\ closed' = closed \cup {s}
  /\ UNCHANGED <<conn, admin, dropped, online>>

\* unregisterConn, under h.mu; the rest of it runs after the unlock.
UnregisterConn(s) ==
  /\ SessionAt(s, "leave", IF conn = s THEN "clear" ELSE "over")
  /\ conn' = IF conn = s THEN None ELSE conn
  /\ closed' = closed \cup {s}
  /\ UNCHANGED <<admin, dropped, online>>

ClearUserLive(s) ==
  /\ SessionAt(s, "clear", "offline")
  /\ UNCHANGED <<conn, closed, admin, dropped, online>>

MarkServerOffline(s) ==
  /\ SessionAt(s, "offline", "over")
  /\ online' = FALSE
  /\ UNCHANGED <<conn, closed, admin, dropped>>

(***************************************************************************)
(* Handlers.                                                               *)
(***************************************************************************)

\* Drop: the server is deleted or its Agent has been uninstalled.
Drop(a) ==
  /\ conn # None
  /\ AdminAt(a, "idle", "shut")
  /\ conn' = None
  /\ dropped' = [dropped EXCEPT ![a] = conn]
  /\ UNCHANGED <<closed, pc, online>>

DropShut(a) ==
  /\ AdminAt(a, "shut", "clear")
  /\ closed' = closed \cup {dropped[a]}
  /\ dropped' = [dropped EXCEPT ![a] = None]
  /\ UNCHANGED <<conn, pc, online>>

DropClear(a) ==
  /\ AdminAt(a, "clear", "offline")
  /\ UNCHANGED <<conn, closed, pc, dropped, online>>

DropOffline(a) ==
  /\ AdminAt(a, "offline", "idle")
  /\ online' = FALSE
  /\ UNCHANGED <<conn, closed, pc, dropped>>

\* reconcileOnline: read the rows, ask the hub about one that says online, repair it.
ListServers(a) ==
  /\ online /\ AdminAt(a, "idle", "listed")
  /\ UNCHANGED <<conn, closed, pc, dropped, online>>

IsOnline(a) ==
  /\ AdminAt(a, "listed", IF conn = None THEN "repair" ELSE "idle")
  /\ UNCHANGED <<conn, closed, pc, dropped, online>>

Repair(a) ==
  /\ AdminAt(a, "repair", "idle")
  /\ online' = FALSE
  /\ UNCHANGED <<conn, closed, pc, dropped>>

\* The panel process ends and starts again: MarkAllServersOffline.
Restart ==
  /\ conn' = None
  /\ pc' = [s \in Sessions |-> IF pc[s] = "new" THEN "new" ELSE "over"]
  /\ closed' = {s \in Sessions : pc[s] # "new"}
  /\ admin' = [a \in Admins |-> "idle"]
  /\ dropped' = [a \in Admins |-> None]
  /\ online' = FALSE

SessionStep(s) ==
  \/ RegisterConn(s) \/ Ack(s) \/ MarkServerOnline(s)
  \/ UnregisterConn(s) \/ ClearUserLive(s) \/ MarkServerOffline(s)
  \/ s \in closed /\ ReadError(s)

AdminStep(a) == DropShut(a) \/ DropClear(a) \/ DropOffline(a) \/ IsOnline(a) \/ Repair(a)

Next ==
  \/ \E s \in Sessions : Hello(s) \/ SessionStep(s) \/ ReadError(s) \/ WriteError(s)
  \/ \E a \in Admins : Drop(a) \/ ListServers(a) \/ AdminStep(a)
  \/ Restart

Spec == Init /\ [][Next]_hubVars

-----------------------------------------------------------------------------
TypeOK ==
  /\ conn \in Sessions \cup {None} /\ closed \subseteq Sessions
  /\ pc \in [Sessions -> SessionPlaces]
  /\ admin \in [Admins -> AdminPlaces]
  /\ dropped \in [Admins -> Sessions \cup {None}]
  /\ online \in BOOLEAN

\* The table never keeps a connection whose goroutine has ended: pushServer would
\* wait for the answers of an Agent nobody reads from.
NoDeadEntry ==
  conn # None => pc[conn] \in {"ack", "mark", "read", "leave"}

\* A session that is not in the table is shut, or about to be: otherwise its Agent
\* would keep a connection the panel never uses and would never dial again.  So
\* the cleanup of a replaced connection must not take out its successor.
NoOrphan ==
  \A s \in Sessions : pc[s] \in {"ack", "mark", "read"} /\ conn # s =>
    s \in closed \/ \E a \in Admins : dropped[a] = s

\* The table and the connections agree.
TableRight == NoDeadEntry /\ NoOrphan

\* The online flag of a connected Agent's row is set once its session reads.
ConnectedIsOnline == conn # None /\ pc[conn] = "read" => online

(***************************************************************************)
(* Every goroutine that can run does; reading from a shut socket fails.    *)
(***************************************************************************)
FairSpec ==
  /\ Spec
  /\ \A s \in Sessions : WF_hubVars(SessionStep(s))
  /\ \A a \in Admins : WF_hubVars(AdminStep(a))

\* A connection that the writer has given up does not stay in the table.
ShutLeaves ==
  \A s \in Sessions : conn = s /\ s \in closed ~> conn # s
=============================================================================
