------------------------------ MODULE AccessMC ------------------------------
(***************************************************************************)
(* What becomes of a customer's row, for TLC: which clients he has         *)
(* (Access), and the rules his server routes them by (Routing).  The two   *)
(* share no state that is modelled, so a behaviour runs one of them while  *)
(* the other stays as it began.                                            *)
(***************************************************************************)
EXTENDS Access

CONSTANTS
  u1, u2, s1, dns,
  Rows, Customers, Guest, Forms, Filters, Speeds, Sites, Always, RowId, MarkMod, MaxUnread, None

VARIABLES part, line, has, filter, speed, built

Day(m, d) == [m |-> m, d |-> d]
MCCalendar == <<Day(1, 1), Day(1, 2), Day(2, 1)>>

ByDay(d) == [day |-> d, every |-> 0]
MCRules == {ByDay(2), [day |-> 0, every |-> 1]}
MCDayRule == {ByDay(2)}

-----------------------------------------------------------------------------
Form(core, chain, kind) == [core |-> core, chain |-> chain, kind |-> kind, on |-> TRUE]

MCForms ==
  {Form("xray", FALSE, "user"), Form("xray", TRUE, "user"), Form("xray", FALSE, "forward"),
   Form("singbox", FALSE, "user"), Form("singbox", TRUE, "user"), Form("singbox", FALSE, "socks"),
   Form("mita", FALSE, "mieru"), Form("mita", TRUE, "mieru"),
   [Form("xray", FALSE, "user") EXCEPT !.on = FALSE]}

Says(mode, sites) == [mode |-> mode, sites |-> sites]

\* Of the row ids one has no room for a mark and two share one.
MCRowId ==
  [e \in Rows \X Customers |-> IF e = <<1, u1>> THEN 1 ELSE IF e = <<1, u2>> THEN 2
                               ELSE IF e = <<2, u1>> THEN 4 ELSE 5]

MCFilters == {Says("allow", {}), Says("", {s1}), Says("deny", {s1, dns}), Says("allow", {s1})}

R == INSTANCE Routing

ASSUME RoutesAssumption == R!RoutingAssumption

-----------------------------------------------------------------------------
routes == <<line, has, filter, speed, built>>

\* Both customers have the same clients, and one of them a speed limit.
MCInit ==
  /\ part \in {"access", "routes"}
  /\ Init /\ R!Init
  /\ \A l \in Rows : <<l, u1>> \in has <=> <<l, u2>> \in has
  /\ speed[u2] = 0
  /\ part = "access" => line = [l \in Rows |-> Form("mita", FALSE, "mieru")] /\ has = {}
  /\ part = "access" => speed[u1] = 0 /\ \A v \in Customers : filter[v] = Says("allow", {})
  /\ part = "routes" => row = NewUser(TRUE) /\ rule = ByDay(2)

MCNext ==
  /\ UNCHANGED part
  /\ \/ part = "access" /\ Next /\ UNCHANGED routes
     \/ part = "routes" /\ R!Next /\ UNCHANGED vars

MCSpec == MCInit /\ [][MCNext]_<<vars, routes, part>> /\ Fairness

-----------------------------------------------------------------------------
\* A request goes where the rows of the customer and of the line send it.
RoutedAsAsked == R!RoutedAsAsked
=============================================================================
