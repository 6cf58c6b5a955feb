CONSTANTS
  new = new
  c1 = c1
  c2 = c2
  Readers = {new}
  MaxBytes = 3
  MaxResets = 1
  Conns = {c1, c2}
  MaxFaults = 1
  MaxWire = 1
  Skew = TRUE
  Partial = TRUE
  Num = 3
  Den = 2
  i0 = i0
  i1 = i1
  p = p
  Order <- MCOrder
  Blocks = {"A", "B"}
  Peers = {p}
  NoBlock = NoBlock
  Requests <- MCRequests
  MaxApplies = 3
  MaxCommands = 1
SPECIFICATION BillingSpec
INVARIANTS NeverOverbilled NothingLost OverbilledOnlyAgain NothingDropped  
SYMMETRY Symmetry
CHECK_DEADLOCK FALSE
