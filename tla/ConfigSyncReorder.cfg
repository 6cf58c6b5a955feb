CONSTANTS
  h1 = h1
  h2 = h2
  l1 = l1
  xray = xray
  singbox = singbox
  Handlers = {h1, h2}
  Loops = {l1}
  Attempts = 2
  Carried = {1}
  MaxVersion = 1
  MaxConn = 2
  CoreNames = {xray, singbox}
  MaxSends = 2
  InOrder = FALSE
SPECIFICATION SpecAll
INVARIANT QuietMeansCurrent
SYMMETRY Symmetry
CHECK_DEADLOCK FALSE
