CONSTANTS
  h1 = h1
  h2 = h2
  l1 = l1
  l2 = l2
  Handlers = {h1, h2}
  Loops = {l1, l2}
  Attempts = 2
  Carried = {1}
  MaxVersion = 1
  MaxConn = 2
SPECIFICATION FairSpec
INVARIANTS OneLoop NothingForgotten
PROPERTIES PushesInOrder Delivers Settles
