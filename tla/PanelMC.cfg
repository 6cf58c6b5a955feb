CONSTANTS
  Nobody = Nobody
  Uri = Uri
  sa = sa
  sb = sb
  sm = sm
  h1 = h1
  h2 = h2
  s1 = s1
  s2 = s2
  s3 = s3
  a1 = a1
  Sessions = {s1, s2, s3}
  Admins = {a1}
  n1 = n1
  n2 = n2
  bad = bad
  tx = tx
  ty = ty
  tz = tz
  Handlers = {h1, h2}
  Servers = {sa, sb, sm}
  Ports = {1, 2}
  MaxRequests = 2
  LineIds = {1, 2, 3, 4}
  SavedLines <- MCLines
  SavedPackage <- MCPackage
  Busy <- MCBusy
  MaxMissed = 1
  Nodes = {1, 2, 3}
  Nets = {6, 7, 8}
  Cap = 2
  SavedNodes <- MCNodes
  Hosted = {sa, sb}
  Certs = {1, 2, 3}
  Names = {n1, n2}
  Broken = {bad}
  Loop = Loop
  Life = 5
  Due = 3
  Lives = {0, 3}
  SavedCerts <- MCCerts
  MaxFails = 1
  MaxTicks = 4
  MaxCertRequests = 1
  Agents = {tx, ty, tz}
  ServerIds = {1, 2}
  SavedServers <- MCServers
  BackupServers <- MCBackup
  NewTokens = {tz}
SPECIFICATION PanelSpec
INVARIANTS TableRight  SavedBuilds EndsAgree NeverOver Served RestoredRuns
PROPERTIES SoldPathsStay SlotStays
SYMMETRY Symmetry
CHECK_DEADLOCK FALSE
