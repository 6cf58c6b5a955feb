CONSTANTS
  xray = xray
  singbox = singbox
  one = one
  two = two
  bad = bad
  p1 = p1
  p2 = p2
  u1 = u1
  u2 = u2
  k1 = k1
  k2 = k2
  r1 = r1
  l1 = l1
  g1 = g1
  g2 = g2
  Nothing = Nothing
  Half = Half
  CoreNames = {xray, singbox}
  Order <- MCOrder
  Configs = {one, two, bad}
  NoConfig = NoConfig
  Torn = Torn
  Ports = {p1, p2}
  Listens <- MCListens
  Broken = {bad}
  Targets <- MCTargets
  Carried <- MCCarried
  CrashLimit = 2
  Window = 3
  MaxEvents = 3
  Clients = {u1, u2}
  ClientSets = {{u1}, {u2}, {u1, u2}}
  Kicks = {k1, k2}
  MaxPushes = 2
  KickFaults = 2
  Wants <- MCWants
  Opened = {p1, p2}
  Kinds = {"ufw", "iptables", "nft", "none"}
  FilterFaults = 1
  FilterEvents = 3
  Upgrades = {k1, k2}
  Installs = {g1, g2}
  Nodes = {1, 2, 3}
  MaxVersion = 2
  InstallFaults = 2
SPECIFICATION ServerSpec
INVARIANTS OnlyAccepted StatsAskTheRunning KickedComeBack AckedGuards StaysOpen ProgramsWhole
PROPERTIES OnlyRemovalForgets ComesBack Settles
CHECK_DEADLOCK FALSE
