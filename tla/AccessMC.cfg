SPECIFICATION MCSpec
CONSTANTS
  u1 = u1
  u2 = u2
  s1 = s1
  dns = dns
  Rows = {1, 2}
  Customers = {u1, u2}
  Guest = guest
  Forms <- MCForms
  Filters <- MCFilters
  Speeds = {0, 1}
  Sites = {s1, s2, dns}
  Always = {dns}
  RowId <- MCRowId
  MarkMod = 4
  MaxUnread = 1
  None = None
  Inbounds = {1, 2}
  Handlers = {h1}
  Calendar <- MCCalendar
  Limit = 1
  Rules <- MCRules
  ResetDays = {0, 1}
  Expiries = {0, 1}
  MaxEvents = 2
CHECK_DEADLOCK FALSE
INVARIANTS OneResetACycle RoutedAsAsked
PROPERTY AccessSettles
