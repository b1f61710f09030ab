SPECIFICATION SeriesSpec
CONSTANTS
  Users = {u1, u2}
  Groups = {g1}
  Roles = {r1, r2}
  Tenants = {t1, t2}
  Flavor = Flavor
  Specs = Specs
  DefaultRules = {d1, d2}
  ExtraRules = {x1}
  ElsewhereRules = {e1}
  Subnets = {s1, s2}
  Ports = {p1, p2}
  DhcpPort = DhcpPort
  Policies = {b1, b2}
  None = None
  Crashes = 1
  Transients = 1
  Removals = 1
  Arrivals = 1
  MaxFaults <- FaultBudget
INVARIANTS DoneIsComplete RepeatableSucceeds
CHECK_DEADLOCK FALSE
