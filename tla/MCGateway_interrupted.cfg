\* Two requests with a fallback, without a route or without a key, interrupted at
\* any point.
SPECIFICATION Spec
CONSTANTS
  m1 = m1
  m2 = m2
  m3 = m3
  prov1 = prov1
  prov2 = prov2
  prov3 = prov3
  Requests = {r1, r2}
  Providers = {prov1, prov2, prov3}
  Models = {m1, m2, m3}
  Keyed = {prov1, prov2}
  Kinds = {"chat", "stream"}
  Events = {"cancel", "deadline"}
  Route <- RouteUneven
  Limit <- OneEach
INVARIANTS
  SlotsMatchHolders
  ConnectionsHeldUnderSlots
  RepetitionsAreJustified
  UsageMatchesService
  GaugesMatchWork
  CountersReconcile
PROPERTIES
  CallsStartClean
  ImplementsBulkheads
SYMMETRY RequestSymmetry
