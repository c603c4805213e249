\* A provider nobody falls back from fails repeatedly.
SPECIFICATION Spec
CONSTANTS
  m1 = m1
  m2 = m2
  m3 = m3
  prov1 = prov1
  prov2 = prov2
  prov3 = prov3
  Requests = {r1, r2}
  Providers = {prov1}
  Models = {m1}
  Keyed = {prov1}
  Kinds = {"chat"}
  Events = {}
  Route <- RouteSingle
  Limit <- OneEach
INVARIANT RepeatedFailuresCool
