\* A fallback answer that is not marked: its primary was cooling down.
SPECIFICATION Spec
CONSTANTS
  m1 = m1
  m2 = m2
  m3 = m3
  prov1 = prov1
  prov2 = prov2
  prov3 = prov3
  Requests = {r1, r2, r3}
  Providers = {prov1, prov2}
  Models = {m1}
  Keyed = {prov1, prov2}
  Kinds = {"stream"}
  Events = {}
  Route <- RouteFallback
  Limit <- OneEach
INVARIANT FallbackIsMarked
SYMMETRY RequestSymmetry
