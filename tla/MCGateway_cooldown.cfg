\* Three streams on a shared primary that enters and leaves cooldown.
SPECIFICATION Spec
CONSTANTS
  m1 = m1
  m2 = m2
  m3 = m3
  prov1 = prov1
  prov2 = prov2
  prov3 = prov3
  Requests = {r1, r2, r3}
  Providers = {prov1, prov2}
  Models = {m1, m2}
  Keyed = {prov1, prov2}
  Kinds = {"stream"}
  Events = {"elapse"}
  Route <- RouteShared
  Limit <- OneEach
INVARIANTS
  TypeOK
  CandidatesFollowTheRoute
  CooldownsAreEarned
  UsageMatchesService
SYMMETRY RequestSymmetry
