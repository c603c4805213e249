\* Two requests and a profile, any configuration, signals and failures at any point.
CONSTANTS
  Requests = {r1, r2}
  Profiles = {p1}
SPECIFICATION FairSpec
INVARIANTS
  LifecycleInv
  ZeroMeansDrained
  CutIsForced
PROPERTIES
  StopsWhenAsked
