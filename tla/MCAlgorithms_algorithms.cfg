\* Every input of the sets MCAlgorithms lists; durations of six bits.
CONSTANTS
  Half = 32
  Second = 5
  Base = 1
  Longest = 7
  Jitter = 2
  Configs <- AllConfigs
  Headers <- AllHeaders
  Responses <- AllResponses
  Names <- AllNames
SPECIFICATION Spec
INVARIANTS
  AcceptedIsRunnable
  ListedModelsAreServed
  NamesArriveTranslated
  ReadyMeansServed
  DelayIsBounded
  VectorsMatchInputs
