CONSTANTS
  Ids = {v1}
  Requests = {r1}
  Configs <- SmallConfigs
  MaxEvents = 1
  MaxErrors = 2
SPECIFICATION Spec
INVARIANTS
  TypeOK
  CleanExitFinishesWork
  NilEventOnlyAtShutdown
PROPERTIES
  RelayNeverStuck
  CancelStopsAll
  SignalEnds
