CONSTANTS
  Ids = {v1}
  Requests = {r1}
  Configs <- OnlyControllers
  MaxEvents = 1
  MaxErrors = 1
SPECIFICATION SafeSpec
INVARIANT
  SignalWaitsForWork
