SPECIFICATION FairSpec
CONSTANTS
  Clients = {c1, c2}
  Calls <- SomeCalls
  MaxCalls = 2
  MaxLosses = 1
  MaxDups = 1
CHECK_DEADLOCK FALSE
INVARIANTS
  ManagerTypeOK
  CallbackRunsOnce
  OwnAnswer
  DiesOfStrayResponse
  WaitsForSomething
PROPERTIES
  EveryRequestCalledBack
  EveryNoticeEmitted
