SPECIFICATION Spec
CONSTANTS
  Clients = {c1}
  Calls <- TrapCalls
  MaxCalls = 2
  MaxLosses = 0
  MaxDups = 0
CHECK_DEADLOCK FALSE
INVARIANTS
  V1TrapsEncodable
