SPECIFICATION Spec
CONSTANTS
  Oids <- MCOids
  NoNode = NoNode
  Batches <- MCBatches
  Rows <- MCRows
  SetCodes <- MCSetCodes
  ReadOnly <- MCReadOnly
  Slips <- Documented
  Reqs = {r1, r2}
  Messages <- GetSetMessages
  Uncloneable = {}
  MaxVarbinds = 3
  MaxRepeats = 0
CHECK_DEADLOCK FALSE
INVARIANTS
  ProviderResultsAreStuffed
