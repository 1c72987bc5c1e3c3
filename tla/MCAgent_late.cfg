SPECIFICATION FairSpec
CONSTANTS
  Oids <- MCOids
  NoNode = NoNode
  Batches <- MCBatches
  Rows <- MCRows
  SetCodes <- SetCodesWithNoError
  ReadOnly <- MCReadOnly
  Slips <- AllSlips
  Reqs = {r1, r2}
  Messages <- LateMessages
  Uncloneable = {}
  MaxVarbinds = 2
  MaxRepeats = 1
CHECK_DEADLOCK FALSE
INVARIANTS
  OneResponse
  GetNextAdvances
PROPERTIES
  AskedInScope
  EventuallyAnswered
