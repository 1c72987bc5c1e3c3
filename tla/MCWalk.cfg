SPECIFICATION QuietSpec
CONSTANTS
  Oids <- MCOids
  NoNode = NoNode
  Batches <- MCBatches
  Rows <- MCRows
  SetCodes = {}
  ReadOnly = {}
  Slips = {}
  Reqs <- MCReqs
  Messages <- MCMessages
  Uncloneable = {}
  MaxVarbinds = 2
  MaxRepeats = 0
  Starts <- MCStarts
  Asks <- MCAsks
CHECK_DEADLOCK FALSE
INVARIANTS
  GetNextExact
  WalkComplete
  WalksOnForNothing
PROPERTIES
  KeepsPromise
