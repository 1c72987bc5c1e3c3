SPECIFICATION Spec
CONSTANTS
  Oids <- MCOids
  NoNode = NoNode
  Batches <- MCBatches
  Rows <- MCRows
  SetCodes <- MCSetCodes
  ReadOnly = {}
  Slips <- NoSlips
  Reqs = {r1}
  Messages <- GetSetMessages
  Uncloneable = {}
  MaxVarbinds = 3
  MaxRepeats = 0
CHECK_DEADLOCK FALSE
INVARIANTS
  ShortNodesAreAnswered
