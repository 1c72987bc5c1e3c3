SPECIFICATION QuietSpec
CONSTANTS
  Oids <- MCOids
  NoNode = NoNode
  Batches <- MCBatches
  Rows <- MCRows
  SetCodes <- MCSetCodes
  ReadOnly = {}
  Slips = {}
  Reqs = {r1, r2}
  Messages <- MCMessages
  Uncloneable = {}
  MaxVarbinds = 2
  MaxRepeats = 0
  Datagrams = {r1, r2, d1}
  Malformed = {d1}
  MaxBinds = 2
CHECK_DEADLOCK FALSE
INVARIANTS
  ListenerTypeOK
PROPERTIES
  NothingAfterClose
  AtRestAfterClose
  CloseStrandsRequests
