SPECIFICATION RegistrySpec
CONSTANTS
  Oids <- MCOids
  Batches <- MCBatches
  NoNode = NoNode
INVARIANTS
  RegistryTypeOK
  SearchFindsFirst
  GetNextAsksTheFirst
  GetNextChainEnds
