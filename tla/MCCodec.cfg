SPECIFICATION CodecSpec
CONSTANTS
  LimbBits = 4
  OctalLowBits = 3
  Operands <- MCOperands
  Numerals <- MCNumerals
  Counts <- MCCounts
  NoNumber = NoNumber
  None = None
  Refused = Refused
  Blank = Blank
  Registrations <- MCRegistrations
  Assignments <- MCAssignments
  Strings <- MCStrings
  Bindings <- MCBindings
  TrapFields <- MCTrapFields
  Numbers <- MCNumbers
  Opcodes = {0, 4, 5, 9}
  Datagrams <- MCDatagrams
CHECK_DEADLOCK FALSE
INVARIANTS
  ArithmeticExact
  ConvertsExactly
  DataTypeOK
  TagsMakeObjects
  SurvivesTheWire
  CloneIsCopy
  ShortestForm
  MessageTypeOK
  ComesBack
  
  IndexNamesBinding
PROPERTIES
  StringsDenote
