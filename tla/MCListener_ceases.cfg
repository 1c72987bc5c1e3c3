SPECIFICATION ListenerSpec
CONSTANTS
  Datagrams = {d1, d2, d3}
  Malformed = {d3}
  MaxBinds = 3
CHECK_DEADLOCK FALSE
PROPERTIES
  CloseCeasesReceiving
