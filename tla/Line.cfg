SPECIFICATION Spec
CONSTANTS
  MaxPayload = 3
  BufferSize = 11
  CRC <- calculate
  Uids = {1, 2}
  Messages <- MCMessages
  Noise = {0, 82}
  MaxSent = 3
  MaxWire = 2
  MaxFaults = 1
  Recovery = 2
INVARIANTS
  ParserTypeOK
  ProcessesWhole
  InOrder
  NoneMissed
  Recovers
CHECK_DEADLOCK FALSE
