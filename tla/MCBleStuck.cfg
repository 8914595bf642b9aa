\* The first of two requests is cut short.
SPECIFICATION AssemblerSpec
CONSTANTS
  Capacity = 5
  PacketSize = 4
  Texts <- PlainTexts
  MaxRequests = 2
INVARIANTS
  StuckCounterIsReset
