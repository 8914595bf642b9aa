\* Three requests, any of them cut short, and two of the texts too long.
SPECIFICATION AssemblerSpec
CONSTANTS
  Capacity = 5
  PacketSize = 4
  Texts <- PlainTexts
  MaxRequests = 3
INVARIANTS
  AssemblerTypeOK
  RequestIsRecognised
PROPERTIES
  CapturedIsRequest
