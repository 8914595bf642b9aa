\* Calls of wifi_sta(), losses, and the end of the link.
SPECIFICATION WifiLiveSpec
CONSTANTS
  Addresses = {a1, a2}
  NoAddress = NoAddress
  MaxRetries = 2
  MaxCalls = 2
  MaxLosses = 3
INVARIANTS
  AddressKnownWhenOnline
  AddressIsCurrent
PROPERTIES
  VerdictIsBacked
  LostLinkEndsSession
  Reconnects
\* After the last call nothing need happen.
CHECK_DEADLOCK FALSE
