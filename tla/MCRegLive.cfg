\* Answers may be repeated; nothing else arrives.
SPECIFICATION FairSpec
CONSTANTS
  Null = Null
  SwitchEnableTime = 1
  RegTimeout = 2
  CloudRespTime = 1
  Requests <- AllRequests
  Codes <- AcceptRefuse
  Messages <- Duplicates
  Presses <- OnlyRetries
PROPERTIES
  RegistrationEnds
CHECK_DEADLOCK FALSE
