\* Every kind of message and gesture.
SPECIFICATION FairSpec
CONSTANTS
  Null = Null
  TimeOut = 1
  Codes <- SomeCodes
  Messages <- AllMessages
  Presses <- AllPresses
INVARIANTS
  TimerMatchesContext
PROPERTIES
  WipeNeedsGrounds
  CalmDeregSettles
CHECK_DEADLOCK FALSE
