\* Every kind of message and gesture; requests that are complete or blank.
SPECIFICATION Spec
CONSTANTS
  Null = Null
  SwitchEnableTime = 1
  RegTimeout = 1
  CloudRespTime = 0
  Requests <- GoodBlank
  Codes <- AcceptRefuse
  Messages <- AllMessages
  Presses <- AllPresses
INVARIANTS
  TimerMatchesContext
  VerdictAgrees
PROPERTIES
  EndedStaysEnded
CONSTRAINTS
  QuietAfterDrop
CHECK_DEADLOCK FALSE
