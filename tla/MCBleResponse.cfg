\* Everything that may go wrong, in any order.
SPECIFICATION LiveSpec
CONSTANTS
  Nothing = Nothing
  Empty = Empty
  MaxResponses = 2
  MaxReads = 3
  MaxLinks = 2
INVARIANTS
  NoResponseLost
PROPERTIES
  AnswersAreFresh
  ReadIsAnswered
  FoundAgain
\* The bounds stop the phone.
CHECK_DEADLOCK FALSE
