\* Attempts, a de-registration, losses and failures of the client, in any order.
SPECIFICATION LiveSpec
CONSTANTS
  Tries = 2
  Polls = 2
  Every = 2
  Wrap = 4
  Reports = 2
  MaxFailures = 2
  MaxChanges = 3
INVARIANTS
  CredentialsSafe
  ServedWhenConnected
PROPERTIES
  SessionRestored
  ReportsEnd
\* A device nobody registers rests.
CHECK_DEADLOCK FALSE
