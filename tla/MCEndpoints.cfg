\* Clicks, messages and power failures at any moment, arrays longer than the record.
SPECIFICATION LiveSpec
CONSTANTS
  N = 2
  Arrays <- ShortOrTooLong
  MaxStimuli = 2
  MaxBoots = 1
  NotSaved = NotSaved
INVARIANTS
  TypeOK
  
  ReportFollowsLoad

  
  
