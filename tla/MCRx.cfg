\* Three messages and two slots; updates of the count that overtake each other, and a
\* session closed by casa_app wherever the thread is.
SPECIFICATION FairSpec
CONSTANTS
  Depth = 2
  Width = 6
  Empty = Empty
  MaxArrivals = 3
  MaxCloses = 1
INVARIANTS
  CountInRange
  HandledOnce
PROPERTIES
  ImplementsQueue
  DropsOnlyOnOverflow
  EveryMessageHandled
