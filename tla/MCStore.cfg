\* Two users, requests with any fields empty, three power failures.
SPECIFICATION Spec
CONSTANTS
  a = a
  b = b
  Nothing = Nothing
  Owner <- Owners
  Blanks <- AnyBlank
  MaxCrashes = 3
SYMMETRY Users
INVARIANTS
  StrictStatus
  ErasureLeavesNoPart
  OwnerIsCurrent
