SPECIFICATION Spec
CONSTANTS
  Amounts <- MCAmounts
  MaxEvents = 2
INVARIANT UnrecordedFillShows
