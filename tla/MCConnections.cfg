SPECIFICATION Spec
CONSTANTS
  MaxBytes = 3
  MaxRuns = 3
  MaxBuilds = 2
  Sizes = {1, 2}
CHECK_DEADLOCK FALSE
INVARIANTS OnlyAdmitted FilesBelongTogether RequestExact
PROPERTIES ImplementsRelay PairReleased HalfCloseForwarded RunEnds MutexReleased
