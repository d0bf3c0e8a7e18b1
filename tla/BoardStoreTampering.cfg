\* A hand edits the file, and older files come back, between any two steps, and
\* still every operation gives the mutex back.
CONSTANTS
  Client = {ann}
  Card = {c1}
  None = None
  Hand = Hand
  MaxSends = 1
  MaxEdits = 1
  MaxCrashes = 0
  MayStartLow = TRUE
SPECIFICATION FairSpec
CHECK_DEADLOCK FALSE
INVARIANTS BoundEditsSitOnWhatWasSeen OnlyAdmittedIsServed
PROPERTIES DefectsAreNotRewritten OperationsEnd
