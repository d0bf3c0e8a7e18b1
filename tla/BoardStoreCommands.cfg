\* Two clients, repeats, failures at every step and a crash; nobody edits the
\* file by hand, so the store must be an atomic board.
CONSTANTS
  Client = {ann, bob}
  Card = {c1}
  None = None
  Hand = Hand
  MaxSends = 2
  MaxEdits = 0
  MaxCrashes = 1
  MayStartLow = TRUE
SPECIFICATION Spec
CHECK_DEADLOCK FALSE
INVARIANTS EditsLandOnce BlobsMatchDocuments
PROPERTIES ImplementsAtomicBoard
