SPECIFICATION FairSpec
CONSTANTS
  Conn = {c1, c2}
  Loop = Loop
  None = None
  c1 = c1
  c2 = c2
  Autopush = TRUE
  Remote = TRUE
  MaxRepairs = 1
INVARIANTS NothingRunsAfterwards CutMeansNotExecuted FinalPushHoldsCommands
PROPERTIES ShutdownIsAnswered DrainsEnd WritesArePushed
CHECK_DEADLOCK FALSE
