SPECIFICATION FairSpec
CONSTANTS
  Window = {w1, w2}
  Key = {a, b}
  None = None
  Publishing = Publishing
  w1 = w1
  w2 = w2
  a = a
  b = b
  Legacy <- OneLegacy
  Toggled = {a}
  Dragged <- OneMove
  MaxCommands = 2
  MaxTroubles = 1
INVARIANTS NoSettingIsLost WindowOrderKept OkMeansPushed
PROPERTIES EveryChangeSettles
CHECK_DEADLOCK FALSE
