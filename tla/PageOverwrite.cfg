SPECIFICATION Spec
CONSTANTS
  Act = {a1, a2}
  Value = {red, blue}
  None = None
  a1 = a1
  a2 = a2
  red = red
  blue = blue
  MaxForeign = 1
  MaxReloads = 0
PROPERTY EditsOverwriteOwnChangesOnly
CHECK_DEADLOCK FALSE
