SPECIFICATION Spec
CONSTANTS
  Act = {a1, a2}
  Value = {red, blue}
  None = None
  a1 = a1
  a2 = a2
  red = red
  blue = blue
  MaxForeign = 1
  MaxReloads = 1
INVARIANTS VerdictsAreHonest WantedOnce ConfirmedStaysVisible
SYMMETRY Symmetry
CHECK_DEADLOCK FALSE
