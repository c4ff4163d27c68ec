SPECIFICATION Spec
CONSTANTS
  Ids = {i1, i2, i3}
  Limits = {0, 1, 2}
  Crashes = TRUE
  Faults = {"append"}
  None = None
  Bad = Bad
SYMMETRY Symmetry
INVARIANTS   LogBounded
 
