SPECIFICATION Spec
CONSTANTS
  Noon = {2, 3}
  Last = 5
INVARIANTS SwappedAtMidnight
