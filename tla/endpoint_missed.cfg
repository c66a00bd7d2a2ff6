SPECIFICATION Spec
CONSTANTS
  Number = {1, 2, 3}
  MaxLength = 3
INVARIANT DifferenceIsFound
