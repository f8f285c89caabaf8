CONSTANTS
  WordBits = 3
  Length = 5
SPECIFICATION Spec
INVARIANT CopyInBounds
