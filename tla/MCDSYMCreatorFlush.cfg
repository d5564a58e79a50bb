CONSTANTS
  MaxLines = 2
  MaxRoom = 6

SPECIFICATION Spec

INVARIANTS
  SuccessIsComplete
