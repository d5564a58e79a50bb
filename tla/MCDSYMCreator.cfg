CONSTANTS
  MaxLines = 3
  MaxRoom = 7

SPECIFICATION Spec

INVARIANTS
  TypeOK
  OldOutputSurvives
  EveryLineCounts
  ExitCodeTells
