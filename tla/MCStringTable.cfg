CONSTANTS
  empty = empty
  short = short
  other = other
  long = long
  NUL = NUL
  MaxNames = 4
  Word = 11
  Names <- MCNames
  NameLength <- MCNameLength
  Inputs <- MCInputs

SPECIFICATION Spec

INVARIANTS
  TypeOK
  AssertHolds
  NoOverrun
  EveryNameFound
