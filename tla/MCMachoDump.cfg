CONSTANTS
  empty = empty
  foo = foo
  other = other
  NUL = NUL
  MaxSymbols = 3
  Names <- MCNames
  NameLength <- MCNameLength
  Inputs <- MCInputs
  Vmoffs = {4096, 40960, 69632}
  CleanLengths = {0, 31, 32}
  Word = 65536
  LongWord = 131072

SPECIFICATION Spec

INVARIANTS
  TypeOK
  EverySymbolRecovered
  EveryFunctionRecovered
  UnitsFillSections
