CONSTANTS
  fat = fat
  thin7 = thin7
  text = text
  Runs = {r1, r2}
  Binaries = {fat, thin7}
  Kind <- MCKind
  Modes = {"ida"}
  MaxActive = 1
  Faults = {"fopen"}
  IdaInstalled = {TRUE}

SPECIFICATION Spec

INVARIANTS
  SymbolsFromBinary
