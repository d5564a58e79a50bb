CONSTANTS
  fat = fat
  thin7 = thin7
  text = text
  Runs = {r1, r2}
  Binaries = {fat, thin7}
  Kind <- MCKind
  Modes = {"objc"}
  MaxActive = 2
  Faults = {}
  IdaInstalled = {}

SPECIFICATION Spec

INVARIANTS
  UuidFromBinary
