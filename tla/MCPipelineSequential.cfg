CONSTANTS
  fat = fat
  thin7 = thin7
  text = text
  Runs = {r1, r2}
  Binaries = {fat, thin7, text}
  Kind <- MCKind
  Modes = {"ida", "objc"}
  MaxActive = 1
  Faults = {"kill", "tool", "flush"}
  IdaInstalled = {TRUE, FALSE}

SPECIFICATION Spec

INVARIANTS
  TypeOK

PROPERTIES
  SuccessIsOwnImage
  UndisturbedRunSucceeds
  JobSpec
