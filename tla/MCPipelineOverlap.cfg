CONSTANTS
  fat = fat
  thin7 = thin7
  text = text
  Runs = {r1, r2}
  Binaries = {thin7}
  Kind <- MCKind
  Modes = {"objc", "ida"}
  MaxActive = 2
  Faults = {"fopen", "tmp"}
  IdaInstalled = {TRUE}

SPECIFICATION FairSpec

PROPERTIES
  EveryRunEnds
