CONSTANTS
  Word = 65536
  LongWord = 16777216
  MCNsyms = {0, 1, 2, 340, 341, 342, 1000, 1500, 2000, 4000, 5461}
  MCStrsizes = {0, 1, 3, 4096, 8191, 8192, 16384, 28672, 40959, 53248, 57344, 65535}
  MCVmoffs = {0, 1, 4095, 4096, 16385, 36864, 61441, 65535}
  MCLongVmoffs = {0, 4095, 61441, 131073, 16711680, 16777215}
  Arguments <- MCArguments

SPECIFICATION Spec

INVARIANTS
  SizeofcmdsCoversCommands
