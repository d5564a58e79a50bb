CONSTANTS
  Word = 65536
  LongWord = 16777216
  WordDigits = 4
  LongDigits = 6
  MaxLines = 3
  Cuts = {2, 28, 40, 90, 150, 220, 290, 350, 400, 450, 480, 500, 520, 560}
  Names <- MCNames
  NameRank <- MCNameRank
  VmNames <- MCVmNames
  Digits <- MCDigits
  Scenarios <- MCScenarios
  Content <- MCContent

SPECIFICATION Spec

INVARIANTS
  TypeOK
  FieldsAsDeclared
  SoundBinariesAreRead
  LeastUpperBase
  BaseExact
  DwarfAboveSegments
  EveryAddressAttributed
