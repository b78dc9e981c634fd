SPECIFICATION Spec
CONSTANTS
  Keys <- MCKeys
  ModSets <- MCModSets
INVARIANTS
  TypeOK
  PendingHasItsLiteral
PROPERTIES
  AccentNeverLost
  CharacterPreserved
  SwallowedOnlyForASequence
  KeepsThePromise
