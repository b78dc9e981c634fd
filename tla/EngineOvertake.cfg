SPECIFICATION Spec
CONSTANTS
  e1 = e1
  e2 = e2
  Engines <- MCEngines
  KeyEvents <- MCKeyEvents
  LegacyUnicode <- MCLegacyUnicode
PROPERTY
  PrintableNeverOvertakesAccent
