SPECIFICATION Spec
CONSTANTS
  Keys <- MCKeys
  ModSets <- MCModSets
PROPERTY
  ShortcutsPassThrough
