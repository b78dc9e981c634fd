SPECIFICATION FairSessionSpec
CONSTANTS
  e1 = e1
  e2 = e2
  w1 = w1
  w2 = w2
  w3 = w3
  ralt = ralt
  menu = menu
  Engines <- MCEngines
  NoWidget = NoWidget
  Widgets <- MCWidgets
  scengine <- MCServing
  Level3Keys <- MCKeys
  keysyms <- MCSwitch
  LevelBits <- MCMod1
  Strokes <- MCStrokes
  KeyEvents <- MCKeyEvents
  LegacyUnicode <- MCLegacyUnicode
  MaxCalls = 3
INVARIANTS
  SessionTypeOK
  AltGrOnlyWhileHeld
  ReadAsTyped
PROPERTIES
  EveryWidgetKeepsThePromise
  NothingStaysBehind
