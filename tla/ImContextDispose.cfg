SPECIFICATION Spec
CONSTANTS
  c1 = c1
  c2 = c2
  Contexts = {c1}
  Purposes = {free_form}
  FREE_FORM = free_form
  Hints = {none, hidden}
  NONE = none
  Selections <- MCSelections
  NoAnswer = NoAnswer
  HasInvalidComposition = TRUE
  Literals <- MCLiterals
  Compositions <- MCCompositions
  Symbols <- MCSymbols
  MaxDepth = 4
PROPERTIES
  SilentAfterDispose
