SPECIFICATION Spec
CONSTANTS
  c1 = c1
  c2 = c2
  Contexts <- MCContexts
  Purposes = {free_form, email}
  FREE_FORM = free_form
  Hints = {none}
  NONE = none
  Selections <- MCSelections
  NoAnswer = NoAnswer
  HasInvalidComposition = FALSE
  Literals <- MCLiterals
  Compositions <- MCCompositions
  Symbols <- MCSymbols
  MaxDepth = 3
INVARIANTS
  TypeOK
  NoPreeditSignal
  DelegateFollows
PROPERTIES
  AnswersAreTheClients
  EveryContextKeepsThePromise
