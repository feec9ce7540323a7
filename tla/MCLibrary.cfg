SPECIFICATION Spec
CONSTANTS
  Literals <- MCLiterals
  Numbers <- MCNumbers
  Patterns <- MCPatterns
  Texts <- MCTexts
  MaxCalls = 2
  Unbound = Unbound
INVARIANTS
  ListsTakenApart
  TruthIsTheAtom
  InspectTellsScalars
  FailuresExplained
