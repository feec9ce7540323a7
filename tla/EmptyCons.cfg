SPECIFICATION Spec
CONSTANTS
  Unbound = Unbound
  Var <- MCVar
  Value <- ConsValue
  Pattern <- ConsPattern
  Height <- MCHeight
  Readings = {}
  Patterns <- MCPatterns
  Values <- MCValues
  MaxCalls = 2
INVARIANT
  RefusalsAreMatchErrors
