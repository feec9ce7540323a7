SPECIFICATION Spec
CONSTANTS
  Unbound = Unbound
  Var <- MCVar
  Value <- MCValue
  Pattern <- MCPattern
  Height <- MCHeight
  Readings <- MCReadings
  Patterns <- MCPatterns
  Values <- MCValues
  MaxCalls = 2
INVARIANTS
  FirstValueKept
  AcceptedIsReading
  ReadingsSucceed
  EqualityIsIdentity
  
  AgreesWithExMatch
