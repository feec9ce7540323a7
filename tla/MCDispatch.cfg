SPECIFICATION FairSpec
CONSTANTS
  Unbound = Unbound
  NoCall = NoCall
  Var <- MCVar
  Value <- MCValue
  Fun <- MCFun
  Case <- MCCase
  Clause <- MCClause
  ClausesOf <- MCClausesOf
  Outcome <- MCOutcome
  Writes <- MCWrites
  Guard <- MCGuard
  MaxCalls = 2
INVARIANTS
  TypeOK
  ScopeDepth
  FirstMatch
  HeadBindingsKept
PROPERTIES
  CallerIsolated
  DispatchEnds
  ImplementsLexicalCalls
