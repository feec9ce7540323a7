SPECIFICATION Spec
CONSTANTS
  Prompts <- CaseThenModule
  Ids = {1, 2}
  Refusable = {}
  MaxPrompts = 2
INVARIANTS
  SessionGoesOn
