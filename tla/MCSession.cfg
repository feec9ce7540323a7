SPECIFICATION SessionSpec
CONSTANTS
  Prompts <- SessionPrompts
  Ids = {1, 2}
  Refusable <- MCRefusable
  MaxPrompts = 2
  Stems <- TwoNames
INVARIANTS
  ExecutableInOrder
  StaleExplained

  
