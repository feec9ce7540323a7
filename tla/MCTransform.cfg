SPECIFICATION Spec
CONSTANTS
  Prompts <- AllPrompts
  Ids = {1, 2}
  Refusable <- MCRefusable
  MaxPrompts = 3
INVARIANTS
  TypeOK
  TablesAccounted
  IdleClean
  
  SurvivalExplained
  Links
  ManagersFollowSource
  OneDefinition
PROPERTY
  PoisonedForGood
