SPECIFICATION Spec
CONSTANTS
  Modules <- MCModules
  Callable <- MCCallable
  Library <- MCLibrary
  MaxModules = 3
  MaxCalls = 1
INVARIANTS
  PublicCallsArrive
  WrongTargetExplained
  MacrosExpanded
  RefusalExplained
