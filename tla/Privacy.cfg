SPECIFICATION Spec
CONSTANTS
  Modules <- JustA
  Callable <- CallsLocal
  Library <- MCLibrary
  MaxModules = 2
  MaxCalls = 2
INVARIANT
  PrivateCallsArrive
