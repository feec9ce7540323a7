SPECIFICATION Spec
CONSTANTS
  Addr = {a1, a2, a3}
  Vector = {v1}
  MaxDepth = 2
SYMMETRY Symmetric
INVARIANTS
  HeldIsLive
PROPERTY
  LostThroughMalloc
