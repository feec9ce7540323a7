SPECIFICATION Spec
CONSTANTS
  Addr = {a1, a2}
  Vector = {v1}
  MaxDepth = 1
INVARIANT
  FetchedIsLive
