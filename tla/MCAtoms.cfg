SPECIFICATION Spec
CONSTANTS
  Name = {"ok", "error", "true", "false", "normal"}
  StatusRange = 3
INVARIANTS
  TypeOK
  Bijection
  EqualIffSameName
PROPERTY
  NumbersStay
