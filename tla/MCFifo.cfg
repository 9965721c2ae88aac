SPECIFICATION Spec
CONSTANTS
  DEPTH = 3
  Data = {a, b, c}
INVARIANTS TypeOK PointersAgree
PROPERTY ImplementsQueue
