SPECIFICATION Spec
CONSTANTS
  x = x
  y = y
  u = u
  v = v
  nil = nil
  NoRest = NoRest
  Vars <- MCVars
  Vals <- MCVals
  Formals <- MCFormals
  MaxArgs = 2
  MaxData = 1
  MaxPair = 12
  UsesApply = FALSE
  UsesSetCdr = TRUE
INVARIANTS TypeOK FramesAligned
PROPERTIES ImplementsScopes OperationsMeanScopes
SYMMETRY ValSymmetry
CHECK_DEADLOCK FALSE
