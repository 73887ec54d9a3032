SPECIFICATION Spec
CONSTANTS
  x = x
  y = y
  u = u
  v = v
  nil = nil
  NoRest = NoRest
  Vars <- MCVars
  Vals <- MCVals
  Formals <- MCFormals
  MaxArgs = 2
  MaxData = 2
  MaxPair = 11
  UsesApply = TRUE
  UsesSetCdr = TRUE
INVARIANTS WalksEnd TextIntact
SYMMETRY ValSymmetry
CHECK_DEADLOCK FALSE
