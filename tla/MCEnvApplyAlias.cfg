SPECIFICATION Spec
CONSTANTS
  x = x
  y = y
  u = u
  v = v
  nil = nil
  NoRest = NoRest
  Vars <- MCVars
  Vals <- MCVals
  Formals <- MCFormals
  MaxArgs = 2
  MaxData = 2
  MaxPair = 12
  UsesApply = TRUE
  UsesSetCdr = FALSE
PROPERTIES CallsLeaveDataAlone
CHECK_DEADLOCK FALSE
