SPECIFICATION Spec
CONSTANTS
  Programs <- SessionsAndLoops
  Looping <- Loops
  QqExpand <- Expand
  Files <- LoadedFiles
  MaxScopes = 60
  StackBound = 6
INVARIANTS
  TypeOK
  Agreement
  OneAnswerEach
  StackFlat
PROPERTIES
  Terminates
