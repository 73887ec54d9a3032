SPECIFICATION Spec
CONSTANTS
  Programs <- Redefining
  Looping <- NoPrograms
  QqExpand <- Expand
  Files <- LoadedFiles
  MaxScopes = 60
  StackBound = 60
INVARIANTS
  RedefinitionsAreLexical
