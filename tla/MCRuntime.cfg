SPECIFICATION Spec
CONSTANTS
  WordBytes = 4
  HeapBase = 1
  HeapWords = 9
  Immediates <- MCImmediates
  CodeWords <- MCCodeWords
  VectorLengths <- MCVectorLengths
  Indices <- MCIndices
  StringTexts <- MCStringTexts
INVARIANTS TypeOK NoOverlap TypesDecode NoDangling StringsTerminated
PROPERTIES ImplementsObjectStore
CHECK_DEADLOCK FALSE
