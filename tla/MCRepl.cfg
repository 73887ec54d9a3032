SPECIFICATION Spec
CONSTANTS
  Scripts <- AllScripts
  Files <- LoadedFiles
  Texts <- AllTexts
  MaxDepth = 12
INVARIANTS
  TypeOK
  Answers
  EmacsInStep
PROPERTIES
  Ends
