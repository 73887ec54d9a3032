SPECIFICATION Spec
CONSTANTS
  Scripts <- Comments
  Files <- LoadedFiles
  Texts <- CommentTexts
  MaxDepth = 12
INVARIANTS
  CommentedFormsDiscarded
