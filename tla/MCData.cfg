SPECIFICATION Spec
CONSTANTS
  Situations <- AllSituations
  MaxDepth = 8
  Bits = 10
INVARIANTS
  TypeOK
  ListsMean
  CopiesMean
  OnlyNamedChanges
  EqualMeans
  ChainsMean
  ArithmeticMeans
  NumeralsMean
PROPERTIES
  Returns
