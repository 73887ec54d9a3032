SPECIFICATION Spec
CONSTANTS
  Texts <- MCTexts
  Identifiers <- MCIdentifiers
  GensymNames <- MCGensymNames
  SameLength <- MCSameLength
  Hash <- MCHash
  nbuckets = 2
  MaxObject = 8
  NoAnswer = NoAnswer
INVARIANTS TypeOK UniqueNames Findable GensymsDistinct
PROPERTIES NamesNeverChange ImplementsInterner
