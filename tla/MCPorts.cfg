SPECIFICATION Spec
CONSTANTS
  Files = {f1, f2, f3, f4, f5}
  MaxOpening = 7
  MaxOpenFiles = 5
  NoOpening = NoOpening
  Programs <- SafePrograms
SYMMETRY FileSymmetry
INVARIANTS TypeOK ReachesOwnStream FilesAccounted
