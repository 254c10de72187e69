SPECIFICATION Spec
CONSTANTS
  Items = {i1, i2, i3, i4}
  Elements <- MCElements
  NULL = NULL
  IntMax = 300
  NestingLimit = 3
  MaxGrants = 4
  MaxSize = 4
  MaxHeld = 2
  Leaves <- MCLeaves
  Names <- MCNames
  Texts <- MCTexts
  Samples <- MCSamples
  Faults <- MCFaults
SYMMETRY MCSymmetry
CHECK_DEADLOCK FALSE
INVARIANTS HeapSound ValuesAgree BuffersSuffice TextsMean
PROPERTY ImplementsForest
