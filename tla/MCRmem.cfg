SPECIFICATION Spec
CONSTANTS
  b1 = b1
  b2 = b2
  b3 = b3
  b4 = b4
  Block <- MCBlock
  PagesPerChunk = 3
  FirstCapacity = 1
SYMMETRY MCSymmetry
INVARIANTS
  TypeOK
  BlocksDistinct
  HeldExact
  SpareOnlyFirst
PROPERTIES
  GrowsOnlyWhenExhausted
  PagePoolSpec
