SPECIFICATION Spec
CONSTANTS
  b1 = b1
  b2 = b2
  p1 = p1
  p2 = p2
  p3 = p3
  p4 = p4
  p5 = p5
  p6 = p6
  Null = Null
  Heap = Heap
  Mapped = Mapped
  Buffer <- OneBuffer
  IoBuffer <- NoIo
  Page <- Pages5
  PageSize = 3
  WriteReferenceThreshold = 4
  ReuseFragment = TRUE
  Stamps = 3
  WriteLengths <- ShortAndLong
  EnsureLengths <- Heads
  ReadLengths = {1, 2, 5}
  FeedLengths <- NoLengths
  MaxBytes = 14
  MaxChunks = 5
SYMMETRY PageSymmetry
VIEW State
INVARIANTS
  TypeOK
  EmptyTopMeansEmpty
  PagesOwnedOnce
