SPECIFICATION Spec
CONSTANTS
  b1 = b1
  b2 = b2
  p1 = p1
  p2 = p2
  p3 = p3
  p4 = p4
  p5 = p5
  p6 = p6
  Null = Null
  Heap = Heap
  Mapped = Mapped
  Buffer <- TwoBuffers
  IoBuffer <- OneBuffer
  Page <- Pages4
  PageSize = 2
  WriteReferenceThreshold = 2
  ReuseFragment = FALSE
  Stamps = 3
  WriteLengths = {1, 2, 3}
  EnsureLengths <- ShortHeads
  ReadLengths = {1, 3}
  FeedLengths = {1, 3}
  MaxBytes = 5
  MaxChunks = 3
SYMMETRY PageSymmetry
VIEW State
INVARIANTS
  UnreadInLivePages
  RoomExclusive
PROPERTIES
  Fifo
