SPECIFICATION Spec
CONSTANTS
  b1 = b1
  b2 = b2
  p1 = p1
  p2 = p2
  p3 = p3
  p4 = p4
  p5 = p5
  p6 = p6
  Null = Null
  Heap = Heap
  Mapped = Mapped
  Buffer <- OneBuffer
  IoBuffer <- NoIo
  Page <- Pages4
  PageSize = 3
  WriteReferenceThreshold = 1
  ReuseFragment = TRUE
  Stamps = 3
  WriteLengths = {1, 2}
  EnsureLengths <- ShortHeads
  ReadLengths = {1, 3}
  FeedLengths <- NoLengths
  MaxBytes = 8
  MaxChunks = 5
SYMMETRY PageSymmetry
VIEW State
PROPERTIES
  Fifo
