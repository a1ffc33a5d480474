SPECIFICATION Spec
CONSTANTS
  a1 = a1
  h1 = h1
  Object <- Objects
  Values <- ValuesChecked
  Heaps <- HeapsChecked
  Arguments <- Both
  HasIo = TRUE
  Headers <- HeadersChecked
  MaxBytes = 1
  MaxDepth = 4
  MaxSize = 2
INVARIANTS
  TypeOK
  HeadersFit
  Encodes
  ShortestForm
  ReadsBack
