SPECIFICATION Spec
CONSTANTS
  a1 = a1
  h1 = h1
  Object <- Objects
  Values <- ValuesChecked
  Heaps <- HeapsChecked
  Arguments <- ArgumentsChecked
  HasIo = TRUE
  Headers <- HeadersChecked
  MaxBytes = 2
  MaxDepth = 4
  MaxSize = 1
  MaxPending = 40
  StackCapacity = 4
  SymbolizeKeys = FALSE
INVARIANTS
  InOrder Unharmed
PROPERTIES
  Arrives
