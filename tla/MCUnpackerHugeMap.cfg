SPECIFICATION Spec
CONSTANTS
  Alphabet = {1}
  Pieces <- HugeMap
  MaxPending = 11
  StackCapacity = 2
  SymbolizeKeys = FALSE
  Methods = {"read"}
VIEW State
PROPERTIES
  ReadsItems
