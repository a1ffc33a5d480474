SPECIFICATION Spec
CONSTANTS
  Alphabet = {1, 97, 161}
  Pieces <- OneByOne
  MaxPending = 4
  StackCapacity = 2
  SymbolizeKeys = TRUE
  Methods = {"read"}
VIEW State
PROPERTIES
  ReadsItems
