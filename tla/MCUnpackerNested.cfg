SPECIFICATION Spec
CONSTANTS
  Alphabet = {1, 35, 65, 95, 97, 159, 191, 193, 194, 216, 255}
  Pieces <- OneByOne
  MaxPending = 5
  StackCapacity = 2
  SymbolizeKeys = FALSE
  Methods = {"read", "each", "decode"}
VIEW State
PROPERTIES
  ReadsItems
  DeliversItems
