SPECIFICATION FairSpec
CONSTANTS
  Alphabet = {1, 97, 159, 191, 255}
  Pieces <- OneByOne
  MaxPending = 4
  StackCapacity = 2
  SymbolizeKeys = FALSE
  Methods = {"read", "each", "decode"}
PROPERTIES
  CallsReturn
