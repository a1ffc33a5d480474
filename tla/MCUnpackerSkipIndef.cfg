SPECIFICATION FairSpec
CONSTANTS
  Alphabet = {1, 159, 255}
  Pieces <- OneByOne
  MaxPending = 3
  StackCapacity = 2
  SymbolizeKeys = FALSE
  Methods = {"skip"}
PROPERTIES
  CallsReturn
