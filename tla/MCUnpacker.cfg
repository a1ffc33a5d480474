SPECIFICATION Spec
CONSTANTS
  Alphabet = {1, 24, 28, 66, 130, 161, 193}
  Pieces <- OneByOne
  MaxPending = 5
  StackCapacity = 2
  SymbolizeKeys = FALSE
  Methods = {"read", "skip", "each", "feed_each", "decode", "skip_nil", "read_array_header", "read_map_header"}
VIEW State
INVARIANTS
  TypeOK
  CountsOwed
  NoResidue
PROPERTIES
  ReadsItems
  DeliversItems
