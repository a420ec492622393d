SPECIFICATION Spec
CONSTANTS
  Vars = {"x", "y", "z"}
  Chars = {"a", "b", "c", "d"}
  Programs <- Kinds
  Literals <- Written
  MaxAsked = 3
INVARIANTS ImagesSound GeneratesEach
PROPERTIES ImagesNarrow OthersStay
CHECK_DEADLOCK FALSE
