SPECIFICATION Spec
CONSTANTS
  Vars = {"x", "y", "z", "r"}
  NoInt = NoInt
  Requests <- Asked
  MaxAsked = 4
  MaxWords = 7
  Buffer = 9
  Bits = 4
  Threshold = 4
  Base = 3
  Mantissa = 8
INVARIANTS NumbersSound WrittenAndRead ScratchIsEnough
PROPERTIES AnswersAreRight
CHECK_DEADLOCK FALSE
