CONSTANTS
  Names <- MCNames
  Vals <- MCVals
  Preds <- MCPreds
  Arity <- MCArity
  Blocks <- MCBlocks
  MaxDepth = 8
  Programs <- SessionPrograms
  Modes = {"interactive", "sender", "scope"}
SPECIFICATION AnswersSpec
INVARIANT GivesBack
PROPERTIES ImplementsSession
