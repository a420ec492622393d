CONSTANTS
  Names <- MCNames
  Vals <- MCVals
  Preds <- MCPreds
  Arity <- MCArity
  Blocks <- MCBlocks
  MaxDepth = 4
  Programs <- ControlPrograms
  Modes = {"interactive"}
SPECIFICATION FairSpec
INVARIANTS TypeOK NoEmptyInstance LinksDistinct DepthBounds
PROPERTIES NoAnswerInside CutsCommit BindingsReturn Terminates
