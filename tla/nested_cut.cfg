CONSTANTS
  Names <- MCNames
  Vals <- MCVals
  Preds <- MCPreds
  Arity <- MCArity
  Blocks <- MCBlocks
  MaxDepth = 8
  Programs <- NestedCutPrograms
  Modes = {"interactive"}
SPECIFICATION FairSpec
PROPERTIES CutCommits
