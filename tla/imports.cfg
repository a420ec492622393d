\* A module imported twice (expected to be refused the second time).
SPECIFICATION MCSpec
CONSTANTS
  Files <- MCFiles
  Packages <- MCPackages
  InitFile <- MCInitFile
  DirOf <- MCDirOf
  Listing <- MCListing
  Lib = "lib"
  Disks <- MCDisks
  Started = {"main"}
  MaxIncluded = 6
  NoFile = NoFile
  NoDoc = NoDoc
  NoPath = NoPath
  MaxLines <- MCMaxLines
  BlankEnds <- MCBlankEnds
  Bodies <- MCOrderBodies
  Arity <- MCArity
  ArgName <- MCArgName
  RespName = "$R"
  Literal = "lit"
INVARIANT SharedModulesLoad
CHECK_DEADLOCK FALSE
