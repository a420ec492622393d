\* Consulting of sources, reading of lines, ordering of bodies.
SPECIFICATION MCSpec
CONSTANTS
  Files <- MCFiles
  Packages <- MCPackages
  InitFile <- MCInitFile
  DirOf <- MCDirOf
  Listing <- MCListing
  Lib = "lib"
  Disks <- MCDisks
  Started = {"main", "pkg"}
  MaxIncluded = 6
  NoFile = NoFile
  NoDoc = NoDoc
  NoPath = NoPath
  MaxLines <- MCMaxLines
  BlankEnds <- MCBlankEnds
  Bodies <- MCOrderBodies
  Arity <- MCArity
  ArgName <- MCArgName
  RespName = "$R"
  Literal = "lit"
INVARIANTS ConsultingSound TreesLoad LinesAreRead OrderIsKept
PROPERTIES Ends
CHECK_DEADLOCK FALSE
