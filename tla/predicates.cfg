\* The array predicates, the bags and map.
SPECIFICATION MCSpec
CONSTANTS
  Values <- MCValues
  Calls <- MCCalls
  NoVar = NoVar
  MaxLen = 3
  Found = {"v", "w"}
  Variables = {"b", "c"}
  Setups <- MCSetups
  Junk = {0, 7}
  AnySize <- MCAnySize
  MaxValues = 3
INVARIANTS PredicatesSound ArraySolutions BagsAreCollected
PROPERTIES PredicatesEnd
CHECK_DEADLOCK FALSE
