\* Generic types of calls, and their clarification.
SPECIFICATION GenericsSpec
CONSTANTS
  Letters = {"A", "B", "C", "R", "T"}
  TypeNames <- MCTypes
  Declared <- MCDeclared
  Names <- MCNames
  Scopes <- MCScopes
  Goals <- MCGoals
  Default <- MCDefault
  NoIns = NoIns
  NoArg = NoArg
  MaxGoals = 2
  MaxQueries = 2
INVARIANTS GenericsSound CallsAreTyped
PROPERTIES TypesAreKept
CHECK_DEADLOCK FALSE
