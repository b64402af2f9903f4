SPECIFICATION MCSpec
CONSTANTS
  Term = {1, 2, 3}
  Memory = {1, 2, 3}
  Chapter = {1, 2, 3}
  Agent = {a, b}
  a = a
  b = b
  MaxNames = 2
  KeepFirst = 1
  KeepRolling = 1
  RecentLength = 2
  MaxAliasTerms = 2
  MaxAliasEdges = 1
  Mark = {"alias.spelling", "age_stage", "cultivation_level", "kinship"}
  Lasting = {"local", "persist"}
INVARIANTS Succession AliasesExact
PROPERTIES ReviewedKept RetentionKept
CHECK_DEADLOCK FALSE
