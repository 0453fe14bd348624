SPECIFICATION TextSpec
CONSTANTS
  Labels <- MCLabels
  tail = tail
  Null = Null
  End = End
INVARIANT TakesOnlyTrees
