SPECIFICATION BSearchSpec
CONSTANTS
  Values = {0, 1, 2}
  MaxLen = 2
INVARIANT InsertPosIsPlace
