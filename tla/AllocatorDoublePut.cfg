SPECIFICATION PutTwiceSpec
CONSTANTS
  Powers = {1, 2, 4, 8, 16}
  MaxSlots = 8
  Items <- MCItems
  Unset = Unset
  BlockSize = 8
  Nums = {1, 2}
  Bases <- MCBases
  MaxNum = 2
  NoBlock = NoBlock
PROPERTIES
  DoublePutReported
CHECK_DEADLOCK FALSE
