SPECIFICATION ContainersSpec
CONSTANTS
  Values <- SomeValues
  MaxLen = 4
  SizeBits = 5
  IntBits = 3
  MaxSize = 4
  ElemValues <- SomeElements
  Amounts <- SomeAmounts
  UintBits = 8
  BitmapSizes = {1, 33, 129}
  Positions = {1, 31, 33}
  WordBits = 8
  Cells = {n1, n2, n3, n4, n5}
  Payloads = {v1, v2}
  Null = Null
  NoNode = NoNode
  Base = 2
  MaxLevel = 4
  TrieKeys = {0, 1, 8, 10}
  TrieVals = {v1, v2}
  MaxInserts = 3
  None = None
  rb_head = rb_head
  rb_tail = rb_tail
  MaxNodes = 6
  TreeKeys = {1, 2}
  TreeVals = {v1}
  Labels <- SomeLabels
  End = End
  Pending = Pending
  Powers = {1, 2, 4, 8, 16}
  MaxSlots = 8
  Items <- SomeOffsets
  Unset = Unset
  BlockSize = 8
  Nums = {1, 2, 3}
  Bases <- SomeBases
  MaxNum = 3
  NoBlock = NoBlock
INVARIANTS
  FindsPlace PrefixSums LocatesFirst HasRoom CountsAndFinds RoundsUp BothWays NothingLost
  IteratorHolds PathFits FreesEachNodeOnce IteratesAndFinds BuildsText ComparesPruned
  TypeOK Conservation
PROPERTIES IsBitSet IsQueue IsDict IsBagButTwo RegionStays IsPool CallsReturn
