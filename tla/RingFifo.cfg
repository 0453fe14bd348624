SPECIFICATION FifoClientSpec
CONSTANTS
  Powers = {1, 2, 4, 8, 16}
  MaxSlots = 8
  Items = {a, b}
  Sizes = {0, 1, 3, 7}
  Unset = Unset
  NoItem = NoItem
INVARIANTS
  TypeOK
  IndicesInBounds
  CountsAgree
  NoUnsetItem
PROPERTY
  IsFifo
