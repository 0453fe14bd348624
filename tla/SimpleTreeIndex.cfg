SPECIFICATION Spec
CONSTANTS
  MaxNodes = 3
  head = head
  tail = tail
  Unallocated = Unallocated
  Keys = {1, 2}
  Vals = {v1}
  key_cmp <- Ascending
  None = None
  Pending = Pending
PROPERTY DeletesByIndex
