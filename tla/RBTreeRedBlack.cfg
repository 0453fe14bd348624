SPECIFICATION PrioritySpec
CONSTANTS
  t = t
  a = a
  Trees = {t}
  Keys = {1, 2}
  Vals = {a}
  Nodes = {1, 2, 3, 4, 5, 6}
  key_cmp <- Ascending
  KeepsWords = FALSE
  NoTree = NoTree
  None = None
  head = head
  tail = tail
  Unallocated = Unallocated
INVARIANT RedBlack
