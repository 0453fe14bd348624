SPECIFICATION GrowSpec
CONSTANTS
  t = t
  a = a
  Trees = {t}
  Keys = {1, 2}
  Vals = {a}
  Nodes = {1, 2, 3, 4}
  key_cmp <- Descending
  KeepsWords = FALSE
  NoTree = NoTree
  None = None
  head = head
  tail = tail
  Unallocated = Unallocated
INVARIANT FindsByKey
