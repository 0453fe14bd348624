SPECIFICATION ClientsSpec
CONSTANTS
  t = t
  u = u
  a = a
  b = b
  Bounds <- ClientBounds
  Trees = {t, u}
  Keys = {1, 2, 3}
  Vals = {a, b}
  Nodes = {1, 2, 3, 4, 5, 6, 7, 8}
  key_cmp <- Ascending
  KeepsWords = FALSE
  NoTree = NoTree
  None = None
  head = head
  tail = tail
  Unallocated = Unallocated
INVARIANTS TypeOK IteratesInOrder FindsByKey TreesApart ParentStable GrowsRedBlack GrowsOneRedRed
PROPERTIES IsOrderedBag QueuesTakeFirst CallsReturn
