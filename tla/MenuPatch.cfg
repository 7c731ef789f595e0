\* Two patches of one item, each of some columns.
SPECIFICATION Spec
CONSTANTS
  CategoryIds = {c1}
  CategoryNames = {n1}
  SortOrders = {s1}
  ItemIds = {i1}
  Prices = {1, 2}
  Editors = {e1, e2}
  Listers = {}
  NoRow = NoRow
  NoTask = NoTask
PROPERTIES PatchKeepsTheRest
