\* Two writes and a GET /api/menu interleave, on two categories that come,
\* go, swap names and own one item in turn.
SPECIFICATION Spec
CONSTANTS
  CategoryIds = {c1, c2}
  CategoryNames = {n1, n2}
  SortOrders = {s1}
  ItemIds = {i1}
  Prices = {1}
  Editors = {e1, e2}
  Listers = {l1}
  NoRow = NoRow
  NoTask = NoTask
SYMMETRY MenuSymmetry
INVARIANTS ForeignKeys ListingFaithful MenuInv
PROPERTIES DeletedStaysDeleted
