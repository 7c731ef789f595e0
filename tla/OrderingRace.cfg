\* Two orders and a listing interleave, on one item whose row changes, goes
\* and comes back between any two statements.
SPECIFICATION Spec
CONSTANTS
  Users = {u1, u2}
  ItemIds = {i1}
  OrderIds = {o1, o2}
  Prices = {1, 2}
  Quantities = {1}
  MaxLines = 2
  MaxTotal = 3
  NoRow = NoRow
  NoReq = NoReq
  Requests = {r1, r2}
  Readers = {q1}
SYMMETRY SlotSymmetry
INVARIANTS ReceiptsHold BooksBalance ListingsAgree BookInv
PROPERTIES ImplementsOrderBook
