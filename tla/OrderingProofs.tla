--------------------------- MODULE OrderingProofs ---------------------------
(***************************************************************************)
(* For every menu, set of request slots, order ids and bounds: an order a  *)
(* client was told is created stays stored exactly as answered (OrderInv); *)
(* stored orders are worth their lines, and listings show whole orders     *)
(* (BookInv); and the transaction implements the one step of OrderBook.    *)
(* Both invariants are inductive: one lemma per operation, and under it    *)
(* one step per conjunct the operation can disturb.                        *)
(***************************************************************************)
EXTENDS OrderRefinement, SequenceTheorems, FiniteSetTheorems, TLAPS

-----------------------------------------------------------------------------
(* The values orders are made of.                                          *)

\* A request carries a sequence of 1 to MaxLines lines.
LEMMA LinesAreSequences ==
  ASSUME NEW ls \in RequestLines
  PROVE  /\ ls \in Seq(RequestLine)
         /\ Len(ls) \in 1..MaxLines
         /\ \A k \in 1..Len(ls) : ls[k] \in RequestLine
  BY BoundAssumption DEF RequestLines

LEMMA AmountType ==
  ASSUME NEW line \in OrderLine
  PROVE  Amount(line) \in Int
<1>1. line.price \in Prices /\ line.quantity \in Quantities
  BY DEF OrderLine
<1>2. line.price \in Int
  BY <1>1, PriceAssumption, Zenon
<1>3. line.quantity \in Nat \ {0}
  BY <1>1, QuantityAssumption, Zenon
<1> QED
  BY <1>2, <1>3 DEF Amount

\* Pricing an orderable line gives an order line with an integer amount.
LEMMA PricedLineType ==
  ASSUME NEW menu \in Menu, NEW line \in RequestLine, Orderable(menu, line)
  PROVE  /\ PricedLine(menu, line) \in OrderLine
         /\ Amount(PricedLine(menu, line)) \in Int
<1>1. line.item \in ItemIds /\ line.quantity \in Quantities
  BY DEF RequestLine
<1>2. menu[line.item] \in MenuRow
  BY <1>1 DEF Menu, Orderable
<1>3. menu[line.item].price \in Prices
  BY <1>2 DEF MenuRow
<1>4. PricedLine(menu, line) \in OrderLine
  BY <1>1, <1>3 DEF PricedLine, OrderLine
<1>5. Amount(PricedLine(menu, line)) \in Int
  BY <1>4, AmountType
<1> QED
  BY <1>4, <1>5

\* The rows of at most MaxLines lines are order_items rows of that order.
LEMMA LineRowsType ==
  ASSUME NEW id \in OrderIds, NEW lines \in Seq(OrderLine),
         Len(lines) <= MaxLines
  PROVE  /\ LineRows(id, lines) \subseteq LineRow
         /\ \A row \in LineRows(id, lines) : row.order = id
  BY BoundAssumption DEF LineRows, LineRow

-----------------------------------------------------------------------------
(* What sets of rows are worth.  SumOf is a fold that takes the rows one by *)
(* one; the facts below say that it is a sum.  They are proved by looking  *)
(* at a least set of rows without the property.                            *)

AnyOf(rows) == CHOOSE row \in rows : TRUE

\* The equation by which the fold defines its table of partial sums.
Tabulates(sum, S) ==
    sum = [rows \in SUBSET S |->
              IF rows = {} THEN 0
              ELSE Amount(AnyOf(rows).line) + sum[rows \ {AnyOf(rows)}]]

\* The same equation, of SumOf itself.
Unfolds(rows) ==
    SumOf(rows) = IF rows = {} THEN 0
                  ELSE Amount(AnyOf(rows).line) + SumOf(rows \ {AnyOf(rows)})

HasAmounts(rows) == \A row \in rows : Amount(row.line) \in Int

LEMMA AnyOfIsIn ==
  ASSUME NEW rows, rows # {}
  PROVE  AnyOf(rows) \in rows
  BY DEF AnyOf

\* Among subsets of a finite set there is one that contains no other.
LEMMA LeastSubset ==
  ASSUME NEW S, IsFiniteSet(S), NEW T, T \subseteq SUBSET S, T # {}
  PROVE  \E s \in T : \A t \in T : t \subseteq s => t = s
<1> DEFINE Smaller == StrictSubsetOrdering(S)
<1>1. IsWellFoundedOn(Smaller, SUBSET S)
  BY FS_StrictSubsetOrderingWellFounded, FS_FiniteSubsetsOfFinite
<1>2. \E s \in T : \A t \in T : <<t, s>> \notin Smaller
  <2> HIDE DEF Smaller
  <2> QED
    BY <1>1, WFMin
<1> QED
  BY <1>2 DEF StrictSubsetOrdering

LEMMA SumOfIsFold ==
  ASSUME NEW S
  PROVE  SumOf(S) = (CHOOSE sum : Tabulates(sum, S))[S]
  BY DEF SumOf, Tabulates, AnyOf, MapThenSumSet, MapThenFoldSet

\* There is at most one table.
LEMMA OneTable ==
  ASSUME NEW S, IsFiniteSet(S),
         NEW f, Tabulates(f, S), NEW g, Tabulates(g, S)
  PROVE  f = g
<1> DEFINE D == {s \in SUBSET S : f[s] # g[s]}
<1> SUFFICES ASSUME D # {} PROVE FALSE
  BY DEF Tabulates
<1>1. PICK s \in D : \A t \in D : t \subseteq s => t = s
  <2>1. D \subseteq SUBSET S
    OBVIOUS
  <2> HIDE DEF D
  <2> QED
    BY <2>1, LeastSubset
<1>2. s # {} /\ AnyOf(s) \in s
  BY AnyOfIsIn DEF Tabulates
<1>3. f[s \ {AnyOf(s)}] = g[s \ {AnyOf(s)}]
  BY <1>1, <1>2
<1> QED
  BY <1>2, <1>3 DEF Tabulates

LEMMA SumOfNone == SumOf({}) = 0
<1> DEFINE zero == [rows \in SUBSET {} |-> 0]
           sums == CHOOSE sum : Tabulates(sum, {})
<1>1. Tabulates(zero, {})
  BY DEF Tabulates
<1>2. Tabulates(sums, {})
  BY <1>1
<1>3. sums[{}] = 0
  <2> HIDE DEF sums
  <2> QED
    BY <1>2 DEF Tabulates
<1> QED
  BY <1>3, SumOfIsFold

\* The fold over a finite set obeys its equation.
LEMMA SumOfUnfolds ==
  ASSUME NEW S, IsFiniteSet(S)
  PROVE  Unfolds(S)
<1> DEFINE D == {s \in SUBSET S : ~Unfolds(s)}
<1> SUFFICES ASSUME D # {} PROVE FALSE
  OBVIOUS
<1>1. PICK s \in D : \A t \in D : t \subseteq s => t = s
  <2>1. D \subseteq SUBSET S
    OBVIOUS
  <2> HIDE DEF D
  <2> QED
    BY <2>1, LeastSubset
<1>2. /\ IsFiniteSet(s) /\ ~Unfolds(s)
      /\ \A t \in SUBSET s : t # s => Unfolds(t)
  BY <1>1, FS_Subset
<1>3. s # {}
  BY <1>2, SumOfNone DEF Unfolds
<1> DEFINE here == Amount(AnyOf(s).line) + SumOf(s \ {AnyOf(s)})
           table == [t \in SUBSET s |-> IF t = s THEN here ELSE SumOf(t)]
           sums == CHOOSE sum : Tabulates(sum, s)
<1>4. Tabulates(table, s)
  <2> SUFFICES ASSUME NEW t \in SUBSET s
               PROVE  table[t] = IF t = {} THEN 0
                                 ELSE Amount(AnyOf(t).line)
                                        + table[t \ {AnyOf(t)}]
    BY DEF Tabulates
  <2>1. CASE t = {}
    BY <1>3, <2>1, SumOfNone
  <2>2. CASE t # {}
    <3>1. t \ {AnyOf(t)} \in SUBSET s /\ t \ {AnyOf(t)} # s
      BY <2>2, AnyOfIsIn
    <3>2. table[t \ {AnyOf(t)}] = SumOf(t \ {AnyOf(t)})
      BY <3>1
    <3>3. table[t] = Amount(AnyOf(t).line) + SumOf(t \ {AnyOf(t)})
      BY <1>2, <2>2 DEF Unfolds
    <3> QED
      BY <2>2, <3>2, <3>3
  <2> QED
    BY <2>1, <2>2
<1>5. table[s] = here
  OBVIOUS
<1> HIDE DEF table, here
<1>6. Tabulates(sums, s)
  BY <1>4
<1>7. sums = table
  <2> HIDE DEF sums
  <2> QED
    BY <1>2, <1>4, <1>6, OneTable
<1>8. SumOf(s) = here
  BY <1>5, <1>7, SumOfIsFold
<1> QED
  BY <1>2, <1>3, <1>8 DEF Unfolds, here

\* A sum of integers is an integer.
LEMMA SumOfType ==
  ASSUME NEW S, IsFiniteSet(S), HasAmounts(S)
  PROVE  SumOf(S) \in Int
<1> DEFINE D == {s \in SUBSET S : SumOf(s) \notin Int}
<1> SUFFICES ASSUME D # {} PROVE FALSE
  OBVIOUS
<1>1. PICK s \in D : \A t \in D : t \subseteq s => t = s
  <2>1. D \subseteq SUBSET S
    OBVIOUS
  <2> HIDE DEF D
  <2> QED
    BY <2>1, LeastSubset
<1>2. Unfolds(s)
  BY FS_Subset, SumOfUnfolds
<1>3. s # {} /\ AnyOf(s) \in s
  BY <1>2, AnyOfIsIn DEF Unfolds
<1>4. SumOf(s \ {AnyOf(s)}) \in Int /\ Amount(AnyOf(s).line) \in Int
  BY <1>1, <1>3 DEF HasAmounts
<1> QED
  BY <1>2, <1>3, <1>4 DEF Unfolds

LEMMA SwapTerms ==
  ASSUME NEW a \in Int, NEW b \in Int, NEW c \in Int
  PROVE  a + (b + c) = b + (a + c) /\ a + b = b + a
  OBVIOUS

\* Any row may be taken out first.
LEMMA SumOfTakeOut ==
  ASSUME NEW S, IsFiniteSet(S), HasAmounts(S), NEW x \in S
  PROVE  SumOf(S) = Amount(x.line) + SumOf(S \ {x})
<1> DEFINE D == {s \in SUBSET S :
                   \E z \in s : SumOf(s) # Amount(z.line) + SumOf(s \ {z})}
<1> SUFFICES ASSUME D # {} PROVE FALSE
  OBVIOUS
<1>1. PICK s \in D : \A t \in D : t \subseteq s => t = s
  <2>1. D \subseteq SUBSET S
    OBVIOUS
  <2> HIDE DEF D
  <2> QED
    BY <2>1, LeastSubset
<1>2. PICK z \in s : SumOf(s) # Amount(z.line) + SumOf(s \ {z})
  OBVIOUS
<1> DEFINE y == AnyOf(s)
<1>3. y \in s
  BY <1>2, AnyOfIsIn
<1>4. SumOf(s) = Amount(y.line) + SumOf(s \ {y})
  <2>1. Unfolds(s)
    BY FS_Subset, SumOfUnfolds
  <2> QED
    BY <1>2, <2>1 DEF Unfolds
<1> HIDE DEF y
<1>5. y # z
  BY <1>2, <1>4
<1>6. /\ SumOf(s \ {y}) = Amount(z.line) + SumOf((s \ {y}) \ {z})
      /\ SumOf(s \ {z}) = Amount(y.line) + SumOf((s \ {z}) \ {y})
  <2>1. s \ {y} \notin D /\ s \ {z} \notin D
    <3> HIDE DEF D
    <3> QED
      BY <1>1, <1>2, <1>3
  <2>2. /\ s \ {y} \in SUBSET S /\ s \ {z} \in SUBSET S
        /\ z \in s \ {y} /\ y \in s \ {z}
    BY <1>2, <1>3, <1>5
  <2> QED
    BY <2>1, <2>2
<1>7. (s \ {y}) \ {z} = (s \ {z}) \ {y}
  OBVIOUS
<1>8. /\ SumOf((s \ {y}) \ {z}) \in Int
      /\ Amount(y.line) \in Int /\ Amount(z.line) \in Int
  <2>1. (s \ {y}) \ {z} \in SUBSET S
    OBVIOUS
  <2> QED
    BY <1>2, <1>3, <2>1, FS_Subset, SumOfType DEF HasAmounts
<1>9. SumOf(s) = Amount(y.line)
                   + (Amount(z.line) + SumOf((s \ {y}) \ {z}))
  BY <1>4, <1>6
<1>10. SumOf(s \ {z}) = Amount(y.line) + SumOf((s \ {y}) \ {z})
  BY <1>6, <1>7
<1>11. SumOf(s) = Amount(z.line) + SumOf(s \ {z})
  BY <1>8, <1>9, <1>10, SwapTerms
<1> QED
  BY <1>2, <1>11

\* One row more adds its amount.
LEMMA SumOfAdd ==
  ASSUME NEW S, IsFiniteSet(S), HasAmounts(S),
         NEW x, x \notin S, Amount(x.line) \in Int
  PROVE  SumOf(S \cup {x}) = SumOf(S) + Amount(x.line)
<1>1. IsFiniteSet(S \cup {x}) /\ HasAmounts(S \cup {x})
  BY FS_AddElement DEF HasAmounts
<1>2. (S \cup {x}) \ {x} = S
  OBVIOUS
<1>3. SumOf(S \cup {x}) = Amount(x.line) + SumOf((S \cup {x}) \ {x})
  BY <1>1, SumOfTakeOut
<1>4. SumOf(S \cup {x}) = Amount(x.line) + SumOf(S)
  BY <1>2, <1>3
<1> QED
  BY <1>4, SumOfType, SwapTerms

\* The lines of an order make a finite set of rows, one for each, and the
\* next line adds its row and its amount.
LEMMA LineRowsFinite ==
  ASSUME NEW id, NEW lines \in Seq(OrderLine)
  PROVE  IsFiniteSet(LineRows(id, lines)) /\ HasAmounts(LineRows(id, lines))
<1> DEFINE row == [k \in 1..Len(lines) |->
                     [order |-> id, n |-> k, line |-> lines[k]]]
<1>1. row \in Surjection(1..Len(lines), LineRows(id, lines))
  BY DEF Surjection, LineRows
<1>2. IsFiniteSet(1..Len(lines))
  BY FS_Interval
<1>3. IsFiniteSet(LineRows(id, lines))
  <2> HIDE DEF row
  <2> QED
    BY <1>1, <1>2, FS_Surjection
<1>4. HasAmounts(LineRows(id, lines))
  BY AmountType DEF HasAmounts, LineRows
<1> QED
  BY <1>3, <1>4

LEMMA SumOfAppend ==
  ASSUME NEW id, NEW lines \in Seq(OrderLine), NEW line \in OrderLine
  PROVE  SumOf(LineRows(id, Append(lines, line)))
           = SumOf(LineRows(id, lines)) + Amount(line)
<1> DEFINE row == [order |-> id, n |-> Len(lines) + 1, line |-> line]
<1>1. row \notin LineRows(id, lines)
  <2>1. \A k \in DOMAIN lines : k # Len(lines) + 1
    OBVIOUS
  <2>2. \A old \in LineRows(id, lines) : old.n # Len(lines) + 1
    BY <2>1 DEF LineRows
  <2> QED
    BY <2>2
<1>2. LineRows(id, Append(lines, line)) = LineRows(id, lines) \cup {row}
  <2>1. /\ Len(Append(lines, line)) = Len(lines) + 1
        /\ \A k \in 1..Len(lines) : Append(lines, line)[k] = lines[k]
        /\ Append(lines, line)[Len(lines) + 1] = line
        /\ DOMAIN Append(lines, line) = 1..Len(lines) \cup {Len(lines) + 1}
        /\ DOMAIN lines = 1..Len(lines)
    OBVIOUS
  <2> QED
    BY <2>1 DEF LineRows
<1>3. row.line = line /\ Amount(line) \in Int
  BY AmountType
<1> HIDE DEF row
<1> QED
  BY <1>1, <1>2, <1>3, LineRowsFinite, SumOfAdd

LEMMA SumOfNoLines ==
  ASSUME NEW id
  PROVE  SumOf(LineRows(id, <<>>)) = 0
<1>1. LineRows(id, <<>>) = {}
  BY DEF LineRows
<1> QED
  BY <1>1, SumOfNone

-----------------------------------------------------------------------------
\* Empty order tables and idle requests satisfy the invariant.
LEMMA InitOrderInv == Init => OrderInv
<1> SUFFICES ASSUME Init PROVE OrderInv
  OBVIOUS
<1>1. EmptyMenu \in Menu
  BY DEF EmptyMenu, Menu
<1>2. TypeOK
  BY <1>1 DEF Init, TypeOK, InTransaction, Answers
<1>3. IdsApart /\ Progress /\ CreatedIsStored /\ ReceiptsHold
  BY DEF Init, IdsApart, Progress, CreatedIsStored, ReceiptsHold, Active,
         InTransaction
<1> QED
  BY <1>2, <1>3 DEF OrderInv

\* A menu editor's statement leaves every order variable alone.
LEMMA MenuStatementInv ==
  ASSUME OrderInv, MenuStatement
  PROVE  OrderInv'
<1>1. items' \in Menu
  BY DEF OrderInv, TypeOK, MenuStatement, Menu
<1>2. UNCHANGED <<orders, orderItems, pc, req, snap, priced, total, sent,
                  acked, rpc, ruser, listing, due>>
  BY DEF MenuStatement, tables, orderVars, readVars
<1>3. TypeOK'
  BY <1>1, <1>2 DEF OrderInv, TypeOK
<1>4. (IdsApart /\ Progress /\ CreatedIsStored /\ ReceiptsHold)'
  BY <1>2 DEF OrderInv, IdsApart, Progress, CreatedIsStored, ReceiptsHold,
              Active, OwnHeader
<1> QED
  BY <1>3, <1>4 DEF OrderInv

\* Nor do the steps of a listing write anything an order depends on.
LEMMA ListingInv ==
  ASSUME OrderInv, NEW q \in Readers,
         ListOrders(q) \/ FillItems(q) \/ EndListing(q)
  PROVE  OrderInv'
<1>1. UNCHANGED <<items, orders, orderItems, pc, req, snap, priced, total,
                  sent, acked>>
  BY DEF ListOrders, FillItems, EndListing, tables, orderVars
<1>2. /\ rpc' \in [Readers -> {"idle", "headers", "listed"}]
      /\ ruser' \in [Readers -> Users]
      /\ listing' \in [Readers -> SUBSET Receipt]
      /\ due' \in [Readers -> SUBSET Receipt]
  <2>1. CASE ListOrders(q)
    <3>1. PICK u \in Users :
             /\ ruser' = [ruser EXCEPT ![q] = u]
             /\ due' = [due EXCEPT ![q] = {a \in acked : a.user = u}]
             /\ listing' = [listing EXCEPT ![q] =
                   {WithRows(o, {}) : o \in {h \in orders : h.user = u}}]
      BY <2>1 DEF ListOrders, OrdersOf
    <3>2. \A o \in orders : WithRows(o, {}) \in Receipt
      BY DEF OrderInv, TypeOK, WithRows, Receipt, Header
    <3>3. rpc' \in [Readers -> {"idle", "headers", "listed"}]
      BY <2>1 DEF ListOrders, OrderInv, TypeOK
    <3>4. ruser' \in [Readers -> Users] /\ due' \in [Readers -> SUBSET Receipt]
      BY <3>1 DEF OrderInv, TypeOK
    <3>5. listing' \in [Readers -> SUBSET Receipt]
      BY <3>1, <3>2 DEF OrderInv, TypeOK
    <3> QED
      BY <3>3, <3>4, <3>5
  <2>2. CASE FillItems(q)
    <3>1. \A o \in listing[q] :
             WithRows(o, RowsOf(orderItems, o.id)) \in Receipt
      BY DEF OrderInv, TypeOK, WithRows, Receipt, RowsOf
    <3> QED
      BY <2>2, <3>1 DEF FillItems, OrderInv, TypeOK
  <2>3. CASE EndListing(q)
    BY <2>3 DEF EndListing, OrderInv, TypeOK
  <2> QED
    BY <2>1, <2>2, <2>3
<1>3. TypeOK'
  BY <1>1, <1>2 DEF OrderInv, TypeOK
<1>4. (IdsApart /\ Progress /\ CreatedIsStored /\ ReceiptsHold)'
  BY <1>1 DEF OrderInv, IdsApart, Progress, CreatedIsStored, ReceiptsHold,
              Active, OwnHeader
<1> QED
  BY <1>3, <1>4 DEF OrderInv

-----------------------------------------------------------------------------
(* The statements of one order request.                                    *)

\* A new request draws an id that no order, no line and no other request has.
LEMMA CreateInv ==
  ASSUME OrderInv, NEW r \in Requests, Create(r)
  PROVE  OrderInv'
<1>1. PICK id \in FreshIds, u \in Users, ls \in RequestLines :
         req' = [req EXCEPT ![r] = [id |-> id, user |-> u, lines |-> ls]]
  BY DEF Create
<1>2. id \in OrderIds /\ req'[r] \in Request /\ req'[r].id = id
      /\ req'[r].lines = ls
  BY <1>1 DEF OrderInv, TypeOK, FreshIds, Request
<1>3. /\ pc' = [pc EXCEPT ![r] = "begun"]
      /\ UNCHANGED <<items, orders, orderItems, snap, priced, total, sent,
                     acked, rpc, ruser, listing, due>>
  BY DEF Create, tables, readVars
<1>4. TypeOK'
  BY <1>1, <1>2, <1>3 DEF OrderInv, TypeOK, InTransaction
<1>5. IdsApart'
  BY <1>1, <1>2, <1>3
     DEF OrderInv, TypeOK, IdsApart, Active, FreshIds, InTransaction
<1>6. Progress'
  <2>1. priced[r] = <<>> /\ sent[r] = 0
    BY DEF OrderInv, Create, Progress
  <2> QED
    BY <1>1, <1>2, <1>3, <2>1, LinesAreSequences
       DEF OrderInv, TypeOK, Progress, Active
<1>7. CreatedIsStored' /\ ReceiptsHold'
  BY <1>1, <1>3
     DEF OrderInv, TypeOK, CreatedIsStored, ReceiptsHold, OwnHeader
<1> QED
  BY <1>4, <1>5, <1>6, <1>7 DEF OrderInv

\* The line to read is one of the request's, and the view a menu.
LEMMA NextLineType ==
  ASSUME OrderInv, NEW r \in Requests, pc[r] \in {"begun", "reading"}
  PROVE  /\ NextLine(r) \in RequestLine
         /\ View(r) \in Menu
         /\ Len(priced[r]) + 1 <= Len(req[r].lines)
         /\ req[r] \in Request
         /\ Len(req[r].lines) \in 1..MaxLines
<1>1. req[r] \in Request /\ Len(priced[r]) < Len(req[r].lines)
  BY DEF OrderInv, Progress, Active
<1>2. req[r].lines \in RequestLines /\ priced[r] \in Seq(OrderLine)
  BY <1>1 DEF Request, OrderInv, TypeOK
<1>3. Len(priced[r]) + 1 \in 1..Len(req[r].lines)
  BY <1>1, <1>2, LinesAreSequences
<1>4. NextLine(r) \in RequestLine
  BY <1>2, <1>3, LinesAreSequences DEF NextLine
<1>5. View(r) \in Menu
  BY DEF OrderInv, TypeOK, View
<1> QED
  BY <1>1, <1>2, <1>3, <1>4, <1>5, LinesAreSequences

\* Reading a line appends it: the last one read leads to the insert.
LEMMA ReadLineInv ==
  ASSUME OrderInv, NEW r \in Requests, ReadLine(r)
  PROVE  OrderInv'
<1> DEFINE line == PricedLine(View(r), NextLine(r))
<1>1. pc[r] \in {"begun", "reading"} /\ Orderable(View(r), NextLine(r))
  BY DEF ReadLine
<1>2. line \in OrderLine /\ Amount(line) \in Int
  BY <1>1, NextLineType, PricedLineType
<1>3. /\ priced' = [priced EXCEPT ![r] = Append(priced[r], line)]
      /\ total' = [total EXCEPT ![r] = total[r] + Amount(line)]
      /\ snap' = [snap EXCEPT ![r] = View(r)]
      /\ pc' = [pc EXCEPT ![r] =
                   IF Len(priced[r]) + 1 = Len(req[r].lines)
                   THEN "insert" ELSE "reading"]
      /\ UNCHANGED <<items, orders, orderItems, req, sent, acked, rpc, ruser,
                     listing, due>>
  BY DEF ReadLine, tables, readVars
<1> HIDE DEF line
<1>4. priced[r] \in Seq(OrderLine)
  BY DEF OrderInv, TypeOK
<1>5. /\ Append(priced[r], line) \in Seq(OrderLine)
      /\ Len(Append(priced[r], line)) = Len(priced[r]) + 1
  BY <1>2, <1>4
<1>6. TypeOK'
  BY <1>1, <1>2, <1>3, <1>5, NextLineType
     DEF OrderInv, TypeOK, InTransaction
<1>7. IdsApart'
  BY <1>1, <1>3 DEF OrderInv, TypeOK, IdsApart, Active, InTransaction
<1>8. Progress'
  <2>1. /\ priced'[r] = Append(priced[r], line) /\ sent'[r] = 0
        /\ pc'[r] \in {"insert", "reading"}
        /\ pc'[r] = "insert" => Len(priced'[r]) = Len(req'[r].lines)
        /\ pc'[r] = "reading" => Len(priced'[r]) # Len(req'[r].lines)
    BY <1>1, <1>3, <1>5 DEF OrderInv, TypeOK, Progress
  <2>2. Len(priced'[r]) <= Len(req'[r].lines) /\ req'[r] \in Request
        /\ Len(priced'[r]) \in Int /\ Len(req'[r].lines) \in Int
    BY <1>1, <1>3, <1>4, <1>5, <2>1, NextLineType
  <2>3. \A s \in Requests \ {r} :
           /\ pc'[s] = pc[s] /\ priced'[s] = priced[s]
           /\ sent'[s] = sent[s] /\ req'[s] = req[s]
    BY <1>3 DEF OrderInv, TypeOK
  <2> QED
    BY <2>1, <2>2, <2>3 DEF OrderInv, Progress, Active
<1>9. CreatedIsStored' /\ ReceiptsHold'
  BY <1>1, <1>3
     DEF OrderInv, TypeOK, CreatedIsStored, ReceiptsHold, OwnHeader
<1> QED
  BY <1>6, <1>7, <1>8, <1>9 DEF OrderInv

\* Steps that only move pc within or out of the transaction.
LEMMA PcStepInv ==
  ASSUME OrderInv, NEW r \in Requests,
         Refuse(r) \/ Fail(r) \/ InsertOrder(r)
  PROVE  OrderInv'
<1>1. UNCHANGED <<items, orders, orderItems, req, snap, priced, total, sent,
                  acked, rpc, ruser, listing, due>>
  BY DEF Refuse, Fail, InsertOrder, tables, readVars
<1>2. /\ pc[r] \in InTransaction
      /\ \/ pc' = [pc EXCEPT ![r] = "refused"]
         \/ pc' = [pc EXCEPT ![r] = "failed"]
         \/ pc[r] = "insert" /\ pc' = [pc EXCEPT ![r] = "lines"]
  BY DEF Refuse, Fail, InsertOrder, InTransaction
<1>3. TypeOK'
  BY <1>1, <1>2 DEF OrderInv, TypeOK, InTransaction, Answers
<1>4. IdsApart'
  <2>1. ASSUME NEW s \in Requests
        PROVE  /\ pc'[s] # "idle" => pc[s] # "idle"
               /\ pc'[s] \in InTransaction => pc[s] \in InTransaction
    BY <1>2 DEF OrderInv, TypeOK, InTransaction
  <2> QED
    BY <1>1, <2>1 DEF OrderInv, IdsApart, Active
<1>5. Progress'
  <2>1. pc[r] = "insert" => sent[r] < Len(priced[r])
    <3> SUFFICES ASSUME pc[r] = "insert" PROVE sent[r] < Len(priced[r])
      OBVIOUS
    <3>1. /\ sent[r] = 0 /\ Len(priced[r]) = Len(req[r].lines)
          /\ req[r].lines \in RequestLines
      BY DEF OrderInv, Progress, Active, Request
    <3> QED
      BY <3>1, LinesAreSequences
  <2> QED
    BY <1>1, <1>2, <2>1 DEF OrderInv, TypeOK, Progress, Active, InTransaction
<1>6. CreatedIsStored' /\ ReceiptsHold'
  BY <1>1, <1>2
     DEF OrderInv, TypeOK, CreatedIsStored, ReceiptsHold, OwnHeader
<1> QED
  BY <1>3, <1>4, <1>5, <1>6 DEF OrderInv

\* One row more: after the last one only COMMIT is left.
LEMMA InsertItemInv ==
  ASSUME OrderInv, NEW r \in Requests, InsertItem(r)
  PROVE  OrderInv'
<1>1. /\ pc[r] = "lines"
      /\ sent' = [sent EXCEPT ![r] = sent[r] + 1]
      /\ pc' = [pc EXCEPT ![r] = IF sent[r] + 1 = Len(priced[r])
                                 THEN "commit" ELSE "lines"]
      /\ UNCHANGED <<items, orders, orderItems, req, snap, priced, total,
                     acked, rpc, ruser, listing, due>>
  BY DEF InsertItem, tables, readVars
<1>2. TypeOK'
  BY <1>1 DEF OrderInv, TypeOK, InTransaction
<1>3. IdsApart'
  BY <1>1 DEF OrderInv, TypeOK, IdsApart, Active, InTransaction
<1>4. Progress'
  <2>1. sent[r] < Len(priced[r]) /\ sent[r] \in Nat /\ Len(priced[r]) \in Nat
    BY <1>1 DEF OrderInv, TypeOK, Progress
  <2> QED
    BY <1>1, <2>1 DEF OrderInv, TypeOK, Progress, Active
<1>5. CreatedIsStored' /\ ReceiptsHold'
  BY <1>1 DEF OrderInv, TypeOK, CreatedIsStored, ReceiptsHold, OwnHeader
<1> QED
  BY <1>2, <1>3, <1>4, <1>5 DEF OrderInv

\* What COMMIT does to the tables: a header under an id nothing else bears,
\* with all its rows; the rows of every other order stay.
CommitEffect(r) ==
    /\ orders' = orders \cup {OwnHeader(r)}
    /\ \A o \in orders : o.id # req[r].id
    /\ RowsOf(orderItems', req[r].id) = LineRows(req[r].id, priced[r])
    /\ LineRows(req[r].id, priced[r]) # {}
    /\ \A i : i # req[r].id => RowsOf(orderItems', i) = RowsOf(orderItems, i)

LEMMA CommitDoes ==
  ASSUME OrderInv, NEW r \in Requests, Commit(r)
  PROVE  CommitEffect(r)
<1> DEFINE id == req[r].id
           rows == LineRows(id, priced[r])
<1>1. /\ req[r] \in Request /\ id \in OrderIds
      /\ priced[r] \in Seq(OrderLine) /\ sent[r] = Len(priced[r])
      /\ Len(priced[r]) = Len(req[r].lines)
      /\ req[r].lines \in RequestLines
  BY DEF Commit, OrderInv, TypeOK, Progress, Active, Request
<1>2. Len(priced[r]) \in 1..MaxLines
  BY <1>1, LinesAreSequences
<1>3. OwnRows(r) = rows
  BY <1>1, SubSeqFull DEF OwnRows
<1>4. orders' = orders \cup {OwnHeader(r)} /\ orderItems' = orderItems \cup rows
  BY <1>3 DEF Commit
<1>5. \A row \in rows : row.order = id
  BY DEF LineRows
<1>6. rows # {}
  <2>1. 1 \in DOMAIN priced[r]
    BY <1>1, <1>2
  <2> QED
    BY <2>1 DEF LineRows
<1> HIDE DEF rows
<1>7. \A o \in orders : o.id # id
  BY DEF Commit, OrderInv, IdsApart, InTransaction
<1>8. \A row \in orderItems : row.order # id
  BY <1>7 DEF OrderInv, IdsApart
<1>9. \A i : i # id => RowsOf(orderItems', i) = RowsOf(orderItems, i)
  BY <1>4, <1>5 DEF RowsOf
<1>10. RowsOf(orderItems', id) = rows
  BY <1>4, <1>5, <1>8 DEF RowsOf
<1> QED
  BY <1>4, <1>6, <1>7, <1>9, <1>10 DEF CommitEffect, rows

\* COMMIT stores the header and all its rows under an id nothing else bears.
LEMMA CommitInv ==
  ASSUME OrderInv, NEW r \in Requests, Commit(r)
  PROVE  OrderInv'
<1> DEFINE id == req[r].id
           rows == LineRows(id, priced[r])
<1>1. /\ req[r] \in Request /\ id \in OrderIds
      /\ priced[r] \in Seq(OrderLine) /\ sent[r] = Len(priced[r])
      /\ Len(priced[r]) = Len(req[r].lines)
      /\ req[r].lines \in RequestLines
  BY DEF Commit, OrderInv, TypeOK, Progress, Active, Request
<1>2. Len(priced[r]) <= MaxLines
  BY <1>1, LinesAreSequences
<1>3. OwnRows(r) = rows
  BY <1>1, SubSeqFull DEF OwnRows
<1>4. /\ orders' = orders \cup {OwnHeader(r)}
      /\ orderItems' = orderItems \cup rows
      /\ UNCHANGED <<items, req, snap, priced, total, sent, acked, rpc, ruser,
                     listing, due>>
  BY <1>3 DEF Commit, readVars
<1>5. PICK answer \in {"created", "failed"} :
         pc' = [pc EXCEPT ![r] = answer]
  BY DEF Commit
<1>6. rows \subseteq LineRow /\ \A row \in rows : row.order = id
  BY <1>1, <1>2, LineRowsType
<1> HIDE DEF rows
<1>7. pc[r] = "commit" /\ \A o \in orders : o.id # id
  BY DEF Commit, OrderInv, IdsApart, InTransaction
<1>8. OwnHeader(r) \in Header /\ OwnHeader(r).id = id
  BY <1>1 DEF OwnHeader, Header, Request, OrderInv, TypeOK
<1>9. TypeOK'
  BY <1>4, <1>5, <1>6, <1>8 DEF OrderInv, TypeOK, Answers
<1>10. IdsApart'
  <2>1. \A s, t \in Requests :
           s # t /\ Active(s)' /\ Active(t)' => req'[s].id # req'[t].id
    BY <1>4, <1>5, <1>7 DEF OrderInv, TypeOK, IdsApart, Active
  <2>2. \A s \in Requests : pc'[s] \in InTransaction =>
           \A o \in orders' : o.id # req'[s].id
    BY <1>4, <1>5, <1>7, <1>8
       DEF OrderInv, TypeOK, IdsApart, Active, InTransaction
  <2>3. \A row \in orderItems' : \E o \in orders' : o.id = row.order
    BY <1>4, <1>6, <1>8 DEF OrderInv, IdsApart
  <2> QED
    BY <2>1, <2>2, <2>3 DEF IdsApart
<1>11. Progress'
  BY <1>4, <1>5, <1>7 DEF OrderInv, TypeOK, Progress, Active
<1>12. \A i : i # id => RowsOf(orderItems', i) = RowsOf(orderItems, i)
  BY CommitDoes DEF CommitEffect
<1>13. RowsOf(orderItems', id) = rows
  BY CommitDoes DEF CommitEffect, rows
<1>14. CreatedIsStored'
  <2> SUFFICES ASSUME NEW s \in Requests, pc'[s] = "created"
               PROVE  /\ OwnHeader(s)' \in orders'
                      /\ RowsOf(orderItems', req'[s].id)
                           = LineRows(req'[s].id, priced'[s])
                      /\ Len(priced'[s]) <= MaxLines
    BY DEF CreatedIsStored
  <2>1. CASE s = r
    BY <1>2, <1>4, <1>13, <2>1 DEF OwnHeader, rows
  <2>2. CASE s # r
    <3>1. pc[s] = "created"
      BY <1>5, <2>2 DEF OrderInv, TypeOK
    <3>2. req[s].id # id
      BY <1>7, <2>2, <3>1 DEF OrderInv, IdsApart, Active
    <3> QED
      BY <1>4, <1>12, <3>1, <3>2 DEF OrderInv, CreatedIsStored, OwnHeader
  <2> QED
    BY <2>1, <2>2
<1>15. ReceiptsHold'
  <2> SUFFICES ASSUME NEW a \in acked
               PROVE  /\ HeaderOf(a) \in orders'
                      /\ RowsOf(orderItems', a.id) = a.rows
    BY <1>4 DEF ReceiptsHold
  <2>1. HeaderOf(a) \in orders /\ RowsOf(orderItems, a.id) = a.rows
    BY DEF OrderInv, ReceiptsHold
  <2>2. a.id # id
    BY <1>7, <2>1 DEF HeaderOf
  <2> QED
    BY <1>4, <1>12, <2>1, <2>2
<1> QED
  BY <1>9, <1>10, <1>11, <1>14, <1>15 DEF OrderInv

\* The answer 201 carries what CreatedIsStored says is stored.
LEMMA AnswerInv ==
  ASSUME OrderInv, NEW r \in Requests, Answer(r)
  PROVE  OrderInv'
<1>1. /\ acked' = IF pc[r] = "created"
                  THEN acked \cup {OwnReceipt(r)} ELSE acked
      /\ pc' = [pc EXCEPT ![r] = "idle"]
      /\ req' = [req EXCEPT ![r] = NoReq]
      /\ snap' = [snap EXCEPT ![r] = EmptyMenu]
      /\ priced' = [priced EXCEPT ![r] = <<>>]
      /\ total' = [total EXCEPT ![r] = 0]
      /\ sent' = [sent EXCEPT ![r] = 0]
      /\ UNCHANGED <<items, orders, orderItems, rpc, ruser, listing, due>>
  BY DEF Answer, tables, readVars
<1>2. EmptyMenu \in Menu
  BY DEF EmptyMenu, Menu
<1>3. pc[r] = "created" =>
         /\ OwnReceipt(r) \in Receipt
         /\ HeaderOf(OwnReceipt(r)) \in orders
         /\ RowsOf(orderItems, OwnReceipt(r).id) = OwnReceipt(r).rows
  <2> SUFFICES ASSUME pc[r] = "created"
               PROVE  /\ OwnReceipt(r) \in Receipt
                      /\ HeaderOf(OwnReceipt(r)) \in orders
                      /\ RowsOf(orderItems, OwnReceipt(r).id)
                           = OwnReceipt(r).rows
    OBVIOUS
  <2>1. /\ req[r] \in Request /\ priced[r] \in Seq(OrderLine)
        /\ total[r] \in Int /\ Len(priced[r]) <= MaxLines
        /\ OwnHeader(r) \in orders
        /\ RowsOf(orderItems, req[r].id) = LineRows(req[r].id, priced[r])
    BY DEF OrderInv, TypeOK, Progress, Active, CreatedIsStored
  <2>2. LineRows(req[r].id, priced[r]) \subseteq LineRow
    BY <2>1, LineRowsType DEF Request
  <2>3. OwnReceipt(r) = [id |-> req[r].id, user |-> req[r].user,
                         total |-> total[r],
                         rows |-> LineRows(req[r].id, priced[r])]
    BY DEF OwnReceipt, WithRows, OwnHeader
  <2>4. OwnReceipt(r) \in Receipt
    BY <2>1, <2>2, <2>3 DEF Receipt, Request
  <2> QED
    BY <2>1, <2>3, <2>4 DEF HeaderOf, OwnHeader
<1>4. TypeOK'
  BY <1>1, <1>2, <1>3 DEF OrderInv, TypeOK
<1>5. IdsApart'
  BY <1>1 DEF OrderInv, TypeOK, IdsApart, Active, InTransaction
<1>6. Progress'
  BY <1>1 DEF OrderInv, TypeOK, Progress, Active
<1>7. CreatedIsStored'
  BY <1>1 DEF OrderInv, TypeOK, CreatedIsStored, OwnHeader
<1>8. ReceiptsHold'
  BY <1>1, <1>3 DEF OrderInv, ReceiptsHold
<1> QED
  BY <1>4, <1>5, <1>6, <1>7, <1>8 DEF OrderInv

\* A crash takes every request with it and leaves the tables.
LEMMA CrashInv ==
  ASSUME OrderInv, Crash
  PROVE  OrderInv'
<1>1. EmptyMenu \in Menu
  BY DEF EmptyMenu, Menu
<1>2. TypeOK'
  BY <1>1 DEF OrderInv, TypeOK, Crash, tables
<1>3. (IdsApart /\ Progress /\ CreatedIsStored /\ ReceiptsHold)'
  BY DEF OrderInv, Crash, tables, IdsApart, Progress, CreatedIsStored,
         ReceiptsHold, Active, InTransaction
<1> QED
  BY <1>2, <1>3 DEF OrderInv

-----------------------------------------------------------------------------
(* BookInv: what the statements do to the sums and to the listings.        *)

\* The conjuncts that only steps of order requests can disturb.
SumsInv == QuotedFromSnap /\ OrdersApart /\ BooksBalance

LEMMA InitBookInv == Init => BookInv
<1> SUFFICES ASSUME Init PROVE BookInv
  OBVIOUS
<1>1. QuotedFromSnap
  BY DEF Init, QuotedFromSnap, InTransaction
<1>2. OrdersApart /\ BooksBalance /\ ListingsSound
  BY DEF Init, OrdersApart, BooksBalance, ListingsSound
<1> QED
  BY <1>1, <1>2, InitOrderInv DEF BookInv

\* A new request has read no line, and owes nothing.
LEMMA CreateSums ==
  ASSUME BookInv, NEW r \in Requests, Create(r)
  PROVE  SumsInv'
<1>1. PICK new : req' = [req EXCEPT ![r] = new]
  BY DEF Create
<1>2. /\ pc[r] = "idle" /\ pc' = [pc EXCEPT ![r] = "begun"]
      /\ UNCHANGED <<orders, orderItems, snap, priced, total>>
  BY DEF Create, tables
<1>3. total[r] = 0 /\ priced[r] = <<>>
  BY <1>2 DEF BookInv, OrderInv, QuotedFromSnap, Progress
<1>4. QuotedFromSnap'
  <2> SUFFICES ASSUME NEW s \in Requests
               PROVE  /\ pc'[s] = "idle" => total'[s] = 0
                      /\ pc'[s] \in InTransaction =>
                         /\ total'[s] = SumOf(LineRows(req'[s].id, priced'[s]))
                         /\ \A k \in 1..Len(priced'[s]) :
                               /\ Orderable(snap'[s], req'[s].lines[k])
                               /\ priced'[s][k] =
                                     PricedLine(snap'[s], req'[s].lines[k])
    BY DEF QuotedFromSnap
  <2>1. CASE s = r
    BY <1>2, <1>3, <2>1, SumOfNoLines DEF BookInv, OrderInv, TypeOK
  <2>2. CASE s # r
    BY <1>1, <1>2, <2>2 DEF BookInv, OrderInv, TypeOK, QuotedFromSnap
  <2> QED
    BY <2>1, <2>2
<1> QED
  BY <1>2, <1>4 DEF SumsInv, BookInv, OrdersApart, BooksBalance

\* A line read adds its amount to the total, and its row to the rows.
LEMMA ReadLineSums ==
  ASSUME BookInv, NEW r \in Requests, ReadLine(r)
  PROVE  SumsInv'
<1> DEFINE line == PricedLine(View(r), NextLine(r))
<1>1. pc[r] \in {"begun", "reading"} /\ Orderable(View(r), NextLine(r))
  BY DEF ReadLine
<1>2. line \in OrderLine
  BY <1>1, NextLineType, PricedLineType DEF BookInv
<1>3. /\ priced' = [priced EXCEPT ![r] = Append(priced[r], line)]
      /\ total' = [total EXCEPT ![r] = total[r] + Amount(line)]
      /\ snap' = [snap EXCEPT ![r] = View(r)]
      /\ pc' = [pc EXCEPT ![r] =
                   IF Len(priced[r]) + 1 = Len(req[r].lines)
                   THEN "insert" ELSE "reading"]
      /\ UNCHANGED <<orders, orderItems, req>>
  BY DEF ReadLine, tables
<1>4. priced[r] \in Seq(OrderLine)
  BY DEF BookInv, OrderInv, TypeOK
<1>5. /\ total[r] = SumOf(LineRows(req[r].id, priced[r]))
      /\ \A k \in 1..Len(priced[r]) :
            /\ Orderable(View(r), req[r].lines[k])
            /\ priced[r][k] = PricedLine(View(r), req[r].lines[k])
  <2>1. pc[r] \in InTransaction
    BY <1>1 DEF InTransaction
  <2>2. CASE pc[r] = "begun"
    <3>1. Len(priced[r]) = 0
      BY <2>2 DEF BookInv, OrderInv, Progress
    <3> QED
      BY <2>1, <3>1 DEF BookInv, QuotedFromSnap
  <2>3. CASE pc[r] = "reading"
    BY <2>1, <2>3 DEF BookInv, QuotedFromSnap, View
  <2> QED
    BY <1>1, <2>2, <2>3
<1>6. total'[r] = SumOf(LineRows(req'[r].id, priced'[r]))
  BY <1>2, <1>3, <1>4, <1>5, SumOfAppend DEF BookInv, OrderInv, TypeOK
<1>7. \A k \in 1..Len(priced'[r]) :
         /\ Orderable(snap'[r], req'[r].lines[k])
         /\ priced'[r][k] = PricedLine(snap'[r], req'[r].lines[k])
  <2>1. /\ priced'[r] = Append(priced[r], line) /\ snap'[r] = View(r)
        /\ req'[r] = req[r]
    BY <1>3 DEF BookInv, OrderInv, TypeOK
  <2>2. /\ Len(priced'[r]) = Len(priced[r]) + 1
        /\ priced'[r][Len(priced[r]) + 1] = line
        /\ \A k \in 1..Len(priced[r]) : priced'[r][k] = priced[r][k]
    BY <1>2, <1>4, <2>1
  <2>3. \A k \in 1..Len(priced'[r]) :
           k \in 1..Len(priced[r]) \/ k = Len(priced[r]) + 1
    BY <1>4, <2>2
  <2>4. line = PricedLine(View(r), req[r].lines[Len(priced[r]) + 1])
    BY DEF NextLine
  <2>5. Orderable(View(r), req[r].lines[Len(priced[r]) + 1])
    BY <1>1 DEF NextLine
  <2> HIDE DEF line
  <2> QED
    BY <1>5, <2>1, <2>2, <2>3, <2>4, <2>5
<1> HIDE DEF line
<1>8. QuotedFromSnap'
  <2>1. pc'[r] # "idle"
    BY <1>3 DEF BookInv, OrderInv, TypeOK
  <2>2. \A s \in Requests \ {r} :
           /\ pc'[s] = pc[s] /\ priced'[s] = priced[s] /\ req'[s] = req[s]
           /\ snap'[s] = snap[s] /\ total'[s] = total[s]
    BY <1>3 DEF BookInv, OrderInv, TypeOK
  <2> QED
    BY <1>6, <1>7, <2>1, <2>2 DEF BookInv, QuotedFromSnap
<1> QED
  BY <1>3, <1>8 DEF SumsInv, BookInv, OrdersApart, BooksBalance

\* Steps that write neither the tables nor what has been read.
LEMMA PcStepSums ==
  ASSUME BookInv, NEW r \in Requests,
         Refuse(r) \/ Fail(r) \/ InsertOrder(r) \/ InsertItem(r)
  PROVE  SumsInv'
<1>1. UNCHANGED <<orders, orderItems, req, snap, priced, total>>
  BY DEF Refuse, Fail, InsertOrder, InsertItem, tables
<1>2. PICK where \in {"refused", "failed", "lines", "commit"} :
         pc' = [pc EXCEPT ![r] = where]
  BY DEF Refuse, Fail, InsertOrder, InsertItem
<1>3. pc[r] \in InTransaction
  BY DEF Refuse, Fail, InsertOrder, InsertItem, InTransaction
<1>4. QuotedFromSnap'
  BY <1>1, <1>2, <1>3
     DEF BookInv, OrderInv, TypeOK, QuotedFromSnap
<1> QED
  BY <1>1, <1>4 DEF SumsInv, BookInv, OrdersApart, BooksBalance

\* COMMIT shows the header together with the rows it was added up from.
LEMMA CommitSums ==
  ASSUME BookInv, NEW r \in Requests, Commit(r)
  PROVE  SumsInv'
<1> DEFINE id == req[r].id
           rows == LineRows(id, priced[r])
<1>1. CommitEffect(r)
  BY CommitDoes DEF BookInv
<1>2. PICK answer \in {"created", "failed"} :
         pc' = [pc EXCEPT ![r] = answer]
  BY DEF Commit
<1>3. UNCHANGED <<req, snap, priced, total>>
  BY DEF Commit
<1>4. QuotedFromSnap'
  BY <1>2, <1>3
     DEF BookInv, OrderInv, TypeOK, QuotedFromSnap, InTransaction
<1>5. OrdersApart'
  BY <1>1 DEF CommitEffect, OwnHeader, BookInv, OrdersApart
<1>6. BooksBalance'
  <2> SUFFICES ASSUME NEW o \in orders'
               PROVE  /\ RowsOf(orderItems', o.id) # {}
                      /\ o.total = SumOf(RowsOf(orderItems', o.id))
    BY DEF BooksBalance
  <2>1. CASE o \in orders
    <3>1. RowsOf(orderItems', o.id) = RowsOf(orderItems, o.id)
      BY <1>1, <2>1 DEF CommitEffect
    <3> QED
      BY <2>1, <3>1 DEF BookInv, BooksBalance
  <2>2. CASE o = OwnHeader(r)
    <3>1. o.id = id /\ o.total = total[r]
      BY <2>2 DEF OwnHeader
    <3>2. RowsOf(orderItems', o.id) = rows /\ rows # {}
      BY <1>1, <3>1 DEF CommitEffect
    <3>3. total[r] = SumOf(rows)
      BY DEF Commit, BookInv, QuotedFromSnap, InTransaction
    <3> QED
      BY <3>1, <3>2, <3>3
  <2> QED
    BY <1>1, <2>1, <2>2 DEF CommitEffect
<1> QED
  BY <1>4, <1>5, <1>6 DEF SumsInv

\* An answered or lost request owes nothing.
LEMMA EndSums ==
  ASSUME BookInv, Crash \/ \E r \in Requests : Answer(r)
  PROVE  SumsInv'
<1>1. UNCHANGED <<orders, orderItems>>
  BY DEF Crash, Answer, tables
<1>2. ASSUME Crash PROVE QuotedFromSnap'
  BY <1>2 DEF Crash, QuotedFromSnap, InTransaction
<1>3. ASSUME NEW r \in Requests, Answer(r) PROVE QuotedFromSnap'
  <2>1. /\ pc' = [pc EXCEPT ![r] = "idle"] /\ req' = [req EXCEPT ![r] = NoReq]
        /\ snap' = [snap EXCEPT ![r] = EmptyMenu]
        /\ priced' = [priced EXCEPT ![r] = <<>>]
        /\ total' = [total EXCEPT ![r] = 0]
    BY <1>3 DEF Answer
  <2> QED
    BY <2>1 DEF BookInv, OrderInv, TypeOK, QuotedFromSnap, InTransaction
<1>4. QuotedFromSnap'
  BY <1>2, <1>3
<1> QED
  BY <1>1, <1>4 DEF SumsInv, BookInv, OrdersApart, BooksBalance

-----------------------------------------------------------------------------
(* The listings.                                                           *)

\* Rows, headers and listings that stay as they are, stay sound.
LEMMA ListingsUndisturbed ==
  ASSUME BookInv,
         UNCHANGED <<orderItems, rpc, ruser, listing, due>>,
         orders \subseteq orders', acked \subseteq acked'
  PROVE  ListingsSound'
  BY DEF BookInv, ListingsSound

\* Only the rows of an order no listing has found appear.
LEMMA CommitListings ==
  ASSUME BookInv, NEW r \in Requests, Commit(r)
  PROVE  ListingsSound'
<1>1. CommitEffect(r)
  BY CommitDoes DEF BookInv
<1>2. UNCHANGED <<acked, rpc, ruser, listing, due>>
  BY DEF Commit, readVars
<1>3. \A q \in Readers : rpc[q] # "idle" => \A o \in listing[q] :
         RowsOf(orderItems', o.id) = RowsOf(orderItems, o.id)
  <2> SUFFICES ASSUME NEW q \in Readers, rpc[q] # "idle", NEW o \in listing[q]
               PROVE  RowsOf(orderItems', o.id) = RowsOf(orderItems, o.id)
    OBVIOUS
  <2>1. HeaderOf(o) \in orders
    BY DEF BookInv, ListingsSound
  <2>2. o.id # req[r].id
    BY <1>1, <2>1 DEF CommitEffect, HeaderOf
  <2> QED
    BY <1>1, <2>2 DEF CommitEffect
<1> QED
  BY <1>1, <1>2, <1>3 DEF CommitEffect, BookInv, ListingsSound

\* The first SELECT finds every order acknowledged so far.
LEMMA ListOrdersListings ==
  ASSUME BookInv, NEW q \in Readers, ListOrders(q)
  PROVE  ListingsSound'
<1>1. PICK u \in Users :
         /\ ruser' = [ruser EXCEPT ![q] = u]
         /\ due' = [due EXCEPT ![q] = {a \in acked : a.user = u}]
         /\ listing' = [listing EXCEPT ![q] =
               {WithRows(o, {}) : o \in {h \in orders : h.user = u}}]
  BY DEF ListOrders, OrdersOf
<1>2. rpc' = [rpc EXCEPT ![q] = "headers"]
      /\ UNCHANGED <<orders, orderItems, acked>>
  BY DEF ListOrders, tables
<1>3. /\ ruser'[q] = u /\ rpc'[q] = "headers"
      /\ due'[q] = {a \in acked : a.user = u}
      /\ listing'[q] = {WithRows(o, {}) : o \in {h \in orders : h.user = u}}
  BY <1>1, <1>2 DEF BookInv, OrderInv, TypeOK
<1>4. \A o \in listing'[q] : HeaderOf(o) \in orders /\ o.user = u
  BY <1>3 DEF BookInv, OrderInv, TypeOK, Header, HeaderOf, WithRows
<1>5. \A a \in due'[q] : \E o \in listing'[q] : o.id = a.id
  <2> SUFFICES ASSUME NEW a \in acked, a.user = u
               PROVE  \E o \in listing'[q] : o.id = a.id
    BY <1>3
  <2>1. HeaderOf(a) \in orders /\ HeaderOf(a).user = u
    BY DEF BookInv, OrderInv, ReceiptsHold, HeaderOf
  <2>2. WithRows(HeaderOf(a), {}) \in listing'[q]
    BY <1>3, <2>1
  <2> QED
    BY <2>2 DEF WithRows, HeaderOf
<1>6. \A p \in Readers \ {q} :
         /\ rpc'[p] = rpc[p] /\ ruser'[p] = ruser[p]
         /\ due'[p] = due[p] /\ listing'[p] = listing[p]
  BY <1>1, <1>2 DEF BookInv, OrderInv, TypeOK
<1> QED
  BY <1>2, <1>3, <1>4, <1>5, <1>6 DEF BookInv, ListingsSound

\* The second SELECT completes the headers the first one found.
LEMMA FillItemsListings ==
  ASSUME BookInv, NEW q \in Readers, FillItems(q)
  PROVE  ListingsSound'
<1>1. /\ rpc[q] = "headers" /\ rpc' = [rpc EXCEPT ![q] = "listed"]
      /\ listing' = [listing EXCEPT ![q] =
            {WithRows(o, RowsOf(orderItems, o.id)) : o \in listing[q]}]
      /\ UNCHANGED <<orders, orderItems, acked, ruser, due>>
  BY DEF FillItems, tables
<1>2. listing'[q] = {WithRows(o, RowsOf(orderItems, o.id)) : o \in listing[q]}
  BY <1>1 DEF BookInv, OrderInv, TypeOK
<1>3. \A o \in listing'[q] :
         /\ HeaderOf(o) \in orders /\ o.user = ruser[q]
         /\ o.rows = RowsOf(orderItems, o.id)
  <2> SUFFICES ASSUME NEW o \in listing[q],
                      NEW p, p = WithRows(o, RowsOf(orderItems, o.id))
               PROVE  /\ HeaderOf(p) \in orders /\ p.user = ruser[q]
                      /\ p.rows = RowsOf(orderItems, p.id)
    BY <1>2
  <2>1. HeaderOf(o) \in orders /\ o.user = ruser[q]
    BY <1>1 DEF BookInv, ListingsSound
  <2>2. HeaderOf(p) = HeaderOf(o) /\ p.user = o.user /\ p.id = o.id
        /\ p.rows = RowsOf(orderItems, o.id)
    BY DEF HeaderOf, WithRows
  <2> QED
    BY <2>1, <2>2
<1>4. \A a \in due[q] : \E o \in listing'[q] : o.id = a.id
  <2> SUFFICES ASSUME NEW a \in due[q]
               PROVE  \E o \in listing'[q] : o.id = a.id
    OBVIOUS
  <2>1. PICK o \in listing[q] : o.id = a.id
    BY <1>1 DEF BookInv, ListingsSound
  <2>2. WithRows(o, RowsOf(orderItems, o.id)).id = a.id
    BY <2>1 DEF WithRows
  <2> QED
    BY <1>2, <2>2
<1>5. due[q] \subseteq acked
  BY <1>1 DEF BookInv, ListingsSound
<1>6. \A p \in Readers \ {q} : rpc'[p] = rpc[p] /\ listing'[p] = listing[p]
  BY <1>1 DEF BookInv, OrderInv, TypeOK
<1> QED
  BY <1>1, <1>3, <1>4, <1>5, <1>6 DEF BookInv, ListingsSound

LEMMA EndListingListings ==
  ASSUME BookInv, NEW q \in Readers, EndListing(q)
  PROVE  ListingsSound'
<1>1. /\ rpc' = [rpc EXCEPT ![q] = "idle"]
      /\ UNCHANGED <<orders, orderItems, acked, ruser>>
      /\ \A p \in Readers \ {q} : due'[p] = due[p] /\ listing'[p] = listing[p]
  BY DEF EndListing, tables, BookInv, OrderInv, TypeOK
<1> QED
  BY <1>1 DEF BookInv, OrderInv, TypeOK, ListingsSound

-----------------------------------------------------------------------------
\* Every statement, whoever runs it, keeps the invariant.
LEMMA StepOrderInv == OrderInv /\ [Next]_vars => OrderInv'
<1> SUFFICES ASSUME OrderInv, [Next]_vars PROVE OrderInv'
  OBVIOUS
<1>1. CASE MenuStatement
  BY <1>1, MenuStatementInv
<1>2. ASSUME NEW r \in Requests, Create(r) \/ Handle(r) PROVE OrderInv'
  BY <1>2, CreateInv, ReadLineInv, PcStepInv, InsertItemInv, CommitInv,
     AnswerInv DEF Handle
<1>3. ASSUME NEW q \in Readers,
             ListOrders(q) \/ FillItems(q) \/ EndListing(q)
      PROVE  OrderInv'
  BY <1>3, ListingInv
<1>4. CASE Crash
  BY <1>4, CrashInv
<1>5. CASE UNCHANGED vars
  BY <1>5 DEF vars, tables, orderVars, readVars, OrderInv, TypeOK, IdsApart,
              Progress, CreatedIsStored, ReceiptsHold, Active, OwnHeader
<1> QED
  BY <1>1, <1>2, <1>3, <1>4, <1>5 DEF Next

LEMMA StepBookInv == BookInv /\ [Next]_vars => BookInv'
<1> SUFFICES ASSUME BookInv, [Next]_vars PROVE BookInv'
  OBVIOUS
<1>1. OrderInv'
  BY StepOrderInv DEF BookInv
<1>2. CASE MenuStatement
  <2>1. UNCHANGED <<orders, orderItems, pc, req, snap, priced, total, acked,
                    rpc, ruser, listing, due>>
    BY <1>2 DEF MenuStatement, tables, orderVars, readVars
  <2> QED
    BY <1>1, <2>1, ListingsUndisturbed
       DEF BookInv, QuotedFromSnap, OrdersApart, BooksBalance
<1>3. ASSUME NEW r \in Requests, Create(r) \/ Handle(r) PROVE BookInv'
  <2>1. SumsInv'
    BY <1>3, CreateSums, ReadLineSums, PcStepSums, CommitSums, EndSums
       DEF Handle
  <2>2. ListingsSound'
    <3>1. CASE Commit(r)
      BY <3>1, CommitListings
    <3>2. CASE ~Commit(r)
      <4>1. /\ UNCHANGED <<orders, orderItems, rpc, ruser, listing, due>>
            /\ acked \subseteq acked'
        BY <1>3, <3>2 DEF Handle, Create, ReadLine, Refuse, InsertOrder,
           InsertItem, Fail, Answer, tables, readVars
      <4> QED
        BY <4>1, ListingsUndisturbed
    <3> QED
      BY <3>1, <3>2
  <2> QED
    BY <1>1, <2>1, <2>2 DEF BookInv, SumsInv
<1>4. ASSUME NEW q \in Readers,
             ListOrders(q) \/ FillItems(q) \/ EndListing(q)
      PROVE  BookInv'
  <2>1. UNCHANGED <<orders, orderItems, pc, req, snap, priced, total>>
    BY <1>4 DEF ListOrders, FillItems, EndListing, tables, orderVars
  <2>2. ListingsSound'
    BY <1>4, ListOrdersListings, FillItemsListings, EndListingListings
  <2> QED
    BY <1>1, <2>1, <2>2 DEF BookInv, QuotedFromSnap, OrdersApart, BooksBalance
<1>5. CASE Crash
  <2>1. ListingsSound'
    BY <1>5 DEF Crash, ListingsSound
  <2> QED
    BY <1>1, <1>5, <2>1, EndSums DEF BookInv, SumsInv
<1>6. CASE UNCHANGED vars
  BY <1>1, <1>6 DEF vars, tables, orderVars, readVars, BookInv,
     QuotedFromSnap, OrdersApart, BooksBalance, ListingsSound
<1> QED
  BY <1>2, <1>3, <1>4, <1>5, <1>6 DEF Next

\* The invariant of the order tables holds in every reachable state.
THEOREM OrderInvHolds == Spec => []OrderInv
  BY InitOrderInv, StepOrderInv, PTL DEF Spec

\* Every variable keeps its type, whatever the interleaving.
THEOREM TypeCorrect == Spec => []TypeOK
<1>1. OrderInv => TypeOK
  BY DEF OrderInv
<1> QED
  BY <1>1, OrderInvHolds, PTL

\* An order answered 201 stays stored exactly as it was answered, for any
\* number of clients, editors and crashes.
THEOREM ReceiptsDurable == Spec => []ReceiptsHold
<1>1. OrderInv => ReceiptsHold
  BY DEF OrderInv
<1> QED
  BY <1>1, OrderInvHolds, PTL

\* The invariant of the sums and the listings holds in every reachable state.
THEOREM BookInvHolds == Spec => []BookInv
  BY InitBookInv, StepBookInv, PTL DEF Spec

\* Every order the tables show has lines and is worth their sum.
THEOREM BooksBalanced == Spec => []BooksBalance
<1>1. BookInv => BooksBalance
  BY DEF BookInv
<1> QED
  BY <1>1, BookInvHolds, PTL

\* A complete listing shows whole orders of its user, each one due among
\* them, each as it was acknowledged.
LEMMA SoundListingsAgree == BookInv => ListingsAgree
<1> SUFFICES ASSUME BookInv, NEW q \in Readers, rpc[q] = "listed"
             PROVE  /\ due[q] \subseteq listing[q]
                    /\ \A o \in listing[q] :
                          /\ o.user = ruser[q]
                          /\ o.total = SumOf(o.rows) /\ o.rows # {}
                          /\ \A a \in acked : a.id = o.id => a = o
  BY DEF ListingsAgree
<1>1. \A o \in listing[q] :
         /\ HeaderOf(o) \in orders /\ o.user = ruser[q]
         /\ o.rows = RowsOf(orderItems, o.id)
         /\ o \in Receipt
  BY DEF BookInv, ListingsSound, OrderInv, TypeOK
<1>2. \A o \in listing[q] : o.total = SumOf(o.rows) /\ o.rows # {}
  BY <1>1 DEF BookInv, BooksBalance, HeaderOf
<1>3. \A o \in listing[q] : \A a \in acked : a.id = o.id => a = o
  <2> SUFFICES ASSUME NEW o \in listing[q], NEW a \in acked, a.id = o.id
               PROVE  a = o
    OBVIOUS
  <2>1. HeaderOf(a) \in orders /\ RowsOf(orderItems, a.id) = a.rows
    BY DEF BookInv, OrderInv, ReceiptsHold
  <2>2. HeaderOf(a) = HeaderOf(o)
    BY <1>1, <2>1 DEF BookInv, OrdersApart, HeaderOf
  <2>3. a.user = o.user /\ a.total = o.total /\ a.rows = o.rows
    BY <1>1, <2>1, <2>2 DEF HeaderOf
  <2>4. \A p \in Receipt : p = [id |-> p.id, user |-> p.user,
                                total |-> p.total, rows |-> p.rows]
    BY DEF Receipt
  <2>5. a \in Receipt /\ o \in Receipt
    BY <1>1 DEF BookInv, OrderInv, TypeOK
  <2>6. /\ a = [id |-> a.id, user |-> a.user, total |-> a.total,
                rows |-> a.rows]
        /\ o = [id |-> o.id, user |-> o.user, total |-> o.total,
                rows |-> o.rows]
    BY <2>4, <2>5
  <2> QED
    BY <2>3, <2>6
<1>4. due[q] \subseteq listing[q]
  <2> SUFFICES ASSUME NEW a \in due[q] PROVE a \in listing[q]
    OBVIOUS
  <2>1. PICK o \in listing[q] : o.id = a.id
    BY DEF BookInv, ListingsSound
  <2>2. a \in acked
    BY DEF BookInv, ListingsSound
  <2> QED
    BY <1>3, <2>1, <2>2
<1> QED
  BY <1>1, <1>2, <1>3, <1>4

\* What ListByUser answers are whole orders of that user, none of the
\* acknowledged ones missing, though its SELECTs run at different times.
THEOREM ListingsTrue == Spec => []ListingsAgree
  BY SoundListingsAgree, BookInvHolds, PTL

-----------------------------------------------------------------------------
(* Ordering implements OrderBook: each statement maps to a step of the     *)
(* abstract specification, or to none.                                     *)

\* OrderBook's values are the same ones.
LEMMA SameValues ==
  /\ Abstract!Menu = Menu
  /\ Abstract!RequestLines = RequestLines
  /\ \A menu, lines : Abstract!CanServe(menu, lines) <=> CanServe(menu, lines)
  /\ \A menu, id, u, lines :
        Abstract!QuoteOn(menu, id, u, lines) = QuoteOn(menu, id, u, lines)
<1>1. Abstract!Menu = Menu
  BY DEF Abstract!Menu, Menu, Abstract!MenuRow, MenuRow
<1>2. Abstract!RequestLines = RequestLines
  BY DEF Abstract!RequestLines, RequestLines, Abstract!RequestLine, RequestLine
<1>3. \A menu, lines :
         Abstract!CanServe(menu, lines) <=> CanServe(menu, lines)
  BY DEF Abstract!CanServe, CanServe, Abstract!Orderable, Orderable
<1>4. \A menu, id, u, lines :
         Abstract!QuoteOn(menu, id, u, lines) = QuoteOn(menu, id, u, lines)
  <2>1. \A menu, line :
           Abstract!PricedLine(menu, line) = PricedLine(menu, line)
    BY DEF Abstract!PricedLine, PricedLine
  <2>2. \A id, lines : Abstract!LineRows(id, lines) = LineRows(id, lines)
    BY DEF Abstract!LineRows, LineRows
  <2>3. \A rows : Abstract!SumOf(rows) = SumOf(rows)
    BY DEF Abstract!SumOf, SumOf, Abstract!Amount, Amount,
           Abstract!MapThenSumSet, MapThenSumSet,
           Abstract!MapThenFoldSet, MapThenFoldSet
  <2> QED
    BY <2>1, <2>2, <2>3 DEF Abstract!QuoteOn, QuoteOn
<1> QED
  BY <1>1, <1>2, <1>3, <1>4

\* The quote of lines that can be served is a receipt.
LEMMA QuoteIsReceipt ==
  ASSUME NEW menu \in Menu, NEW id \in OrderIds, NEW u \in Users,
         NEW lines \in RequestLines, CanServe(menu, lines)
  PROVE  /\ QuoteOn(menu, id, u, lines) \in Receipt
         /\ QuoteOn(menu, id, u, lines).id = id
<1> DEFINE quoted == [k \in DOMAIN lines |-> PricedLine(menu, lines[k])]
           rows == LineRows(id, quoted)
<1>1. /\ DOMAIN lines = 1..Len(lines) /\ Len(lines) \in 1..MaxLines
      /\ \A k \in DOMAIN lines : lines[k] \in RequestLine
  BY LinesAreSequences
<1>2. \A k \in DOMAIN lines : PricedLine(menu, lines[k]) \in OrderLine
  BY <1>1, PricedLineType DEF CanServe
<1>3. quoted \in Seq(OrderLine) /\ Len(quoted) <= MaxLines
  BY <1>1, <1>2, BoundAssumption
<1> HIDE DEF quoted
<1>4. rows \subseteq LineRow /\ SumOf(rows) \in Int
  BY <1>3, LineRowsType, LineRowsFinite, SumOfType
<1>5. QuoteOn(menu, id, u, lines)
         = [id |-> id, user |-> u, total |-> SumOf(rows), rows |-> rows]
  BY DEF QuoteOn, quoted
<1> QED
  BY <1>4, <1>5 DEF Receipt

LEMMA HeldIsReceipt ==
  ASSUME BookInv, NEW r \in Requests, HasQuote(r)
  PROVE  /\ QuoteHeld(r) \in Receipt /\ QuoteHeld(r).id = req[r].id
         /\ QuoteHeld(r) # NoReq
<1>1. req[r] \in Request /\ snap[r] \in Menu
  BY DEF HasQuote, InTransaction, BookInv, OrderInv, TypeOK, Progress, Active
<1>2. QuoteHeld(r) = QuoteOn(snap[r], req[r].id, req[r].user, req[r].lines)
  BY DEF QuoteHeld
<1>3. QuoteHeld(r) \in Receipt /\ QuoteHeld(r).id = req[r].id
  BY <1>1, <1>2, QuoteIsReceipt DEF HasQuote, Request
<1> QED
  BY <1>3, NoReqAssumption

\* A step of request r leaves the quotes of the others.
LEMMA HeldByOthers ==
  ASSUME NEW r \in Requests,
         \A s \in Requests \ {r} :
            pc'[s] = pc[s] /\ req'[s] = req[s] /\ snap'[s] = snap[s]
  PROVE  \A s \in Requests \ {r} : QuoteHeld(s)' = QuoteHeld(s)
  BY DEF QuoteHeld, HasQuote

\* Only COMMIT changes what is stored.
LEMMA StoredStay ==
  ASSUME UNCHANGED tables
  PROVE  UNCHANGED StoredOrders
  BY DEF tables, StoredOrders

Quotes == [r \in Requests |-> QuoteHeld(r)]

\* The first SELECT quotes the whole order from the menu it sees.
LEMMA ReadLineQuotes ==
  ASSUME BookInv, NEW r \in Requests, ReadLine(r)
  PROVE  Abstract!Quote(r) \/ UNCHANGED <<items, Quotes, StoredOrders>>
<1>1. /\ pc[r] \in {"begun", "reading"}
      /\ snap'[r] = View(r) /\ pc'[r] \in {"reading", "insert"}
      /\ UNCHANGED <<items, req, StoredOrders>>
      /\ \A s \in Requests \ {r} : pc'[s] = pc[s] /\ snap'[s] = snap[s]
  BY StoredStay DEF ReadLine, BookInv, OrderInv, TypeOK
<1>2. \A s \in Requests \ {r} : QuoteHeld(s)' = QuoteHeld(s)
  BY <1>1, HeldByOthers
<1>3. QuoteHeld(r)' = IF CanServe(View(r), req[r].lines)
                      THEN QuoteOn(View(r), req[r].id, req[r].user,
                                   req[r].lines)
                      ELSE NoReq
  BY <1>1 DEF QuoteHeld, HasQuote, InTransaction
<1>4. CASE pc[r] = "reading" \/ ~CanServe(View(r), req[r].lines)
  <2>1. QuoteHeld(r)' = QuoteHeld(r)
    BY <1>1, <1>3, <1>4 DEF QuoteHeld, HasQuote, View, InTransaction
  <2> QED
    BY <1>1, <1>2, <2>1 DEF Quotes
<1>5. CASE pc[r] = "begun" /\ CanServe(View(r), req[r].lines)
  <2>1. QuoteHeld(r) = NoReq
    BY <1>5 DEF QuoteHeld, HasQuote
  <2>2. QuoteHeld(r)' = QuoteOn(items, req[r].id, req[r].user, req[r].lines)
        /\ CanServe(items, req[r].lines)
    BY <1>3, <1>5 DEF View
  <2>3. /\ req[r].id \in OrderIds /\ req[r].user \in Users
        /\ req[r].lines \in RequestLines
    BY <1>5 DEF BookInv, OrderInv, Progress, Active, Request
  <2>4. req[r].id \notin {o.id : o \in StoredOrders}
    BY <1>5 DEF BookInv, OrderInv, IdsApart, InTransaction, StoredOrders,
                WithRows
  <2>5. [s \in Requests |-> QuoteHeld(s)]' =
           [[s \in Requests |-> QuoteHeld(s)] EXCEPT
              ![r] = QuoteOn(items, req[r].id, req[r].user, req[r].lines)]
    BY <1>2, <2>2
  <2>6. \E id \in OrderIds \ {o.id : o \in StoredOrders},
           u \in Users, lines \in Abstract!RequestLines :
           /\ Abstract!CanServe(items, lines)
           /\ [s \in Requests |-> QuoteHeld(s)]' =
                 [[s \in Requests |-> QuoteHeld(s)] EXCEPT
                    ![r] = Abstract!QuoteOn(items, id, u, lines)]
    BY <2>2, <2>3, <2>4, <2>5, SameValues
  <2>7. [s \in Requests |-> QuoteHeld(s)][r] = NoReq
    BY <2>1
  <2> QED
    BY <1>1, <2>6, <2>7 DEF Abstract!Quote
<1> QED
  BY <1>1, <1>4, <1>5

\* COMMIT books the quote: Create's total and rows are the ones its snapshot
\* decides.
LEMMA CommitBooks ==
  ASSUME BookInv, NEW r \in Requests, Commit(r)
  PROVE  Abstract!Book(r)
<1>1. CommitEffect(r)
  BY CommitDoes DEF BookInv
<1>2. /\ UNCHANGED <<items, req, snap>> /\ pc[r] = "commit"
      /\ pc'[r] \in {"created", "failed"}
      /\ \A s \in Requests \ {r} : pc'[s] = pc[s]
  BY DEF Commit, BookInv, OrderInv, TypeOK
<1> DEFINE lines == req[r].lines
           rows == LineRows(req[r].id, priced[r])
<1>3. /\ lines \in Seq(RequestLine) /\ priced[r] \in Seq(OrderLine)
      /\ Len(priced[r]) = Len(lines)
  BY <1>2, LinesAreSequences
     DEF BookInv, OrderInv, TypeOK, Progress, Active, Request
<1>4. /\ total[r] = SumOf(rows)
      /\ \A k \in 1..Len(priced[r]) :
            /\ Orderable(snap[r], lines[k])
            /\ priced[r][k] = PricedLine(snap[r], lines[k])
  BY <1>2 DEF BookInv, QuotedFromSnap, InTransaction
<1>5. HasQuote(r)
  BY <1>2, <1>3, <1>4 DEF HasQuote, CanServe, InTransaction
<1>6. priced[r] = [k \in DOMAIN lines |-> PricedLine(snap[r], lines[k])]
  BY <1>3, <1>4
<1>7. QuoteHeld(r) = WithRows(OwnHeader(r), rows)
  BY <1>4, <1>5, <1>6 DEF QuoteHeld, QuoteOn, WithRows, OwnHeader
<1>8. StoredOrders' = StoredOrders \cup {QuoteHeld(r)}
  <2>1. \A o \in orders : RowsOf(orderItems', o.id) = RowsOf(orderItems, o.id)
    BY <1>1 DEF CommitEffect
  <2>2. WithRows(OwnHeader(r), RowsOf(orderItems', OwnHeader(r).id))
          = QuoteHeld(r)
    BY <1>1, <1>7 DEF CommitEffect, OwnHeader
  <2>3. StoredOrders' = {WithRows(o, RowsOf(orderItems', o.id)) :
                            o \in orders \cup {OwnHeader(r)}}
    BY <1>1 DEF CommitEffect, StoredOrders
  <2> QED
    BY <2>1, <2>2, <2>3 DEF StoredOrders
<1>9. QuoteHeld(r)' = NoReq
  BY <1>2 DEF QuoteHeld, HasQuote, InTransaction
<1>10. \A s \in Requests \ {r} : QuoteHeld(s)' = QuoteHeld(s)
  BY <1>2, HeldByOthers
<1>11. [s \in Requests |-> QuoteHeld(s)]' =
          [[s \in Requests |-> QuoteHeld(s)] EXCEPT ![r] = NoReq]
  BY <1>9, <1>10
<1>12. \A o \in StoredOrders : o.id # QuoteHeld(r).id
  BY <1>1, <1>5, HeldIsReceipt DEF CommitEffect, StoredOrders, WithRows
<1>13. QuoteHeld(r) # NoReq
  BY <1>5, HeldIsReceipt
<1> QED
  BY <1>2, <1>8, <1>11, <1>12, <1>13 DEF Abstract!Book

\* A statement that fails drops the quote, if the request held one; the
\* other steps of a request move none.
LEMMA QuoteLapses ==
  ASSUME BookInv, NEW r \in Requests, Fail(r)
  PROVE  Abstract!Lapse
<1>1. /\ UNCHANGED <<items, req, snap, StoredOrders>> /\ pc'[r] = "failed"
      /\ \A s \in Requests \ {r} : pc'[s] = pc[s]
  BY StoredStay DEF Fail, BookInv, OrderInv, TypeOK
<1>2. QuoteHeld(r)' = NoReq
  BY <1>1 DEF QuoteHeld, HasQuote, InTransaction
<1>3. \A s \in Requests \ {r} : QuoteHeld(s)' = QuoteHeld(s)
  BY <1>1, HeldByOthers
<1>4. [s \in Requests |-> QuoteHeld(s)]' =
         [s \in Requests |-> IF s \in {r} THEN NoReq
                             ELSE [t \in Requests |-> QuoteHeld(t)][s]]
  BY <1>2, <1>3
<1> QED
  BY <1>1, <1>4 DEF Abstract!Lapse

LEMMA QuoteKept ==
  ASSUME BookInv, NEW r \in Requests,
         \/ Create(r) \/ Refuse(r) \/ InsertOrder(r) \/ InsertItem(r)
         \/ Answer(r)
  PROVE  UNCHANGED <<items, Quotes, StoredOrders>>
<1>1. UNCHANGED <<items, StoredOrders>>
  BY StoredStay DEF Create, Refuse, InsertOrder, InsertItem, Answer
<1>2. \A s \in Requests \ {r} :
         pc'[s] = pc[s] /\ req'[s] = req[s] /\ snap'[s] = snap[s]
  BY DEF Create, Refuse, InsertOrder, InsertItem, Answer, BookInv, OrderInv,
         TypeOK
<1>3. QuoteHeld(r)' = QuoteHeld(r)
  <2>1. CASE Create(r) \/ Answer(r)
    <3>1. pc[r] \notin InTransaction /\ pc'[r] \in {"idle", "begun"}
      BY <2>1 DEF Create, Answer, Answers, InTransaction, BookInv, OrderInv,
                  TypeOK
    <3> QED
      BY <3>1 DEF QuoteHeld, HasQuote, InTransaction
  <2>2. CASE Refuse(r)
    <3>1. /\ pc[r] \in {"begun", "reading"} /\ pc'[r] = "refused"
          /\ ~Orderable(View(r), NextLine(r))
      BY <2>2 DEF Refuse, BookInv, OrderInv, TypeOK
    <3>2. Len(priced[r]) + 1 \in DOMAIN req[r].lines
      <4>1. /\ req[r].lines \in RequestLines
            /\ Len(priced[r]) + 1 <= Len(req[r].lines)
            /\ Len(priced[r]) \in Nat
        BY <3>1, NextLineType DEF BookInv, OrderInv, TypeOK, Request
      <4> QED
        BY <4>1, LinesAreSequences
    <3>3. ~HasQuote(r)
      BY <3>1, <3>2 DEF HasQuote, CanServe, View, NextLine
    <3> QED
      BY <3>1, <3>3 DEF QuoteHeld, HasQuote, InTransaction
  <2>3. CASE InsertOrder(r) \/ InsertItem(r)
    <3>1. /\ pc[r] \in {"insert", "lines"} /\ pc'[r] \in {"lines", "commit"}
          /\ req' = req /\ snap' = snap
      BY <2>3 DEF InsertOrder, InsertItem, BookInv, OrderInv, TypeOK
    <3> QED
      BY <3>1 DEF QuoteHeld, HasQuote, InTransaction
  <2> QED
    BY <2>1, <2>2, <2>3
<1>4. Quotes' = Quotes
  BY <1>2, <1>3, HeldByOthers DEF Quotes
<1> QED
  BY <1>1, <1>4

LEMMA StepImplements ==
  BookInv /\ BookInv' /\ [Next]_vars => [Abstract!Next]_Abstract!vars
<1> SUFFICES ASSUME BookInv, BookInv', [Next]_vars
             PROVE  Abstract!Next \/ UNCHANGED <<items, Quotes, StoredOrders>>
  BY DEF Abstract!vars, Quotes
<1>1. CASE MenuStatement
  <2>1. items' \in Abstract!Menu
    BY SameValues DEF BookInv, OrderInv, TypeOK
  <2>2. UNCHANGED <<Quotes, StoredOrders>>
    BY <1>1, StoredStay DEF MenuStatement, orderVars, Quotes, QuoteHeld, HasQuote
  <2> QED
    BY <2>1, <2>2 DEF Abstract!Next, Abstract!ChangeMenu, Quotes
<1>2. ASSUME NEW r \in Requests, Create(r) \/ Handle(r)
      PROVE  Abstract!Next \/ UNCHANGED <<items, Quotes, StoredOrders>>
  BY <1>2, ReadLineQuotes, CommitBooks, QuoteLapses, QuoteKept
     DEF Handle, Abstract!Next
<1>3. ASSUME NEW q \in Readers,
             ListOrders(q) \/ FillItems(q) \/ EndListing(q)
      PROVE  UNCHANGED <<items, Quotes, StoredOrders>>
  BY <1>3, StoredStay DEF ListOrders, FillItems, EndListing, orderVars,
     Quotes, QuoteHeld, HasQuote
<1>4. CASE Crash
  <2>1. UNCHANGED <<items, StoredOrders>>
    BY <1>4, StoredStay DEF Crash
  <2>2. [s \in Requests |-> QuoteHeld(s)]' =
           [s \in Requests |-> IF s \in Requests THEN NoReq
                               ELSE [t \in Requests |-> QuoteHeld(t)][s]]
    BY <1>4 DEF Crash, QuoteHeld, HasQuote, InTransaction
  <2> QED
    BY <2>1, <2>2 DEF Abstract!Next, Abstract!Lapse
<1>5. CASE UNCHANGED vars
  BY <1>5, StoredStay DEF vars, orderVars, Quotes, QuoteHeld, HasQuote
<1> QED
  BY <1>1, <1>2, <1>3, <1>4, <1>5 DEF Next

LEMMA InitImplements == Init => Abstract!Init
  BY SameValues DEF Init, Abstract!Init, StoredOrders, QuoteHeld, HasQuote,
     InTransaction

\* The tables only ever show whole orders, each quoted from one menu and each
\* added in one step.
THEOREM OrderBookImplemented == Spec => ImplementsOrderBook
<1>1. Spec => Abstract!Spec
  BY InitImplements, StepImplements, BookInvHolds, PTL
     DEF Spec, Abstract!Spec
<1> QED
  BY <1>1 DEF ImplementsOrderBook
=============================================================================
