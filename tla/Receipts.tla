------------------------------ MODULE Receipts ------------------------------
(***************************************************************************)
(* The values an order is made of: menu rows as OrderStore.Create selects  *)
(* them, the lines of a request, the order_items rows that snapshot them,  *)
(* and the receipt (model.Order) a client gets back.  Money is counted in  *)
(* the cents of DECIMAL(10,2).                                             *)
(***************************************************************************)
EXTENDS Integers, Sequences, FiniteSets, FiniteSetsExt

CONSTANTS Users,       \* users.id
          ItemIds,     \* menu_items.id
          OrderIds,    \* orders.id: the UUIDs Create may draw
          Prices,      \* menu_items.price; UpdateItem admits negative ones
          Quantities,  \* quantities a request may ask for
          MaxLines,    \* bound: lines of one request
          MaxTotal,    \* largest value of orders.total_amount
          NoRow        \* no menu_items row under this id

ASSUME PriceAssumption == Prices \subseteq Int
ASSUME QuantityAssumption == Quantities \subseteq Nat \ {0}
ASSUME BoundAssumption == MaxLines \in Nat \ {0} /\ MaxTotal \in Nat

-----------------------------------------------------------------------------
\* menu_items.name is selected, copied and inserted together with price:
\* price stands for both.
MenuRow == [price : Prices, available : BOOLEAN]
Menu == [ItemIds -> MenuRow \cup {NoRow}]
EmptyMenu == [i \in ItemIds |-> NoRow]

ASSUME NoRowAssumption == NoRow \notin MenuRow

\* CreateOrderRequest.Items: at least one line (binding min=1), an item may
\* appear on several lines.
RequestLine == [item : ItemIds, quantity : Quantities]
RequestLines == UNION {[1..n -> RequestLine] : n \in 1..MaxLines}

\* model.OrderItem without its own id: the price is copied from the row.
OrderLine == [item : ItemIds, price : Prices, quantity : Quantities]

Orderable(menu, line) ==
    /\ menu[line.item] # NoRow
    /\ menu[line.item].available

PricedLine(menu, line) ==
    [item |-> line.item, price |-> menu[line.item].price,
     quantity |-> line.quantity]

Amount(line) == line.price * line.quantity

\* order_items rows: the position n stands for the row's own UUID.
LineRow == [order : OrderIds, n : 1..MaxLines, line : OrderLine]
LineRows(id, lines) ==
    {[order |-> id, n |-> k, line |-> lines[k]] : k \in DOMAIN lines}

RowsOf(table, id) == {row \in table : row.order = id}

SumOf(rows) == MapThenSumSet(LAMBDA row : Amount(row.line), rows)

\* orders rows, and the order a client sees: the row with its order_items.
Header == [id : OrderIds, user : Users, total : Int]
Receipt == [id : OrderIds, user : Users, total : Int, rows : SUBSET LineRow]
HeaderOf(o) == [id |-> o.id, user |-> o.user, total |-> o.total]
WithRows(o, rows) ==
    [id |-> o.id, user |-> o.user, total |-> o.total, rows |-> rows]

\* The receipt of an order for these lines at the prices of one menu.
QuoteOn(menu, id, u, lines) ==
    LET rows == LineRows(id, [k \in DOMAIN lines |->
                                 PricedLine(menu, lines[k])])
    IN  [id |-> id, user |-> u, total |-> SumOf(rows), rows |-> rows]

CanServe(menu, lines) == \A k \in DOMAIN lines : Orderable(menu, lines[k])
=============================================================================
