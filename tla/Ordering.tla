------------------------------ MODULE Ordering ------------------------------
(***************************************************************************)
(* POST /api/orders (OrderHandler.Create over OrderStore.Create) and       *)
(* GET /api/orders (OrderHandler.ListMine over OrderStore.ListByUser),     *)
(* interleaved statement by statement with each other and with the         *)
(* statements the menu editors commit.                                     *)
(*                                                                         *)
(* Create is one InnoDB transaction at the server's default isolation,     *)
(* REPEATABLE READ: its reads all see the committed state as of its first  *)
(* SELECT, its writes stay private until COMMIT.  ListByUser runs two      *)
(* autocommitted SELECTs, each on the state committed when it runs.        *)
(***************************************************************************)
EXTENDS Receipts

CONSTANTS Requests,  \* order requests the server handles at once
          Readers,   \* listing requests the server handles at once
          NoReq      \* the slot carries no request

VARIABLES
    items,       \* menu_items, as committed
    orders,      \* orders, as committed
    orderItems,  \* order_items, as committed
    pc,          \* where each order request is in Create
    req,         \* its order id, user and lines
    snap,        \* the menu its transaction reads
    priced,      \* Create's items
    total,       \* Create's total
    sent,        \* order_items rows inserted, not yet committed
    acked,       \* history: receipts answered with 201
    rpc,         \* where each listing request is in ListByUser
    ruser,       \* the user it lists for
    listing,     \* its orders: headers first, then complete
    due          \* history: that user's receipts when it began

orderVars == <<pc, req, snap, priced, total, sent>>
tables == <<orders, orderItems>>
readVars == <<rpc, ruser, listing, due>>
vars == <<items, tables, orderVars, acked, readVars>>

Request == [id : OrderIds, user : Users, lines : RequestLines]
ASSUME NoReqAssumption == NoReq \notin Request \cup Receipt

InTransaction == {"begun", "reading", "insert", "lines", "commit"}
Answers == {"created", "refused", "failed"}

Init ==
    /\ items \in Menu
    /\ orders = {} /\ orderItems = {} /\ acked = {}
    /\ pc = [r \in Requests |-> "idle"]
    /\ req = [r \in Requests |-> NoReq]
    /\ snap = [r \in Requests |-> EmptyMenu]
    /\ priced = [r \in Requests |-> <<>>]
    /\ total = [r \in Requests |-> 0]
    /\ sent = [r \in Requests |-> 0]
    /\ rpc = [q \in Readers |-> "idle"]
    /\ ruser \in [Readers -> Users]
    /\ listing = [q \in Readers |-> {}]
    /\ due = [q \in Readers |-> {}]

-----------------------------------------------------------------------------
(* Every statement the menu editors commit writes one menu_items row.      *)
MenuStatement ==
    /\ \E i \in ItemIds, row \in MenuRow \cup {NoRow} :
          items' = [items EXCEPT ![i] = row]
    /\ UNCHANGED <<tables, orderVars, acked, readVars>>

-----------------------------------------------------------------------------
(* POST /api/orders                                                        *)

\* Mutant: an id another request may have drawn as well.
UnstoredIds == OrderIds \ {o.id : o \in orders}
\* uuid.NewString: an id no order has and no other request has drawn.
FreshIds == OrderIds \ ({o.id : o \in orders} \cup
                {req[r].id : r \in {s \in Requests : pc[s] # "idle"}})

Create(r) ==
    /\ pc[r] = "idle"
    /\ \E id \in FreshIds, u \in Users, ls \in RequestLines :
          req' = [req EXCEPT ![r] = [id |-> id, user |-> u, lines |-> ls]]
    /\ pc' = [pc EXCEPT ![r] = "begun"]
    /\ UNCHANGED <<items, tables, snap, priced, total, sent, acked, readVars>>

\* Mutant: each SELECT outside the transaction.
ViewNow(r) == items
\* The transaction's view: taken by its first SELECT, then kept.
View(r) == IF pc[r] = "begun" THEN items ELSE snap[r]

NextLine(r) == req[r].lines[Len(priced[r]) + 1]

ReadLine(r) ==
    /\ pc[r] \in {"begun", "reading"}
    /\ Orderable(View(r), NextLine(r))
    /\ LET line == PricedLine(View(r), NextLine(r)) IN
          /\ priced' = [priced EXCEPT ![r] = Append(@, line)]
          /\ total' = [total EXCEPT ![r] = @ + Amount(line)]
    /\ snap' = [snap EXCEPT ![r] = View(r)]
    /\ pc' = [pc EXCEPT ![r] =
                 IF Len(priced[r]) + 1 = Len(req[r].lines)
                 THEN "insert" ELSE "reading"]
    /\ UNCHANGED <<items, tables, req, sent, acked, readVars>>

\* ErrMenuItemNotFound or ErrMenuItemUnavailable: rolled back, answered 400.
Refuse(r) ==
    /\ pc[r] \in {"begun", "reading"}
    /\ ~Orderable(View(r), NextLine(r))
    /\ pc' = [pc EXCEPT ![r] = "refused"]
    /\ UNCHANGED <<items, tables, req, snap, priced, total, sent, acked,
                   readVars>>

OwnHeader(r) == [id |-> req[r].id, user |-> req[r].user, total |-> total[r]]

\* Mutant: the INSERT runs outside the transaction.
InsertOrderAutocommitted(r) ==
    /\ pc[r] = "insert"
    /\ pc' = [pc EXCEPT ![r] = "lines"]
    /\ orders' = orders \cup {OwnHeader(r)}
    /\ UNCHANGED <<items, orderItems, req, snap, priced, total, sent, acked,
                   readVars>>

\* INSERT INTO orders fails outside the range of total_amount (see Fail).
InsertOrder(r) ==
    /\ pc[r] = "insert"
    /\ total[r] \in -MaxTotal..MaxTotal
    /\ pc' = [pc EXCEPT ![r] = "lines"]
    /\ UNCHANGED <<items, tables, req, snap, priced, total, sent, acked,
                   readVars>>

InsertItem(r) ==
    /\ pc[r] = "lines"
    /\ sent' = [sent EXCEPT ![r] = @ + 1]
    /\ pc' = [pc EXCEPT ![r] =
                 IF sent[r] + 1 = Len(priced[r]) THEN "commit" ELSE "lines"]
    /\ UNCHANGED <<items, tables, req, snap, priced, total, acked, readVars>>

\* Mutant: the insert loop stops one line early.
AllButLastRow(r) == LineRows(req[r].id, SubSeq(priced[r], 1, sent[r] - 1))
\* The order_items rows this transaction has inserted.
OwnRows(r) == LineRows(req[r].id, SubSeq(priced[r], 1, sent[r]))

\* COMMIT takes effect; its confirmation may be lost, then Create returns an
\* error for an order that is stored.
Commit(r) ==
    /\ pc[r] = "commit"
    /\ orders' = orders \cup {OwnHeader(r)}
    /\ orderItems' = orderItems \cup OwnRows(r)
    /\ \E answer \in {"created", "failed"} : pc' = [pc EXCEPT ![r] = answer]
    /\ UNCHANGED <<items, req, snap, priced, total, sent, acked, readVars>>

\* Any statement of the transaction fails: deferred Rollback, answered 500.
Fail(r) ==
    /\ pc[r] \in InTransaction
    /\ pc' = [pc EXCEPT ![r] = "failed"]
    /\ UNCHANGED <<items, tables, req, snap, priced, total, sent, acked,
                   readVars>>

\* The order Create returns on success, built from its own variables.
OwnReceipt(r) == WithRows(OwnHeader(r), LineRows(req[r].id, priced[r]))

Answer(r) ==
    /\ pc[r] \in Answers
    /\ acked' = IF pc[r] = "created" THEN acked \cup {OwnReceipt(r)} ELSE acked
    /\ pc' = [pc EXCEPT ![r] = "idle"]
    /\ req' = [req EXCEPT ![r] = NoReq]
    /\ snap' = [snap EXCEPT ![r] = EmptyMenu]
    /\ priced' = [priced EXCEPT ![r] = <<>>]
    /\ total' = [total EXCEPT ![r] = 0]
    /\ sent' = [sent EXCEPT ![r] = 0]
    /\ UNCHANGED <<items, tables, readVars>>

-----------------------------------------------------------------------------
(* GET /api/orders                                                         *)

\* Mutant: no WHERE user_id = ?.
OrdersOfAnyone(u) == orders
OrdersOf(u) == {h \in orders : h.user = u}

ListOrders(q) ==
    /\ rpc[q] = "idle"
    /\ \E u \in Users :
          /\ ruser' = [ruser EXCEPT ![q] = u]
          /\ due' = [due EXCEPT ![q] = {a \in acked : a.user = u}]
          /\ listing' = [listing EXCEPT ![q] =
                 {WithRows(o, {}) : o \in OrdersOf(u)}]
    /\ rpc' = [rpc EXCEPT ![q] = "headers"]
    /\ UNCHANGED <<items, tables, orderVars, acked>>

\* fillOrderItemsIn: with no order the second SELECT is skipped, to the same
\* effect.
FillItems(q) ==
    /\ rpc[q] = "headers"
    /\ listing' = [listing EXCEPT ![q] =
           {WithRows(o, RowsOf(orderItems, o.id)) : o \in @}]
    /\ rpc' = [rpc EXCEPT ![q] = "listed"]
    /\ UNCHANGED <<items, tables, orderVars, acked, ruser, due>>

\* The listing is answered, or one of the SELECTs fails and 500 is.
EndListing(q) ==
    /\ rpc[q] # "idle"
    /\ rpc' = [rpc EXCEPT ![q] = "idle"]
    /\ listing' = [listing EXCEPT ![q] = {}]
    /\ due' = [due EXCEPT ![q] = {}]
    /\ UNCHANGED <<items, tables, orderVars, acked, ruser>>

-----------------------------------------------------------------------------
(* The server process dies: MySQL rolls its open transactions back, no     *)
(* request is answered.                                                    *)
Crash ==
    /\ pc' = [r \in Requests |-> "idle"]
    /\ req' = [r \in Requests |-> NoReq]
    /\ snap' = [r \in Requests |-> EmptyMenu]
    /\ priced' = [r \in Requests |-> <<>>]
    /\ total' = [r \in Requests |-> 0]
    /\ sent' = [r \in Requests |-> 0]
    /\ rpc' = [q \in Readers |-> "idle"]
    /\ listing' = [q \in Readers |-> {}]
    /\ due' = [q \in Readers |-> {}]
    /\ UNCHANGED <<items, tables, acked, ruser>>

Handle(r) ==
    \/ ReadLine(r) \/ Refuse(r) \/ InsertOrder(r) \/ InsertItem(r)
    \/ Commit(r) \/ Fail(r) \/ Answer(r)

Next ==
    \/ MenuStatement
    \/ \E r \in Requests : Create(r) \/ Handle(r)
    \/ \E q \in Readers : ListOrders(q) \/ FillItems(q) \/ EndListing(q)
    \/ Crash

Spec == Init /\ [][Next]_vars

-----------------------------------------------------------------------------
TypeOK ==
    /\ items \in Menu
    /\ orders \subseteq Header
    /\ orderItems \subseteq LineRow
    /\ acked \subseteq Receipt
    /\ pc \in [Requests -> {"idle"} \cup InTransaction \cup Answers]
    /\ req \in [Requests -> Request \cup {NoReq}]
    /\ snap \in [Requests -> Menu]
    /\ priced \in [Requests -> Seq(OrderLine)]
    /\ total \in [Requests -> Int]
    /\ sent \in [Requests -> Nat]
    /\ rpc \in [Readers -> {"idle", "headers", "listed"}]
    /\ ruser \in [Readers -> Users]
    /\ listing \in [Readers -> SUBSET Receipt]
    /\ due \in [Readers -> SUBSET Receipt]

\* An order a client was told is created (201) stays stored exactly as it was
\* answered, whatever editors, other requests and crashes do: its row, and
\* just its lines.
ReceiptsHold ==
    \A a \in acked :
        /\ HeaderOf(a) \in orders
        /\ RowsOf(orderItems, a.id) = a.rows

\* Every stored order has lines and is worth their sum: no state of the
\* tables shows an order whose transaction stopped half way.
BooksBalance ==
    \A o \in orders :
        LET rows == RowsOf(orderItems, o.id) IN
        rows # {} /\ o.total = SumOf(rows)

\* Although ListByUser reads its two tables at different moments, what it
\* lists are whole orders of that user: each acknowledged one it had when the
\* call began, none altered since it was acknowledged, none half written.
ListingsAgree ==
    \A q \in Readers : rpc[q] = "listed" =>
        /\ due[q] \subseteq listing[q]
        /\ \A o \in listing[q] :
              /\ o.user = ruser[q]
              /\ o.total = SumOf(o.rows) /\ o.rows # {}
              /\ \A a \in acked : a.id = o.id => a = o

-----------------------------------------------------------------------------
(* The inductive invariant that carries ReceiptsHold.                      *)

Active(r) == pc[r] # "idle"

\* An id names at most one order: one that is being handled or one that is
\* stored, and an order that is not stored has no lines.
IdsApart ==
    /\ \A r, s \in Requests :
          r # s /\ Active(r) /\ Active(s) => req[r].id # req[s].id
    /\ \A r \in Requests : pc[r] \in InTransaction =>
          \A o \in orders : o.id # req[r].id
    /\ \A row \in orderItems : \E o \in orders : o.id = row.order

\* How far Create has come at each statement.
Progress == \A r \in Requests :
    /\ pc[r] = "idle" => priced[r] = <<>> /\ sent[r] = 0
    /\ Active(r) => req[r] \in Request
    /\ pc[r] = "begun" => Len(priced[r]) = 0
    /\ pc[r] \in {"begun", "reading"} => Len(priced[r]) < Len(req[r].lines)
    /\ pc[r] \in {"begun", "reading", "insert"} => sent[r] = 0
    /\ pc[r] \in {"insert", "lines", "commit"} =>
          Len(priced[r]) = Len(req[r].lines)
    /\ pc[r] = "lines" => sent[r] < Len(priced[r])
    /\ pc[r] = "commit" => sent[r] = Len(priced[r])

\* What is about to be answered 201 is stored.
CreatedIsStored == \A r \in Requests : pc[r] = "created" =>
    /\ OwnHeader(r) \in orders
    /\ RowsOf(orderItems, req[r].id) = LineRows(req[r].id, priced[r])
    /\ Len(priced[r]) <= MaxLines

\* Inductive: no statement of any request, editor, listing or crash leads out
\* of it.
OrderInv == TypeOK /\ IdsApart /\ Progress /\ CreatedIsStored /\ ReceiptsHold

-----------------------------------------------------------------------------
(* And the one that carries BooksBalance, ListingsAgree and the step of    *)
(* OrderRefinement that books a quote.                                     *)

\* Create's items are what its snapshot says of the lines read so far, and
\* its running total is what their rows are worth.
QuotedFromSnap == \A r \in Requests :
    /\ pc[r] = "idle" => total[r] = 0
    /\ pc[r] \in InTransaction =>
          /\ total[r] = SumOf(LineRows(req[r].id, priced[r]))
          /\ \A k \in 1..Len(priced[r]) :
                /\ Orderable(snap[r], req[r].lines[k])
                /\ priced[r][k] = PricedLine(snap[r], req[r].lines[k])

OrdersApart == \A o, p \in orders : o.id = p.id => o = p

\* A listing under way has found stored orders of its user, every one that
\* was due among them; after the second SELECT it has their rows.
ListingsSound == \A q \in Readers :
    /\ rpc[q] # "idle" =>
          /\ due[q] \subseteq acked
          /\ \A o \in listing[q] : HeaderOf(o) \in orders /\ o.user = ruser[q]
          /\ \A a \in due[q] : \E o \in listing[q] : o.id = a.id
    /\ rpc[q] = "listed" =>
          \A o \in listing[q] : o.rows = RowsOf(orderItems, o.id)

\* Inductive as well: every order the tables show was quoted from one menu.
BookInv ==
    /\ OrderInv /\ QuotedFromSnap /\ OrdersApart /\ BooksBalance
    /\ ListingsSound
=============================================================================
