-------------------------- MODULE OrderRefinement ---------------------------
(***************************************************************************)
(* Ordering implements OrderBook.  From its first SELECT on, a request     *)
(* holds the quote its snapshot decides, although it has yet to read the   *)
(* other lines; COMMIT books that quote in one step.                       *)
(***************************************************************************)
EXTENDS Ordering

HasQuote(r) ==
    /\ pc[r] \in InTransaction \ {"begun"}
    /\ CanServe(snap[r], req[r].lines)

QuoteHeld(r) ==
    IF HasQuote(r)
    THEN QuoteOn(snap[r], req[r].id, req[r].user, req[r].lines)
    ELSE NoReq

StoredOrders == {WithRows(o, RowsOf(orderItems, o.id)) : o \in orders}

Abstract == INSTANCE OrderBook
              WITH NoQuote <- NoReq,
                   quote <- [r \in Requests |-> QuoteHeld(r)],
                   book <- StoredOrders

\* What the tables show at any moment are whole orders, each priced from one
\* state the menu had while its request was handled, and each added in one
\* step.
ImplementsOrderBook == Abstract!Spec
=============================================================================
