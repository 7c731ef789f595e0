----------------------------- MODULE OrderBook ------------------------------
(***************************************************************************)
(* What placing an order promises, without statements or transactions:     *)
(* the whole order is quoted from one state of the menu, at one moment     *)
(* while the request is being handled, and then booked whole or not at     *)
(* all.  A booked order never changes.                                     *)
(***************************************************************************)
EXTENDS Receipts

CONSTANTS Requests, NoQuote

VARIABLES items,   \* the menu
          quote,   \* the receipt a request may book
          book     \* the booked receipts

vars == <<items, quote, book>>

Init ==
    /\ items \in Menu
    /\ quote = [r \in Requests |-> NoQuote]
    /\ book = {}

ChangeMenu ==
    /\ items' \in Menu
    /\ UNCHANGED <<quote, book>>

\* Quoted from the menu as it is now; unused order id.
Quote(r) ==
    /\ quote[r] = NoQuote
    /\ \E id \in OrderIds \ {o.id : o \in book},
          u \in Users, lines \in RequestLines :
          /\ CanServe(items, lines)
          /\ quote' = [quote EXCEPT ![r] = QuoteOn(items, id, u, lines)]
    /\ UNCHANGED <<items, book>>

\* Booked unless another request has taken the id.
Book(r) ==
    /\ quote[r] # NoQuote
    /\ \A o \in book : o.id # quote[r].id
    /\ book' = book \cup {quote[r]}
    /\ quote' = [quote EXCEPT ![r] = NoQuote]
    /\ UNCHANGED items

\* Quotes lapse: one after an error, all of them in a crash.
Lapse ==
    /\ \E S \in SUBSET Requests :
          quote' = [r \in Requests |-> IF r \in S THEN NoQuote ELSE quote[r]]
    /\ UNCHANGED <<items, book>>

Next ==
    \/ ChangeMenu
    \/ \E r \in Requests : Quote(r) \/ Book(r)
    \/ Lapse

Spec == Init /\ [][Next]_vars
=============================================================================
