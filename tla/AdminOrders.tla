---------------------------- MODULE AdminOrders -----------------------------
(***************************************************************************)
(* GET /api/admin/orders: OrderStore.List counts, selects one page and     *)
(* fills in its lines, in three statements outside any transaction, while  *)
(* orders are being placed.  A client goes from page to page with it, or   *)
(* asks for any page.                                                      *)
(*                                                                         *)
(* A stored order never changes and is never deleted, so a filter (part of *)
(* a user's or an item's name, a time span) is the set of orders it lets   *)
(* through, and filling in lines adds nothing that could differ.  An order *)
(* is dated when Create begins and appears when it commits, to the second: *)
(* orders of one second come in any order, another one in each SELECT.     *)
(***************************************************************************)
EXTENDS Integers, FiniteSets, Functions

CONSTANTS Orders,           \* orders that may be placed
          Pages, Sizes,     \* what clients give as page and pageSize
          Filters,          \* sets of orders filters let through
          MaxTime,          \* bound: the clock, in seconds, stops here
          MaxPageSize,      \* the largest page: 100
          DefaultPageSize,  \* the page of a size out of range: 20
          MaxInt,           \* of Go's int: 2^63 - 1
          None              \* not dated yet

ASSUME ListConstants ==
    /\ IsFiniteSet(Orders) /\ Cardinality(Orders) < MaxInt
    /\ Pages \cup Sizes \subseteq -1..MaxInt /\ Filters \subseteq SUBSET Orders
    /\ MaxTime \in Nat /\ MaxInt \in Nat
    /\ MaxPageSize \in 1..MaxInt /\ DefaultPageSize \in 1..MaxPageSize
    /\ None \notin 0..MaxTime

VARIABLES
    now,      \* the clock
    created,  \* created_at of each order
    stored,   \* orders committed
    pc,       \* where the client's request is in List
    query,    \* the client's page, pageSize and filter
    total,    \* what COUNT said
    shown,    \* the orders of the page
    totalPages, \* what it is answered with beside them and total
    walk,     \* the client goes from page to page
    old,      \* history: orders its filter let through when it set out
    found,    \* history: orders it has been shown on the way
    quiet     \* history: nothing committed since the request came

requestVars == <<pc, query, total, shown, totalPages>>
walkVars == <<walk, old, found>>
vars == <<now, created, stored, requestVars, walkVars, quiet>>

Times == 0..MaxTime

\* parsePage makes 0 of what is no number, and the largest int of a number
\* too large.
Query == [page : -1..MaxInt, size : -1..MaxInt, filter : SUBSET Orders]
NoQuery == [page |-> 1, size |-> DefaultPageSize, filter |-> {}]

\* List's corrections of page and pageSize.
Page(q) == IF q.page < 1 THEN 1 ELSE q.page
PageSize(q) ==
    IF q.size < 1 \/ q.size > MaxPageSize THEN DefaultPageSize ELSE q.size

\* Two's complement.
Wrapped(n) == ((n + MaxInt + 1) % (2 * (MaxInt + 1))) - (MaxInt + 1)
\* Mutant: pages counted from nought.
OffsetFromZero(q) == Wrapped(Page(q) * PageSize(q))
Offset(q) == Wrapped((Page(q) - 1) * PageSize(q))

\* Mutant: rounded down.
WholePages(n, size) == n \div size
TotalPages(n, size) == (n + size - 1) \div size

Init ==
    /\ now = 0
    /\ created = [o \in Orders |-> None]
    /\ stored = {}
    /\ pc = "idle"
    /\ query = NoQuery
    /\ total = 0 /\ shown = {} /\ totalPages = 0
    /\ walk = "none" /\ old = {} /\ found = {}
    /\ quiet = TRUE

Matching(q) == stored \cap q.filter

-----------------------------------------------------------------------------
(* Orders are placed                                                       *)

\* OrderStore.Create draws created_at ...
Begin(o) ==
    /\ created[o] = None
    /\ created' = [created EXCEPT ![o] = now]
    /\ UNCHANGED <<now, stored, requestVars, walkVars, quiet>>

\* ... and commits.
Commit(o) ==
    /\ created[o] # None /\ o \notin stored
    /\ stored' = stored \cup {o}
    /\ quiet' = (pc = "idle")
    /\ UNCHANGED <<now, created, requestVars, walkVars>>

Tick ==
    /\ now < MaxTime
    /\ now' = now + 1
    /\ UNCHANGED <<created, stored, requestVars, walkVars, quiet>>

-----------------------------------------------------------------------------
(* List                                                                    *)

\* A request for any page; one on its way gives that up.
Ask ==
    /\ pc = "idle"
    /\ query' \in [page : Pages, size : Sizes, filter : Filters]
    /\ walk' = "none" /\ old' = {} /\ found' = {}
    /\ pc' = "count"
    /\ UNCHANGED <<now, created, stored, total, shown, totalPages, quiet>>

\* The client sets out from the first page.
SetOut ==
    /\ pc = "idle" /\ walk # "going"
    /\ query' \in [page : {1}, size : Sizes, filter : Filters]
    /\ old' = stored \cap query'.filter
    /\ walk' = "going" /\ found' = {}
    /\ pc' = "count"
    /\ UNCHANGED <<now, created, stored, total, shown, totalPages, quiet>>

Count ==
    /\ pc = "count"
    /\ total' = Cardinality(Matching(query))
    /\ pc' = "select"
    /\ UNCHANGED <<now, created, stored, query, shown, totalPages, walkVars,
                   quiet>>

\* Mutant: no ORDER BY.
AnyRankings(M) == Bijection(M, 1..Cardinality(M))
\* The orders ORDER BY created_at DESC may give M.
Rankings(M) ==
    {rank \in Bijection(M, 1..Cardinality(M)) :
        \A x, y \in M : created[x] > created[y] => rank[x] < rank[y]}

\* LIMIT and OFFSET.  Nothing found: List returns at once, with totalPages 0
\* whatever COUNT said.
Select ==
    /\ pc = "select"
    /\ Offset(query) >= 0
    /\ \E rank \in Rankings(Matching(query)) :
          shown' = {o \in Matching(query) :
                      /\ Offset(query) < rank[o]
                      /\ rank[o] <= Offset(query) + PageSize(query)}
    /\ IF shown' = {}
       THEN pc' = "answered" /\ totalPages' = 0
       ELSE pc' = "fill" /\ UNCHANGED totalPages
    /\ UNCHANGED <<now, created, stored, query, total, walkVars, quiet>>

\* fillOrderItemsIn, and how many pages total makes.
Fill ==
    /\ pc = "fill"
    /\ pc' = "answered"
    /\ totalPages' = TotalPages(total, PageSize(query))
    /\ UNCHANGED <<now, created, stored, query, total, shown, walkVars, quiet>>

\* Nothing is left of the request's local variables.
Forget == total' = 0 /\ shown' = {} /\ totalPages' = 0 /\ quiet' = TRUE
Over == pc' = "idle" /\ query' = NoQuery /\ Forget

\* 500: a statement fails, as one with a negative offset does.
Fail ==
    /\ pc \in {"count", "select", "fill"}
    /\ Over
    /\ walk' = "none" /\ old' = {} /\ found' = {}
    /\ UNCHANGED <<now, created, stored>>

\* The client has what it asked for.
TakePage ==
    /\ pc = "answered" /\ walk # "going"
    /\ Over
    /\ UNCHANGED <<now, created, stored, walkVars>>

\* On its way it asks for the page after a full one.  The first that is not
\* full is the last.
TurnPage ==
    /\ pc = "answered" /\ walk = "going"
    /\ found' = found \cup shown
    /\ IF Cardinality(shown) < PageSize(query)
       THEN walk' = "done" /\ Over
       ELSE /\ query' = [query EXCEPT !.page = @ + 1]
            /\ pc' = "count" /\ Forget
            /\ UNCHANGED walk
    /\ UNCHANGED <<now, created, stored, old>>

Next ==
    \/ \E o \in Orders : Begin(o) \/ Commit(o)
    \/ Tick
    \/ Ask \/ SetOut \/ Count \/ Select \/ Fill \/ Fail \/ TakePage \/ TurnPage

Spec == Init /\ [][Next]_vars

-----------------------------------------------------------------------------
TypeOK ==
    /\ now \in Times
    /\ created \in [Orders -> Times \cup {None}]
    /\ stored \subseteq Orders
    /\ \A o \in stored : created[o] # None
    /\ pc \in {"idle", "count", "select", "fill", "answered"}
    /\ query \in Query
    /\ total \in Nat /\ totalPages \in Nat
    /\ shown \subseteq Orders
    /\ walk \in {"none", "going", "done"}
    /\ old \subseteq Orders /\ found \subseteq Orders
    /\ quiet \in BOOLEAN

\* No other order is dated the same second.
Alone(o) == \A x \in Orders \ {o} : created[x] # created[o]

\* Orders placed during a walk push the others towards later pages, where it
\* still comes: it meets every order that was there when it set out, unless
\* another one shares its second.
WalkMissesNothing == walk = "done" =>
    \A o \in old : Alone(o) => o \in found

\* How many orders the pages before this one hold.
Before(q) == (Page(q) - 1) * PageSize(q)

\* What List answers as total and totalPages fits the page it answers, though
\* COUNT and SELECT are two statements and orders are placed in between: a
\* page that is not the last is full, the last has at least what is over, an
\* empty one lies past total; and if nothing was placed since the request
\* came, its page is one of them and the last has no more than that.  (The
\* totalPages of an empty page counts nothing, so nothing is said of it; the
\* offset must fit an int.)
MetadataAgrees ==
    LET size == PageSize(query)
        over == total - Before(query)
    IN  pc = "answered" /\ Before(query) <= MaxInt =>
          /\ shown = {} => over <= 0
          /\ shown # {} =>
                /\ Page(query) < totalPages => Cardinality(shown) = size
                /\ Page(query) = totalPages => Cardinality(shown) >= over
          /\ shown # {} /\ quiet =>
                /\ Page(query) <= totalPages
                /\ Page(query) = totalPages => Cardinality(shown) = over

-----------------------------------------------------------------------------
(* The inductive invariant.                                                *)

Newer(o) == {x \in Matching(query) : created[x] > created[o]}

\* The page a walk has fetched has all its orders.
FullPage ==
    pc \in {"fill", "answered"} /\ Cardinality(shown) >= PageSize(query)

\* Offsets of a walk stay within the orders there are: none overflows.
WalkFits == walk = "going" =>
    /\ pc # "idle" /\ query.page >= 1
    /\ Before(query) <= Cardinality(Matching(query))
    /\ FullPage =>
          Before(query) + PageSize(query) <= Cardinality(Matching(query))

\* What a walk has yet to meet lies after the pages it has turned, and, once
\* it has this one, on it or after it.
StillAhead(o) ==
    IF pc \in {"fill", "answered"}
    THEN \/ o \in shown
         \/ /\ FullPage
            /\ Cardinality(Newer(o)) >= Before(query) + PageSize(query)
    ELSE Cardinality(Newer(o)) >= Before(query)

Ahead == walk = "going" => \A o \in old :
    /\ o \in Matching(query)
    /\ Alone(o) /\ o \notin found => StillAhead(o)

\* The walk's part.
WalkInv ==
    /\ TypeOK /\ old \subseteq stored
    /\ WalkFits /\ Ahead /\ WalkMissesNothing

\* How many of n orders this page's offset and size cut out.
Cut(n) ==
    LET after == n - Before(query)
    IN  IF after < 0 THEN 0
        ELSE IF after < PageSize(query) THEN after ELSE PageSize(query)

\* SELECT sees what COUNT has counted, and what was placed since.
CountedFirst ==
    /\ pc = "select" => total <= Cardinality(Matching(query))
    /\ pc \in {"fill", "answered"} /\ Before(query) <= MaxInt =>
          Cardinality(shown) \in Cut(total)..PageSize(query)

\* As long as nothing commits, both see the same orders.
Undisturbed == quiet =>
    /\ pc = "select" => total = Cardinality(Matching(query))
    /\ pc \in {"fill", "answered"} /\ Before(query) <= MaxInt =>
          Cardinality(shown) = Cut(total)

\* What Fill has made of total is answered.
Reported == pc = "answered" /\ shown # {} =>
    totalPages = TotalPages(total, PageSize(query))

\* Inductive: no order placed, page turned or statement failed leads out.
ListInv == WalkInv /\ CountedFirst /\ Undisturbed /\ Reported
=============================================================================
