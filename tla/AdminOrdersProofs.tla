------------------------- MODULE AdminOrdersProofs --------------------------
(***************************************************************************)
(* For any number of orders and seconds and any page size: a walk through  *)
(* the pages of GET /api/admin/orders meets every order that was there     *)
(* when it set out and shares its second with no other.  The argument      *)
(* counts: an order's rank is one more than the number of newer ones,      *)
(* which commits only push up, and a page cuts consecutive ranks.          *)
(***************************************************************************)
EXTENDS AdminOrders, FiniteSetTheorems, FunctionTheorems, TLAPS

-----------------------------------------------------------------------------
(* Arithmetic                                                              *)

LEMMA NextPage == ASSUME NEW p \in Int, NEW s \in Int
                  PROVE  ((p + 1) - 1) * s = (p - 1) * s + s
  OBVIOUS

LEMMA PagesAreLong == ASSUME NEW p \in Nat, NEW s \in Nat \ {0}
                      PROVE  p * s \in Nat /\ p <= p * s
<1>1. PICK d \in Nat : s = d + 1
      BY SMT
<1>2. p * s = p * d + p
      BY <1>1
<1>3. p * d \in Nat
      BY <1>1
<1> QED BY <1>2, <1>3

\* An offset that fits an int is what it says.
LEMMA NotWrapped == ASSUME NEW n \in 0..MaxInt PROVE Wrapped(n) = n
<1>1. MaxInt \in Nat
      BY ListConstants
<1> DEFINE m == 2 * (MaxInt + 1)
           k == n + MaxInt + 1
<1>2. m \in Nat \ {0} /\ k \in 0..(m - 1)
      BY <1>1
<1> HIDE DEF m, k
<1>3. k % m = k
      BY <1>2
<1> QED BY <1>1, <1>3 DEF Wrapped, m, k

LEMMA SizeInRange == ASSUME NEW q \in Query
                     PROVE  PageSize(q) \in 1..MaxPageSize /\ PageSize(q) \in Nat \ {0}
  BY ListConstants DEF Query, PageSize

-----------------------------------------------------------------------------
(* Ranks                                                                   *)

LEMMA BijectionOnto ==
    ASSUME NEW M, NEW T, NEW rank \in Bijection(M, T)
    PROVE  /\ rank \in [M -> T]
           /\ \A x, y \in M : rank[x] = rank[y] => x = y
  BY Fun_BijectionProperties, Zenon

LEMMA SegmentLength ==
    ASSUME NEW a \in Nat, NEW b \in Nat, a <= b
    PROVE  IsFiniteSet((a + 1)..b) /\ Cardinality((a + 1)..b) = b - a
<1> DEFINE c == a + 1
<1>1. c \in Int /\ b \in Int
      OBVIOUS
<1> HIDE DEF c
<1>2. IsFiniteSet(c..b) /\ Cardinality(c..b) = IF c > b THEN 0 ELSE b - c + 1
      BY <1>1, FS_Interval, Zenon
<1> QED BY <1>1, <1>2 DEF c

\* A bijection onto 1..n takes as many orders to a segment as it is long.
LEMMA Segment ==
    ASSUME NEW M, NEW n \in Nat, NEW rank \in Bijection(M, 1..n),
           NEW a \in Nat, NEW b \in Nat, a <= b, b <= n,
           NEW cut, cut = {o \in M : a < rank[o] /\ rank[o] <= b}
    PROVE  IsFiniteSet(cut) /\ Cardinality(cut) = b - a
<1> DEFINE ranks == 1..n
           f == [o \in cut |-> rank[o]]
<1>1. /\ rank \in [M -> 1..n]
      /\ \A x, y \in M : rank[x] = rank[y] => x = y
      /\ \A i \in 1..n : \E o \in M : rank[o] = i
  <2>1. rank \in Bijection(M, ranks)
        OBVIOUS
  <2> HIDE DEF ranks
  <2>2. /\ rank \in [M -> ranks]
        /\ \A x, y \in M : rank[x] = rank[y] => x = y
        BY <2>1, BijectionOnto, Zenon
  <2>3. \A i \in ranks : \E o \in M : rank[o] = i
        BY <2>1 DEF Bijection, Surjection
  <2> QED BY <2>2, <2>3 DEF ranks
<1>2. f \in [cut -> (a + 1)..b]
      BY <1>1
<1>3. \A x, y \in cut : f[x] = f[y] => x = y
      BY <1>1
<1>4. \A i \in (a + 1)..b : \E o \in cut : f[o] = i
      BY <1>1
<1> HIDE DEF f
<1>5. f \in Bijection(cut, (a + 1)..b)
      BY <1>2, <1>3, <1>4, Fun_IsBij
<1>6. ExistsBijection((a + 1)..b, cut)
      BY <1>5, Fun_ExistsBij, Fun_ExistsBijSymmetric
<1>7. IsFiniteSet((a + 1)..b) /\ Cardinality((a + 1)..b) = b - a
      BY SegmentLength
<1> QED BY <1>6, <1>7, FS_Bijection

\* Stored orders are finitely many.
LEMMA MatchingFinite ==
    ASSUME WalkInv
    PROVE  /\ IsFiniteSet(Matching(query)) /\ Matching(query) \subseteq Orders
           /\ Cardinality(Matching(query)) \in Nat
           /\ Cardinality(Matching(query)) < MaxInt
<1>1. Matching(query) \subseteq Orders
      BY DEF WalkInv, TypeOK, Matching
<1> QED BY <1>1, ListConstants, FS_Subset, FS_CardinalityType

LEMMA NewerFinite ==
    ASSUME WalkInv, NEW o
    PROVE  IsFiniteSet(Newer(o)) /\ Cardinality(Newer(o)) \in Nat
  BY MatchingFinite, FS_Subset, FS_CardinalityType DEF Newer

\* Whatever order ORDER BY gives, one with a second of its own comes right
\* after the newer ones.
LEMMA RankOfAlone ==
    ASSUME WalkInv, NEW o \in Matching(query), Alone(o),
           NEW rank \in Rankings(Matching(query))
    PROVE  rank[o] = Cardinality(Newer(o)) + 1
<1> DEFINE M == Matching(query)
           n == Cardinality(M)
<1>1. M \subseteq Orders /\ n \in Nat
      BY MatchingFinite
<1>2. rank \in Bijection(M, 1..n)
      BY DEF Rankings
<1>3. /\ rank \in [M -> 1..n]
      /\ \A x, y \in M : rank[x] = rank[y] => x = y
  <2> DEFINE ranks == 1..n
  <2>1. rank \in Bijection(M, ranks)
        BY <1>2
  <2> HIDE DEF ranks, M
  <2>2. /\ rank \in [M -> ranks]
        /\ \A x, y \in M : rank[x] = rank[y] => x = y
        BY <2>1, BijectionOnto, Zenon
  <2> QED BY <2>2 DEF ranks
<1>4. \A x \in M : created[x] \in Int
      BY ListConstants DEF WalkInv, TypeOK, Matching, Times
<1>5. \A x \in M \ {o} : created[x] # created[o]
      BY <1>1 DEF Alone
<1>6. \A x, y \in M : created[x] > created[y] => rank[x] < rank[y]
      BY DEF Rankings
<1>7. \A x \in M : created[x] > created[o] <=> rank[x] < rank[o]
  <2> TAKE x \in M
  <2>1. rank[x] \in Int /\ rank[o] \in Int
        BY <1>3
  <2>2. CASE x = o
        BY <2>1, <2>2, <1>4
  <2>3. CASE x # o
    <3>1. created[x] > created[o] \/ created[o] > created[x]
          BY <2>3, <1>4, <1>5
    <3> QED BY <3>1, <2>1, <1>4, <1>6
  <2> QED BY <2>2, <2>3
<1> DEFINE b == rank[o] - 1
<1>8. b \in Nat /\ b <= n
      BY <1>1, <1>3
<1>9. Newer(o) = {x \in M : 0 < rank[x] /\ rank[x] <= b}
  <2>1. \A x \in M : created[x] > created[o] <=> 0 < rank[x] /\ rank[x] <= b
        BY <1>1, <1>3, <1>7
  <2> QED BY <2>1 DEF Newer
<1> HIDE DEF b, M
<1>10. Cardinality(Newer(o)) = b - 0
       BY <1>1, <1>2, <1>8, <1>9, Segment
<1> QED BY <1>3, <1>8, <1>10 DEF b, M

-----------------------------------------------------------------------------
(* Orders are placed                                                       *)

LEMMA ListInitially == Init => WalkInv
<1> SUFFICES ASSUME Init PROVE WalkInv
    OBVIOUS
<1>1. TypeOK
      BY ListConstants DEF Init, TypeOK, Times, Query, NoQuery
<1> QED BY <1>1 DEF Init, WalkInv, WalkFits, Ahead, WalkMissesNothing

\* Placing orders dates no stored order anew and takes none away: what was
\* newer than an order stays so.
LEMMA Placing ==
    ASSUME WalkInv, TypeOK', UNCHANGED <<requestVars, walkVars>>,
           stored \subseteq stored',
           \A x \in Orders : created[x] # None => created'[x] = created[x]
    PROVE  WalkInv'
<1> USE DEF WalkInv, requestVars, walkVars
<1>1. \A o \in stored : created[o] # None /\ created'[o] = created[o]
      BY DEF TypeOK
<1>2. \A o \in old : Alone(o)' => Alone(o)
      BY <1>1 DEF Alone, TypeOK
<1>3. Matching(query) \subseteq Matching(query)'
      BY DEF Matching
<1>4. IsFiniteSet(Matching(query)') /\ Cardinality(Matching(query)') \in Nat
  <2>1. Matching(query)' \subseteq Orders
        BY DEF Matching, TypeOK
  <2> QED BY <2>1, ListConstants, FS_Subset, FS_CardinalityType
<1>5. Cardinality(Matching(query)) <= Cardinality(Matching(query)')
      BY <1>3, <1>4, FS_Subset
<1>6. ASSUME NEW o \in old
      PROVE  /\ Cardinality(Newer(o)) \in Nat
             /\ Cardinality(Newer(o)') \in Nat
             /\ Cardinality(Newer(o)) <= Cardinality(Newer(o)')
  <2>1. Newer(o)' \subseteq Matching(query)'
        BY DEF Newer
  <2>2. Newer(o) \subseteq Newer(o)'
        BY <1>1, <1>3 DEF Newer, Matching
  <2>3. IsFiniteSet(Newer(o)') /\ Cardinality(Newer(o)') \in Nat
        BY <2>1, <1>4, FS_Subset, FS_CardinalityType
  <2> QED BY <2>2, <2>3, NewerFinite, FS_Subset
<1>7. /\ Cardinality(Matching(query)) \in Nat
      /\ Before(query) \in Int /\ PageSize(query) \in Int
      BY MatchingFinite, ListConstants
         DEF Before, Page, PageSize, TypeOK, Query
<1>8. WalkFits'
      BY <1>4, <1>5, <1>7 DEF WalkFits, FullPage, Before, Page, PageSize
<1>9. ASSUME walk = "going", NEW o \in old, Alone(o)', o \notin found
      PROVE  StillAhead(o)'
  <2>1. StillAhead(o)
        BY <1>2, <1>9 DEF Ahead
  <2>2. /\ Before(query)' = Before(query) /\ PageSize(query)' = PageSize(query)
        /\ FullPage' = FullPage
        BY DEF Before, Page, PageSize, FullPage
  <2> QED BY <2>1, <2>2, <1>6, <1>7 DEF StillAhead
<1>10. Ahead'
       BY <1>3, <1>9 DEF Ahead
<1>11. WalkMissesNothing'
       BY <1>2 DEF WalkMissesNothing
<1> QED BY <1>8, <1>10, <1>11

LEMMA PlacingSteps ==
    ASSUME WalkInv, Tick \/ \E o \in Orders : Begin(o) \/ Commit(o)
    PROVE  WalkInv'
<1> USE ListConstants DEF WalkInv
<1>1. ASSUME NEW o \in Orders, Begin(o) PROVE WalkInv'
  <2>1. TypeOK'
        BY <1>1 DEF Begin, TypeOK, Times, requestVars, walkVars
  <2>2. \A x \in Orders : created[x] # None => created'[x] = created[x]
        BY <1>1 DEF Begin, TypeOK
  <2> QED BY <1>1, <2>1, <2>2, Placing DEF Begin
<1>2. ASSUME NEW o \in Orders, Commit(o) PROVE WalkInv'
  <2>1. TypeOK'
        BY <1>2 DEF Commit, TypeOK, requestVars, walkVars
  <2> QED BY <1>2, <2>1, Placing DEF Commit
<1>3. ASSUME Tick PROVE WalkInv'
  <2>1. TypeOK'
        BY <1>3 DEF Tick, TypeOK, Times, requestVars, walkVars
  <2> QED BY <1>3, <2>1, Placing DEF Tick
<1> QED BY <1>1, <1>2, <1>3

-----------------------------------------------------------------------------
(* List and its client                                                     *)

\* A client that is not under way has met what it set out for.
LEMMA AtRest ==
    ASSUME WalkInv, TypeOK', UNCHANGED <<created, stored>>, walk' # "going",
           \/ UNCHANGED walkVars
           \/ walk' = "none" /\ old' = {}
    PROVE  WalkInv'
<1>1. old' \subseteq stored'
      BY DEF WalkInv, walkVars
<1>2. WalkMissesNothing'
      BY DEF WalkInv, walkVars, WalkMissesNothing, Alone
<1> QED BY <1>1, <1>2 DEF WalkInv, WalkFits, Ahead

LEMMA AskStep == ASSUME WalkInv, Ask PROVE WalkInv'
<1>1. TypeOK'
      BY ListConstants DEF WalkInv, TypeOK, Ask, Query
<1> QED BY <1>1, AtRest DEF Ask

LEMMA FailStep == ASSUME WalkInv, Fail PROVE WalkInv'
<1>1. TypeOK'
      BY ListConstants DEF WalkInv, TypeOK, Fail, Over, Forget, Query, NoQuery
<1> QED BY <1>1, AtRest DEF Fail

LEMMA TakePageStep == ASSUME WalkInv, TakePage PROVE WalkInv'
<1>1. TypeOK'
      BY ListConstants
         DEF WalkInv, TypeOK, TakePage, Over, Forget, Query, NoQuery, walkVars
<1> QED BY <1>1, AtRest DEF TakePage, walkVars

LEMMA SetOutStep == ASSUME WalkInv, SetOut PROVE WalkInv'
<1> USE DEF WalkInv
<1>1. TypeOK'
      BY ListConstants DEF TypeOK, SetOut, Query
<1>2. /\ pc' = "count" /\ query' \in Query /\ query'.page = 1
      /\ old' = stored' \cap query'.filter /\ found' = {}
      BY <1>1 DEF SetOut, TypeOK
<1>3. Before(query)' = 0
  <2>1. PageSize(query') \in Nat
        BY <1>2, SizeInRange
  <2> QED BY <1>2, <2>1 DEF Before, Page
<1>4. Cardinality(Matching(query)') \in Nat
  <2>1. Matching(query)' \subseteq Orders
        BY <1>1 DEF Matching, TypeOK
  <2> QED BY <2>1, ListConstants, FS_Subset, FS_CardinalityType
<1>5. WalkFits'
      BY <1>2, <1>3, <1>4 DEF WalkFits, FullPage
<1>6. ASSUME NEW o \in old'
      PROVE  o \in Matching(query)' /\ StillAhead(o)'
  <2>1. Newer(o)' \subseteq Orders
        BY <1>1 DEF Newer, Matching, TypeOK
  <2>2. Cardinality(Newer(o)') \in Nat
        BY <2>1, ListConstants, FS_Subset, FS_CardinalityType
  <2> QED BY <1>2, <1>3, <1>6, <2>2 DEF StillAhead, Matching
<1>7. Ahead'
      BY <1>6 DEF Ahead
<1> QED BY <1>1, <1>2, <1>5, <1>7 DEF WalkMissesNothing, SetOut

LEMMA CountStep == ASSUME WalkInv, Count PROVE WalkInv'
<1> USE DEF WalkInv, walkVars
<1>1. TypeOK'
      BY MatchingFinite DEF TypeOK, Count
<1> QED BY <1>1
        DEF Count, WalkFits, FullPage, Ahead, StillAhead, WalkMissesNothing,
            Alone, Newer, Matching, Before, Page, PageSize

LEMMA FillStep == ASSUME WalkInv, Fill PROVE WalkInv'
<1> USE DEF WalkInv, walkVars
<1>1. totalPages' \in Nat
      BY SizeInRange, ListConstants DEF Fill, TypeOK, TotalPages
<1>2. TypeOK'
      BY <1>1 DEF TypeOK, Fill
<1> QED BY <1>2
        DEF Fill, WalkFits, FullPage, Ahead, StillAhead, WalkMissesNothing,
            Alone, Newer, Matching, Before, Page, PageSize

\* LIMIT and OFFSET on a walk, whose offsets fit.
LEMMA Window ==
    ASSUME WalkInv, walk = "going", pc = "select", Select
    PROVE  /\ shown' \subseteq Matching(query)
           /\ \A o \in Matching(query) :
                 Alone(o) /\ Cardinality(Newer(o)) >= Before(query) =>
                   \/ o \in shown'
                   \/ /\ Cardinality(shown') >= PageSize(query)
                      /\ Cardinality(Newer(o)) >= Before(query) + PageSize(query)
           /\ Cardinality(shown') >= PageSize(query) =>
                Before(query) + PageSize(query) <= Cardinality(Matching(query))
<1> DEFINE M == Matching(query)
           n == Cardinality(M)
           off == Before(query)
           size == PageSize(query)
<1>1. n \in Nat /\ n < MaxInt /\ size \in Nat \ {0}
      BY MatchingFinite, SizeInRange DEF WalkInv, TypeOK
<1>2. off \in Nat /\ off <= n
  <2>1. Page(query) - 1 \in Nat
        BY DEF WalkInv, TypeOK, WalkFits, Page, Query
  <2>2. off \in Nat
        BY <1>1, <2>1, PagesAreLong DEF Before
  <2> QED BY <2>2 DEF WalkInv, WalkFits
<1>3. Offset(query) = off
  <2>1. off \in 0..MaxInt
        BY <1>1, <1>2, ListConstants
  <2> QED BY <2>1, NotWrapped DEF Offset, Before
<1>4. PICK rank \in Rankings(M) :
        shown' = {o \in M : off < rank[o] /\ rank[o] <= off + size}
      BY <1>3 DEF Select
<1>5. rank \in Bijection(M, 1..n)
      BY DEF Rankings
<1>6. rank \in [M -> 1..n]
      BY <1>5 DEF Bijection, Injection
<1>7. \A o \in M : Alone(o) => rank[o] = Cardinality(Newer(o)) + 1
      BY RankOfAlone
<1> HIDE DEF M, n, off, size
<1>8. ASSUME off + size <= n
      PROVE  Cardinality(shown') = size
  <2>1. Cardinality(shown') = (off + size) - off
        BY <1>1, <1>2, <1>4, <1>5, <1>8, Segment
  <2> QED BY <1>1, <1>2, <2>1
<1>9. ASSUME ~(off + size <= n)
      PROVE  Cardinality(shown') \in Nat /\ Cardinality(shown') < size
  <2>1. shown' = {o \in M : off < rank[o] /\ rank[o] <= n}
        BY <1>1, <1>2, <1>4, <1>6, <1>9
  <2>2. Cardinality(shown') = n - off
        BY <1>1, <1>2, <1>5, <2>1, Segment
  <2> QED BY <1>1, <1>2, <1>9, <2>2
<1>10. ASSUME NEW o \in M, Alone(o), Cardinality(Newer(o)) >= off, o \notin shown'
       PROVE  /\ Cardinality(shown') >= size
              /\ Cardinality(Newer(o)) >= off + size
  <2>1. rank[o] = Cardinality(Newer(o)) + 1 /\ Cardinality(Newer(o)) \in Nat
        BY <1>7, <1>10, NewerFinite
  <2>2. rank[o] \in 1..n
        BY <1>6
  <2>3. rank[o] > off + size
        BY <1>1, <1>2, <1>4, <1>10, <2>1
  <2>4. off + size <= n
        BY <1>1, <1>2, <2>2, <2>3
  <2> QED BY <1>1, <1>2, <1>8, <2>1, <2>3, <2>4
<1>11. shown' \subseteq M
       BY <1>4
<1>12. Cardinality(shown') >= size => off + size <= n
       BY <1>1, <1>9
<1> QED BY <1>10, <1>11, <1>12 DEF M, n, off, size

LEMMA SelectStep == ASSUME WalkInv, Select PROVE WalkInv'
<1> USE DEF WalkInv
<1>1. shown' \subseteq Matching(query)
      BY DEF Select
<1>2. TypeOK'
      BY <1>1 DEF TypeOK, Select, walkVars, Matching
<1>3. CASE walk # "going"
      BY <1>2, <1>3, AtRest DEF Select, walkVars
<1>4. CASE walk = "going"
  <2> USE <1>4 DEF Select, walkVars
  <2>1. /\ Matching(query)' = Matching(query) /\ Before(query)' = Before(query)
        /\ PageSize(query)' = PageSize(query)
        /\ \A o \in old : Newer(o)' = Newer(o) /\ (Alone(o)' <=> Alone(o))
        BY DEF Matching, Before, Page, PageSize, Newer, Alone
  <2>2. pc' \in {"fill", "answered"}
        OBVIOUS
  <2>3. FullPage' <=> Cardinality(shown') >= PageSize(query)
        BY <2>1, <2>2 DEF FullPage
  <2>4. WalkFits'
        BY <2>1, <2>3, Window DEF WalkFits
  <2>5. ASSUME NEW o \in old, Alone(o), o \notin found
        PROVE  StillAhead(o)'
    <3>1. o \in Matching(query) /\ Cardinality(Newer(o)) >= Before(query)
          BY <2>5 DEF Ahead, StillAhead
    <3>2. \/ o \in shown'
          \/ /\ Cardinality(shown') >= PageSize(query)
             /\ Cardinality(Newer(o)) >= Before(query) + PageSize(query)
          BY <2>5, <3>1, Window
    <3> QED BY <3>2, <2>1, <2>3, <2>2 DEF StillAhead
  <2>6. Ahead'
        BY <2>1, <2>5 DEF Ahead
  <2> QED BY <1>2, <2>4, <2>6 DEF WalkMissesNothing
<1> QED BY <1>3, <1>4

LEMMA TurnPageStep == ASSUME WalkInv, TurnPage PROVE WalkInv'
<1> USE DEF WalkInv
<1> DEFINE size == PageSize(query)
<1>1. /\ pc = "answered" /\ walk = "going" /\ found' = found \cup shown
      /\ UNCHANGED <<created, stored, old>>
      BY DEF TurnPage
<1>2. size \in Nat \ {0}
      BY SizeInRange DEF TypeOK
<1>3. \A o \in old : Alone(o)' <=> Alone(o)
      BY <1>1 DEF Alone
<1>4. Cardinality(shown) \in Nat
      BY ListConstants, FS_Subset, FS_CardinalityType DEF TypeOK
<1>5. ASSUME NEW o \in old, Alone(o), o \notin found'
      PROVE  FullPage /\ Cardinality(Newer(o)) >= Before(query) + size
      BY <1>1, <1>5 DEF Ahead, StillAhead
<1>6. CASE Cardinality(shown) < size
  <2>1. TypeOK'
        BY <1>1, <1>6, ListConstants DEF TypeOK, TurnPage, Over, Forget, Query,
           NoQuery
  <2>2. walk' = "done" /\ ~FullPage
        BY <1>1, <1>2, <1>6, <1>4 DEF TurnPage, FullPage
  <2>3. WalkMissesNothing'
        BY <1>1, <1>3, <1>5, <2>2 DEF WalkMissesNothing
  <2> QED BY <1>1, <2>1, <2>2, <2>3 DEF WalkFits, Ahead
<1>7. CASE ~(Cardinality(shown) < size)
  <2>1. /\ query' = [query EXCEPT !.page = @ + 1] /\ pc' = "count" /\ shown' = {}
        /\ total' = 0 /\ quiet' = TRUE /\ walk' = "going"
        BY <1>1, <1>7 DEF TurnPage, Forget
  <2>2. FullPage
        BY <1>1, <1>2, <1>7, <1>4 DEF FullPage
  <2>3. /\ query.page \in Int /\ query.page >= 1
        /\ Page(query) = query.page /\ PageSize(query) = size
        BY <1>1 DEF WalkFits, Page, TypeOK, Query
  <2>4. /\ query'.page = query.page + 1 /\ query'.size = query.size
        /\ query'.filter = query.filter
        BY <2>1 DEF TypeOK, Query
  <2>5. /\ PageSize(query)' = size /\ Page(query)' = query.page + 1
        /\ Matching(query)' = Matching(query)
        /\ \A o \in old : Newer(o)' = Newer(o)
        BY <1>1, <2>3, <2>4 DEF PageSize, Page, Matching, Newer
  <2>6. Before(query)' = Before(query) + size
    <3> HIDE DEF size
    <3>1. Before(query)' = ((query.page + 1) - 1) * size
          BY <2>5 DEF Before
    <3>2. Before(query) = (query.page - 1) * size
          BY <2>3 DEF Before
    <3> QED BY <1>2, <2>3, <3>1, <3>2, NextPage
  <2>7. Before(query) + size <= Cardinality(Matching(query))
        BY <1>1, <2>2 DEF WalkFits
  <2>8. query.page + 1 <= MaxInt
    <3> HIDE DEF size
    <3>1. query.page - 1 \in Nat /\ Before(query) = (query.page - 1) * size
          BY <2>3 DEF Before
    <3>2. query.page - 1 <= Before(query) /\ Before(query) \in Nat
          BY <1>2, <3>1, PagesAreLong
    <3>3. /\ Cardinality(Matching(query)) \in Nat
          /\ Cardinality(Matching(query)) < MaxInt /\ MaxInt \in Nat
          BY MatchingFinite, ListConstants
    <3> QED BY <1>2, <2>3, <2>7, <3>2, <3>3
  <2>9. TypeOK'
    <3>1. query' \in Query
      <4>1. query.page + 1 \in -1..MaxInt
            BY <2>3, <2>8, ListConstants
      <4> QED BY <2>1, <4>1 DEF TypeOK, Query
    <3> QED BY <1>1, <2>1, <3>1 DEF TypeOK, TurnPage, Forget
  <2>10. WalkFits'
    <3> HIDE DEF size
    <3> QED BY <2>1, <2>3, <2>4, <2>5, <2>6, <2>7 DEF WalkFits, FullPage
  <2>11. Ahead'
    <3>1. ASSUME NEW o \in old, Alone(o), o \notin found'
          PROVE  StillAhead(o)'
          BY <1>5, <2>1, <2>5, <2>6, <3>1 DEF StillAhead
    <3>2. \A o \in old : o \in Matching(query)'
          BY <1>1, <2>5 DEF Ahead
    <3> QED BY <1>1, <1>3, <3>1, <3>2 DEF Ahead
  <2>12. WalkMissesNothing'
        BY <2>1 DEF WalkMissesNothing
  <2> QED BY <1>1, <2>9, <2>10, <2>11, <2>12
<1> QED BY <1>6, <1>7

-----------------------------------------------------------------------------
(* The theorems                                                            *)

LEMMA ListStep == WalkInv /\ [Next]_vars => WalkInv'
<1> SUFFICES ASSUME WalkInv, [Next]_vars PROVE WalkInv'
    OBVIOUS
<1>1. CASE Next
      BY <1>1, PlacingSteps, AskStep, SetOutStep, CountStep, SelectStep,
         FillStep, FailStep, TakePageStep, TurnPageStep DEF Next
<1>2. CASE UNCHANGED vars
      BY <1>2 DEF vars, requestVars, walkVars, WalkInv, TypeOK, WalkFits,
         FullPage, Ahead, StillAhead, WalkMissesNothing, Alone, Newer,
         Matching, Before, Page, PageSize
<1> QED BY <1>1, <1>2

LEMMA WalkInvHolds == Spec => []WalkInv
  BY ListInitially, ListStep, PTL DEF Spec

\* What SELECT cuts out of the rows COUNT has counted.
LEMMA SelectCut ==
    ASSUME WalkInv, Select, Before(query) <= MaxInt
    PROVE  Cardinality(shown') = Cut(Cardinality(Matching(query)))
<1> DEFINE M == Matching(query)
           n == Cardinality(M)
           off == Before(query)
           size == PageSize(query)
<1>1. n \in Nat /\ size \in Nat \ {0}
      BY MatchingFinite, SizeInRange DEF WalkInv, TypeOK
<1>2. off \in Nat
  <2>1. Page(query) - 1 \in Nat
        BY ListConstants DEF WalkInv, TypeOK, Page, Query
  <2> QED BY <1>1, <2>1, PagesAreLong DEF Before
<1>3. Offset(query) = off
  <2>1. off \in 0..MaxInt
        BY <1>2, ListConstants
  <2> QED BY <2>1, NotWrapped DEF Offset, Before
<1>4. PICK rank \in Rankings(M) :
        shown' = {o \in M : off < rank[o] /\ rank[o] <= off + size}
      BY <1>3 DEF Select
<1>5. rank \in Bijection(M, 1..n)
      BY DEF Rankings
<1>6. rank \in [M -> 1..n]
      BY <1>5 DEF Bijection, Injection
<1> HIDE DEF M, n, off, size
<1>7. ASSUME n - off < 0 PROVE Cardinality(shown') = 0
  <2>1. shown' = {}
        BY <1>1, <1>2, <1>4, <1>6, <1>7
  <2> QED BY <2>1, FS_EmptySet
<1>8. ASSUME ~(n - off < 0), n - off < size PROVE Cardinality(shown') = n - off
  <2>1. shown' = {o \in M : off < rank[o] /\ rank[o] <= n}
        BY <1>1, <1>2, <1>4, <1>6, <1>8
  <2> QED BY <1>1, <1>2, <1>5, <1>8, <2>1, Segment
<1>9. ASSUME ~(n - off < size) PROVE Cardinality(shown') = size
  <2>1. Cardinality(shown') = (off + size) - off
        BY <1>1, <1>2, <1>4, <1>5, <1>9, Segment
  <2> QED BY <1>1, <1>2, <2>1
<1> QED BY <1>1, <1>2, <1>7, <1>8, <1>9 DEF Cut, M, n, off, size

\* A page of more orders has no fewer, and never more than its size.
LEMMA CutGrows ==
    ASSUME WalkInv, NEW m \in Nat, NEW n \in Nat, m <= n
    PROVE  Cut(n) \in Cut(m)..PageSize(query) /\ Cut(m) \in Nat
<1> DEFINE off == Before(query)
           size == PageSize(query)
<1>1. off \in Int /\ size \in Nat \ {0}
      BY SizeInRange, ListConstants DEF WalkInv, TypeOK, Before, Page, Query
<1> HIDE DEF off, size
<1>2. \A k : Cut(k) = IF k - off < 0 THEN 0
                      ELSE IF k - off < size THEN k - off ELSE size
      BY DEF Cut, off, size
<1> QED BY <1>1, <1>2 DEF size

Counts == CountedFirst /\ Undisturbed /\ Reported

LEMMA CountsStep == WalkInv /\ Counts /\ [Next]_vars => Counts'
<1> SUFFICES ASSUME WalkInv, Counts, [Next]_vars PROVE Counts'
    OBVIOUS
<1> USE DEF Counts, CountedFirst, Undisturbed, Reported
<1>1. ASSUME UNCHANGED query
      PROVE  /\ Before(query)' = Before(query) /\ PageSize(query)' = PageSize(query)
             /\ \A m : Cut(m)' = Cut(m)
  <2>1. Before(query)' = Before(query) /\ PageSize(query)' = PageSize(query)
        BY <1>1 DEF Before, Page, PageSize
  <2> QED BY <2>1 DEF Cut
<1>2. ASSUME UNCHANGED <<stored, query>> PROVE Matching(query)' = Matching(query)
      BY <1>2 DEF Matching
<1>3. ASSUME UNCHANGED <<stored, requestVars, quiet>> PROVE Counts'
  <2>1. UNCHANGED <<query, pc, total, shown, totalPages>>
        BY <1>3 DEF requestVars
  <2>2. Cut(total)' = Cut(total)
        BY <1>1, <2>1 DEF Cut
  <2> QED BY <1>1, <1>2, <1>3, <2>1, <2>2
<1>4. ASSUME NEW o \in Orders, Commit(o) PROVE Counts'
  <2>1. /\ UNCHANGED <<pc, query, total, shown, totalPages>>
        /\ quiet' = (pc = "idle") /\ stored \subseteq stored'
        BY <1>4 DEF Commit, requestVars
  <2>2. Cut(total)' = Cut(total)
        BY <1>1, <2>1 DEF Cut
  <2>3. Matching(query)' \subseteq Orders /\ Matching(query) \subseteq Matching(query)'
        BY <1>4, <2>1 DEF Commit, Matching, WalkInv, TypeOK
  <2>4. /\ Cardinality(Matching(query)) <= Cardinality(Matching(query)')
        /\ Cardinality(Matching(query)') \in Nat
        BY <2>3, ListConstants, FS_Subset, FS_CardinalityType
  <2>5. total \in Nat /\ Cardinality(Matching(query)) \in Nat
        BY MatchingFinite DEF WalkInv, TypeOK
  <2>6. CountedFirst'
        BY <1>1, <2>1, <2>2, <2>4, <2>5
  <2>7. Undisturbed'
        BY <2>1
  <2>8. Reported'
        BY <1>1, <2>1
  <2> QED BY <2>6, <2>7, <2>8
<1>5. CASE \/ \E o \in Orders : Begin(o)
           \/ Tick \/ UNCHANGED vars
      BY <1>3, <1>5 DEF Begin, Tick, vars
<1>6. CASE Ask \/ SetOut
      BY <1>6 DEF Ask, SetOut
<1>7. CASE Count
  <2>1. pc' = "select" /\ total' = Cardinality(Matching(query))
        /\ Matching(query)' = Matching(query)
        BY <1>2, <1>7 DEF Count
  <2> QED BY <2>1, MatchingFinite
<1>8. CASE Select
  <2>1. /\ Matching(query)' = Matching(query)
        /\ UNCHANGED <<query, total, quiet>> /\ pc = "select"
        /\ pc' \in {"fill", "answered"}
        /\ pc' = "answered" => shown' = {}
        BY <1>2, <1>8 DEF Select
  <2>2. Cut(total)' = Cut(total)
        BY <1>1, <2>1 DEF Cut
  <2>3. Before(query) <= MaxInt =>
          Cardinality(shown') = Cut(Cardinality(Matching(query)))
        BY <1>8, SelectCut
  <2>4. /\ total \in Nat /\ Cardinality(Matching(query)) \in Nat
        /\ total <= Cardinality(Matching(query))
        BY <2>1, MatchingFinite DEF WalkInv, TypeOK
  <2>5. Cut(Cardinality(Matching(query))) \in Cut(total)..PageSize(query)
        BY <2>4, CutGrows
  <2>6. CountedFirst'
        BY <1>1, <2>1, <2>2, <2>3, <2>5
  <2>7. Undisturbed'
        BY <1>1, <2>1, <2>2, <2>3
  <2>8. Reported'
        BY <2>1
  <2> QED BY <2>6, <2>7, <2>8
<1>9. CASE Fill
  <2>1. /\ UNCHANGED <<query, total, shown, quiet>>
        /\ pc = "fill" /\ pc' = "answered"
        /\ totalPages' = TotalPages(total, PageSize(query))
        BY <1>9 DEF Fill
  <2>2. Cut(total)' = Cut(total)
        BY <1>1, <2>1 DEF Cut
  <2>3. CountedFirst'
        BY <1>1, <2>1, <2>2
  <2>4. Undisturbed'
        BY <1>1, <2>1, <2>2
  <2>5. Reported'
        BY <1>1, <2>1
  <2> QED BY <2>3, <2>4, <2>5
<1>10. CASE Fail \/ TakePage \/ TurnPage
       BY <1>10 DEF Fail, TakePage, TurnPage, Over, Forget
<1> QED BY <1>4, <1>5, <1>6, <1>7, <1>8, <1>9, <1>10 DEF Next

-----------------------------------------------------------------------------
(* The metadata                                                            *)

\* Of n orders, q pages of size s leave some over if and only if there are
\* more than q pages.
LEMMA PagesLeft ==
    ASSUME NEW n \in Nat, NEW q \in Nat, NEW s \in Nat \ {0}
    PROVE  q < TotalPages(n, s) <=> q * s < n
<1> DEFINE m == n + s - 1
           k == m \div s
<1>1. m \in Nat
      OBVIOUS
<1> HIDE DEF m
<1>2. k \in Nat /\ k * s <= m /\ m < k * s + s
      BY <1>1
<1> HIDE DEF k
<1>3. ASSUME q < k PROVE q * s < n
  <2>1. PICK d \in Nat : k = (q + 1) + d
        BY <1>2, <1>3
  <2>2. k * s = (q * s + s) + d * s /\ d * s \in Nat /\ q * s \in Nat
        BY <2>1
  <2> QED BY <1>2, <2>2 DEF m
<1>4. ASSUME k <= q PROVE n <= q * s
  <2>1. PICK d \in Nat : q = k + d
        BY <1>2, <1>4
  <2>2. q * s = k * s + d * s /\ d * s \in Nat /\ k * s \in Nat
        BY <1>2, <2>1
  <2> QED BY <1>2, <2>2 DEF m
<1>5. q * s \in Nat
      OBVIOUS
<1> QED BY <1>2, <1>3, <1>4, <1>5 DEF TotalPages, m, k

LEMMA MetadataFollows == ASSUME WalkInv, Counts PROVE MetadataAgrees
<1> DEFINE size == PageSize(query)
           before == Before(query)
           over == total - before
           n == Cardinality(shown)
<1> SUFFICES ASSUME pc = "answered", before <= MaxInt
             PROVE  /\ shown = {} => over <= 0
                    /\ shown # {} =>
                          /\ Page(query) < totalPages => n = size
                          /\ Page(query) = totalPages => n >= over
                    /\ shown # {} /\ quiet =>
                          /\ Page(query) <= totalPages
                          /\ Page(query) = totalPages => n = over
    BY DEF MetadataAgrees
<1>1. size \in Nat \ {0}
      BY SizeInRange DEF WalkInv, TypeOK
<1>2. Page(query) \in Nat \ {0} /\ Page(query) - 1 \in Nat
      BY ListConstants DEF WalkInv, TypeOK, Page, Query
<1>3. total \in Nat /\ before \in Nat
      BY <1>1, <1>2, PagesAreLong DEF WalkInv, TypeOK, Before
<1>4. n \in Nat /\ (shown = {} <=> n = 0)
  <2>1. IsFiniteSet(shown)
        BY FS_Subset, ListConstants DEF WalkInv, TypeOK
  <2> QED BY <2>1, FS_EmptySet, FS_CardinalityType
<1>5. Cut(total) = IF over < 0 THEN 0 ELSE IF over < size THEN over ELSE size
      BY DEF Cut
<1>6. n \in Cut(total)..size /\ (quiet => n = Cut(total))
      BY DEF Counts, CountedFirst, Undisturbed
<1>7. shown # {} => totalPages = TotalPages(total, size)
      BY DEF Counts, Reported
<1>8. TotalPages(total, size) \in Int
      BY <1>1, <1>3 DEF TotalPages
<1>9. Page(query) <= TotalPages(total, size) <=> before < total
  <2>1. Page(query) - 1 < TotalPages(total, size)
          <=> (Page(query) - 1) * size < total
        BY <1>1, <1>2, <1>3, PagesLeft
  <2> QED BY <1>2, <1>8, <2>1 DEF Before
<1>10. Page(query) < TotalPages(total, size) <=> before + size < total
  <2>1. Page(query) < TotalPages(total, size) <=> Page(query) * size < total
        BY <1>1, <1>2, <1>3, PagesLeft
  <2>2. Page(query) * size = (Page(query) - 1) * size + size
        BY <1>1, <1>2, NextPage
  <2> QED BY <2>1, <2>2 DEF Before
<1> DEFINE k == TotalPages(total, size)
<1> HIDE DEF size, before, n, k
<1>11. over = total - before /\ over \in Int
       BY <1>3
<1> HIDE DEF over
<1>12. shown = {} => over <= 0
       BY <1>1, <1>4, <1>5, <1>6, <1>11
<1>13. Page(query) < k => n = size
       BY <1>1, <1>2, <1>3, <1>4, <1>5, <1>6, <1>10, <1>11 DEF k
<1>14. Page(query) = k => over <= size /\ 0 < over
       BY <1>1, <1>2, <1>3, <1>8, <1>9, <1>10, <1>11 DEF k
<1>15. Page(query) = k => n >= over
       BY <1>1, <1>4, <1>5, <1>6, <1>11, <1>14
<1>16. shown # {} /\ quiet => Page(query) <= k
       BY <1>1, <1>3, <1>4, <1>5, <1>6, <1>9, <1>11 DEF k
<1>17. quiet /\ Page(query) = k => n = over
       BY <1>1, <1>4, <1>5, <1>6, <1>11, <1>14
<1>18. shown # {} => totalPages = k
       BY <1>7 DEF k
<1> QED BY <1>12, <1>13, <1>15, <1>16, <1>17, <1>18

-----------------------------------------------------------------------------
\* Offsets of a walk never overflow, what it has yet to meet lies on the
\* pages it has yet to turn, and COUNT and SELECT agree unless a commit comes
\* between them (List, order_store.go).
THEOREM ListInvHolds == Spec => []ListInv
<1>1. Init => Counts
      BY DEF Init, Counts, CountedFirst, Undisturbed, Reported
<1>2. WalkInv /\ Counts => ListInv
      BY DEF ListInv, Counts
<1> QED BY <1>1, <1>2, WalkInvHolds, CountsStep, PTL DEF Spec

\* A client that asks for one page after another until one is not full has
\* been shown every order that was there when it set out, whatever is placed
\* meanwhile, unless another order shares its second.
THEOREM WalksAreComplete == Spec => []WalkMissesNothing
<1>1. WalkInv => WalkMissesNothing
      BY DEF WalkInv
<1> QED BY <1>1, WalkInvHolds, PTL

\* For every page, size and number of orders, the total and totalPages that
\* List answers fit the page it answers with them, whatever is placed between
\* its statements, as long as the offset fits an int.
THEOREM MetadataFits == Spec => []MetadataAgrees
<1>1. ListInv => MetadataAgrees
      BY MetadataFollows DEF ListInv, Counts
<1> QED BY <1>1, ListInvHolds, PTL
=============================================================================
