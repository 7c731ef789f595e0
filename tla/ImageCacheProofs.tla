-------------------------- MODULE ImageCacheProofs --------------------------
(***************************************************************************)
(* For every set of URLs and requests, limit, TTL, timeout and period: the *)
(* image cache keeps its limit, sweeps what has expired, and never answers *)
(* a HIT with a body older than a TTL and one fetch.                       *)
(***************************************************************************)
EXTENDS ImageCache, FiniteSetTheorems, TLAPS

-----------------------------------------------------------------------------
(* The map.                                                                *)

\* Removing entries leaves a map whose other entries are as they were.
LEMMA WithoutType ==
  ASSUME NEW table \in [Keys -> Entry \cup {None}], NEW gone
  PROVE  /\ Without(table, gone) \in [Keys -> Entry \cup {None}]
         /\ Cached(Without(table, gone)) = Cached(table) \ gone
         /\ \A k \in Cached(Without(table, gone)) :
               Without(table, gone)[k] = table[k]
  BY DEF Without, Cached

\* So does removing the expired ones.
LEMMA PrunedType ==
  ASSUME NEW table \in [Keys -> Entry \cup {None}]
  PROVE  /\ Pruned(table) \in [Keys -> Entry \cup {None}]
         /\ Cached(Pruned(table)) \subseteq Cached(table)
         /\ \A k \in Cached(Pruned(table)) :
               Pruned(table)[k] = table[k] /\ ~Expired(table[k])
  BY WithoutType DEF Pruned, Without, Cached

\* Room only removes entries, and leaves room for one more.
LEMMA RoomType ==
  ASSUME NEW table \in [Keys -> Entry \cup {None}],
         IsFiniteSet(Cached(table))
  PROVE  /\ Room(table) \in [Keys -> Entry \cup {None}]
         /\ Cached(Room(table)) \subseteq Cached(table)
         /\ \A k \in Cached(Room(table)) : Room(table)[k] = table[k]
         /\ IsFiniteSet(Cached(Room(table)))
         /\ Cardinality(Cached(Room(table))) < MaxItems
<1>1. CASE Cardinality(Cached(table)) < MaxItems
  BY <1>1 DEF Room
<1>2. CASE /\ ~(Cardinality(Cached(table)) < MaxItems)
           /\ Cardinality(Cached(Pruned(table))) < MaxItems
  <2>1. Room(table) = Pruned(table)
    BY <1>2 DEF Room
  <2>2. IsFiniteSet(Cached(Pruned(table)))
    BY PrunedType, FS_Subset
  <2> QED
    BY <1>2, <2>1, <2>2, PrunedType
<1>3. CASE /\ ~(Cardinality(Cached(table)) < MaxItems)
           /\ ~(Cardinality(Cached(Pruned(table))) < MaxItems)
  <2>1. Room(table) = Without(table, Keys)
    BY <1>3 DEF Room
  <2>2. Cached(Without(table, Keys)) = {}
    BY WithoutType DEF Cached
  <2>3. IsFiniteSet({}) /\ Cardinality({}) = 0 /\ MaxItems > 0
    BY FS_EmptySet, CacheConstants
  <2> QED
    BY <2>1, <2>2, <2>3, WithoutType
<1> QED
  BY <1>1, <1>2, <1>3

-----------------------------------------------------------------------------
\* The empty map satisfies the invariant.
LEMMA InitCacheInv == Init => CacheInv
<1> SUFFICES ASSUME Init PROVE CacheInv
  OBVIOUS
<1>1. Cached(entries) = {}
  BY DEF Init, Cached
<1>2. IsFiniteSet(Cached(entries)) /\ WithinLimit
  BY <1>1, FS_EmptySet, CacheConstants DEF WithinLimit
<1>3. TypeOK /\ FetchesOnTime /\ EntriesFresh /\ SweepDue
  BY <1>1, CacheConstants
     DEF Init, TypeOK, Times, FetchesOnTime, EntriesFresh, SweepDue
<1> QED
  BY <1>2, <1>3 DEF CacheInv

\* A step that at most removes entries, and is not the janitor's or the
\* clock's, owes only the requests' part.
LEMMA ShrinkInv ==
  ASSUME CacheInv, UNCHANGED <<now, sweep>>,
         entries' \in [Keys -> Entry \cup {None}],
         Cached(entries') \subseteq Cached(entries),
         \A k \in Cached(entries') : entries'[k] = entries[k]
  PROVE  /\ EntriesFresh' /\ SweepDue'
         /\ IsFiniteSet(Cached(entries')) /\ WithinLimit'
<1>1. /\ IsFiniteSet(Cached(entries'))
      /\ Cardinality(Cached(entries')) <= Cardinality(Cached(entries))
  BY FS_Subset DEF CacheInv
<1>2. /\ Cardinality(Cached(entries')) \in Nat
      /\ Cardinality(Cached(entries)) \in Nat
  BY <1>1, FS_CardinalityType DEF CacheInv
<1>3. WithinLimit'
  BY <1>1, <1>2, CacheConstants DEF CacheInv, WithinLimit
<1> QED
  BY <1>1, <1>3 DEF CacheInv, EntriesFresh, SweepDue

\* The steps of a request that leave the map alone.
LEMMA RequestInv ==
  ASSUME CacheInv, NEW r \in Requests,
         \/ Get(r) \/ Send(r) \/ Upstream(r) \/ FetchFails(r) \/ Answer(r)
  PROVE  CacheInv'
<1>1. UNCHANGED <<now, entries, sweep>>
  BY DEF Get, Send, Upstream, FetchFails, Answer
<1>2. now \in Nat
  BY CacheConstants DEF CacheInv, TypeOK, Times
<1>3. TypeOK'
  <2>1. CASE Get(r)
    <3>1. \A k \in Cached(entries) : entries[k].body \in Body
      BY DEF CacheInv, TypeOK, Cached, Entry
    <3> QED
      BY <1>1, <2>1, <3>1 DEF Get, Goto, Cached, CacheInv, TypeOK
  <2>2. CASE Send(r)
    BY <1>1, <2>2 DEF Send, Goto, CacheInv, TypeOK
  <2>3. CASE Upstream(r)
    <3>1. [key |-> key[r], sent |-> now] \in Body
      BY <2>3 DEF Upstream, Body, CacheInv, TypeOK
    <3> QED
      BY <1>1, <2>3, <3>1 DEF Upstream, CacheInv, TypeOK
  <2>4. CASE FetchFails(r)
    BY <1>1, <2>4 DEF FetchFails, Goto, CacheInv, TypeOK
  <2>5. CASE Answer(r)
    BY <1>1, <2>5, CacheConstants DEF Answer, Goto, Times, CacheInv, TypeOK
  <2> QED
    BY <2>1, <2>2, <2>3, <2>4, <2>5
<1>4. FetchesOnTime'
  <2>1. CASE Get(r)
    BY <1>1, <2>1 DEF Get, Goto, CacheInv, TypeOK, FetchesOnTime
  <2>2. CASE Send(r)
    BY <1>1, <1>2, <2>2, CacheConstants
       DEF Send, Goto, CacheInv, TypeOK, FetchesOnTime
  <2>3. CASE Upstream(r)
    <3>1. /\ pc[r] = "fetching" /\ started[r] <= now
          /\ body' = [body EXCEPT ![r] = [key |-> key[r], sent |-> now]]
          /\ UNCHANGED <<pc, key, started>>
      BY <2>3 DEF Upstream, CacheInv, FetchesOnTime
    <3> QED
      BY <1>1, <1>2, <3>1 DEF CacheInv, TypeOK, FetchesOnTime
  <2>4. CASE FetchFails(r) \/ Answer(r)
    BY <1>1, <2>4 DEF FetchFails, Answer, Goto, CacheInv, TypeOK, FetchesOnTime
  <2> QED
    BY <2>1, <2>2, <2>3, <2>4
<1>5. /\ EntriesFresh' /\ SweepDue'
      /\ IsFiniteSet(Cached(entries')) /\ WithinLimit'
  BY <1>1 DEF CacheInv, EntriesFresh, SweepDue, WithinLimit, Cached
<1> QED
  BY <1>1, <1>3, <1>4, <1>5 DEF CacheInv, Cached

\* get deletes what is under the key, fresh or not: that only removes.
LEMMA EvictInv ==
  ASSUME CacheInv, NEW r \in Requests, Evict(r)
  PROVE  CacheInv'
<1>1. /\ entries' = Without(entries, {key[r]})
      /\ pc[r] = "evict" /\ pc' = [pc EXCEPT ![r] = "fetch"]
      /\ UNCHANGED <<now, sweep, key, started, body>>
  BY DEF Evict, Goto
<1>2. /\ entries' \in [Keys -> Entry \cup {None}]
      /\ Cached(entries') \subseteq Cached(entries)
      /\ \A k \in Cached(entries') : entries'[k] = entries[k]
  BY <1>1, WithoutType DEF CacheInv, TypeOK
<1>3. TypeOK' /\ FetchesOnTime'
  BY <1>1, <1>2 DEF CacheInv, TypeOK, FetchesOnTime
<1>4. Cached(entries)' = Cached(entries')
  BY DEF Cached
<1> QED
  BY <1>1, <1>2, <1>3, <1>4, ShrinkInv DEF CacheInv

\* The new entry expires a TTL from now, and now is within the fetch.
LEMMA SetInv ==
  ASSUME CacheInv, NEW r \in Requests, Set(r)
  PROVE  CacheInv'
<1> DEFINE new == [body |-> body[r], expiresAt |-> now + TTL]
           room == Room(entries)
<1>1. /\ pc[r] = "fetching" /\ body[r] # None
      /\ entries' = [room EXCEPT ![key[r]] = new]
      /\ pc' = [pc EXCEPT ![r] = "miss"]
      /\ UNCHANGED <<now, sweep, key, started, body>>
  BY DEF Set, Goto, NewEntry
<1>2. now \in Nat /\ TTL \in Nat /\ FetchTimeout \in Nat /\ Period \in Nat
  BY CacheConstants DEF CacheInv, TypeOK, Times
<1>3. /\ key[r] \in Keys /\ body[r] \in Body /\ body[r].key = key[r]
      /\ started[r] \in Nat /\ body[r].sent \in Nat
      /\ now <= started[r] + FetchTimeout /\ started[r] <= body[r].sent
  BY <1>1, CacheConstants DEF CacheInv, TypeOK, FetchesOnTime, Times, Body
<1>4. new \in Entry /\ new # None
  BY <1>2, <1>3, NoneIsNoBody DEF Entry
<1>5. /\ room \in [Keys -> Entry \cup {None}]
      /\ Cached(room) \subseteq Cached(entries)
      /\ \A k \in Cached(room) : room[k] = entries[k]
      /\ IsFiniteSet(Cached(room)) /\ Cardinality(Cached(room)) < MaxItems
  BY RoomType DEF CacheInv, TypeOK
<1> HIDE DEF new, room
<1>6. /\ entries' \in [Keys -> Entry \cup {None}]
      /\ Cached(entries') = Cached(room) \cup {key[r]}
      /\ entries'[key[r]] = new
      /\ \A k \in Cached(entries') \ {key[r]} :
            k \in Cached(entries) /\ entries'[k] = entries[k]
  BY <1>1, <1>3, <1>4, <1>5 DEF Cached
<1>7. TypeOK'
  BY <1>1, <1>6 DEF CacheInv, TypeOK
<1>8. FetchesOnTime' /\ SweepDue'
  BY <1>1 DEF CacheInv, TypeOK, FetchesOnTime, SweepDue
<1>9. EntriesFresh'
  <2> SUFFICES ASSUME NEW k \in Cached(entries')
               PROVE  /\ entries'[k].body.key = k
                      /\ entries'[k].expiresAt
                           <= entries'[k].body.sent + FetchTimeout + TTL
                      /\ sweep' <= entries'[k].expiresAt + Period
    BY DEF EntriesFresh, Cached
  <2>1. CASE k = key[r]
    <3>1. entries'[k].body = body[r] /\ entries'[k].expiresAt = now + TTL
      BY <1>6, <2>1 DEF new
    <3>2. sweep \in Nat /\ sweep <= now + Period
      BY DEF CacheInv, TypeOK, SweepDue
    <3> QED
      BY <1>1, <1>2, <1>3, <2>1, <3>1, <3>2
  <2>2. CASE k # key[r]
    BY <1>1, <1>6, <2>2 DEF CacheInv, EntriesFresh
  <2> QED
    BY <2>1, <2>2
<1>10. IsFiniteSet(Cached(entries')) /\ Cardinality(Cached(entries')) <= MaxItems
  <2>1. /\ IsFiniteSet(Cached(room) \cup {key[r]})
        /\ Cardinality(Cached(room) \cup {key[r]}) =
              IF key[r] \in Cached(room)
              THEN Cardinality(Cached(room)) ELSE Cardinality(Cached(room)) + 1
    BY <1>5, FS_AddElement
  <2>2. Cardinality(Cached(room)) \in Nat
    BY <1>5, FS_CardinalityType
  <2> QED
    BY <1>5, <1>6, <2>1, <2>2, CacheConstants
<1>11. Cached(entries)' = Cached(entries')
  BY DEF Cached
<1> QED
  BY <1>7, <1>8, <1>9, <1>10, <1>11 DEF CacheInv, WithinLimit

\* The sweep leaves only what has not expired by now.
LEMMA JanitorInv ==
  ASSUME CacheInv, Janitor
  PROVE  CacheInv'
<1>1. /\ now = sweep /\ entries' = Pruned(entries) /\ sweep' = now + Period
      /\ UNCHANGED <<now, pc, key, started, body>>
  BY DEF Janitor, requestVars
<1>2. now \in Nat /\ Period \in Nat
  BY CacheConstants DEF CacheInv, TypeOK, Times
<1>3. /\ entries' \in [Keys -> Entry \cup {None}]
      /\ Cached(entries') \subseteq Cached(entries)
      /\ \A k \in Cached(entries') :
            entries'[k] = entries[k] /\ ~Expired(entries[k])
  BY <1>1, PrunedType DEF CacheInv, TypeOK
<1>4. TypeOK' /\ FetchesOnTime' /\ SweepDue'
  BY <1>1, <1>2, <1>3 DEF CacheInv, TypeOK, FetchesOnTime, SweepDue
<1>5. Cached(entries)' = Cached(entries')
  BY DEF Cached
<1>6. EntriesFresh'
  <2> SUFFICES ASSUME NEW k \in Cached(entries')
               PROVE  /\ entries'[k].body.key = k
                      /\ entries'[k].expiresAt
                           <= entries'[k].body.sent + FetchTimeout + TTL
                      /\ sweep' <= entries'[k].expiresAt + Period
    BY <1>5 DEF EntriesFresh
  <2>1. /\ entries'[k] = entries[k] /\ k \in Cached(entries)
        /\ ~(now > entries[k].expiresAt)
    BY <1>3 DEF Expired
  <2>2. entries[k].expiresAt \in Int
    BY <2>1 DEF CacheInv, TypeOK, Cached, Entry
  <2> QED
    BY <1>1, <1>2, <2>1, <2>2 DEF CacheInv, EntriesFresh
<1>7. IsFiniteSet(Cached(entries')) /\ Cardinality(Cached(entries')) <= MaxItems
  <2>1. /\ IsFiniteSet(Cached(entries'))
        /\ Cardinality(Cached(entries')) <= Cardinality(Cached(entries))
    BY <1>3, FS_Subset DEF CacheInv
  <2>2. /\ Cardinality(Cached(entries')) \in Nat
        /\ Cardinality(Cached(entries)) \in Nat
    BY <2>1, FS_CardinalityType DEF CacheInv
  <2> QED
    BY <2>1, <2>2, CacheConstants DEF CacheInv, WithinLimit
<1> QED
  BY <1>4, <1>5, <1>6, <1>7 DEF CacheInv, WithinLimit

\* The clock waits for whoever is due.
LEMMA TickInv ==
  ASSUME CacheInv, Tick
  PROVE  CacheInv'
<1>1. /\ now' = now + 1 /\ now < MaxTime /\ now < sweep
      /\ \A r \in Requests : pc[r] = "fetching" =>
            now < started[r] + FetchTimeout
      /\ UNCHANGED <<entries, sweep, pc, key, started, body>>
  BY DEF Tick, requestVars
<1>2. now \in Nat /\ MaxTime \in Nat /\ FetchTimeout \in Nat /\ sweep \in Nat
      /\ Period \in Nat
  BY CacheConstants DEF CacheInv, TypeOK, Times
<1>3. TypeOK'
  BY <1>1, <1>2 DEF CacheInv, TypeOK, Times
<1>4. FetchesOnTime'
  <2>1. \A r \in Requests : started[r] \in Nat
    BY CacheConstants DEF CacheInv, TypeOK, Times
  <2>2. \A r \in Requests : body[r] # None => body[r].sent \in Nat
    BY CacheConstants DEF CacheInv, TypeOK, Times, Body
  <2> QED
    BY <1>1, <1>2, <2>1, <2>2 DEF CacheInv, FetchesOnTime
<1>5. SweepDue'
  BY <1>1, <1>2 DEF CacheInv, SweepDue
<1>6. EntriesFresh' /\ IsFiniteSet(Cached(entries))' /\ WithinLimit'
  BY <1>1 DEF CacheInv, EntriesFresh, WithinLimit, Cached
<1> QED
  BY <1>3, <1>4, <1>5, <1>6 DEF CacheInv

-----------------------------------------------------------------------------
\* Every section under the mutex, and the clock, keep the invariant.
LEMMA StepCacheInv == CacheInv /\ [Next]_vars => CacheInv'
<1> SUFFICES ASSUME CacheInv, [Next]_vars PROVE CacheInv'
  OBVIOUS
<1>1. ASSUME NEW r \in Requests,
             \/ Get(r) \/ Evict(r) \/ Send(r) \/ Upstream(r) \/ Set(r)
             \/ FetchFails(r) \/ Answer(r)
      PROVE  CacheInv'
  BY <1>1, RequestInv, EvictInv, SetInv
<1>2. CASE UNCHANGED vars
  BY <1>2 DEF vars, requestVars, CacheInv, TypeOK, FetchesOnTime,
              EntriesFresh, SweepDue, WithinLimit, Cached
<1> QED
  BY <1>1, <1>2, JanitorInv, TickInv DEF Next

\* The invariant of the cache holds in every reachable state.
THEOREM CacheInvHolds == Spec => []CacheInv
  BY InitCacheInv, StepCacheInv, PTL DEF Spec

\* The cache never holds more than its limit.
THEOREM LimitKept == Spec => []WithinLimit
<1>1. CacheInv => WithinLimit
  BY DEF CacheInv
<1> QED
  BY <1>1, CacheInvHolds, PTL

\* Every entry outlives its expiry by at most the period to the next sweep.
LEMMA InvSweeps == CacheInv => ExpiredAreSwept
<1> SUFFICES ASSUME CacheInv, NEW k \in Cached(entries)
             PROVE  now <= entries[k].expiresAt + Period
  BY DEF ExpiredAreSwept
<1>1. /\ now <= sweep /\ sweep <= entries[k].expiresAt + Period
      /\ now \in Int /\ sweep \in Int /\ Period \in Int
      /\ entries[k].expiresAt \in Int
  BY CacheConstants
     DEF CacheInv, SweepDue, EntriesFresh, TypeOK, Times, Cached, Entry
<1> QED
  BY <1>1

\* What has expired is gone a period later.
THEOREM ExpiredGo == Spec => []ExpiredAreSwept
  BY InvSweeps, CacheInvHolds, PTL

\* A request becomes a hit only by reading a live entry, whose body was sent
\* at most a TTL and a fetch ago.
LEMMA HitStep ==
  ASSUME CacheInv, Next, NEW r \in Requests, pc[r] = "idle", pc'[r] = "hit"
  PROVE  /\ body'[r].key = key'[r]
         /\ now - body'[r].sent <= TTL + FetchTimeout
<1>1. Get(r)
  BY DEF Next, Get, Evict, Send, Upstream, Set, FetchFails, Answer, Goto,
         Janitor, Tick, requestVars, CacheInv, TypeOK
<1>2. PICK k \in Keys : /\ key' = [key EXCEPT ![r] = k]
                        /\ k \in Cached(entries) /\ ~Expired(entries[k])
                        /\ body' = [body EXCEPT ![r] = entries[k].body]
  BY <1>1 DEF Get, Goto, Cached, CacheInv, TypeOK
<1>3. key'[r] = k /\ body'[r] = entries[k].body
  BY <1>2 DEF CacheInv, TypeOK
<1>4. /\ ~(now > entries[k].expiresAt)
      /\ entries[k].expiresAt <= entries[k].body.sent + FetchTimeout + TTL
      /\ entries[k].body.key = k
  BY <1>2 DEF Expired, CacheInv, EntriesFresh
<1>5. /\ now \in Int /\ entries[k].expiresAt \in Int
      /\ entries[k].body.sent \in Int /\ TTL \in Int /\ FetchTimeout \in Int
  BY <1>2, CacheConstants DEF CacheInv, TypeOK, Times, Cached, Entry, Body
<1> QED
  BY <1>3, <1>4, <1>5

\* A HIT answers a body of that URL no older than a TTL and one fetch.
THEOREM HitsRecent == Spec => HitsAreRecent
<1> DEFINE Recent == \A r \in Requests : pc[r] = "idle" /\ pc'[r] = "hit" =>
                        /\ body'[r].key = key'[r]
                        /\ now - body'[r].sent <= TTL + FetchTimeout
<1>1. CacheInv /\ [Next]_vars => [Recent]_vars
  BY HitStep
<1> QED
  BY <1>1, CacheInvHolds, PTL DEF Spec, HitsAreRecent
=============================================================================
