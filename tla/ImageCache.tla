----------------------------- MODULE ImageCache -----------------------------
(***************************************************************************)
(* The memory cache of GET /img-proxy (imgMemoryCache) and the part of     *)
(* ImgProxyHandler.Proxy that uses it: look the URL up, fetch it on a      *)
(* miss, store the result.  Every section under the mutex is one action;   *)
(* get has two of them, with the request's own steps, those of other       *)
(* requests and the janitor's in between.                                  *)
(*                                                                         *)
(* What an upstream serves changes with time, so a body is known by its    *)
(* URL and the moment the upstream sent it.                                *)
(***************************************************************************)
EXTENDS Integers, FiniteSets

CONSTANTS Keys,          \* target URLs that pass validateProxyTargetURL
          Requests,      \* GET /img-proxy requests handled at once
          MaxItems,      \* imgProxyMaxCacheItems
          TTL,           \* imgProxyCacheTTL
          FetchTimeout,  \* imgProxyFetchTimeout: a whole fetch, body included
          Period,        \* the janitor's ticker
          MaxTime,       \* bound: the clock stops here
          None           \* no entry, no request, no body yet

ASSUME CacheConstants ==
    /\ MaxItems \in Nat \ {0} /\ TTL \in Nat /\ FetchTimeout \in Nat
    /\ Period \in Nat \ {0} /\ MaxTime \in Nat
    /\ None \notin Keys

VARIABLES
    now,      \* the clock
    entries,  \* the map: URL -> body and expiry, None if absent
    sweep,    \* when the janitor's ticker fires next
    pc,       \* where each request is in Proxy
    key,      \* its cacheKey
    started,  \* when it called client.Do
    body      \* the body it has received or was given by the cache

requestVars == <<pc, key, started, body>>
vars == <<now, entries, sweep, requestVars>>

Times == 0..MaxTime
Body == [key : Keys, sent : Times]
Entry == [body : Body, expiresAt : Int]
ASSUME NoneIsNoBody == None \notin Body \cup Entry

Cached(table) == {k \in Keys : table[k] # None}
\* Mutant: off by one.
ExpiredLate(e) == now > e.expiresAt + 1
Expired(e) == now > e.expiresAt

Without(table, gone) == [k \in Keys |-> IF k \in gone THEN None ELSE table[k]]
\* Mutant: the janitor deletes nothing.
NotPruned(table) == table
Pruned(table) ==
    Without(table, {k \in Cached(table) : Expired(table[k])})

Init ==
    /\ now = 0
    /\ entries = [k \in Keys |-> None]
    /\ sweep = Period
    /\ pc = [r \in Requests |-> "idle"]
    /\ key = [r \in Requests |-> None]
    /\ started = [r \in Requests |-> 0]
    /\ body = [r \in Requests |-> None]

Goto(r, label) == pc' = [pc EXCEPT ![r] = label]

-----------------------------------------------------------------------------
(* Proxy                                                                   *)

\* get, first section, and the check of the copy it made.
Get(r) ==
    /\ pc[r] = "idle"
    /\ \E k \in Keys :
          /\ key' = [key EXCEPT ![r] = k]
          /\ \/ /\ entries[k] = None
                /\ Goto(r, "fetch") /\ UNCHANGED body
             \/ /\ entries[k] # None /\ Expired(entries[k])
                /\ Goto(r, "evict") /\ UNCHANGED body
             \/ /\ entries[k] # None /\ ~Expired(entries[k])
                /\ Goto(r, "hit")
                /\ body' = [body EXCEPT ![r] = entries[k].body]
    /\ UNCHANGED <<now, entries, sweep, started>>

\* get, second section: whatever is under the key by now goes.
Evict(r) ==
    /\ pc[r] = "evict"
    /\ entries' = Without(entries, {key[r]})
    /\ Goto(r, "fetch")
    /\ UNCHANGED <<now, sweep, key, started, body>>

Send(r) ==
    /\ pc[r] = "fetch"
    /\ started' = [started EXCEPT ![r] = now]
    /\ Goto(r, "fetching")
    /\ UNCHANGED <<now, entries, sweep, key, body>>

\* The upstream (after at most a few redirects) sends what it has now.
Upstream(r) ==
    /\ pc[r] = "fetching" /\ body[r] = None
    /\ body' = [body EXCEPT ![r] = [key |-> key[r], sent |-> now]]
    /\ UNCHANGED <<now, entries, sweep, pc, key, started>>

\* Mutant: a full map is pruned and never emptied.
PrunedRoom(table) ==
    IF Cardinality(Cached(table)) < MaxItems THEN table ELSE Pruned(table)
\* A full map is pruned, and if that frees nothing it is emptied, even when
\* the key is already there.
Room(table) ==
    IF Cardinality(Cached(table)) < MaxItems THEN table
    ELSE IF Cardinality(Cached(Pruned(table))) < MaxItems THEN Pruned(table)
    ELSE Without(table, Keys)

\* Mutant: the TTL counted twice.
EntryForTwice(b) == [body |-> b, expiresAt |-> now + TTL + TTL]
NewEntry(b) == [body |-> b, expiresAt |-> now + TTL]

\* The body, an image of at most 5MB, has been read: set.
Set(r) ==
    /\ pc[r] = "fetching" /\ body[r] # None
    /\ entries' = [Room(entries) EXCEPT ![key[r]] = NewEntry(body[r])]
    /\ Goto(r, "miss")
    /\ UNCHANGED <<now, sweep, key, started, body>>

\* Not an image, not a 200, too large, refused, too slow: nothing is stored.
FetchFails(r) ==
    /\ pc[r] = "fetching"
    /\ Goto(r, "failed")
    /\ UNCHANGED <<now, entries, sweep, key, started, body>>

Answer(r) ==
    /\ pc[r] \in {"hit", "miss", "failed"}
    /\ Goto(r, "idle")
    /\ key' = [key EXCEPT ![r] = None]
    /\ started' = [started EXCEPT ![r] = 0]
    /\ body' = [body EXCEPT ![r] = None]
    /\ UNCHANGED <<now, entries, sweep>>

-----------------------------------------------------------------------------
Janitor ==
    /\ now = sweep
    /\ entries' = Pruned(entries)
    /\ sweep' = now + Period
    /\ UNCHANGED <<now, requestVars>>

\* Timers fire when they are due: the ticker, and the client's timeout, which
\* runs to the end of the body.  A tick is long beside the delay of a
\* goroutine that can run: the janitor sweeps before the next one.
Tick ==
    /\ now < MaxTime
    /\ now < sweep
    /\ \A r \in Requests :
          pc[r] = "fetching" => now < started[r] + FetchTimeout
    /\ now' = now + 1
    /\ UNCHANGED <<entries, sweep, requestVars>>

Next ==
    \/ \E r \in Requests :
          \/ Get(r) \/ Evict(r) \/ Send(r) \/ Upstream(r) \/ Set(r)
          \/ FetchFails(r) \/ Answer(r)
    \/ Janitor
    \/ Tick

Spec == Init /\ [][Next]_vars

-----------------------------------------------------------------------------
TypeOK ==
    /\ now \in Times
    /\ entries \in [Keys -> Entry \cup {None}]
    /\ sweep \in Nat
    /\ pc \in [Requests -> {"idle", "evict", "fetch", "fetching", "hit",
                            "miss", "failed"}]
    /\ key \in [Requests -> Keys \cup {None}]
    /\ \A r \in Requests : pc[r] # "idle" => key[r] \in Keys
    /\ started \in [Requests -> Times]
    /\ body \in [Requests -> Body \cup {None}]

\* The cache never holds more than its limit, whichever requests store at
\* once.
WithinLimit == Cardinality(Cached(entries)) <= MaxItems

\* A HIT answers what that URL served at most a TTL and one fetch ago: the
\* TTL runs from the moment the body is stored, not from when it was sent.
HitsAreRecent ==
    [][\A r \in Requests : pc[r] = "idle" /\ pc'[r] = "hit" =>
          /\ body'[r].key = key'[r]
          /\ now - body'[r].sent <= TTL + FetchTimeout]_vars

\* No body stays in memory longer than one janitor period past its expiry,
\* asked for or not.
ExpiredAreSwept == \A k \in Cached(entries) :
    now <= entries[k].expiresAt + Period

-----------------------------------------------------------------------------
(* The inductive invariant that carries the three properties.              *)

\* A fetch under way is within its deadline, and what it received is its own.
FetchesOnTime == \A r \in Requests :
    /\ pc[r] \in {"idle", "evict", "fetch"} => body[r] = None
    /\ pc[r] = "fetching" =>
          /\ started[r] <= now /\ now <= started[r] + FetchTimeout
          /\ body[r] # None =>
                /\ body[r].key = key[r]
                /\ started[r] <= body[r].sent /\ body[r].sent <= now

\* An entry expires at most a TTL and a fetch after its body was sent, and
\* not before the janitor's last sweep.
EntriesFresh == \A k \in Cached(entries) :
    /\ entries[k].body.key = k
    /\ entries[k].expiresAt <= entries[k].body.sent + FetchTimeout + TTL
    /\ sweep <= entries[k].expiresAt + Period

SweepDue == now <= sweep /\ sweep <= now + Period

\* Inductive: no section under the mutex, tick or sweep leads out of it.
CacheInv ==
    /\ TypeOK /\ FetchesOnTime /\ EntriesFresh /\ SweepDue
    /\ IsFiniteSet(Cached(entries)) /\ WithinLimit
=============================================================================
