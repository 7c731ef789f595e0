------------------------------ MODULE ImgProxy ------------------------------
(***************************************************************************)
(* The standalone gateway (cmd/imgproxy): handleImgProxy from the check of *)
(* the target to the answer, over one http.Client and one memoryCache.     *)
(* Where ImageCache leaves the fetch open and ImageFetch the cache, this   *)
(* is both at once, and it is shown to do what each of them says.          *)
(*                                                                         *)
(* A URL that is refused (400, 403, 405) changes nothing.  A lookup of a   *)
(* name is one step: the resolver answers or fails.                        *)
(***************************************************************************)
EXTENDS ProxyRules, FiniteSets

CONSTANTS Lookups,       \* what lookups may return; {} if they fail
          Asked,         \* URLs clients ask for
          MaxItems,      \* maxCacheItems
          TTL,           \* cacheTTL
          FetchTimeout,  \* fetchTimeout: Client.Timeout
          Period,        \* of the sweeper's ticker: a minute
          MaxTime        \* bound: the clock stops here

ASSUME ProxyConstants ==
    /\ Lookups \subseteq SUBSET Addresses /\ Asked \subseteq Target
    /\ {MaxItems, Period} \subseteq Nat \ {0}
    /\ {TTL, FetchTimeout, MaxTime} \subseteq Nat

VARIABLES
    now,      \* the clock
    entries,  \* cache.entries: URL -> body and expiry, None if absent
    sweep,    \* when the sweeper's ticker fires next
    key,      \* each request's cacheKey: the URL asked for
    peer,     \* the address its request went to
    started,  \* when client.Do began
    body      \* the body it is receiving or was given by the cache

requestVars == <<pc, key, target, via, ips, peer, started, body>>
vars == <<now, dns, entries, sweep, pool, requestVars, reached>>

Times == 0..MaxTime
\* What an upstream serves: for which URL it was asked, when and from where.
Body == [key : Asked, sent : Times, from : Addresses]
Entry == [body : Body, expiresAt : Nat]

Init ==
    /\ now = 0
    /\ dns \in [Names -> Lookups]
    /\ entries = [k \in Asked |-> None]
    /\ sweep = Period
    /\ pool = {} /\ reached = {}
    /\ pc = [r \in Requests |-> "idle"]
    /\ key = [r \in Requests |-> None]
    /\ target = [r \in Requests |-> None]
    /\ via = [r \in Requests |-> 0]
    /\ ips = [r \in Requests |-> {}]
    /\ peer = [r \in Requests |-> None]
    /\ started = [r \in Requests |-> 0]
    /\ body = [r \in Requests |-> None]

Goto(r, label) == pc' = [pc EXCEPT ![r] = label]

-----------------------------------------------------------------------------
(* The rules for targets and the cache                                     *)

\* validateTargetURL, assertSafePort.
Valid(t) ==
    /\ t.plain
    /\ t.host \notin BlockedNames
    /\ t.port \in WebPorts
    /\ LET resolved == IF t.host \in Addresses THEN {t.host} ELSE dns[t.host]
       IN  resolved # {} /\ resolved \cap Forbidden = {}

Cached == {k \in Asked : entries[k] # None}
Expired == {k \in Cached : now > entries[k].expiresAt}
Without(gone) == [k \in Asked |-> IF k \in gone THEN None ELSE entries[k]]

-----------------------------------------------------------------------------
(* handleImgProxy                                                          *)

\* Mutant: a cached URL is not checked again.
AcceptsCached(t) == t \in Cached \/ Valid(t)
Accepts(t) == Valid(t)

\* The target passes the check.
Ask(r) ==
    /\ pc[r] = "idle"
    /\ \E t \in Asked :
          /\ Accepts(t)
          /\ key' = [key EXCEPT ![r] = t]
          /\ target' = [target EXCEPT ![r] = t]
    /\ via' = [via EXCEPT ![r] = 1]
    /\ Goto(r, "get")
    /\ UNCHANGED <<now, dns, entries, sweep, pool, ips, peer, started, body,
                   reached>>

\* get: a copy under the read lock ...
Get(r) ==
    /\ pc[r] = "get"
    /\ \/ key[r] \notin Cached /\ Goto(r, "do") /\ UNCHANGED body
       \/ key[r] \in Expired /\ Goto(r, "evict") /\ UNCHANGED body
       \/ /\ key[r] \in Cached \ Expired
          /\ Goto(r, "hit")
          /\ body' = [body EXCEPT ![r] = entries[key[r]].body]
    /\ UNCHANGED <<now, dns, entries, sweep, pool, key, target, via, ips, peer,
                   started, reached>>

\* ... and a delete under the write lock.
Evict(r) ==
    /\ pc[r] = "evict"
    /\ entries' = Without({key[r]})
    /\ Goto(r, "do")
    /\ UNCHANGED <<now, dns, sweep, pool, key, target, via, ips, peer, started,
                   body, reached>>

Do(r) ==
    /\ pc[r] = "do"
    /\ started' = [started EXCEPT ![r] = now]
    /\ Goto(r, "connect")
    /\ UNCHANGED <<now, dns, entries, sweep, pool, key, target, via, ips, peer,
                   body, reached>>

-----------------------------------------------------------------------------
(* The client of newProxyServer                                            *)

\* Over any connection to that host and port, whoever dialled it.
Send(r) ==
    /\ pc[r] = "connect"
    /\ \E c \in pool :
          /\ c.host = target[r].host /\ c.port = target[r].port
          /\ peer' = [peer EXCEPT ![r] = c.addr]
          /\ reached' = reached \cup {<<target[r], c.addr>>}
    /\ Goto(r, "waiting")
    /\ UNCHANGED <<now, dns, entries, sweep, pool, key, target, via, ips,
                   started, body>>

\* The connection was closed by then.
Resend(r) ==
    /\ pc[r] = "waiting"
    /\ peer' = [peer EXCEPT ![r] = None]
    /\ Goto(r, "connect")
    /\ UNCHANGED <<now, dns, entries, sweep, pool, key, target, via, ips,
                   started, body, reached>>

\* DialContext.
Resolve(r) ==
    /\ pc[r] = "connect"
    /\ target[r].port \in WebPorts
    /\ ips' = [ips EXCEPT ![r] = IF target[r].host \in Addresses
                                 THEN {target[r].host} ELSE dns[target[r].host]]
    /\ Goto(r, "dial")
    /\ UNCHANGED <<now, dns, entries, sweep, pool, key, target, via, peer,
                   started, body, reached>>

\* Mutant: the addresses were checked with the target.
EveryAddress(r) == ips[r]
Dialable(r) == ips[r] \ Forbidden

Dial(r) ==
    /\ pc[r] = "dial"
    /\ \E a \in Dialable(r) :
          pool' = pool \cup
             {[host |-> target[r].host, port |-> target[r].port, addr |-> a]}
    /\ ips' = [ips EXCEPT ![r] = {}]
    /\ Goto(r, "connect")
    /\ UNCHANGED <<now, dns, entries, sweep, key, target, via, peer, started,
                   body, reached>>

\* CheckRedirect.
Redirect(r) ==
    /\ pc[r] = "waiting"
    /\ \E t \in Target :
          IF via[r] < MaxRedirects /\ Valid(t)
          THEN /\ target' = [target EXCEPT ![r] = t]
               /\ via' = [via EXCEPT ![r] = @ + 1]
               /\ Goto(r, "connect")
          ELSE Goto(r, "failed") /\ UNCHANGED <<target, via>>
    /\ peer' = [peer EXCEPT ![r] = None]
    /\ UNCHANGED <<now, dns, entries, sweep, pool, key, ips, started, body,
                   reached>>

\* A 200 with an image comes, known by the URL it was asked for ...
Respond(r) ==
    /\ pc[r] = "waiting"
    /\ body' = [body EXCEPT ![r] =
                   [key |-> key[r], sent |-> now, from |-> peer[r]]]
    /\ Goto(r, "reading")
    /\ UNCHANGED <<now, dns, entries, sweep, pool, key, target, via, ips, peer,
                   started, reached>>

\* ... and is read to its end, at most 5MB.
Read(r) ==
    /\ pc[r] = "reading"
    /\ Goto(r, "read")
    /\ UNCHANGED <<now, dns, entries, sweep, pool, key, target, via, ips, peer,
                   started, body, reached>>

\* Nothing permitted answers, or not what is wanted, or not in time: at the
\* latest Client.Timeout ends it, which runs to the end of the body.
Fails(r) ==
    /\ pc[r] \in {"connect", "dial", "waiting", "reading"}
    /\ Goto(r, "failed")
    /\ UNCHANGED <<now, dns, entries, sweep, pool, key, target, via, ips, peer,
                   started, body, reached>>

-----------------------------------------------------------------------------
\* set prunes a full map and empties it when that frees nothing.
Room ==
    IF Cardinality(Cached) < MaxItems THEN entries
    ELSE IF Cardinality(Cached \ Expired) < MaxItems THEN Without(Expired)
    ELSE Without(Asked)

\* Mutant: under the URL it was redirected to.
KeptUnderTarget(r) == target[r]
KeptUnder(r) == key[r]

Set(r) ==
    /\ pc[r] = "read"
    /\ entries' = [Room EXCEPT ![KeptUnder(r)] =
                      [body |-> body[r], expiresAt |-> now + TTL]]
    /\ Goto(r, "miss")
    /\ UNCHANGED <<now, dns, sweep, pool, key, target, via, ips, peer, started,
                   body, reached>>

Answer(r) ==
    /\ pc[r] \in {"hit", "miss", "failed"}
    /\ Goto(r, "idle")
    /\ key' = [key EXCEPT ![r] = None]
    /\ target' = [target EXCEPT ![r] = None]
    /\ via' = [via EXCEPT ![r] = 0]
    /\ ips' = [ips EXCEPT ![r] = {}]
    /\ peer' = [peer EXCEPT ![r] = None]
    /\ started' = [started EXCEPT ![r] = 0]
    /\ body' = [body EXCEPT ![r] = None]
    /\ UNCHANGED <<now, dns, entries, sweep, pool, reached>>

-----------------------------------------------------------------------------
(* Around it                                                               *)

\* newMemoryCache's goroutine.
Sweep ==
    /\ now = sweep
    /\ entries' = Without(Expired)
    /\ sweep' = now + Period
    /\ UNCHANGED <<now, dns, pool, requestVars, reached>>

\* The owner of a name points it somewhere else.
ChangeName ==
    /\ \E n \in Names, S \in Lookups : dns' = [dns EXCEPT ![n] = S]
    /\ UNCHANGED <<now, entries, sweep, pool, requestVars, reached>>

Close ==
    /\ \E c \in pool : pool' = pool \ {c}
    /\ UNCHANGED <<now, dns, entries, sweep, requestVars, reached>>

\* Timers fire when they are due; what a goroutine does between two waits is
\* short beside a tick.
Tick ==
    /\ now < MaxTime
    /\ now < sweep
    /\ \A r \in Requests :
          pc[r] \in {"connect", "dial", "waiting", "reading", "read"} =>
             now < started[r] + FetchTimeout
    /\ now' = now + 1
    /\ UNCHANGED <<dns, entries, sweep, pool, requestVars, reached>>

Next ==
    \/ \E r \in Requests :
          \/ Ask(r) \/ Get(r) \/ Evict(r) \/ Do(r)
          \/ Send(r) \/ Resend(r) \/ Resolve(r) \/ Dial(r)
          \/ Redirect(r) \/ Respond(r) \/ Read(r) \/ Fails(r)
          \/ Set(r) \/ Answer(r)
    \/ Sweep \/ ChangeName \/ Close \/ Tick

\* A goroutine that can run does, and the client's timer fires, whatever
\* upstreams and names do.
Fairness == \A r \in Requests :
    /\ WF_vars(Get(r)) /\ WF_vars(Evict(r)) /\ WF_vars(Do(r))
    /\ WF_vars(Fails(r)) /\ WF_vars(Set(r)) /\ WF_vars(Answer(r))

Spec == Init /\ [][Next]_vars /\ Fairness

-----------------------------------------------------------------------------
TypeOK ==
    /\ FetchTypeOK
    /\ dns \in [Names -> Lookups]
    /\ pc \in [Requests -> Labels \ {"received"}]
    /\ now \in Times /\ sweep \in Nat
    /\ entries \in [Asked -> Entry \cup {None}]
    /\ key \in [Requests -> Asked \cup {None}]
    /\ peer \in [Requests -> Addresses \cup {None}]
    /\ started \in [Requests -> Times]
    /\ body \in [Requests -> Body \cup {None}]

\* Whichever connection carried the request, and wherever the name leads by
\* then: an image in the cache or on its way to a client is the answer to the
\* URL it is kept under, and came from an address that is not forbidden.
ImagesArePermitted ==
    /\ \A k \in Cached :
          entries[k].body.key = k /\ entries[k].body.from \notin Forbidden
    /\ \A r \in Requests : body[r] # None =>
          body[r].key = key[r] /\ body[r].from \notin Forbidden

\* What a slot holds while its request is handled: only a connection to a
\* permitted address carries it, and only then an image arrives.
SlotsHeld == \A r \in Requests :
    /\ pc[r] = "idle" => key[r] = None
    /\ pc[r] # "idle" => key[r] \in Asked
    /\ pc[r] = "waiting" => peer[r] \in Addresses \ Forbidden
    /\ pc[r] \in {"idle", "get", "evict", "do", "connect", "dial", "waiting"}
          => body[r] = None
    /\ pc[r] \in {"hit", "reading", "read"} => body[r] # None

-----------------------------------------------------------------------------
(* To the cache, everything from Do to set is one fetch.                   *)

Seen(b) == IF b = None THEN None ELSE [key |-> b.key, sent |-> b.sent]
Shown(e) ==
    IF e = None THEN None
    ELSE [body |-> Seen(e.body), expiresAt |-> e.expiresAt]
ShownTable(table) == [k \in Asked |-> Shown(table[k])]
CacheLabel(label) ==
    CASE label \in {"idle", "get"} -> "idle"
      [] label = "do" -> "fetch"
      [] label \in {"evict", "hit", "miss", "failed"} -> label
      [] OTHER -> "fetching"

CacheEntries == ShownTable(entries)
CachePc == [r \in Requests |-> CacheLabel(pc[r])]
CacheKey == [r \in Requests |-> IF pc[r] = "get" THEN None ELSE key[r]]
CacheBody == [r \in Requests |-> Seen(body[r])]

Cache == INSTANCE ImageCache
           WITH Keys <- Asked, entries <- CacheEntries, pc <- CachePc,
                key <- CacheKey, body <- CacheBody

\* The cache of the gateway, with everything a fetch does in between, is the
\* one of ImageCache.
ImplementsCache == Cache!Spec

\* To the client, a HIT is a request that came to nothing before it connected.
FetchLabel(label) ==
    CASE label \in {"get", "evict", "do"} -> "connect"
      [] label = "reading" -> "waiting"
      [] label \in {"read", "miss"} -> "received"
      [] label = "hit" -> "failed"
      [] OTHER -> label
FetchPc == [r \in Requests |-> FetchLabel(pc[r])]

Fetch == INSTANCE ImageFetch WITH pc <- FetchPc

\* The checks of targets, redirects and addresses are those of ImageFetch
\* whatever the cache answers, and every request is answered as there.
ImplementsFetch == Fetch!FairSpec

-----------------------------------------------------------------------------
ASSUME NoneIsNothing ==
    None \notin Body \cup Entry \cup Cache!Body \cup Cache!Entry

\* Inductive: whatever clients ask, upstreams answer and names become, an
\* image that is kept or given out, and every request sent on its way, went
\* where the rules permit.
ProxyInv == TypeOK /\ SlotsHeld /\ ImagesArePermitted /\ FetchInv
=============================================================================
