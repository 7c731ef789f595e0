----------------------------- MODULE ImageFetch -----------------------------
(***************************************************************************)
(* GET /img-proxy up to the cache: the check of the target                 *)
(* (validateProxyTargetURL), the http.Client built by NewImgProxyHandler,  *)
(* which checks every redirect and every address it dials, and its         *)
(* timeout.  Names are resolved three times on the way, and what they      *)
(* resolve to may change in between; connections outlive the request that  *)
(* dialled them and carry others to the same host.                         *)
(*                                                                         *)
(* A request that is refused before anything is sent (400, 403, or a HIT)  *)
(* changes nothing.  A lookup is one step: the resolver answers or fails.  *)
(***************************************************************************)
EXTENDS ProxyRules

fetchVars == <<pc, target, via, ips>>
vars == <<dns, fetchVars, pool, reached>>

\* assertSafePort.
SafePort(t) == t.port \in WebPorts

\* validateProxyTargetURL.  Every address of a name must be permitted.
Valid(t) ==
    /\ t.plain
    /\ t.host \notin BlockedNames
    /\ SafePort(t)
    /\ IF t.host \in Addresses
       THEN t.host \notin Forbidden
       ELSE dns[t.host] # {} /\ dns[t.host] \cap Forbidden = {}

Init ==
    /\ dns \in [Names -> SUBSET Addresses]
    /\ pc = [r \in Requests |-> "idle"]
    /\ target = [r \in Requests |-> None]
    /\ via = [r \in Requests |-> 0]
    /\ ips = [r \in Requests |-> {}]
    /\ pool = {} /\ reached = {}

Goto(r, label) == pc' = [pc EXCEPT ![r] = label]

-----------------------------------------------------------------------------
\* The target passes the check and is not cached: client.Do.
Proxy(r) ==
    /\ pc[r] = "idle"
    /\ \E t \in Target :
          /\ Valid(t)
          /\ target' = [target EXCEPT ![r] = t]
    /\ via' = [via EXCEPT ![r] = 1]
    /\ Goto(r, "connect")
    /\ UNCHANGED <<dns, ips, pool, reached>>

\* The transport has a connection to that host and port: the request goes out.
Send(r) ==
    /\ pc[r] = "connect"
    /\ \E c \in pool :
          /\ c.host = target[r].host /\ c.port = target[r].port
          /\ reached' = reached \cup {<<target[r], c.addr>>}
    /\ Goto(r, "waiting")
    /\ UNCHANGED <<dns, target, via, ips, pool>>

\* The connection it took was closed by then: a GET is sent once more.
Resend(r) ==
    /\ pc[r] = "waiting"
    /\ Goto(r, "connect")
    /\ UNCHANGED <<dns, target, via, ips, pool, reached>>

\* DialContext: the port again, then the address itself or a lookup.
Resolve(r) ==
    /\ pc[r] = "connect"
    /\ SafePort(target[r])
    /\ ips' = [ips EXCEPT ![r] = IF target[r].host \in Addresses
                                 THEN {target[r].host} ELSE dns[target[r].host]]
    /\ Goto(r, "dial")
    /\ UNCHANGED <<dns, target, via, pool, reached>>

DialledConnection(t, a) == [host |-> t.host, port |-> t.port, addr |-> a]

\* Mutant: the addresses were checked with the target.
EveryAddress(r) == ips[r]
Dialable(r) == ips[r] \ Forbidden

\* One of the permitted addresses answers.  The connection is the
\* transport's: a request to the same host may take it first.
Dial(r) ==
    /\ pc[r] = "dial"
    /\ \E a \in Dialable(r) :
          pool' = pool \cup {DialledConnection(target[r], a)}
    /\ ips' = [ips EXCEPT ![r] = {}]
    /\ Goto(r, "connect")
    /\ UNCHANGED <<dns, target, via, reached>>

\* The lookup failed, no address is permitted, or none answers; or the
\* upstream breaks the exchange off, or answers what is not a small image.
FetchFails(r) ==
    /\ pc[r] \in {"connect", "dial", "waiting"}
    /\ Goto(r, "failed")
    /\ UNCHANGED <<dns, target, via, ips, pool, reached>>

\* Mutants: one redirect more; a redirect checked by the dialler alone.
OneMoreRedirect(r, t) == via[r] <= MaxRedirects /\ Valid(t)
AnyRedirect(r, t) == via[r] < MaxRedirects
\* CheckRedirect.
RedirectAllowed(r, t) == via[r] < MaxRedirects /\ Valid(t)

Redirect(r) ==
    /\ pc[r] = "waiting"
    /\ \E t \in Target :
          IF RedirectAllowed(r, t)
          THEN /\ target' = [target EXCEPT ![r] = t]
               /\ via' = [via EXCEPT ![r] = @ + 1]
               /\ Goto(r, "connect")
          ELSE Goto(r, "failed") /\ UNCHANGED <<target, via>>
    /\ UNCHANGED <<dns, ips, pool, reached>>

\* A 200 with an image of at most 5MB, read to its end.
Receive(r) ==
    /\ pc[r] = "waiting"
    /\ Goto(r, "received")
    /\ UNCHANGED <<dns, target, via, ips, pool, reached>>

\* Mutant: only the dialler and the response headers are timed.
DialTimed(r) == pc[r] \in {"connect", "dial"}
\* http.Client.Timeout runs from Do to the end of the body.
Timed(r) == pc[r] \in {"connect", "dial", "waiting"}

Timeout(r) ==
    /\ Timed(r)
    /\ Goto(r, "failed")
    /\ UNCHANGED <<dns, target, via, ips, pool, reached>>

Answer(r) ==
    /\ pc[r] \in {"received", "failed"}
    /\ Goto(r, "idle")
    /\ target' = [target EXCEPT ![r] = None]
    /\ via' = [via EXCEPT ![r] = 0]
    /\ ips' = [ips EXCEPT ![r] = {}]
    /\ UNCHANGED <<dns, pool, reached>>

-----------------------------------------------------------------------------
\* The owner of a name points it somewhere else.
ChangeName ==
    /\ \E n \in Names, S \in SUBSET Addresses : dns' = [dns EXCEPT ![n] = S]
    /\ UNCHANGED <<fetchVars, pool, reached>>

\* An idle connection times out, or the other end closes one.
Close ==
    /\ \E c \in pool : pool' = pool \ {c}
    /\ UNCHANGED <<dns, fetchVars, reached>>

Next ==
    \/ \E r \in Requests :
          \/ Proxy(r) \/ Send(r) \/ Resend(r) \/ Resolve(r) \/ Dial(r)
          \/ FetchFails(r) \/ Redirect(r) \/ Receive(r) \/ Timeout(r) \/ Answer(r)
    \/ ChangeName
    \/ Close

Spec == Init /\ [][Next]_vars

\* The timer fires and the handler goes on, whatever upstreams and names do.
Fairness == \A r \in Requests : WF_vars(Timeout(r)) /\ WF_vars(Answer(r))

FairSpec == Spec /\ Fairness

-----------------------------------------------------------------------------
\* Every request is answered, though no upstream may ever respond.
Answered == \A r \in Requests : pc[r] # "idle" ~> pc[r] = "idle"
=============================================================================
