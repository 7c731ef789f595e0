--------------------------- MODULE ImgProxyProofs ---------------------------
(***************************************************************************)
(* The image proxies.  First ImageFetch, the client both of them use; then *)
(* ImgProxy, the gateway: whatever upstreams and names do, its images and  *)
(* its requests are permitted ones, and it does what ImageCache and        *)
(* ImageFetch say of a cache and of a client.                              *)
(***************************************************************************)
EXTENDS ImgProxy, TLAPS

-----------------------------------------------------------------------------
(* The client.  ImageFetch's constants and variables are those of          *)
(* ProxyRules, which this module has too, and a variable may have any      *)
(* value before Init is assumed: Client is ImageFetch itself.  Of the      *)
(* constants, only what ProxyRules assumes is used here.                   *)

Client == INSTANCE ImageFetch

LEMMA ClientConstants ==
  /\ BlockedNames \subseteq Names /\ Forbidden \subseteq Addresses
  /\ WebPorts \subseteq Ports /\ Names \cap Addresses = {}
  /\ MaxRedirects \in Nat \ {0} /\ None \notin Target
  BY RulesConstants, NoneIsNoTarget

\* A client's values are the ones the rules are about.
LEMMA SameTargets ==
  /\ Client!Target = Target /\ Client!Connection = Connection
  /\ Fetch!Target = Target /\ Fetch!Connection = Connection
  BY DEF Client!Target, Fetch!Target, Target, Client!Connection,
     Fetch!Connection, Connection, Client!Hosts, Fetch!Hosts, Hosts

\* Before any request there is nothing to be wrong about.
LEMMA ClientInitially == Client!Init => FetchInv
  BY ClientConstants DEF Client!Init, FetchInv, FetchTypeOK, Labels,
     TargetsSound, PoolSound, ReachesPermitted, FewRequests

\* validateProxyTargetURL passes nothing the rules exclude.
LEMMA ValidIsSound ==
    ASSUME NEW t \in Target, Client!Valid(t)
    PROVE  Sound(t)
  BY ClientConstants DEF Client!Valid, Client!SafePort, Sound, Target

\* No step of a request, a name's owner or an upstream breaks the invariant.
LEMMA ClientStep ==
    FetchInv /\ [Client!Next]_Client!vars => FetchInv'
<1> SUFFICES ASSUME FetchInv, [Client!Next]_Client!vars
             PROVE  FetchInv'
    OBVIOUS
<1> USE ClientConstants, SameTargets
    DEF FetchInv, FetchTypeOK, TargetsSound,
        PoolSound, ReachesPermitted, FewRequests,
        Labels, Client!Goto
<1>1. ASSUME NEW r \in Requests, Client!Proxy(r) PROVE FetchInv'
  <2>1. PICK t \in Target :
            Client!Valid(t) /\ target' = [target EXCEPT ![r] = t]
        BY <1>1 DEF Client!Proxy
  <2>2. Sound(t)
        BY <2>1, ValidIsSound
  <2> QED BY <1>1, <2>1, <2>2 DEF Client!Proxy
<1>2. ASSUME NEW r \in Requests, Client!Send(r) PROVE FetchInv'
  <2>1. PICK c \in pool : reached' = reached \cup {<<target[r], c.addr>>}
        BY <1>2 DEF Client!Send
  <2>2. c.addr \in Addresses \ Forbidden
        BY DEF Connection
  <2>3. target[r] \in Target /\ Sound(target[r])
        BY <1>2 DEF Client!Send
  <2>4. FetchTypeOK'
        BY <1>2, <2>1, <2>2, <2>3 DEF Client!Send
  <2>5. ReachesPermitted'
        BY <2>1, <2>2, <2>3 DEF Sound
  <2> QED BY <1>2, <2>4, <2>5 DEF Client!Send
<1>3. ASSUME NEW r \in Requests, Client!Resend(r) PROVE FetchInv'
      BY <1>3 DEF Client!Resend
<1>4. ASSUME NEW r \in Requests, Client!Resolve(r) PROVE FetchInv'
  <2>1. ips' \in [Requests -> SUBSET Addresses]
        BY <1>4 DEF Client!Resolve, Target, Hosts
  <2> QED BY <1>4, <2>1 DEF Client!Resolve
<1>5. ASSUME NEW r \in Requests, Client!Dial(r) PROVE FetchInv'
  <2>1. PICK a \in Client!Dialable(r) :
            pool' = pool \cup {Client!DialledConnection(target[r], a)}
        BY <1>5 DEF Client!Dial
  <2>2. a \in Addresses \ Forbidden
        BY DEF Client!Dialable
  <2>3. target[r] \in Target
        BY <1>5 DEF Client!Dial
  <2>4. Client!DialledConnection(target[r], a) \in Connection
        BY <2>2, <2>3 DEF Client!DialledConnection, Connection, Target
  <2>5. Client!DialledConnection(target[r], a).addr \notin Forbidden
        BY <2>2 DEF Client!DialledConnection
  <2>6. FetchTypeOK'
        BY <1>5, <2>1, <2>4 DEF Client!Dial
  <2>7. PoolSound'
        BY <2>1, <2>5
  <2> QED BY <1>5, <2>6, <2>7 DEF Client!Dial
<1>6. ASSUME NEW r \in Requests, Client!FetchFails(r) PROVE FetchInv'
      BY <1>6 DEF Client!FetchFails
<1>7. ASSUME NEW r \in Requests, Client!Redirect(r) PROVE FetchInv'
  <2>1. PICK t \in Target :
            IF Client!RedirectAllowed(r, t)
            THEN /\ target' = [target EXCEPT ![r] = t]
                 /\ via' = [via EXCEPT ![r] = @ + 1]
                 /\ Client!Goto(r, "connect")
            ELSE Client!Goto(r, "failed") /\ UNCHANGED <<target, via>>
        BY <1>7 DEF Client!Redirect
  <2>2. CASE Client!RedirectAllowed(r, t)
    <3>1. Sound(t)
          BY <2>2, ValidIsSound DEF Client!RedirectAllowed
    <3>2. via[r] + 1 \in Nat /\ via[r] + 1 <= MaxRedirects
          BY <2>2 DEF Client!RedirectAllowed
    <3>3. FetchTypeOK'
          BY <1>7, <2>1, <2>2, <3>2 DEF Client!Redirect
    <3>4. TargetsSound' /\ FewRequests'
          BY <1>7, <2>1, <2>2, <3>1, <3>2 DEF Client!Redirect
    <3> QED BY <1>7, <3>3, <3>4 DEF Client!Redirect
  <2>3. CASE ~Client!RedirectAllowed(r, t)
        BY <1>7, <2>1, <2>3 DEF Client!Redirect
  <2> QED BY <2>2, <2>3
<1>8. ASSUME NEW r \in Requests, Client!Receive(r) PROVE FetchInv'
      BY <1>8 DEF Client!Receive
<1>9. ASSUME NEW r \in Requests, Client!Timeout(r) PROVE FetchInv'
      BY <1>9 DEF Client!Timeout, Client!Timed
<1>10. ASSUME NEW r \in Requests, Client!Answer(r) PROVE FetchInv'
       BY <1>10 DEF Client!Answer
<1>11. CASE Client!ChangeName
       BY <1>11 DEF Client!ChangeName, Client!fetchVars
<1>12. CASE Client!Close
       BY <1>12 DEF Client!Close, Client!fetchVars
<1>13. CASE UNCHANGED Client!vars
       BY <1>13 DEF Client!vars, Client!fetchVars
<1> QED BY <1>1, <1>2, <1>3, <1>4, <1>5, <1>6, <1>7, <1>8, <1>9, <1>10,
           <1>11, <1>12, <1>13 DEF Client!Next

\* The inductive invariant of the fetch pipeline: targets have passed the
\* check, connections lead to permitted addresses (img_proxy.go, Proxy,
\* CheckRedirect and DialContext).
THEOREM FetchInvHolds == Client!Spec => []FetchInv
  BY ClientInitially, ClientStep, PTL DEF Client!Spec

\* Whatever names resolve to from one lookup to the next, no request is sent
\* to what validateProxyTargetURL and isForbiddenIP exclude.
THEOREM OnlyPermittedReached == Client!Spec => []ReachesPermitted
<1>1. FetchInv => ReachesPermitted
      BY DEF FetchInv
<1> QED BY <1>1, FetchInvHolds, PTL

\* For every limit, CheckRedirect lets one GET /img-proxy ask for no more
\* than imgProxyMaxRedirects URLs.
THEOREM RedirectsBounded == Client!Spec => []FewRequests
<1>1. FetchInv => FewRequests
      BY DEF FetchInv
<1> QED BY <1>1, FetchInvHolds, PTL

-----------------------------------------------------------------------------
(* The gateway: its invariant.                                             *)

LEMMA GatewayConstants ==
  /\ BlockedNames \subseteq Names /\ Forbidden \subseteq Addresses
  /\ WebPorts \subseteq Ports /\ Names \cap Addresses = {}
  /\ Lookups \subseteq SUBSET Addresses /\ Asked \subseteq Target
  /\ MaxRedirects \in Nat /\ MaxRedirects > 0 /\ MaxItems \in Nat
  /\ MaxItems > 0 /\ Period \in Nat /\ Period > 0
  /\ TTL \in Nat /\ FetchTimeout \in Nat /\ MaxTime \in Nat
  /\ None \notin Target /\ None \notin Body /\ None \notin Entry
  /\ None \notin Asked
  BY ProxyConstants, RulesConstants, NoneIsNoTarget, NoneIsNothing

\* The check of the gateway is that of ImageFetch, and passes nothing the
\* rules exclude.
LEMMA ValidTargets ==
  ASSUME TypeOK, NEW t \in Target
  PROVE  /\ Fetch!Valid(t) <=> Valid(t)
         /\ Valid(t) => Sound(t)
<1>1. Fetch!Valid(t) <=> Valid(t)
  BY DEF Fetch!Valid, Fetch!SafePort, Valid
<1>2. Valid(t) => Sound(t)
  <2>1. t.host \in Names \cup Addresses
    BY DEF Target, Hosts
  <2> QED
    BY <2>1, GatewayConstants DEF Valid, Sound
<1> QED
  BY <1>1, <1>2

\* A map from which entries have been removed is a map of the same images.
LEMMA WithoutShrinks ==
  ASSUME TypeOK, NEW gone
  PROVE  /\ Without(gone) \in [Asked -> Entry \cup {None}]
         /\ \A k \in Asked : Without(gone)[k] # None =>
               entries[k] # None /\ Without(gone)[k] = entries[k]
  BY DEF TypeOK, Without

LEMMA RoomShrinks ==
  ASSUME TypeOK
  PROVE  /\ Room \in [Asked -> Entry \cup {None}]
         /\ \A k \in Asked : Room[k] # None =>
               entries[k] # None /\ Room[k] = entries[k]
  BY WithoutShrinks DEF Room, TypeOK

LEMMA ImagesStay ==
  ASSUME ProxyInv, UNCHANGED <<key, body>>,
         \A k \in Asked : entries'[k] # None =>
            entries[k] # None /\ entries'[k] = entries[k]
  PROVE  ImagesArePermitted'
  BY DEF ProxyInv, ImagesArePermitted, Cached

LEMMA GatewayInitially == Init => ProxyInv
<1> SUFFICES ASSUME Init PROVE ProxyInv
  OBVIOUS
<1>1. TypeOK
  BY GatewayConstants DEF Init, TypeOK, FetchTypeOK, Labels, Times
<1>2. SlotsHeld /\ ImagesArePermitted
  BY DEF Init, SlotsHeld, ImagesArePermitted, Cached
<1>3. TargetsSound /\ FewRequests /\ PoolSound /\ ReachesPermitted
  BY GatewayConstants DEF Init, TargetsSound, FewRequests, PoolSound,
     ReachesPermitted
<1> QED
  BY <1>1, <1>2, <1>3 DEF ProxyInv, FetchInv, TypeOK

\* What passes the check enters with nothing of an earlier request.
LEMMA AskInv ==
  ASSUME ProxyInv, NEW r \in Requests, Ask(r)
  PROVE  ProxyInv'
<1>1. PICK t \in Asked : /\ Valid(t)
                         /\ key' = [key EXCEPT ![r] = t]
                         /\ target' = [target EXCEPT ![r] = t]
  BY DEF Ask, Accepts
<1>2. /\ pc[r] = "idle" /\ pc' = [pc EXCEPT ![r] = "get"]
      /\ via' = [via EXCEPT ![r] = 1]
      /\ UNCHANGED <<now, dns, entries, sweep, pool, ips, peer, started, body,
                     reached>>
  BY DEF Ask, Goto
<1>3. t \in Target /\ Sound(t)
  BY <1>1, GatewayConstants, ValidTargets DEF ProxyInv
<1>4. TypeOK'
  BY <1>1, <1>2, <1>3, GatewayConstants DEF ProxyInv, TypeOK, FetchTypeOK,
     Labels
<1>5. SlotsHeld'
  BY <1>1, <1>2, <1>3 DEF ProxyInv, TypeOK, SlotsHeld
<1>6. ImagesArePermitted'
  BY <1>1, <1>2 DEF ProxyInv, SlotsHeld, ImagesArePermitted, Cached
<1>7. TargetsSound' /\ FewRequests' /\ PoolSound' /\ ReachesPermitted'
  BY <1>1, <1>2, <1>3, GatewayConstants DEF ProxyInv, FetchInv, FetchTypeOK,
     TargetsSound, FewRequests, PoolSound, ReachesPermitted
<1> QED
  BY <1>4, <1>5, <1>6, <1>7 DEF ProxyInv, FetchInv, TypeOK

\* Steps of a request that send nothing and leave the cache and its target
\* alone.
LEMMA QuietInv ==
  ASSUME ProxyInv, NEW r \in Requests,
         Get(r) \/ Do(r) \/ Resend(r) \/ Resolve(r) \/ Read(r) \/ Fails(r)
  PROVE  ProxyInv'
<1>1. /\ UNCHANGED <<now, dns, entries, sweep, pool, key, target, via,
                    reached>>
      /\ pc[r] # "idle"
  BY DEF Get, Do, Resend, Resolve, Read, Fails
<1>2. CASE Get(r)
  <2>1. PICK label \in {"do", "evict", "hit"} :
           /\ pc' = [pc EXCEPT ![r] = label]
           /\ \/ label # "hit" /\ body' = body
              \/ /\ label = "hit" /\ key[r] \in Cached
                 /\ body' = [body EXCEPT ![r] = entries[key[r]].body]
    BY <1>2 DEF Get, Goto
  <2>2. UNCHANGED <<ips, peer, started>> /\ pc[r] = "get"
    BY <1>2 DEF Get
  <2>3. label = "hit" => entries[key[r]].body \in Body
    BY <2>1 DEF Cached, Entry, ProxyInv, TypeOK
  <2>4. TypeOK'
    BY <1>1, <2>1, <2>2, <2>3 DEF ProxyInv, TypeOK, FetchTypeOK, Labels
  <2>5. SlotsHeld'
    BY <1>1, <2>1, <2>2, <2>3, GatewayConstants DEF ProxyInv, TypeOK, SlotsHeld
  <2>6. ImagesArePermitted'
    BY <1>1, <2>1, <2>2 DEF ProxyInv, TypeOK, ImagesArePermitted, Cached
  <2>7. TargetsSound' /\ FewRequests'
    BY <1>1, <2>1 DEF ProxyInv, FetchInv, TargetsSound, FewRequests
  <2> QED
    BY <1>1, <2>4, <2>5, <2>6, <2>7 DEF ProxyInv, FetchInv, TypeOK, PoolSound,
       ReachesPermitted
<1>3. CASE ~Get(r)
  <2>1. PICK label \in {"connect", "dial", "read", "failed"} :
           /\ pc' = [pc EXCEPT ![r] = label]
           /\ label = "connect" => pc[r] \in {"do", "waiting"}
           /\ label = "dial" => pc[r] = "connect"
           /\ label = "read" => pc[r] = "reading"
    BY <1>3 DEF Do, Resend, Resolve, Read, Fails, Goto
  <2>2. /\ body' = body
        /\ peer' = peer \/ peer' = [peer EXCEPT ![r] = None]
        /\ started' = started \/ started' = [started EXCEPT ![r] = now]
    BY <1>3 DEF Do, Resend, Resolve, Read, Fails
  <2>3. ips' \in [Requests -> SUBSET Addresses]
    <3>1. CASE Resolve(r)
      <4>1. target[r] \in Target
        BY <1>1 DEF ProxyInv, FetchInv, FetchTypeOK
      <4>2. target[r].host \in Addresses \/ dns[target[r].host] \in Lookups
        BY <4>1 DEF Target, Hosts, ProxyInv, TypeOK
      <4> QED
        BY <3>1, <4>2, GatewayConstants DEF Resolve, ProxyInv, FetchInv,
           FetchTypeOK
    <3>2. CASE ~Resolve(r)
      BY <1>3, <3>2 DEF Do, Resend, Read, Fails, ProxyInv, FetchInv,
         FetchTypeOK
    <3> QED
      BY <3>1, <3>2
  <2>4. TypeOK'
    <3>1. /\ pc' \in [Requests -> Labels]
          /\ pc' \in [Requests -> Labels \ {"received"}]
          /\ \A q \in Requests : pc'[q] # "idle" => pc[q] # "idle"
      BY <1>1, <2>1 DEF ProxyInv, TypeOK, Labels
    <3>2. FetchTypeOK'
      BY <1>1, <2>3, <3>1 DEF ProxyInv, FetchInv, FetchTypeOK
    <3> QED
      BY <1>1, <2>2, <3>1, <3>2 DEF ProxyInv, TypeOK
  <2>5. SlotsHeld'
    BY <1>1, <2>1, <2>2 DEF ProxyInv, TypeOK, SlotsHeld
  <2>6. ImagesArePermitted'
    BY <1>1, <2>2, ImagesStay
  <2>7. TargetsSound' /\ FewRequests'
    BY <1>1, <2>1 DEF ProxyInv, FetchInv, TargetsSound, FewRequests
  <2> QED
    BY <1>1, <2>4, <2>5, <2>6, <2>7 DEF ProxyInv, FetchInv, TypeOK, PoolSound,
       ReachesPermitted
<1> QED
  BY <1>2, <1>3

\* A request goes out over a connection of the pool, to the target checked.
LEMMA SendInv ==
  ASSUME ProxyInv, NEW r \in Requests, Send(r)
  PROVE  ProxyInv'
<1>1. PICK c \in pool : /\ peer' = [peer EXCEPT ![r] = c.addr]
                        /\ reached' = reached \cup {<<target[r], c.addr>>}
  BY DEF Send
<1>2. /\ pc[r] = "connect" /\ pc' = [pc EXCEPT ![r] = "waiting"]
      /\ UNCHANGED <<now, dns, entries, sweep, pool, key, target, via, ips,
                     started, body>>
  BY DEF Send, Goto
<1>3. /\ target[r] \in Target /\ Sound(target[r])
      /\ c.addr \in Addresses \ Forbidden
  BY <1>2 DEF ProxyInv, FetchInv, FetchTypeOK, SlotsHeld, TargetsSound,
     PoolSound, Connection
<1>4. TypeOK'
  BY <1>1, <1>2, <1>3 DEF ProxyInv, TypeOK, FetchTypeOK, Labels
<1>5. SlotsHeld'
  BY <1>1, <1>2, <1>3 DEF ProxyInv, TypeOK, SlotsHeld
<1>6. ImagesArePermitted' /\ TargetsSound' /\ FewRequests' /\ PoolSound'
  BY <1>2, ImagesStay DEF ProxyInv, FetchInv, TargetsSound, FewRequests,
     PoolSound
<1>7. ReachesPermitted'
  BY <1>1, <1>3 DEF ProxyInv, FetchInv, ReachesPermitted, Sound
<1> QED
  BY <1>4, <1>5, <1>6, <1>7 DEF ProxyInv, FetchInv, TypeOK

\* DialContext skips forbidden addresses.
LEMMA DialInv ==
  ASSUME ProxyInv, NEW r \in Requests, Dial(r)
  PROVE  ProxyInv'
<1> DEFINE c(a) == [host |-> target[r].host, port |-> target[r].port,
                    addr |-> a]
<1>1. PICK a \in ips[r] \ Forbidden : pool' = pool \cup {c(a)}
  BY DEF Dial, Dialable
<1>2. /\ pc[r] = "dial" /\ pc' = [pc EXCEPT ![r] = "connect"]
      /\ ips' = [ips EXCEPT ![r] = {}]
      /\ UNCHANGED <<now, dns, entries, sweep, key, target, via, peer, started,
                     body, reached>>
  BY DEF Dial, Goto
<1>3. target[r] \in Target /\ a \in Addresses
  BY <1>2 DEF ProxyInv, FetchInv, FetchTypeOK, SlotsHeld
<1>4. c(a) \in Connection /\ c(a).addr \notin Forbidden
  BY <1>1, <1>3 DEF Target, Connection
<1> HIDE DEF c
<1>5. TypeOK'
  BY <1>1, <1>2, <1>4 DEF ProxyInv, TypeOK, FetchTypeOK, Labels
<1>6. SlotsHeld' /\ TargetsSound' /\ FewRequests'
  BY <1>2 DEF ProxyInv, FetchInv, SlotsHeld, TargetsSound, FewRequests
<1>7. ImagesArePermitted'
  BY <1>2, ImagesStay
<1>8. PoolSound' /\ ReachesPermitted'
  BY <1>1, <1>2, <1>4 DEF ProxyInv, FetchInv, PoolSound, ReachesPermitted
<1> QED
  BY <1>5, <1>6, <1>7, <1>8 DEF ProxyInv, FetchInv, TypeOK

\* CheckRedirect passes what the first check would.
LEMMA RedirectInv ==
  ASSUME ProxyInv, NEW r \in Requests, Redirect(r)
  PROVE  ProxyInv'
<1>1. /\ pc[r] = "waiting" /\ peer' = [peer EXCEPT ![r] = None]
      /\ UNCHANGED <<now, dns, entries, sweep, pool, key, ips, started, body,
                     reached>>
  BY DEF Redirect
<1>2. PICK t \in Target :
         \/ /\ via[r] < MaxRedirects /\ Valid(t)
            /\ target' = [target EXCEPT ![r] = t]
            /\ via' = [via EXCEPT ![r] = via[r] + 1]
            /\ pc' = [pc EXCEPT ![r] = "connect"]
         \/ /\ pc' = [pc EXCEPT ![r] = "failed"]
            /\ UNCHANGED <<target, via>>
  BY DEF Redirect, Goto
<1>3. Valid(t) => Sound(t)
  BY ValidTargets DEF ProxyInv
<1>4. TypeOK'
  <2>1. via' \in [Requests -> Nat]
    BY <1>2, GatewayConstants DEF ProxyInv, FetchInv, FetchTypeOK
  <2>2. target' \in [Requests -> Target \cup {None}]
    BY <1>2 DEF ProxyInv, FetchInv, FetchTypeOK
  <2>3. /\ pc' \in [Requests -> Labels]
        /\ pc' \in [Requests -> Labels \ {"received"}]
        /\ \A q \in Requests : pc'[q] # "idle" => target'[q] \in Target
    BY <1>1, <1>2 DEF ProxyInv, TypeOK, FetchTypeOK, Labels
  <2>4. FetchTypeOK'
    BY <1>1, <2>1, <2>2, <2>3 DEF ProxyInv, FetchInv, FetchTypeOK
  <2> QED
    BY <1>1, <2>3, <2>4 DEF ProxyInv, TypeOK
<1>5. SlotsHeld'
  BY <1>1, <1>2 DEF ProxyInv, TypeOK, SlotsHeld
<1>6. TargetsSound' /\ FewRequests'
  BY <1>1, <1>2, <1>3, GatewayConstants DEF ProxyInv, FetchInv, FetchTypeOK,
     TargetsSound, FewRequests
<1>7. ImagesArePermitted' /\ PoolSound' /\ ReachesPermitted'
  BY <1>1, ImagesStay DEF ProxyInv, FetchInv, PoolSound, ReachesPermitted
<1> QED
  BY <1>4, <1>5, <1>6, <1>7 DEF ProxyInv, FetchInv, TypeOK

\* An image comes from where the request went.
LEMMA RespondInv ==
  ASSUME ProxyInv, NEW r \in Requests, Respond(r)
  PROVE  ProxyInv'
<1> DEFINE image == [key |-> key[r], sent |-> now, from |-> peer[r]]
<1>1. /\ pc[r] = "waiting" /\ pc' = [pc EXCEPT ![r] = "reading"]
      /\ body' = [body EXCEPT ![r] = image]
      /\ UNCHANGED <<now, dns, entries, sweep, pool, key, target, via, ips,
                     peer, started, reached>>
  BY DEF Respond, Goto
<1>2. /\ image \in Body /\ image # None /\ image.key = key[r]
      /\ image.from \notin Forbidden
  <2>1. /\ key[r] \in Asked /\ now \in Times
        /\ peer[r] \in Addresses \ Forbidden
    BY <1>1 DEF ProxyInv, TypeOK, SlotsHeld
  <2>2. image \in Body
    BY <2>1 DEF Body
  <2> QED
    BY <2>1, <2>2, GatewayConstants
<1> HIDE DEF image
<1>3. TypeOK'
  BY <1>1, <1>2, GatewayConstants DEF ProxyInv, TypeOK, FetchTypeOK, Labels
<1>4. SlotsHeld'
  BY <1>1, <1>2 DEF ProxyInv, TypeOK, SlotsHeld
<1>5. ImagesArePermitted'
  BY <1>1, <1>2 DEF ProxyInv, ImagesArePermitted, Cached
<1>6. TargetsSound' /\ FewRequests' /\ PoolSound' /\ ReachesPermitted'
  BY <1>1 DEF ProxyInv, FetchInv, TargetsSound, FewRequests, PoolSound,
     ReachesPermitted
<1> QED
  BY <1>3, <1>4, <1>5, <1>6 DEF ProxyInv, FetchInv, TypeOK

\* What was received is kept under the URL it was asked for.
LEMMA SetInv ==
  ASSUME ProxyInv, NEW r \in Requests, Set(r)
  PROVE  ProxyInv'
<1> DEFINE new == [body |-> body[r], expiresAt |-> now + TTL]
<1>1. /\ pc[r] = "read" /\ pc' = [pc EXCEPT ![r] = "miss"]
      /\ entries' = [Room EXCEPT ![key[r]] = new]
      /\ UNCHANGED <<now, dns, sweep, pool, key, target, via, ips, peer,
                     started, body, reached>>
  BY DEF Set, Goto, KeptUnder
<1>2. /\ key[r] \in Asked /\ body[r] \in Body /\ body[r].key = key[r]
      /\ body[r].from \notin Forbidden
  BY <1>1 DEF ProxyInv, TypeOK, SlotsHeld, ImagesArePermitted
<1>3. new \in Entry /\ new.body = body[r]
  BY <1>2, GatewayConstants DEF Entry, ProxyInv, TypeOK, Times
<1> HIDE DEF new
<1>4. /\ entries' \in [Asked -> Entry \cup {None}]
      /\ entries'[key[r]] = new
      /\ \A k \in Asked \ {key[r]} : entries'[k] # None =>
            entries[k] # None /\ entries'[k] = entries[k]
  BY <1>1, <1>2, <1>3, RoomShrinks DEF ProxyInv
<1>5. TypeOK'
  BY <1>1, <1>4 DEF ProxyInv, TypeOK, FetchTypeOK, Labels
<1>6. SlotsHeld' /\ TargetsSound' /\ FewRequests'
  BY <1>1 DEF ProxyInv, FetchInv, SlotsHeld, TargetsSound, FewRequests
<1>7. ImagesArePermitted'
  BY <1>1, <1>2, <1>3, <1>4 DEF ProxyInv, ImagesArePermitted, Cached
<1>8. PoolSound' /\ ReachesPermitted'
  BY <1>1 DEF ProxyInv, FetchInv, PoolSound, ReachesPermitted
<1> QED
  BY <1>5, <1>6, <1>7, <1>8 DEF ProxyInv, FetchInv, TypeOK

\* Eviction and the sweep only remove images; an answer empties its slot.
LEMMA RemovalInv ==
  ASSUME ProxyInv, Sweep \/ \E r \in Requests : Evict(r)
  PROVE  ProxyInv'
<1>1. PICK gone : entries' = Without(gone)
  BY DEF Sweep, Evict
<1>2. /\ entries' \in [Asked -> Entry \cup {None}]
      /\ \A k \in Asked : entries'[k] # None =>
            entries[k] # None /\ entries'[k] = entries[k]
  BY <1>1, WithoutShrinks DEF ProxyInv
<1>3. /\ UNCHANGED <<now, dns, pool, key, target, via, ips, peer, started,
                     body, reached>>
      /\ sweep' = sweep \/ sweep' = now + Period
  BY DEF Sweep, Evict, requestVars
<1>4. \/ pc' = pc
      \/ \E r \in Requests : pc[r] = "evict" /\ pc' = [pc EXCEPT ![r] = "do"]
  BY DEF Sweep, Evict, Goto, requestVars
<1>5. TypeOK'
  <2>1. sweep' \in Nat
    BY <1>3, GatewayConstants DEF ProxyInv, TypeOK, Times
  <2> QED
    BY <1>2, <1>3, <1>4, <2>1 DEF ProxyInv, TypeOK, FetchTypeOK, Labels
<1>6. SlotsHeld' /\ TargetsSound' /\ FewRequests'
  BY <1>3, <1>4 DEF ProxyInv, FetchInv, TypeOK, SlotsHeld, TargetsSound,
     FewRequests
<1>7. ImagesArePermitted'
  BY <1>2, <1>3, ImagesStay
<1>8. PoolSound' /\ ReachesPermitted'
  BY <1>3 DEF ProxyInv, FetchInv, PoolSound, ReachesPermitted
<1> QED
  BY <1>5, <1>6, <1>7, <1>8 DEF ProxyInv, FetchInv, TypeOK

LEMMA AnswerInv ==
  ASSUME ProxyInv, NEW r \in Requests, Answer(r)
  PROVE  ProxyInv'
<1>1. /\ pc' = [pc EXCEPT ![r] = "idle"] /\ key' = [key EXCEPT ![r] = None]
      /\ target' = [target EXCEPT ![r] = None]
      /\ via' = [via EXCEPT ![r] = 0] /\ ips' = [ips EXCEPT ![r] = {}]
      /\ peer' = [peer EXCEPT ![r] = None]
      /\ started' = [started EXCEPT ![r] = 0]
      /\ body' = [body EXCEPT ![r] = None]
      /\ UNCHANGED <<now, dns, entries, sweep, pool, reached>>
  BY DEF Answer, Goto
<1>2. TypeOK'
  BY <1>1, GatewayConstants DEF ProxyInv, TypeOK, FetchTypeOK, Labels, Times
<1>3. SlotsHeld' /\ TargetsSound' /\ FewRequests'
  BY <1>1, GatewayConstants DEF ProxyInv, FetchInv, TypeOK, SlotsHeld,
     TargetsSound, FewRequests
<1>4. ImagesArePermitted'
  BY <1>1 DEF ProxyInv, TypeOK, ImagesArePermitted, Cached
<1>5. PoolSound' /\ ReachesPermitted'
  BY <1>1 DEF ProxyInv, FetchInv, PoolSound, ReachesPermitted
<1> QED
  BY <1>2, <1>3, <1>4, <1>5 DEF ProxyInv, FetchInv, TypeOK

\* Names, closed connections and the clock.
LEMMA AroundInv ==
  ASSUME ProxyInv, ChangeName \/ Close \/ Tick
  PROVE  ProxyInv'
<1>1. /\ UNCHANGED <<entries, sweep, pc, key, target, via, ips, peer, started,
                     body, reached>>
      /\ pool' \subseteq pool
  BY DEF ChangeName, Close, Tick, requestVars
<1>2. now' \in Times /\ dns' \in [Names -> Lookups]
  BY GatewayConstants DEF ChangeName, Close, Tick, ProxyInv, TypeOK, Times
<1>3. TypeOK'
  BY <1>1, <1>2, GatewayConstants DEF ProxyInv, TypeOK, FetchTypeOK
<1>4. SlotsHeld' /\ TargetsSound' /\ FewRequests' /\ ImagesArePermitted'
  BY <1>1 DEF ProxyInv, FetchInv, SlotsHeld, TargetsSound, FewRequests,
     ImagesArePermitted, Cached
<1>5. PoolSound' /\ ReachesPermitted'
  BY <1>1 DEF ProxyInv, FetchInv, PoolSound, ReachesPermitted
<1> QED
  BY <1>3, <1>4, <1>5 DEF ProxyInv, FetchInv, TypeOK

LEMMA StepProxyInv == ProxyInv /\ [Next]_vars => ProxyInv'
<1> SUFFICES ASSUME ProxyInv, [Next]_vars PROVE ProxyInv'
  OBVIOUS
<1>1. ASSUME NEW r \in Requests,
             \/ Ask(r) \/ Get(r) \/ Evict(r) \/ Do(r)
             \/ Send(r) \/ Resend(r) \/ Resolve(r) \/ Dial(r)
             \/ Redirect(r) \/ Respond(r) \/ Read(r) \/ Fails(r)
             \/ Set(r) \/ Answer(r)
      PROVE  ProxyInv'
  BY <1>1, AskInv, QuietInv, SendInv, DialInv, RedirectInv, RespondInv, SetInv,
     RemovalInv, AnswerInv
<1>2. CASE Sweep \/ ChangeName \/ Close \/ Tick
  BY <1>2, RemovalInv, AroundInv
<1>3. CASE UNCHANGED vars
  BY <1>3 DEF vars, requestVars, ProxyInv, FetchInv, TypeOK, FetchTypeOK,
     SlotsHeld, TargetsSound, FewRequests, ImagesArePermitted, Cached,
     PoolSound, ReachesPermitted
<1> QED
  BY <1>1, <1>2, <1>3 DEF Next

\* The invariant of the gateway holds in every reachable state.
THEOREM ProxyInvHolds == Spec => []ProxyInv
  BY GatewayInitially, StepProxyInv, PTL DEF Spec

-----------------------------------------------------------------------------
(* The gateway implements ImageCache: what is kept.                        *)

LEMMA SeenImages ==
  /\ Seen(None) = None
  /\ \A b \in Body : Seen(b) = [key |-> b.key, sent |-> b.sent]
                     /\ Seen(b) # None
<1>1. \A b \in Body : [key |-> b.key, sent |-> b.sent] \in Cache!Body
  BY DEF Body, Cache!Body, Times, Cache!Times
<1> QED
  BY <1>1, NoneIsNothing, GatewayConstants DEF Seen

LEMMA ShownEntries ==
  /\ Shown(None) = None
  /\ \A e \in Entry : /\ Shown(e) # None
                      /\ Shown(e).body = Seen(e.body)
                      /\ Shown(e).expiresAt = e.expiresAt
<1>1. ASSUME NEW e \in Entry
      PROVE  /\ Shown(e) = [body |-> Seen(e.body), expiresAt |-> e.expiresAt]
             /\ Shown(e) # None
  <2>1. Shown(e) = [body |-> Seen(e.body), expiresAt |-> e.expiresAt]
    BY GatewayConstants DEF Shown
  <2>2. Seen(e.body) \in Cache!Body
    BY SeenImages DEF Entry, Body, Cache!Body, Times, Cache!Times
  <2>3. Shown(e) \in Cache!Entry
    BY <2>1, <2>2 DEF Entry, Cache!Entry
  <2> QED
    BY <2>1, <2>3, NoneIsNothing
<1> QED
  BY <1>1 DEF Shown

\* The two maps have the same keys, and entries that expire together.
LEMMA SameEntries ==
  ASSUME TypeOK
  PROVE  /\ \A k \in Asked : CacheEntries[k] = None <=> entries[k] = None
         /\ \A k \in Cached :
               /\ CacheEntries[k].body = Seen(entries[k].body)
               /\ CacheEntries[k].expiresAt = entries[k].expiresAt
         /\ Cache!Cached(CacheEntries) = Cached
         /\ \A k \in Cached : Cache!Expired(CacheEntries[k]) <=> k \in Expired
<1>1. \A k \in Asked : entries[k] \in Entry \/ entries[k] = None
  BY DEF TypeOK
<1>2. \A k \in Asked : CacheEntries[k] = Shown(entries[k])
  BY DEF CacheEntries, ShownTable
<1>3. \A k \in Asked : CacheEntries[k] = None <=> entries[k] = None
  BY <1>1, <1>2, ShownEntries
<1>4. \A k \in Cached :
         /\ CacheEntries[k].body = Seen(entries[k].body)
         /\ CacheEntries[k].expiresAt = entries[k].expiresAt
  BY <1>1, <1>2, ShownEntries DEF Cached
<1>5. Cache!Cached(CacheEntries) = Cached
  BY <1>3 DEF Cache!Cached, Cached
<1>6. \A k \in Cached : Cache!Expired(CacheEntries[k]) <=> k \in Expired
  BY <1>4 DEF Cache!Expired, Expired
<1> QED
  BY <1>3, <1>4, <1>5, <1>6

\* Removing entries shows as removing them, and room is made in the same way.
LEMMA ShownWithout ==
  ASSUME NEW gone
  PROVE  ShownTable(Without(gone)) = Cache!Without(CacheEntries, gone)
  BY ShownEntries DEF ShownTable, Without, Cache!Without, CacheEntries

LEMMA ShownPruned ==
  ASSUME TypeOK
  PROVE  /\ Cache!Pruned(CacheEntries) = ShownTable(Without(Expired))
         /\ Cache!Cached(Cache!Pruned(CacheEntries)) = Cached \ Expired
<1>1. {k \in Cache!Cached(CacheEntries) : Cache!Expired(CacheEntries[k])}
        = Expired
  BY SameEntries DEF Expired
<1>2. Cache!Pruned(CacheEntries) = Cache!Without(CacheEntries, Expired)
  BY <1>1 DEF Cache!Pruned
<1>3. Cache!Cached(Cache!Without(CacheEntries, Expired)) = Cached \ Expired
  BY SameEntries DEF Cache!Cached, Cache!Without, Cached
<1> QED
  BY <1>2, <1>3, ShownWithout

LEMMA ShownRoom ==
  ASSUME TypeOK
  PROVE  ShownTable(Room) = Cache!Room(CacheEntries)
<1>1. ShownTable(entries) = CacheEntries
  BY DEF CacheEntries
<1>2. Cache!Room(CacheEntries) =
        IF Cardinality(Cached) < MaxItems THEN CacheEntries
        ELSE IF Cardinality(Cached \ Expired) < MaxItems
             THEN ShownTable(Without(Expired))
             ELSE Cache!Without(CacheEntries, Asked)
  <2>1. /\ Cache!Cached(CacheEntries) = Cached
        /\ Cache!Pruned(CacheEntries) = ShownTable(Without(Expired))
        /\ Cache!Cached(Cache!Pruned(CacheEntries)) = Cached \ Expired
    BY SameEntries, ShownPruned
  <2>2. \A S : Cache!Cardinality(S) = Cardinality(S)
    BY DEF Cache!Cardinality, Cardinality
  <2> QED
    BY <2>1, <2>2 DEF Cache!Room
<1>3. ShownTable(Without(Asked)) = Cache!Without(CacheEntries, Asked)
  BY ShownWithout
<1> QED
  BY <1>1, <1>2, <1>3 DEF Room

-----------------------------------------------------------------------------
(* Each step of the gateway is one of the cache, or none.                  *)

CacheUnchanged ==
    UNCHANGED <<now, CacheEntries, sweep, CachePc, CacheKey, started,
                CacheBody>>

LEMMA CacheLabels ==
  /\ CacheLabel("idle") = "idle" /\ CacheLabel("get") = "idle"
  /\ CacheLabel("do") = "fetch" /\ CacheLabel("evict") = "evict"
  /\ CacheLabel("connect") = "fetching" /\ CacheLabel("dial") = "fetching"
  /\ CacheLabel("waiting") = "fetching" /\ CacheLabel("reading") = "fetching"
  /\ CacheLabel("read") = "fetching" /\ CacheLabel("hit") = "hit"
  /\ CacheLabel("miss") = "miss" /\ CacheLabel("failed") = "failed"
  BY DEF CacheLabel

\* get.
LEMMA CacheGet ==
  ASSUME ProxyInv, NEW r \in Requests, Get(r)
  PROVE  Cache!Get(r)
<1>1. /\ pc[r] = "get" /\ key[r] \in Asked /\ TypeOK
      /\ UNCHANGED <<now, entries, sweep, key, started>>
  BY DEF Get, ProxyInv, SlotsHeld
<1>2. UNCHANGED <<now, CacheEntries, sweep, started>>
  BY <1>1 DEF CacheEntries
<1>3. CachePc[r] = "idle"
  BY <1>1 DEF CachePc, CacheLabel
<1>4. CASE key[r] \in Cached \ Expired
  <2>1. /\ pc' = [pc EXCEPT ![r] = "hit"]
        /\ body' = [body EXCEPT ![r] = entries[key[r]].body]
    BY <1>4 DEF Get, Goto, Expired
  <2>2. /\ CachePc' = [CachePc EXCEPT ![r] = "hit"]
        /\ CacheKey' = [CacheKey EXCEPT ![r] = key[r]]
    BY <1>1, <2>1, CacheLabels DEF CachePc, CacheKey, TypeOK
  <2>3. CacheBody' = [CacheBody EXCEPT ![r] = CacheEntries[key[r]].body]
    BY <1>1, <1>4, <2>1, SameEntries DEF CacheBody, TypeOK
  <2>4. CacheEntries[key[r]] # None /\ ~Cache!Expired(CacheEntries[key[r]])
    BY <1>1, <1>4, SameEntries DEF Cached
  <2> QED
    BY <1>1, <1>2, <1>3, <2>2, <2>3, <2>4 DEF Cache!Get, Cache!Goto
<1>5. CASE key[r] \notin Cached
  <2>1. pc' = [pc EXCEPT ![r] = "do"] /\ body' = body
    BY <1>5 DEF Get, Goto, Expired
  <2>2. /\ CachePc' = [CachePc EXCEPT ![r] = "fetch"]
        /\ CacheKey' = [CacheKey EXCEPT ![r] = key[r]]
    BY <1>1, <2>1, CacheLabels DEF CachePc, CacheKey, TypeOK
  <2>3. CacheBody' = CacheBody
    BY <2>1 DEF CacheBody
  <2>4. CacheEntries[key[r]] = None
    BY <1>1, <1>5, SameEntries DEF Cached
  <2> QED
    BY <1>1, <1>2, <1>3, <2>2, <2>3, <2>4 DEF Cache!Get, Cache!Goto
<1>6. CASE key[r] \in Expired
  <2>1. pc' = [pc EXCEPT ![r] = "evict"] /\ body' = body
    BY <1>6 DEF Get, Goto, Expired
  <2>2. /\ CachePc' = [CachePc EXCEPT ![r] = "evict"]
        /\ CacheKey' = [CacheKey EXCEPT ![r] = key[r]]
    BY <1>1, <2>1, CacheLabels DEF CachePc, CacheKey, TypeOK
  <2>3. CacheBody' = CacheBody
    BY <2>1 DEF CacheBody
  <2>4. CacheEntries[key[r]] # None /\ Cache!Expired(CacheEntries[key[r]])
    BY <1>1, <1>6, SameEntries DEF Expired, Cached
  <2> QED
    BY <1>1, <1>2, <1>3, <2>2, <2>3, <2>4 DEF Cache!Get, Cache!Goto
<1> QED
  BY <1>4, <1>5, <1>6 DEF Expired

LEMMA CacheEvict ==
  ASSUME ProxyInv, NEW r \in Requests, Evict(r)
  PROVE  Cache!Evict(r)
<1>1. /\ pc[r] = "evict" /\ pc' = [pc EXCEPT ![r] = "do"] /\ TypeOK
      /\ entries' = Without({key[r]})
      /\ UNCHANGED <<now, sweep, key, started, body>>
  BY DEF Evict, Goto, ProxyInv
<1>2. /\ CachePc[r] = "evict" /\ CacheKey[r] = key[r]
      /\ CachePc' = [CachePc EXCEPT ![r] = "fetch"] /\ CacheKey' = CacheKey
  BY <1>1, CacheLabels DEF CachePc, CacheKey, TypeOK
<1>3. CacheEntries' = Cache!Without(CacheEntries, {key[r]})
  BY <1>1, ShownWithout DEF CacheEntries
<1> QED
  BY <1>1, <1>2, <1>3 DEF Cache!Evict, Cache!Goto, CacheBody

LEMMA CacheSend ==
  ASSUME ProxyInv, NEW r \in Requests, Do(r)
  PROVE  Cache!Send(r)
<1>1. /\ pc[r] = "do" /\ pc' = [pc EXCEPT ![r] = "connect"] /\ TypeOK
      /\ started' = [started EXCEPT ![r] = now]
      /\ UNCHANGED <<now, entries, sweep, key, body>>
  BY DEF Do, Goto, ProxyInv
<1>2. /\ CachePc[r] = "fetch" /\ CacheKey' = CacheKey
      /\ CachePc' = [CachePc EXCEPT ![r] = "fetching"]
  BY <1>1, CacheLabels DEF CachePc, CacheKey, TypeOK
<1> QED
  BY <1>1, <1>2 DEF Cache!Send, Cache!Goto, CacheEntries, CacheBody

LEMMA CacheUpstream ==
  ASSUME ProxyInv, NEW r \in Requests, Respond(r)
  PROVE  Cache!Upstream(r)
<1> DEFINE image == [key |-> key[r], sent |-> now, from |-> peer[r]]
<1>1. /\ pc[r] = "waiting" /\ pc' = [pc EXCEPT ![r] = "reading"]
      /\ body' = [body EXCEPT ![r] = image] /\ TypeOK
      /\ UNCHANGED <<now, entries, sweep, key, started>>
  BY DEF Respond, Goto, ProxyInv
<1>2. body[r] = None /\ image \in Body
  BY <1>1 DEF ProxyInv, TypeOK, SlotsHeld, Body
<1>3. /\ CachePc[r] = "fetching" /\ CacheKey[r] = key[r]
      /\ CacheKey' = CacheKey
      /\ CachePc' = [CachePc EXCEPT ![r] = "fetching"]
  BY <1>1, CacheLabels DEF CachePc, CacheKey
<1>4. CachePc' = CachePc
  BY <1>3 DEF CachePc
<1>5. CacheBody[r] = None
  BY <1>2, SeenImages DEF CacheBody
<1>6. CacheBody' = [CacheBody EXCEPT ![r] = [key |-> key[r], sent |-> now]]
  <2>1. Seen(image) = [key |-> key[r], sent |-> now]
    BY <1>2, SeenImages
  <2> HIDE DEF image
  <2> QED
    BY <1>1, <2>1 DEF CacheBody, TypeOK
<1> QED
  BY <1>1, <1>3, <1>4, <1>5, <1>6 DEF Cache!Upstream, CacheEntries

LEMMA CacheSet ==
  ASSUME ProxyInv, NEW r \in Requests, Set(r)
  PROVE  Cache!Set(r)
<1> DEFINE new == [body |-> body[r], expiresAt |-> now + TTL]
<1>1. /\ pc[r] = "read" /\ pc' = [pc EXCEPT ![r] = "miss"] /\ TypeOK
      /\ entries' = [Room EXCEPT ![key[r]] = new]
      /\ UNCHANGED <<now, sweep, key, started, body>>
  BY DEF Set, Goto, KeptUnder, ProxyInv
<1>2. key[r] \in Asked /\ body[r] \in Body
  BY <1>1 DEF ProxyInv, TypeOK, SlotsHeld
<1>3. new \in Entry
  BY <1>1, <1>2, GatewayConstants DEF Entry, TypeOK, Times
<1>4. Shown(new) = [body |-> CacheBody[r], expiresAt |-> now + TTL]
  BY <1>3, GatewayConstants DEF Shown, CacheBody
<1> HIDE DEF new
<1>5. Room \in [Asked -> Entry \cup {None}]
  BY <1>1, RoomShrinks
<1>6. ShownTable([Room EXCEPT ![key[r]] = new])
        = [ShownTable(Room) EXCEPT ![key[r]] = Shown(new)]
  BY <1>2, <1>5 DEF ShownTable
<1>7. CacheEntries' = [Cache!Room(CacheEntries) EXCEPT ![key[r]] =
                          Cache!NewEntry(CacheBody[r])]
  BY <1>1, <1>4, <1>6, ShownRoom DEF CacheEntries, Cache!NewEntry
<1>8. /\ CachePc[r] = "fetching" /\ CacheKey[r] = key[r]
      /\ CacheKey' = CacheKey /\ CachePc' = [CachePc EXCEPT ![r] = "miss"]
  BY <1>1, CacheLabels DEF CachePc, CacheKey, TypeOK
<1>9. CacheBody[r] # None
  BY <1>2, SeenImages DEF CacheBody
<1> QED
  BY <1>1, <1>7, <1>8, <1>9 DEF Cache!Set, Cache!Goto, CacheBody

LEMMA CacheAnswer ==
  ASSUME ProxyInv, NEW r \in Requests, Answer(r)
  PROVE  Cache!Answer(r)
<1>1. /\ pc[r] \in {"hit", "miss", "failed"} /\ TypeOK
      /\ pc' = [pc EXCEPT ![r] = "idle"] /\ key' = [key EXCEPT ![r] = None]
      /\ started' = [started EXCEPT ![r] = 0]
      /\ body' = [body EXCEPT ![r] = None]
      /\ UNCHANGED <<now, entries, sweep>>
  BY DEF Answer, Goto, ProxyInv
<1>2. /\ CachePc[r] \in {"hit", "miss", "failed"}
      /\ CachePc' = [CachePc EXCEPT ![r] = "idle"]
  BY <1>1 DEF CachePc, CacheLabel, TypeOK
<1>3. CacheKey' = [CacheKey EXCEPT ![r] = None]
  BY <1>1 DEF CacheKey, TypeOK
<1>4. CacheBody' = [CacheBody EXCEPT ![r] = None]
  BY <1>1, SeenImages DEF CacheBody, TypeOK
<1> QED
  BY <1>1, <1>2, <1>3, <1>4 DEF Cache!Answer, Cache!Goto, CacheEntries

\* What ends in "failed" ends a fetch, and any other step of the client is
\* within one.
LEMMA CacheWithinFetch ==
  ASSUME ProxyInv, NEW r \in Requests,
         \/ Send(r) \/ Resend(r) \/ Resolve(r) \/ Dial(r) \/ Redirect(r)
         \/ Read(r) \/ Fails(r)
  PROVE  Cache!FetchFails(r) \/ CacheUnchanged
<1>1. /\ UNCHANGED <<now, entries, sweep, key, started, body>> /\ TypeOK
      /\ pc[r] \in {"connect", "dial", "waiting", "reading"}
      /\ \/ pc' = [pc EXCEPT ![r] = "failed"]
         \/ \E label \in {"connect", "dial", "waiting", "read"} :
               pc' = [pc EXCEPT ![r] = label]
  BY DEF Send, Resend, Resolve, Dial, Redirect, Read, Fails, Goto, ProxyInv
<1>2. UNCHANGED <<CacheEntries, CacheBody>> /\ CachePc[r] = "fetching"
  BY <1>1 DEF CacheEntries, CacheBody, CachePc, CacheLabel
<1>3. CASE pc' = [pc EXCEPT ![r] = "failed"]
  <2>1. CachePc' = [CachePc EXCEPT ![r] = "failed"] /\ CacheKey' = CacheKey
    BY <1>1, <1>3, CacheLabels DEF CachePc, CacheKey, TypeOK
  <2> QED
    BY <1>1, <1>2, <2>1 DEF Cache!FetchFails, Cache!Goto
<1>4. ASSUME NEW label \in {"connect", "dial", "waiting", "read"},
             pc' = [pc EXCEPT ![r] = label]
      PROVE  CacheUnchanged
  <2>1. CachePc' = [CachePc EXCEPT ![r] = "fetching"] /\ CacheKey' = CacheKey
    BY <1>1, <1>4, CacheLabels DEF CachePc, CacheKey
  <2>2. CachePc' = CachePc
    BY <1>2, <2>1 DEF CachePc
  <2> QED
    BY <1>1, <1>2, <2>1, <2>2 DEF CacheUnchanged
<1> QED
  BY <1>1, <1>3, <1>4

\* A request that passes the check has not come to the cache yet.
LEMMA CacheAsk ==
  ASSUME ProxyInv, NEW r \in Requests, Ask(r)
  PROVE  CacheUnchanged
<1>1. PICK t : key' = [key EXCEPT ![r] = t]
  BY DEF Ask
<1>2. /\ pc[r] = "idle" /\ pc' = [pc EXCEPT ![r] = "get"] /\ key[r] = None
      /\ UNCHANGED <<now, entries, sweep, started, body>> /\ TypeOK
  BY DEF Ask, Goto, ProxyInv, SlotsHeld
<1>3. CacheKey' = CacheKey
  BY <1>1, <1>2 DEF CacheKey, TypeOK
<1>4. CachePc' = CachePc
  BY <1>2 DEF CachePc, CacheLabel
<1> QED
  BY <1>2, <1>3, <1>4 DEF CacheUnchanged, CacheEntries, CacheBody

LEMMA CacheAround ==
  ASSUME ProxyInv, Sweep \/ ChangeName \/ Close \/ Tick
  PROVE  Cache!Janitor \/ Cache!Tick \/ CacheUnchanged
<1>1. UNCHANGED <<pc, key, started, body>> /\ TypeOK
  BY DEF Sweep, ChangeName, Close, Tick, requestVars, ProxyInv
<1>2. UNCHANGED <<CachePc, CacheKey, started, CacheBody>>
  BY <1>1 DEF CachePc, CacheKey, CacheBody
<1>3. CASE Sweep
  <2>1. CacheEntries' = Cache!Pruned(CacheEntries)
    BY <1>1, <1>3, ShownPruned DEF Sweep, CacheEntries
  <2> QED
    BY <1>2, <1>3, <2>1 DEF Sweep, Cache!Janitor, Cache!requestVars
<1>4. CASE ChangeName \/ Close
  BY <1>2, <1>4 DEF ChangeName, Close, CacheUnchanged, CacheEntries
<1>5. CASE Tick
  <2>1. \A r \in Requests : CachePc[r] = "fetching" =>
           now < started[r] + FetchTimeout
    BY <1>1, <1>5 DEF Tick, CachePc, CacheLabel, TypeOK, Labels
  <2> QED
    BY <1>2, <1>5, <2>1 DEF Tick, Cache!Tick, Cache!requestVars, CacheEntries
<1> QED
  BY <1>3, <1>4, <1>5

LEMMA CacheStep == ProxyInv /\ [Next]_vars => [Cache!Next]_Cache!vars
<1> SUFFICES ASSUME ProxyInv, [Next]_vars
             PROVE  Cache!Next \/ CacheUnchanged
  BY DEF Cache!vars, Cache!requestVars, CacheUnchanged
<1>1. ASSUME NEW r \in Requests,
             \/ Ask(r) \/ Get(r) \/ Evict(r) \/ Do(r)
             \/ Send(r) \/ Resend(r) \/ Resolve(r) \/ Dial(r)
             \/ Redirect(r) \/ Respond(r) \/ Read(r) \/ Fails(r)
             \/ Set(r) \/ Answer(r)
      PROVE  Cache!Next \/ CacheUnchanged
  BY <1>1, CacheAsk, CacheGet, CacheEvict, CacheSend, CacheWithinFetch,
     CacheUpstream, CacheSet, CacheAnswer DEF Cache!Next
<1>2. CASE Sweep \/ ChangeName \/ Close \/ Tick
  BY <1>2, CacheAround DEF Cache!Next
<1>3. CASE UNCHANGED vars
  BY <1>3 DEF vars, requestVars, CacheUnchanged, CacheEntries, CachePc,
     CacheKey, CacheBody
<1> QED
  BY <1>1, <1>2, <1>3 DEF Next

LEMMA CacheInitially == Init => Cache!Init
<1> SUFFICES ASSUME Init PROVE Cache!Init
  OBVIOUS
<1>1. CacheEntries = [k \in Asked |-> None]
  BY ShownEntries DEF Init, CacheEntries, ShownTable
<1>2. /\ CachePc = [r \in Requests |-> "idle"]
      /\ CacheKey = [r \in Requests |-> None]
  BY DEF Init, CachePc, CacheLabel, CacheKey
<1>3. CacheBody = [r \in Requests |-> None]
  BY SeenImages DEF Init, CacheBody
<1> QED
  BY <1>1, <1>2, <1>3 DEF Init, Cache!Init

\* For every limit, lifetime and period, and any number of clients: the cache
\* of the gateway, with everything a fetch does in between, is that of
\* ImageCache.
THEOREM CacheImplemented == Spec => ImplementsCache
<1>1. Spec => Cache!Spec
  BY CacheInitially, CacheStep, ProxyInvHolds, PTL DEF Spec, Cache!Spec
<1> QED
  BY <1>1 DEF ImplementsCache

-----------------------------------------------------------------------------
(* The gateway implements ImageFetch: what is asked for, and of whom.      *)

FetchUnchanged ==
    UNCHANGED <<dns, FetchPc, target, via, ips, pool, reached>>

LEMMA FetchLabels ==
  /\ FetchLabel("idle") = "idle" /\ FetchLabel("get") = "connect"
  /\ FetchLabel("do") = "connect" /\ FetchLabel("evict") = "connect"
  /\ FetchLabel("connect") = "connect" /\ FetchLabel("dial") = "dial"
  /\ FetchLabel("waiting") = "waiting" /\ FetchLabel("reading") = "waiting"
  /\ FetchLabel("read") = "received" /\ FetchLabel("hit") = "failed"
  /\ FetchLabel("miss") = "received" /\ FetchLabel("failed") = "failed"
  BY DEF FetchLabel

\* The check passes, and the request is on its way to connect.
LEMMA FetchProxy ==
  ASSUME ProxyInv, NEW r \in Requests, Ask(r)
  PROVE  Fetch!Proxy(r)
<1>1. PICK t \in Asked : Valid(t) /\ target' = [target EXCEPT ![r] = t]
  BY DEF Ask, Accepts
<1>2. t \in Target /\ Fetch!Valid(t)
  BY <1>1, GatewayConstants, ValidTargets DEF ProxyInv
<1>3. /\ pc[r] = "idle" /\ pc' = [pc EXCEPT ![r] = "get"] /\ TypeOK
      /\ via' = [via EXCEPT ![r] = 1]
      /\ UNCHANGED <<dns, ips, pool, reached>>
  BY DEF Ask, Goto, ProxyInv
<1>4. FetchPc[r] = "idle" /\ FetchPc' = [FetchPc EXCEPT ![r] = "connect"]
  BY <1>3, FetchLabels DEF FetchPc, TypeOK
<1> QED
  BY <1>1, <1>2, <1>3, <1>4, SameTargets DEF Fetch!Proxy, Fetch!Goto

LEMMA FetchSend ==
  ASSUME ProxyInv, NEW r \in Requests, Send(r)
  PROVE  Fetch!Send(r)
<1>1. /\ pc[r] = "connect" /\ pc' = [pc EXCEPT ![r] = "waiting"] /\ TypeOK
      /\ UNCHANGED <<dns, target, via, ips, pool>>
      /\ \E c \in pool :
            /\ c.host = target[r].host /\ c.port = target[r].port
            /\ reached' = reached \cup {<<target[r], c.addr>>}
  BY DEF Send, Goto, ProxyInv
<1>2. FetchPc[r] = "connect" /\ FetchPc' = [FetchPc EXCEPT ![r] = "waiting"]
  BY <1>1, FetchLabels DEF FetchPc, TypeOK
<1> QED
  BY <1>1, <1>2 DEF Fetch!Send, Fetch!Goto

LEMMA FetchResend ==
  ASSUME ProxyInv, NEW r \in Requests, Resend(r)
  PROVE  Fetch!Resend(r)
<1>1. /\ pc[r] = "waiting" /\ pc' = [pc EXCEPT ![r] = "connect"] /\ TypeOK
      /\ UNCHANGED <<dns, target, via, ips, pool, reached>>
  BY DEF Resend, Goto, ProxyInv
<1>2. FetchPc[r] = "waiting" /\ FetchPc' = [FetchPc EXCEPT ![r] = "connect"]
  BY <1>1, FetchLabels DEF FetchPc, TypeOK
<1> QED
  BY <1>1, <1>2 DEF Fetch!Resend, Fetch!Goto

LEMMA FetchResolve ==
  ASSUME ProxyInv, NEW r \in Requests, Resolve(r)
  PROVE  Fetch!Resolve(r)
<1>1. /\ pc[r] = "connect" /\ pc' = [pc EXCEPT ![r] = "dial"] /\ TypeOK
      /\ UNCHANGED <<dns, target, via, pool, reached>>
  BY DEF Resolve, Goto, ProxyInv
<1>2. FetchPc[r] = "connect" /\ FetchPc' = [FetchPc EXCEPT ![r] = "dial"]
  BY <1>1, FetchLabels DEF FetchPc, TypeOK
<1> QED
  BY <1>1, <1>2 DEF Resolve, Fetch!Resolve, Fetch!SafePort, Fetch!Goto

LEMMA FetchDial ==
  ASSUME ProxyInv, NEW r \in Requests, Dial(r)
  PROVE  Fetch!Dial(r)
<1>1. /\ pc[r] = "dial" /\ pc' = [pc EXCEPT ![r] = "connect"] /\ TypeOK
      /\ UNCHANGED <<dns, target, via, reached>>
  BY DEF Dial, Goto, ProxyInv
<1>2. FetchPc[r] = "dial" /\ FetchPc' = [FetchPc EXCEPT ![r] = "connect"]
  BY <1>1, FetchLabels DEF FetchPc, TypeOK
<1> QED
  BY <1>1, <1>2 DEF Dial, Dialable, Fetch!Dial, Fetch!Dialable,
     Fetch!DialledConnection, Fetch!Goto

LEMMA FetchRedirect ==
  ASSUME ProxyInv, NEW r \in Requests, Redirect(r)
  PROVE  Fetch!Redirect(r)
<1>1. pc[r] = "waiting" /\ TypeOK /\ UNCHANGED <<dns, ips, pool, reached>>
  BY DEF Redirect, ProxyInv
<1>2. PICK t \in Target :
         IF via[r] < MaxRedirects /\ Valid(t)
         THEN /\ target' = [target EXCEPT ![r] = t]
              /\ via' = [via EXCEPT ![r] = via[r] + 1]
              /\ pc' = [pc EXCEPT ![r] = "connect"]
         ELSE /\ pc' = [pc EXCEPT ![r] = "failed"]
              /\ UNCHANGED <<target, via>>
  BY DEF Redirect, Goto
<1>3. Fetch!RedirectAllowed(r, t) <=> via[r] < MaxRedirects /\ Valid(t)
  BY <1>1, ValidTargets DEF Fetch!RedirectAllowed
<1>4. FetchPc[r] = "waiting"
  BY <1>1, FetchLabels DEF FetchPc
<1>5. /\ pc' = [pc EXCEPT ![r] = "connect"] =>
            FetchPc' = [FetchPc EXCEPT ![r] = "connect"]
      /\ pc' = [pc EXCEPT ![r] = "failed"] =>
            FetchPc' = [FetchPc EXCEPT ![r] = "failed"]
  BY <1>1, FetchLabels DEF FetchPc, TypeOK
<1>6. t \in Fetch!Target
  BY <1>2, SameTargets
<1>7. IF Fetch!RedirectAllowed(r, t)
      THEN /\ target' = [target EXCEPT ![r] = t]
           /\ via' = [via EXCEPT ![r] = via[r] + 1]
           /\ FetchPc' = [FetchPc EXCEPT ![r] = "connect"]
      ELSE /\ FetchPc' = [FetchPc EXCEPT ![r] = "failed"]
           /\ UNCHANGED <<target, via>>
  BY <1>2, <1>3, <1>5
<1> QED
  BY <1>1, <1>4, <1>6, <1>7 DEF Fetch!Redirect, Fetch!Goto

\* The image is received when it has been read to its end.
LEMMA FetchReceive ==
  ASSUME ProxyInv, NEW r \in Requests, Read(r)
  PROVE  Fetch!Receive(r)
<1>1. /\ pc[r] = "reading" /\ pc' = [pc EXCEPT ![r] = "read"] /\ TypeOK
      /\ UNCHANGED <<dns, target, via, ips, pool, reached>>
  BY DEF Read, Goto, ProxyInv
<1>2. FetchPc[r] = "waiting" /\ FetchPc' = [FetchPc EXCEPT ![r] = "received"]
  BY <1>1, FetchLabels DEF FetchPc, TypeOK
<1> QED
  BY <1>1, <1>2 DEF Fetch!Receive, Fetch!Goto

\* A HIT, and a fetch that fails, come to nothing.
LEMMA FetchComesToNothing ==
  ASSUME ProxyInv, NEW r \in Requests, Get(r) \/ Fails(r)
  PROVE  Fetch!FetchFails(r) \/ FetchUnchanged
<1>1. /\ UNCHANGED <<dns, target, via, ips, pool, reached>> /\ TypeOK
      /\ pc[r] \in {"get", "connect", "dial", "waiting", "reading"}
      /\ \/ pc' = [pc EXCEPT ![r] = "hit"]
         \/ pc' = [pc EXCEPT ![r] = "failed"]
         \/ /\ pc[r] = "get"
            /\ \/ pc' = [pc EXCEPT ![r] = "do"]
               \/ pc' = [pc EXCEPT ![r] = "evict"]
  BY DEF Get, Fails, Goto, ProxyInv
<1>2. FetchPc[r] \in {"connect", "dial", "waiting"}
  BY <1>1, FetchLabels DEF FetchPc
<1>3. CASE pc' = [pc EXCEPT ![r] = "hit"] \/ pc' = [pc EXCEPT ![r] = "failed"]
  <2>1. FetchPc' = [FetchPc EXCEPT ![r] = "failed"]
    BY <1>1, <1>3, FetchLabels DEF FetchPc, TypeOK
  <2> QED
    BY <1>1, <1>2, <2>1 DEF Fetch!FetchFails, Fetch!Goto
<1>4. CASE /\ pc[r] = "get"
           /\ \/ pc' = [pc EXCEPT ![r] = "do"]
              \/ pc' = [pc EXCEPT ![r] = "evict"]
  <2>1. FetchPc' = FetchPc
    BY <1>1, <1>4, FetchLabels DEF FetchPc, TypeOK
  <2> QED
    BY <1>1, <2>1 DEF FetchUnchanged
<1> QED
  BY <1>1, <1>3, <1>4

LEMMA FetchAnswer ==
  ASSUME ProxyInv, NEW r \in Requests, Answer(r)
  PROVE  Fetch!Answer(r)
<1>1. /\ pc[r] \in {"hit", "miss", "failed"} /\ TypeOK
      /\ pc' = [pc EXCEPT ![r] = "idle"]
      /\ target' = [target EXCEPT ![r] = None]
      /\ via' = [via EXCEPT ![r] = 0] /\ ips' = [ips EXCEPT ![r] = {}]
      /\ UNCHANGED <<dns, pool, reached>>
  BY DEF Answer, Goto, ProxyInv
<1>2. /\ FetchPc[r] \in {"received", "failed"}
      /\ FetchPc' = [FetchPc EXCEPT ![r] = "idle"]
  BY <1>1, FetchLabels DEF FetchPc, TypeOK
<1> QED
  BY <1>1, <1>2 DEF Fetch!Answer, Fetch!Goto

\* The cache and the first byte of an answer are nothing to the client.
LEMMA FetchStutters ==
  ASSUME ProxyInv, NEW r \in Requests,
         Evict(r) \/ Do(r) \/ Respond(r) \/ Set(r)
  PROVE  FetchUnchanged
<1>1. /\ UNCHANGED <<dns, target, via, ips, pool, reached>> /\ TypeOK
      /\ \/ pc[r] = "evict" /\ pc' = [pc EXCEPT ![r] = "do"]
         \/ pc[r] = "do" /\ pc' = [pc EXCEPT ![r] = "connect"]
         \/ pc[r] = "waiting" /\ pc' = [pc EXCEPT ![r] = "reading"]
         \/ pc[r] = "read" /\ pc' = [pc EXCEPT ![r] = "miss"]
  BY DEF Evict, Do, Respond, Set, Goto, ProxyInv
<1>2. FetchPc' = FetchPc
  BY <1>1, FetchLabels DEF FetchPc, TypeOK
<1> QED
  BY <1>1, <1>2 DEF FetchUnchanged

LEMMA FetchAround ==
  ASSUME ProxyInv, Sweep \/ ChangeName \/ Close \/ Tick
  PROVE  Fetch!ChangeName \/ Fetch!Close \/ FetchUnchanged
<1>1. UNCHANGED <<FetchPc, target, via, ips, reached>>
  BY DEF Sweep, ChangeName, Close, Tick, requestVars, FetchPc
<1>2. CASE ChangeName
  BY <1>1, <1>2, GatewayConstants DEF ChangeName, Fetch!ChangeName,
     Fetch!fetchVars
<1>3. CASE Close
  BY <1>1, <1>3 DEF Close, Fetch!Close, Fetch!fetchVars
<1>4. CASE Sweep \/ Tick
  BY <1>1, <1>4 DEF Sweep, Tick, FetchUnchanged
<1> QED
  BY <1>2, <1>3, <1>4

LEMMA FetchStep == ProxyInv /\ [Next]_vars => [Fetch!Next]_Fetch!vars
<1> SUFFICES ASSUME ProxyInv, [Next]_vars
             PROVE  Fetch!Next \/ FetchUnchanged
  BY DEF Fetch!vars, Fetch!fetchVars, FetchUnchanged
<1>1. ASSUME NEW r \in Requests,
             \/ Ask(r) \/ Get(r) \/ Evict(r) \/ Do(r)
             \/ Send(r) \/ Resend(r) \/ Resolve(r) \/ Dial(r)
             \/ Redirect(r) \/ Respond(r) \/ Read(r) \/ Fails(r)
             \/ Set(r) \/ Answer(r)
      PROVE  Fetch!Next \/ FetchUnchanged
  BY <1>1, FetchProxy, FetchComesToNothing, FetchStutters, FetchSend,
     FetchResend, FetchResolve, FetchDial, FetchRedirect, FetchReceive,
     FetchAnswer DEF Fetch!Next
<1>2. CASE Sweep \/ ChangeName \/ Close \/ Tick
  BY <1>2, FetchAround DEF Fetch!Next
<1>3. CASE UNCHANGED vars
  BY <1>3 DEF vars, requestVars, FetchUnchanged, FetchPc
<1> QED
  BY <1>1, <1>2, <1>3 DEF Next

LEMMA FetchInitially == Init => Fetch!Init
<1> SUFFICES ASSUME Init PROVE Fetch!Init
  OBVIOUS
<1>1. FetchPc = [r \in Requests |-> "idle"]
  BY FetchLabels DEF Init, FetchPc
<1>2. dns \in [Names -> SUBSET Addresses]
  BY GatewayConstants DEF Init
<1> QED
  BY <1>1, <1>2 DEF Init, Fetch!Init

\* Whatever the cache answers, the checks of targets, redirects and addresses
\* are those of ImageFetch.  (That every request is answered, the fairness of
\* ImplementsFetch, is left to TLC.)
THEOREM FetchImplemented == Spec => Fetch!Spec
  BY FetchInitially, FetchStep, ProxyInvHolds, PTL DEF Spec, Fetch!Spec

\* The gateway, too, sends no request to what the rules exclude and follows
\* few redirects, and answers no image that came from an excluded address or
\* under another URL.
THEOREM GatewayPermitted ==
  Spec => []ReachesPermitted /\ []FewRequests /\ []ImagesArePermitted
<1>1. ProxyInv => ReachesPermitted /\ FewRequests /\ ImagesArePermitted
  BY DEF ProxyInv, FetchInv
<1> QED
  BY <1>1, ProxyInvHolds, PTL

-----------------------------------------------------------------------------
(* So what ImageCacheProofs shows of a cache holds of the gateway.         *)

CacheFacts == INSTANCE ImageCacheProofs
                WITH Keys <- Asked, entries <- CacheEntries, pc <- CachePc,
                     key <- CacheKey, body <- CacheBody

LEMMA CacheFactsApply ==
    CacheFacts!CacheConstants /\ CacheFacts!NoneIsNoBody
<1>1. CacheFacts!CacheConstants
  BY GatewayConstants DEF CacheFacts!CacheConstants
<1>2. CacheFacts!NoneIsNoBody
  BY NoneIsNothing DEF CacheFacts!NoneIsNoBody, CacheFacts!Body, Cache!Body,
     CacheFacts!Entry, Cache!Entry, CacheFacts!Times, Cache!Times
<1> QED
  BY <1>1, <1>2

LEMMA SameCache ==
  /\ Cache!Init <=> CacheFacts!Init
  /\ [Cache!Next]_Cache!vars <=> [CacheFacts!Next]_CacheFacts!vars
<1>1. Cache!Init <=> CacheFacts!Init
  BY DEF CacheFacts!Init, Cache!Init
<1>2. \A r \in Requests : Cache!Get(r) <=> CacheFacts!Get(r)
  BY DEF CacheFacts!Get, Cache!Get, CacheFacts!Expired, Cache!Expired,
     CacheFacts!Goto, Cache!Goto
<1>3. \A r \in Requests : Cache!Evict(r) <=> CacheFacts!Evict(r)
  BY DEF CacheFacts!Evict, Cache!Evict, CacheFacts!Without, Cache!Without,
     CacheFacts!Goto, Cache!Goto
<1>4. \A r \in Requests : Cache!Send(r) <=> CacheFacts!Send(r)
  BY DEF CacheFacts!Send, Cache!Send, CacheFacts!Goto, Cache!Goto
<1>5. \A r \in Requests : Cache!Upstream(r) <=> CacheFacts!Upstream(r)
  BY DEF CacheFacts!Upstream, Cache!Upstream
<1>6. \A r \in Requests : Cache!Set(r) <=> CacheFacts!Set(r)
  BY DEF CacheFacts!Set, Cache!Set, CacheFacts!Room, Cache!Room,
     CacheFacts!Pruned, Cache!Pruned, CacheFacts!Without, Cache!Without,
     CacheFacts!Cached, Cache!Cached, CacheFacts!Expired, Cache!Expired,
     CacheFacts!NewEntry, Cache!NewEntry, CacheFacts!Cardinality,
     Cache!Cardinality, CacheFacts!Goto, Cache!Goto
<1>7. \A r \in Requests : Cache!FetchFails(r) <=> CacheFacts!FetchFails(r)
  BY DEF CacheFacts!FetchFails, Cache!FetchFails, CacheFacts!Goto, Cache!Goto
<1>8. \A r \in Requests : Cache!Answer(r) <=> CacheFacts!Answer(r)
  BY DEF CacheFacts!Answer, Cache!Answer, CacheFacts!Goto, Cache!Goto
<1>9. Cache!Janitor <=> CacheFacts!Janitor
  BY DEF CacheFacts!Janitor, Cache!Janitor, CacheFacts!Pruned, Cache!Pruned,
     CacheFacts!Without, Cache!Without, CacheFacts!Cached, Cache!Cached,
     CacheFacts!Expired, Cache!Expired, CacheFacts!requestVars,
     Cache!requestVars
<1>10. Cache!Tick <=> CacheFacts!Tick
  BY DEF CacheFacts!Tick, Cache!Tick, CacheFacts!requestVars, Cache!requestVars
<1>11. Cache!vars = CacheFacts!vars /\ Cache!vars' = CacheFacts!vars'
  BY DEF CacheFacts!vars, Cache!vars, CacheFacts!requestVars, Cache!requestVars
<1> QED
  BY <1>1, <1>2, <1>3, <1>4, <1>5, <1>6, <1>7, <1>8, <1>9, <1>10, <1>11
     DEF CacheFacts!Next, Cache!Next

LEMMA GatewayCacheInv == Spec => []CacheFacts!CacheInv
<1>1. Init => CacheFacts!CacheInv
  BY CacheInitially, SameCache, CacheFacts!InitCacheInv, CacheFactsApply
<1>2. CacheFacts!CacheInv /\ ProxyInv /\ [Next]_vars => CacheFacts!CacheInv'
  BY CacheStep, SameCache, CacheFacts!StepCacheInv, CacheFactsApply
<1> QED
  BY <1>1, <1>2, ProxyInvHolds, PTL DEF Spec

\* The gateway holds no more images than its limit, none longer than a period
\* past its expiry, and a HIT is at most a TTL and a fetch old.
THEOREM GatewayCacheIsSound ==
  Spec => []Cache!WithinLimit /\ []Cache!ExpiredAreSwept /\ Cache!HitsAreRecent
<1> DEFINE Recent == \A r \in Requests :
                        CachePc[r] = "idle" /\ CachePc'[r] = "hit" =>
                          /\ CacheBody'[r].key = CacheKey'[r]
                          /\ now - CacheBody'[r].sent <= TTL + FetchTimeout
<1>1. CacheFacts!CacheInv => Cache!WithinLimit
  BY DEF CacheFacts!CacheInv, CacheFacts!WithinLimit, Cache!WithinLimit,
     CacheFacts!Cached, Cache!Cached, CacheFacts!Cardinality, Cache!Cardinality
<1>2. CacheFacts!CacheInv => Cache!ExpiredAreSwept
  BY CacheFacts!InvSweeps, CacheFactsApply DEF CacheFacts!ExpiredAreSwept,
     Cache!ExpiredAreSwept, CacheFacts!Cached, Cache!Cached
<1>3. CacheFacts!CacheInv /\ ProxyInv /\ [Next]_vars => [Recent]_Cache!vars
  <2> SUFFICES ASSUME CacheFacts!CacheInv, ProxyInv, [Next]_vars,
                      Cache!vars' # Cache!vars
               PROVE  Recent
    OBVIOUS
  <2>1. CacheFacts!Next
    <3>1. [CacheFacts!Next]_CacheFacts!vars
      BY CacheStep, SameCache
    <3>2. CacheFacts!vars = Cache!vars /\ CacheFacts!vars' = Cache!vars'
      BY DEF CacheFacts!vars, Cache!vars, CacheFacts!requestVars,
         Cache!requestVars
    <3> QED
      BY <3>1, <3>2
  <2> QED
    BY <2>1, CacheFacts!HitStep, CacheFactsApply
<1> QED
  BY <1>1, <1>2, <1>3, GatewayCacheInv, ProxyInvHolds, PTL DEF Spec,
     Cache!HitsAreRecent
=============================================================================
