----------------------------- MODULE ProxyRules -----------------------------
(***************************************************************************)
(* What both image proxies keep to, the one in the server (ImageFetch) and *)
(* the standalone gateway (ImgProxy): the rules that say what may be       *)
(* fetched, over the state of a client that follows redirects, looks names *)
(* up and keeps connections open.  What may change it is the matter of     *)
(* those two modules.                                                      *)
(***************************************************************************)
EXTENDS Integers

CONSTANTS Names,         \* host names a target may have
          BlockedNames,  \* those refused by name: localhost and the like
          Addresses,     \* IP addresses, also as the host of a target
          Forbidden,     \* those isForbiddenIP refuses
          Ports,         \* ports a target may have
          WebPorts,      \* 80 and 443
          Requests,      \* GET /img-proxy requests handled at once
          MaxRedirects,  \* imgProxyMaxRedirects, maxRedirects
          None           \* no target

ASSUME RulesConstants ==
    /\ BlockedNames \subseteq Names /\ Forbidden \subseteq Addresses
    /\ WebPorts \subseteq Ports /\ Names \cap Addresses = {}
    /\ MaxRedirects \in Nat \ {0}

VARIABLES
    dns,      \* what a lookup of each name returns now; {} if it fails
    pc,       \* where each request is in its handler
    target,   \* the URL it is to get next
    via,      \* the URLs it has asked for: len(via) when a redirect comes
    ips,      \* what DialContext's lookup returned
    pool,     \* open connections: the host and port asked for, the address
    reached   \* history: the <<target, address>> pairs of requests sent

Hosts == Names \cup Addresses

\* plain: scheme http or https, no userinfo, a host.
Target == [host : Hosts, port : Ports, plain : BOOLEAN]
Connection == [host : Hosts, port : Ports, addr : Addresses]

ASSUME NoneIsNoTarget == None \notin Target

\* client.Do, the same in both; then what the gateway does around it.
Labels == {"idle", "connect", "dial", "waiting", "received", "failed"}
             \cup {"get", "evict", "do", "reading", "read", "hit", "miss"}

FetchTypeOK ==
    /\ dns \in [Names -> SUBSET Addresses]
    /\ pc \in [Requests -> Labels]
    /\ target \in [Requests -> Target \cup {None}]
    /\ \A r \in Requests : pc[r] # "idle" => target[r] \in Target
    /\ via \in [Requests -> Nat]
    /\ ips \in [Requests -> SUBSET Addresses]
    /\ pool \subseteq Connection
    /\ reached \subseteq Target \X Addresses

-----------------------------------------------------------------------------
\* What the rules allow to be fetched.
Sound(t) ==
    /\ t.plain /\ t.port \in WebPorts /\ t.host \notin BlockedNames
    /\ t.host \notin Forbidden

\* What is to be fetched next has passed the check.
TargetsSound == \A r \in Requests : pc[r] # "idle" => Sound(target[r])

\* No open connection leads to a forbidden address.
PoolSound == \A c \in pool : c.addr \notin Forbidden

\* However names change between the check of a target, its redirects and the
\* dialling, and whoever opened the connection it uses, no request goes to an
\* address, port, name or scheme the rules exclude.
ReachesPermitted == \A p \in reached :
    /\ p[1].plain /\ p[1].port \in WebPorts /\ p[1].host \notin BlockedNames
    /\ p[2] \notin Forbidden

\* One GET /img-proxy asks for at most imgProxyMaxRedirects URLs, those it
\* was redirected to included.
FewRequests == \A r \in Requests : via[r] <= MaxRedirects

\* Inductive: no step of a request, a name's owner or an upstream leads out
\* of it.
FetchInv ==
    /\ FetchTypeOK /\ TargetsSound /\ PoolSound
    /\ ReachesPermitted /\ FewRequests
=============================================================================
