----------------------------- MODULE MCStartup ------------------------------
(* Instances of Startup for TLC. *)
EXTENDS Startup

Server(p, r) == [password |-> p, remote |-> r]
Raw(p, m) == [password |-> p, escaped |-> FALSE, multi |-> m, tls |-> TRUE]
NoURL == [k \in URLKeys |-> Unset]

\* A development environment with nothing but these database settings.
Local(d, u, p) ==
    [release |-> FALSE, secret |-> FALSE, origin |-> FALSE,
     dsn |-> d, url |-> u, parts |-> p, tls |-> Unset]

\* Production with and without its two secrets; each source alone; a source
\* that hides another; a URL that is malformed and hides a good one.
MCEnvironments ==
    LET p == CHOOSE q \in Plain : TRUE
        q == CHOOSE r \in Passwords \ Plain : TRUE
        one(k, s) == [NoURL EXCEPT ![k] = s]
    IN  {[Local(Unset, one("MYSQL_URL", Server(p, TRUE)), Unset)
             EXCEPT !.release = TRUE, !.secret = s, !.origin = o] :
              s \in BOOLEAN, o \in BOOLEAN}
        \cup {Local(Raw(q, m), one("MYSQL_URL", Malformed), Unset) : m \in BOOLEAN}
        \cup {Local(Unset, NoURL, s) : s \in {Unset, Server(p, FALSE), Server(q, FALSE)}}
        \cup {Local(Unset, [one("DATABASE_URL", s) EXCEPT !["MYSQL_PUBLIC_URL"] = t],
                    Server(p, FALSE)) :
                s \in {Server(q, TRUE), Malformed}, t \in {Server(p, TRUE)}}

\* The environments that say where the database is in a URL.
URLEnvironments ==
    {e \in MCEnvironments :
        e.dsn = Unset /\ \E k \in URLKeys : e.url[k] # Unset}
=============================================================================
