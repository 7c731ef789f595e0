------------------------------ MODULE Service -------------------------------
(***************************************************************************)
(* A request to /api from the router to its answer: JWTAuth,               *)
(* RequirePermission, the handler's statements, each on a connection of    *)
(* the one pool every request shares, and the tokens that logins issue.    *)
(* What the statements do to the tables is the matter of Ordering, Menu    *)
(* and Accounts; here they wait, run, fail and give their connection back. *)
(*                                                                         *)
(* Operators grant and revoke roles and disable accounts by SQL at any     *)
(* time.  The status of a WeChat account is one more right, "active"; that *)
(* of the others is read by nothing.                                       *)
(***************************************************************************)
EXTENDS Integers, FiniteSets

CONSTANTS Requests,       \* requests the server handles at once
          WechatUsers,    \* accounts made by WeChat login: no password
          PasswordUsers,  \* accounts made by registration
          Routes,         \* those of AllRoutes that clients call
          MaxOpen,        \* db.SetMaxOpenConns
          MaxStatements,  \* bound: statements of a handler
          PasswordTTL,    \* tokenTTL
          WechatTTL,      \* wechatTokenTTL
          MaxTime,        \* bound: the clock stops here
          None            \* no user, no route, no right, no time

VARIABLES
    now,     \* the clock
    rights,  \* what each user's row and roles say: permissions and status
    token,   \* when each user's latest token expires
    pc,      \* where each request is
    user,    \* whose it is
    route,   \* where it goes
    left,    \* statements its handler has still to run; 0 before the handler
    held,    \* requests that hold a connection
    entitled, \* history: its user has had what its route needs since it came
    off      \* history: since when a user is disabled, no login under way then

requestVars == <<pc, user, route, left, held, entitled>>
vars == <<now, rights, token, requestVars, off>>

Users == WechatUsers \cup PasswordUsers
Times == 0..MaxTime

\* The routes of main.go, the six menu writes as one and the menu's reads as
\* one.  Registration makes its account first: that is in Accounts.
AllRoutes == {"login", "wechat-login", "me", "menu", "edit", "order", "mine",
              "orders"}
Logins == {"login", "wechat-login"}

\* Mutant: a write registered without its RequirePermission.
ListingGuarded(rt) == IF rt = "orders" THEN "order:read" ELSE None
\* The permission a route is registered with.
Guard(rt) == CASE rt = "edit" -> "menu:item:update"
               [] rt = "orders" -> "order:read"
               [] OTHER -> None

\* What a route is meant to require: its permission (model/user.go), and of a
\* WeChat login an account that is not disabled.
Needs(rt) == CASE rt = "wechat-login" -> {"active"}
               [] rt = "edit" -> {"menu:item:update"}
               [] rt = "orders" -> {"order:read"}
               [] OTHER -> {}

Rights == UNION {Needs(rt) : rt \in Routes}
RightsOf(u) == IF u \in WechatUsers THEN Rights ELSE Rights \ {"active"}

ASSUME ServiceConstants ==
    /\ Routes \subseteq AllRoutes /\ WechatUsers \cap PasswordUsers = {}
    /\ MaxOpen \in Nat \ {0} /\ MaxStatements \in Nat \ {0}
    /\ PasswordTTL \in Nat /\ WechatTTL \in Nat /\ MaxTime \in Nat
    /\ None \notin Users /\ None \notin Times /\ None \notin AllRoutes
    /\ None \notin {"active", "menu:item:update", "order:read"}

\* A login reads its account, a guarded route its permission, before anything
\* else.
ChecksFirst(rt) == rt \in Logins \/ Guard(rt) # None

Init ==
    /\ now = 0
    /\ rights \in [Users -> SUBSET Rights]
    /\ \A u \in Users : rights[u] \subseteq RightsOf(u)
    /\ token = [u \in Users |-> 0]
    /\ pc = [r \in Requests |-> "idle"]
    /\ user = [r \in Requests |-> None]
    /\ route = [r \in Requests |-> None]
    /\ left = [r \in Requests |-> 0]
    /\ held = {}
    /\ entitled = [r \in Requests |-> FALSE]
    /\ off = [u \in WechatUsers |-> None]

Goto(r, label) == pc' = [pc EXCEPT ![r] = label]

-----------------------------------------------------------------------------
(* A request                                                               *)

\* Mutant: expiry is not checked.
AnyToken(u) == token[u] # 0
\* JWTAuth and ParseToken.  The latest token stands for all of a user's.
Accepted(u) == now < token[u]

\* A user calls a route.  What is refused with 401 changes nothing.  Only
\* WeChat's account has an openid, only the others a password that matches.
Arrive(r) ==
    /\ pc[r] = "idle"
    /\ \E u \in Users, rt \in Routes :
          /\ rt = "wechat-login" => u \in WechatUsers
          /\ rt = "login" => u \in PasswordUsers
          /\ rt \notin Logins => Accepted(u)
          /\ user' = [user EXCEPT ![r] = u]
          /\ route' = [route EXCEPT ![r] = rt]
          /\ entitled' = [entitled EXCEPT ![r] = Needs(rt) \subseteq rights[u]]
          /\ \E n \in 0..MaxStatements :
                /\ ChecksFirst(rt) <=> n = 0
                /\ left' = [left EXCEPT ![r] = n]
    /\ Goto(r, "wait")
    /\ UNCHANGED <<now, rights, token, held, off>>

\* database/sql grants a connection to one of those who wait.
Acquire(r) ==
    /\ pc[r] = "wait"
    /\ Cardinality(held) < MaxOpen
    /\ held' = held \cup {r}
    /\ Goto(r, "run")
    /\ UNCHANGED <<now, rights, token, user, route, left, entitled, off>>

\* Mutant: getByOpenID does not look at the status.
PermittedInAnyStatus(r) ==
    Guard(route[r]) # None => Guard(route[r]) \in rights[user[r]]
\* HasPermission; getByOpenID respects users.status, UserStore.Login does not
\* read it.
Permitted(r) ==
    /\ Guard(route[r]) # None => Guard(route[r]) \in rights[user[r]]
    /\ route[r] = "wechat-login" => "active" \in rights[user[r]]

\* The SELECT that decides; it may fail.
Check(r) ==
    /\ pc[r] = "run" /\ left[r] = 0
    /\ \/ /\ Permitted(r)
          /\ IF route[r] = "login"
             THEN Goto(r, "issue") /\ UNCHANGED left
             ELSE /\ Goto(r, "wait")
                  /\ \E n \in 1..MaxStatements : left' = [left EXCEPT ![r] = n]
       \/ Goto(r, "reply") /\ UNCHANGED left
    /\ held' = held \ {r}
    /\ UNCHANGED <<now, rights, token, user, route, entitled, off>>

\* OrderStore.Create's connection is its transaction's; elsewhere it goes
\* back once a statement's rows are read to their end.
InTransaction(r) == route[r] = "order"

\* Mutant: a look-up inside the transaction goes through s.db instead of tx.
OnPool(r) == "wait"
\* The transaction's statements run on its own connection.
OnConnection(r) == IF InTransaction(r) THEN "run" ELSE "wait"

\* A statement succeeds and another follows.
Statement(r) ==
    /\ pc[r] = "run" /\ left[r] > 1
    /\ left' = [left EXCEPT ![r] = @ - 1]
    /\ held' = IF InTransaction(r) THEN held ELSE held \ {r}
    /\ Goto(r, OnConnection(r))
    /\ UNCHANGED <<now, rights, token, user, route, entitled, off>>

\* The last one succeeds.
Finish(r) ==
    /\ pc[r] = "run" /\ left[r] = 1
    /\ held' = held \ {r}
    /\ Goto(r, IF route[r] = "wechat-login" THEN "issue" ELSE "reply")
    /\ UNCHANGED <<now, rights, token, user, route, left, entitled, off>>

\* Mutant: Create without its deferred Rollback.
NotRolledBack(r) == IF InTransaction(r) THEN held ELSE held \ {r}
\* defer tx.Rollback() and defer rows.Close().
GivenBack(r) == held \ {r}

\* A statement fails, or refuses what the request asks: the handler returns.
Fail(r) ==
    /\ pc[r] = "run" /\ left[r] > 0
    /\ held' = GivenBack(r)
    /\ Goto(r, "reply")
    /\ UNCHANGED <<now, rights, token, user, route, left, entitled, off>>

TTL(rt) == IF rt = "wechat-login" THEN WechatTTL ELSE PasswordTTL

\* IssueToken; AuthHandler.Login has the roles to read after it.
Issue(r) ==
    /\ pc[r] = "issue"
    /\ token' = [token EXCEPT ![user[r]] = now + TTL(route[r])]
    /\ IF route[r] = "login"
       THEN Goto(r, "wait") /\ left' = [left EXCEPT ![r] = 1]
       ELSE Goto(r, "reply") /\ UNCHANGED left
    /\ UNCHANGED <<now, rights, user, route, held, entitled, off>>

Reply(r) ==
    /\ pc[r] = "reply"
    /\ Goto(r, "idle")
    /\ user' = [user EXCEPT ![r] = None]
    /\ route' = [route EXCEPT ![r] = None]
    /\ left' = [left EXCEPT ![r] = 0]
    /\ entitled' = [entitled EXCEPT ![r] = FALSE]
    /\ UNCHANGED <<now, rights, token, held, off>>

-----------------------------------------------------------------------------
(* Operators, the clock and the process                                    *)

LoggingIn(u) == \E r \in Requests : user[r] = u /\ route[r] = "wechat-login"

\* A role is granted, or the account enabled.
Grant ==
    /\ \E u \in Users : \E x \in RightsOf(u) :
          /\ x \notin rights[u]
          /\ rights' = [rights EXCEPT ![u] = @ \cup {x}]
          /\ entitled' = [r \in Requests |->
                            entitled[r] \/ (user[r] = u /\ Needs(route[r]) = {x})]
          /\ off' = [v \in WechatUsers |->
                       IF v = u /\ x = "active" THEN None ELSE off[v]]
    /\ UNCHANGED <<now, token, pc, user, route, left, held>>

\* A role is taken away, or the account disabled.
Revoke ==
    /\ \E u \in Users : \E x \in RightsOf(u) :
          /\ x \in rights[u]
          /\ rights' = [rights EXCEPT ![u] = @ \ {x}]
          /\ off' = [v \in WechatUsers |->
                       IF v = u /\ x = "active" /\ ~LoggingIn(u)
                       THEN now ELSE off[v]]
    /\ UNCHANGED <<now, token, requestVars>>

Tick ==
    /\ now < MaxTime
    /\ now' = now + 1
    /\ UNCHANGED <<rights, token, requestVars, off>>

\* The process dies and another takes its place, with the same JWT_SECRET.
Crash ==
    /\ pc' = [r \in Requests |-> "idle"]
    /\ user' = [r \in Requests |-> None]
    /\ route' = [r \in Requests |-> None]
    /\ left' = [r \in Requests |-> 0]
    /\ held' = {}
    /\ entitled' = [r \in Requests |-> FALSE]
    /\ UNCHANGED <<now, rights, token, off>>

Next ==
    \/ \E r \in Requests :
          \/ Arrive(r) \/ Acquire(r) \/ Check(r) \/ Statement(r) \/ Finish(r)
          \/ Fail(r) \/ Issue(r) \/ Reply(r)
    \/ Grant \/ Revoke \/ Tick \/ Crash

Spec == Init /\ [][Next]_vars

\* MySQL answers every statement (no timeout is set for it), goroutines run
\* on, and database/sql, which picks a waiting request at random, does not
\* pass one over for ever.
Fairness == \A r \in Requests :
    /\ WF_vars(Check(r) \/ Statement(r) \/ Finish(r) \/ Fail(r) \/ Issue(r)
               \/ Reply(r))
    /\ SF_vars(Acquire(r))

FairSpec == Spec /\ Fairness

-----------------------------------------------------------------------------
TypeOK ==
    /\ now \in Times
    /\ rights \in [Users -> SUBSET Rights]
    /\ token \in [Users -> Nat]
    /\ pc \in [Requests -> {"idle", "wait", "run", "issue", "reply"}]
    /\ user \in [Requests -> Users \cup {None}]
    /\ route \in [Requests -> AllRoutes \cup {None}]
    /\ \A r \in Requests :
          IF pc[r] = "idle" THEN user[r] = None /\ route[r] = None
          ELSE user[r] \in Users /\ route[r] \in AllRoutes
    /\ left \in [Requests -> 0..MaxStatements]
    /\ held \subseteq Requests
    /\ entitled \in [Requests -> BOOLEAN]
    /\ off \in [WechatUsers -> Times \cup {None}]

\* Nobody waits for a connection while holding one: with 25 of them and any
\* number of orders, the pool cannot lock up.
NoHoldAndWait == \A r \in Requests : pc[r] = "wait" => r \notin held

\* Whatever fails, refuses or is refused, an answered request has given its
\* connection back.
ConnectionsReturned ==
    \A r \in Requests : pc[r] \in {"idle", "issue", "reply"} => r \notin held

\* Role changes take effect at once: a guarded handler runs for a user who had
\* the permission at some moment since the request arrived, whatever the token
\* was issued on; the check and the handler's statements are not one.
NoStaleRole == \A r \in Requests :
    left[r] > 0 /\ Needs(route[r]) # {} => entitled[r]

\* Once a WeChat account is disabled, no login of it being under way, it is
\* shut out after wechatTokenTTL, however often it tries to log in again and
\* whatever restarts happen: nothing else ends a token.
ShutOut ==
    [][\A r \in Requests :
          LET u == user'[r]
          IN  /\ pc[r] = "idle" /\ pc'[r] # "idle"
              /\ route'[r] \notin Logins
              /\ u \in WechatUsers /\ off[u] # None
              => now < off[u] + WechatTTL]_vars

\* Every request is answered, however many share the connections.
Answered == \A r \in Requests : pc[r] # "idle" ~> pc[r] = "idle"

-----------------------------------------------------------------------------
(* The inductive invariant.                                                *)

\* Connections are held by running statements and by nothing else.
HeldByRunning == held = {r \in Requests : pc[r] = "run"}

\* A WeChat user's token is WeChat's, and one disabled in peace has neither a
\* login past its check nor a token that outlives the TTL.
TokensFade == \A u \in WechatUsers :
    /\ token[u] <= now + WechatTTL
    /\ off[u] # None =>
          /\ "active" \notin rights[u]
          /\ token[u] <= off[u] + WechatTTL
          /\ \A r \in Requests :
                user[r] = u /\ route[r] = "wechat-login" =>
                    \/ pc[r] = "reply"
                    \/ pc[r] \in {"wait", "run"} /\ left[r] = 0

\* Whoever logs in does so as the kind of account allows, and history keeps
\* up with the rights.
RequestsSound == \A r \in Requests :
    /\ route[r] = "wechat-login" => user[r] \in WechatUsers
    /\ route[r] = "login" => user[r] \in PasswordUsers
    /\ pc[r] = "issue" => route[r] \in Logins
    /\ user[r] \in Users /\ Needs(route[r]) \subseteq rights[user[r]] =>
          entitled[r]

ServiceInv ==
    TypeOK /\ HeldByRunning /\ TokensFade /\ RequestsSound /\ NoStaleRole
=============================================================================
