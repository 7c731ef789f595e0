--------------------------- MODULE ServiceProofs ----------------------------
(***************************************************************************)
(* For any number of requests, users and connections, and any lifetimes:   *)
(* nobody waits for a connection holding one, every answer has given its   *)
(* connection back, guarded handlers run for the entitled only, and a      *)
(* disabled WeChat account is shut out after its token's lifetime.         *)
(***************************************************************************)
EXTENDS Service, TLAPS

\* The server starts with no requests.
LEMMA ServiceInitially == Init => ServiceInv
  BY ServiceConstants
     DEF Init, ServiceInv, TypeOK, HeldByRunning, TokensFade, RequestsSound,
         NoStaleRole, Users, Times, AllRoutes

\* A route needs at most one right.
LEMMA OneNeed ==
    \A rt : Needs(rt) = {} \/ \E x : Needs(rt) = {x}
  BY DEF Needs

\* What the code checks is what the route needs (routes of main.go).
LEMMA PermittedIsEntitled ==
    ASSUME NEW r \in Requests, route[r] \in AllRoutes, Permitted(r)
    PROVE  Needs(route[r]) \subseteq rights[user[r]]
  BY ServiceConstants DEF Permitted, Guard, Needs, AllRoutes

LEMMA ArriveStep ==
    ASSUME ServiceInv, NEW r \in Requests, Arrive(r)
    PROVE  ServiceInv'
<1> USE ServiceConstants DEF ServiceInv, Goto, Users
<1>1. PICK u \in Users, rt \in Routes :
        /\ rt = "wechat-login" => u \in WechatUsers
        /\ rt = "login" => u \in PasswordUsers
        /\ user' = [user EXCEPT ![r] = u]
        /\ route' = [route EXCEPT ![r] = rt]
        /\ entitled' = [entitled EXCEPT ![r] = Needs(rt) \subseteq rights[u]]
        /\ \E n \in 0..MaxStatements :
              /\ ChecksFirst(rt) <=> n = 0
              /\ left' = [left EXCEPT ![r] = n]
      BY DEF Arrive
<1>2. PICK n \in 0..MaxStatements :
        /\ ChecksFirst(rt) <=> n = 0
        /\ left' = [left EXCEPT ![r] = n]
      BY <1>1
<1>3. TypeOK'
      BY <1>1, <1>2 DEF Arrive, TypeOK
<1>4. HeldByRunning'
      BY DEF Arrive, TypeOK, HeldByRunning
<1>5. TokensFade'
      BY <1>1, <1>2 DEF Arrive, TypeOK, TokensFade, ChecksFirst, Logins
<1>6. RequestsSound'
      BY <1>1 DEF Arrive, TypeOK, RequestsSound
<1>7. NoStaleRole'
  <2>1. n > 0 => Needs(rt) = {}
        BY <1>2 DEF ChecksFirst, Logins, Guard, Needs, AllRoutes
  <2> QED BY <1>1, <1>2, <2>1 DEF Arrive, TypeOK, NoStaleRole
<1> QED BY <1>3, <1>4, <1>5, <1>6, <1>7

LEMMA CheckStep ==
    ASSUME ServiceInv, NEW r \in Requests, Check(r)
    PROVE  ServiceInv'
<1> USE ServiceConstants DEF ServiceInv, Goto
<1>1. TypeOK'
      BY DEF Check, TypeOK
<1>2. HeldByRunning'
      BY DEF Check, TypeOK, HeldByRunning
<1>3. TokensFade'
      BY DEF Check, TypeOK, TokensFade, Permitted
<1>4. RequestsSound'
      BY DEF Check, TypeOK, RequestsSound, Logins
<1>5. NoStaleRole'
  <2>1. Permitted(r) => entitled[r]
        BY PermittedIsEntitled DEF Check, TypeOK, RequestsSound
  <2> QED BY <2>1 DEF Check, TypeOK, NoStaleRole
<1> QED BY <1>1, <1>2, <1>3, <1>4, <1>5

LEMMA IssueStep ==
    ASSUME ServiceInv, NEW r \in Requests, Issue(r)
    PROVE  ServiceInv'
<1> USE ServiceConstants DEF ServiceInv, Goto
<1>1. now + TTL(route[r]) \in Nat
      BY DEF TypeOK, Times, TTL
<1>2. TypeOK'
      BY <1>1 DEF Issue, TypeOK
<1>3. HeldByRunning'
      BY DEF Issue, TypeOK, HeldByRunning
<1>4. TokensFade'
  <2> SUFFICES ASSUME NEW u \in WechatUsers
               PROVE  /\ token'[u] <= now + WechatTTL
                      /\ off[u] # None =>
                            /\ "active" \notin rights[u]
                            /\ token'[u] <= off[u] + WechatTTL
                            /\ \A q \in Requests :
                                  user[q] = u /\ route[q] = "wechat-login" =>
                                      \/ pc'[q] = "reply"
                                      \/ pc'[q] \in {"wait", "run"} /\ left'[q] = 0
      BY DEF TokensFade, Issue
  <2>1. CASE user[r] = u
    <3>1. route[r] = "wechat-login"
          BY <2>1 DEF Issue, RequestsSound, Logins
    <3>2. off[u] = None
          BY <2>1, <3>1 DEF Issue, TokensFade
    <3>3. token'[u] = now + WechatTTL
          BY <2>1, <3>1 DEF Issue, TTL, TypeOK, Users
    <3>4. token'[u] <= now + WechatTTL
          BY <3>3 DEF TypeOK, Times
    <3> QED BY <3>2, <3>4
  <2>2. CASE user[r] # u
        BY <2>2 DEF Issue, TokensFade, TypeOK, Users
  <2> QED BY <2>1, <2>2
<1>5. RequestsSound'
      BY DEF Issue, TypeOK, RequestsSound
<1>6. NoStaleRole'
      BY DEF Issue, TypeOK, NoStaleRole, Needs
<1> QED BY <1>2, <1>3, <1>4, <1>5, <1>6

\* A role granted, an account enabled.
LEMMA GrantStep == ServiceInv /\ Grant => ServiceInv'
<1> SUFFICES ASSUME ServiceInv, Grant PROVE ServiceInv'
    OBVIOUS
<1> USE ServiceConstants DEF ServiceInv
<1>1. PICK u \in Users : \E x \in RightsOf(u) :
        /\ rights' = [rights EXCEPT ![u] = @ \cup {x}]
        /\ entitled' = [r \in Requests |->
                          entitled[r] \/ (user[r] = u /\ Needs(route[r]) = {x})]
        /\ off' = [v \in WechatUsers |->
                     IF v = u /\ x = "active" THEN None ELSE off[v]]
      BY DEF Grant
<1>2. PICK x \in RightsOf(u) :
        /\ rights' = [rights EXCEPT ![u] = @ \cup {x}]
        /\ entitled' = [r \in Requests |->
                          entitled[r] \/ (user[r] = u /\ Needs(route[r]) = {x})]
        /\ off' = [v \in WechatUsers |->
                     IF v = u /\ x = "active" THEN None ELSE off[v]]
      BY <1>1
<1>3. x \in Rights
      BY DEF RightsOf
<1>4. TypeOK'
      BY <1>2, <1>3 DEF Grant, TypeOK
<1>5. HeldByRunning'
      BY DEF Grant, HeldByRunning
<1>6. TokensFade'
      BY <1>2 DEF Grant, TypeOK, TokensFade
<1>7. RequestsSound'
  <2> SUFFICES ASSUME NEW r \in Requests, user[r] \in Users,
                      Needs(route[r]) \subseteq rights'[user[r]]
               PROVE  entitled'[r]
      BY DEF Grant, RequestsSound
  <2>1. CASE user[r] = u /\ Needs(route[r]) = {x}
        BY <1>2, <2>1
  <2>2. CASE ~(user[r] = u /\ Needs(route[r]) = {x})
    <3>1. Needs(route[r]) \subseteq rights[user[r]]
          BY <1>2, <2>2, OneNeed DEF TypeOK
    <3> QED BY <1>2, <3>1 DEF RequestsSound
  <2> QED BY <2>1, <2>2
<1>8. NoStaleRole'
      BY <1>2 DEF Grant, NoStaleRole
<1> QED BY <1>4, <1>5, <1>6, <1>7, <1>8

\* A role taken away, an account disabled.
LEMMA RevokeStep == ServiceInv /\ Revoke => ServiceInv'
<1> SUFFICES ASSUME ServiceInv, Revoke PROVE ServiceInv'
    OBVIOUS
<1> USE ServiceConstants DEF ServiceInv, requestVars
<1>1. PICK u \in Users : \E x \in RightsOf(u) :
        /\ rights' = [rights EXCEPT ![u] = @ \ {x}]
        /\ off' = [v \in WechatUsers |->
                     IF v = u /\ x = "active" /\ ~LoggingIn(u)
                     THEN now ELSE off[v]]
      BY DEF Revoke
<1>2. PICK x \in RightsOf(u) :
        /\ rights' = [rights EXCEPT ![u] = @ \ {x}]
        /\ off' = [v \in WechatUsers |->
                     IF v = u /\ x = "active" /\ ~LoggingIn(u)
                     THEN now ELSE off[v]]
      BY <1>1
<1>3. TypeOK'
      BY <1>2 DEF Revoke, TypeOK
<1>4. HeldByRunning'
      BY DEF Revoke, HeldByRunning
<1>5. TokensFade'
      BY <1>2 DEF Revoke, TypeOK, TokensFade, LoggingIn
<1>6. RequestsSound'
      BY <1>2 DEF Revoke, TypeOK, RequestsSound
<1>7. NoStaleRole'
      BY DEF Revoke, NoStaleRole
<1> QED BY <1>3, <1>4, <1>5, <1>6, <1>7

\* No step of a request, an operator, the clock or the process leads out of
\* the invariant.
LEMMA ServiceStep == ServiceInv /\ [Next]_vars => ServiceInv'
<1> SUFFICES ASSUME ServiceInv, [Next]_vars PROVE ServiceInv'
    OBVIOUS
<1> USE ServiceConstants DEF ServiceInv
<1> USE DEF Goto
<1>1. ASSUME NEW r \in Requests, Arrive(r) PROVE ServiceInv'
      BY <1>1, ArriveStep
<1>2. ASSUME NEW r \in Requests, Acquire(r) PROVE ServiceInv'
  <2>1. TypeOK' /\ HeldByRunning'
        BY <1>2 DEF Acquire, TypeOK, HeldByRunning
  <2>2. TokensFade' /\ RequestsSound' /\ NoStaleRole'
        BY <1>2 DEF Acquire, TypeOK, TokensFade, RequestsSound, NoStaleRole
  <2> QED BY <2>1, <2>2
<1>3. ASSUME NEW r \in Requests, Check(r) PROVE ServiceInv'
      BY <1>3, CheckStep
<1>4. ASSUME NEW r \in Requests, Statement(r) PROVE ServiceInv'
  <2>1. TypeOK' /\ HeldByRunning'
        BY <1>4 DEF Statement, OnConnection, InTransaction, TypeOK, HeldByRunning
  <2>2. TokensFade' /\ RequestsSound' /\ NoStaleRole'
        BY <1>4 DEF Statement, OnConnection, TypeOK, TokensFade, RequestsSound,
                    NoStaleRole
  <2> QED BY <2>1, <2>2
<1>5. ASSUME NEW r \in Requests, Finish(r) PROVE ServiceInv'
  <2>1. TypeOK' /\ HeldByRunning'
        BY <1>5 DEF Finish, TypeOK, HeldByRunning
  <2>2. TokensFade' /\ RequestsSound' /\ NoStaleRole'
        BY <1>5 DEF Finish, TypeOK, TokensFade, RequestsSound, NoStaleRole, Logins
  <2> QED BY <2>1, <2>2
<1>6. ASSUME NEW r \in Requests, Fail(r) PROVE ServiceInv'
  <2>1. TypeOK' /\ HeldByRunning'
        BY <1>6 DEF Fail, GivenBack, TypeOK, HeldByRunning
  <2>2. TokensFade' /\ RequestsSound' /\ NoStaleRole'
        BY <1>6 DEF Fail, TypeOK, TokensFade, RequestsSound, NoStaleRole
  <2> QED BY <2>1, <2>2
<1>7. ASSUME NEW r \in Requests, Issue(r) PROVE ServiceInv'
      BY <1>7, IssueStep
<1>8. ASSUME NEW r \in Requests, Reply(r) PROVE ServiceInv'
  <2>1. TypeOK' /\ HeldByRunning'
        BY <1>8 DEF Reply, TypeOK, HeldByRunning
  <2>2. TokensFade' /\ RequestsSound' /\ NoStaleRole'
        BY <1>8 DEF Reply, TypeOK, TokensFade, RequestsSound, NoStaleRole, Users,
                     AllRoutes, Logins
  <2> QED BY <2>1, <2>2
<1>9. CASE Grant
      BY <1>9, GrantStep
<1>10. CASE Revoke
       BY <1>10, RevokeStep
<1>11. CASE Tick
  <2>1. TypeOK'
        BY <1>11 DEF Tick, requestVars, TypeOK, Times
  <2>2. now' = now + 1 /\ now \in Nat
        BY <1>11 DEF Tick, TypeOK, Times
  <2>3. TokensFade'
        BY <1>11, <2>2 DEF Tick, requestVars, TypeOK, TokensFade, Users
  <2>4. HeldByRunning' /\ RequestsSound' /\ NoStaleRole'
        BY <1>11 DEF Tick, requestVars, HeldByRunning, RequestsSound, NoStaleRole
  <2> QED BY <2>1, <2>3, <2>4
<1>12. CASE Crash
  <2>1. TypeOK' /\ HeldByRunning'
        BY <1>12 DEF Crash, TypeOK, HeldByRunning
  <2>2. TokensFade' /\ RequestsSound' /\ NoStaleRole'
        BY <1>12 DEF Crash, TypeOK, TokensFade, RequestsSound, NoStaleRole, Users,
                     AllRoutes, Logins
  <2> QED BY <2>1, <2>2
<1>13. CASE UNCHANGED vars
       BY <1>13 DEF vars, requestVars, TypeOK, HeldByRunning, TokensFade,
                    RequestsSound, NoStaleRole
<1> QED BY <1>1, <1>2, <1>3, <1>4, <1>5, <1>6, <1>7, <1>8, <1>9, <1>10,
           <1>11, <1>12, <1>13 DEF Next

\* The inductive invariant of requests, connections, rights and tokens.
THEOREM ServiceInvHolds == Spec => []ServiceInv
  BY ServiceInitially, ServiceStep, PTL DEF Spec

\* No request waits for a connection while it holds one (mysql.go,
\* SetMaxOpenConns; order_store.go, Create).
THEOREM PoolCannotLockUp == Spec => []NoHoldAndWait
<1>1. ServiceInv => NoHoldAndWait
      BY DEF ServiceInv, HeldByRunning, NoHoldAndWait
<1> QED BY <1>1, ServiceInvHolds, PTL

\* Every way out of a handler gives its connection back.
THEOREM NothingLeaks == Spec => []ConnectionsReturned
<1>1. ServiceInv => ConnectionsReturned
      BY DEF ServiceInv, HeldByRunning, ConnectionsReturned
<1> QED BY <1>1, ServiceInvHolds, PTL

\* RequirePermission admits nobody on a role lost before the request came
\* (middleware/auth.go).
THEOREM RolesAreCurrent == Spec => []NoStaleRole
<1>1. ServiceInv => NoStaleRole
      BY DEF ServiceInv
<1> QED BY <1>1, ServiceInvHolds, PTL

\* A WeChat account disabled for wechatTokenTTL is admitted nowhere
\* (user_store.go, getByOpenID; jwt.go, ParseToken).
THEOREM DisabledAreShutOut == Spec => ShutOut
<1> DEFINE Admits(r) ==
      LET u == user'[r]
      IN  /\ pc[r] = "idle" /\ pc'[r] # "idle"
          /\ route'[r] \notin Logins
          /\ u \in WechatUsers /\ off[u] # None
          => now < off[u] + WechatTTL
<1>1. ServiceInv /\ [Next]_vars => \A r \in Requests : Admits(r)
  <2> SUFFICES ASSUME ServiceInv, [Next]_vars, NEW r \in Requests,
                      pc[r] = "idle", pc'[r] # "idle",
                      route'[r] \notin Logins, user'[r] \in WechatUsers,
                      off[user'[r]] # None
               PROVE  now < off[user'[r]] + WechatTTL
      OBVIOUS
  <2>1. Arrive(r)
        BY DEF Next, vars, requestVars, Acquire, Arrive, Check, Statement,
               Finish, Fail, Issue, Reply, Grant, Revoke, Tick, Crash, Goto,
               ServiceInv, TypeOK
  <2>2. now < token[user'[r]]
        BY <2>1 DEF Arrive, Accepted, ServiceInv, TypeOK
  <2>3. token[user'[r]] <= off[user'[r]] + WechatTTL
        BY DEF ServiceInv, TokensFade
  <2>4. off[user'[r]] \in Nat /\ token[user'[r]] \in Nat /\ now \in Nat
        BY DEF ServiceInv, TypeOK, Times, Users
  <2> QED BY <2>2, <2>3, <2>4, ServiceConstants
<1> QED BY <1>1, ServiceInvHolds, PTL DEF Spec, ShutOut
=============================================================================
