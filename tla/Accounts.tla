------------------------------ MODULE Accounts ------------------------------
(***************************************************************************)
(* The users table and the requests that write it: POST /api/auth/register *)
(* (UserStore.Register) and POST /api/auth/wechat-login (WechatHandler     *)
(* over FindOrCreateByOpenID), statement by statement.  Neither opens a    *)
(* transaction; what makes them safe is the unique indexes on username,    *)
(* email and openid.  No code deletes or renames a user.  An operator may  *)
(* disable one with SQL at any moment.                                     *)
(***************************************************************************)
EXTENDS FiniteSets

CONSTANTS UserIds,     \* users.id: the UUIDs that may be drawn
          OpenIds,     \* WeChat openids
          UnionIds,    \* WeChat unionids, the empty string apart
          Names,       \* usernames a client may register
          Emails,      \* emails a client may register
          DisplayName, \* user id -> the name a WeChat account gets
          WechatMail,  \* that name -> its email, name@wechat
          Logins,      \* WeChat logins the server handles at once
          Registers,   \* registrations it handles at once
          Empty,       \* the empty string
          Null         \* SQL NULL; also: no row, no request, nobody

ASSUME AccountConstants ==
    /\ Null \notin OpenIds \cup UnionIds \cup {Empty} \cup UserIds
    /\ Empty \notin UnionIds

VARIABLES
    users,   \* users
    wpc,     \* where each WeChat login is
    session, \* what WeChat said of its code: openid and unionid
    who,     \* the account it will answer
    barred,  \* history: the accounts disabled before its last look-up
    met,     \* history: the <<openid, account>> pairs answered with 200
    rpc,     \* where each registration is
    claim    \* the username and email it asks for

loginVars == <<wpc, session, who, barred, met>>
registerVars == <<rpc, claim>>
vars == <<users, loginVars, registerVars>>

\* The first 5 characters of an id are not unique: DisplayName[a] may be
\* DisplayName[b], and a client may register such a name.
UserRow == [username : Names \cup {DisplayName[u] : u \in UserIds},
            email    : Emails \cup {WechatMail[DisplayName[u]] : u \in UserIds},
            openid   : OpenIds \cup {Null},
            unionid  : UnionIds \cup {Empty, Null},
            status   : {"active", "disabled"}]
ASSUME NullIsNoRow == Null \notin UserRow

Session == [openid : OpenIds, unionid : UnionIds \cup {Empty}]
Claim == [username : Names, email : Emails]

Rows == {u \in UserIds : users[u] # Null}
Taken(column, value) == \E u \in Rows : users[u][column] = value
HasOpenId(u, o) == u \in Rows /\ users[u].openid = o

\* Mutant: no unique index on openid.
UniqueNamesOnly(row) ==
    Taken("username", row.username) \/ Taken("email", row.email)
\* Mutant: isUniqueViolation answers true whatever the error.
AnyErrorIsConflict(row) == TRUE
\* uk_users_username, uk_users_email, uk_users_openid (NULLs never clash).
UniqueViolation(row) ==
    \/ Taken("username", row.username)
    \/ Taken("email", row.email)
    \/ row.openid # Null /\ Taken("openid", row.openid)

-----------------------------------------------------------------------------
Init ==
    /\ users = [u \in UserIds |-> Null]
    /\ wpc = [w \in Logins |-> "idle"]
    /\ session = [w \in Logins |-> Null]
    /\ who = [w \in Logins |-> Null]
    /\ barred = [w \in Logins |-> {}]
    /\ met = {}
    /\ rpc = [r \in Registers |-> "idle"]
    /\ claim = [r \in Registers |-> Null]

Goto(w, label) == wpc' = [wpc EXCEPT ![w] = label]

-----------------------------------------------------------------------------
(* POST /api/auth/wechat-login                                             *)

\* WeChat exchanges the code; its refusal is a 401 that touches nothing.
CodeToSession(w) ==
    /\ wpc[w] = "idle"
    /\ \E s \in Session : session' = [session EXCEPT ![w] = s]
    /\ barred' = [barred EXCEPT ![w] =
                     {u \in Rows : users[u].status = "disabled"}]
    /\ Goto(w, "find")
    /\ UNCHANGED <<users, who, met, registerVars>>

\* Mutant: getByOpenID does not look at the status.
FoundInAnyStatus(w, u) ==
    HasOpenId(u, session[w].openid) /\ Goto(w, "update")
        /\ who' = [who EXCEPT ![w] = u]
\* getByOpenID found a row: the request goes on with it unless it is disabled.
Found(w, u) ==
    /\ HasOpenId(u, session[w].openid)
    /\ IF users[u].status = "disabled"
       THEN Goto(w, "disabled") /\ UNCHANGED who
       ELSE Goto(w, "update") /\ who' = [who EXCEPT ![w] = u]

\* getByOpenID found none: sql.ErrNoRows becomes ErrUserNotFound.
Absent(w, label) ==
    /\ ~Taken("openid", session[w].openid)
    /\ Goto(w, label)
    /\ UNCHANGED who

FindByOpenID(w) ==
    /\ wpc[w] = "find"
    /\ (\E u \in UserIds : Found(w, u)) \/ Absent(w, "insert")
    /\ UNCHANGED <<users, session, barred, met, registerVars>>

WechatRow(u, s) ==
    [username |-> DisplayName[u], email |-> WechatMail[DisplayName[u]],
     openid |-> s.openid, unionid |-> s.unionid, status |-> "active"]

\* Any unique violation counts as a lost race for the openid.  The INSERT may
\* take effect and its confirmation be lost.
InsertUser(w) ==
    /\ wpc[w] = "insert"
    /\ \E u \in UserIds \ Rows :
          LET row == WechatRow(u, session[w]) IN
          IF UniqueViolation(row)
          THEN Goto(w, "refetch") /\ UNCHANGED <<users, who>>
          ELSE /\ users' = [users EXCEPT ![u] = row]
               /\ who' = [who EXCEPT ![w] = u]
               /\ \E answer \in {"ok", "failed"} : Goto(w, answer)
    /\ UNCHANGED <<session, barred, met, registerVars>>

\* Mutant: the row fetched again is taken whatever its status.
RefetchInAnyStatus(w) ==
    /\ wpc[w] = "refetch"
    /\ (\E u \in UserIds : FoundInAnyStatus(w, u)) \/ Absent(w, "failed")
    /\ UNCHANGED <<users, session, barred, met, registerVars>>
\* Here ErrUserNotFound is a 500.
Refetch(w) ==
    /\ wpc[w] = "refetch"
    /\ (\E u \in UserIds : Found(w, u)) \/ Absent(w, "failed")
    /\ UNCHANGED <<users, session, barred, met, registerVars>>

\* Mutant: the CASE dropped.
Overwritten(row, s) ==
    IF s.unionid # Empty THEN [row EXCEPT !.unionid = s.unionid] ELSE row
\* updateLogin's UPDATE of a row; last_login_at is left out.
Relogged(row, s) ==
    IF row.unionid = Null /\ s.unionid # Empty
    THEN [row EXCEPT !.unionid = s.unionid] ELSE row

UpdateLogin(w) ==
    /\ wpc[w] = "update"
    /\ users' = [u \in UserIds |->
                    IF HasOpenId(u, session[w].openid)
                    THEN Relogged(users[u], session[w]) ELSE users[u]]
    /\ Goto(w, "ok")
    /\ UNCHANGED <<session, who, barred, met, registerVars>>

\* Its error is dropped.
UpdateLoginFails(w) ==
    /\ wpc[w] = "update"
    /\ Goto(w, "ok")
    /\ UNCHANGED <<users, session, who, barred, met, registerVars>>

\* Any other statement fails: 500.
LoginFails(w) ==
    /\ wpc[w] \in {"find", "insert", "refetch"}
    /\ Goto(w, "failed")
    /\ UNCHANGED <<users, session, who, barred, met, registerVars>>

AnswerLogin(w) ==
    /\ wpc[w] \in {"ok", "disabled", "failed"}
    /\ met' = IF wpc[w] = "ok"
              THEN met \cup {<<session[w].openid, who[w]>>} ELSE met
    /\ Goto(w, "idle")
    /\ session' = [session EXCEPT ![w] = Null]
    /\ who' = [who EXCEPT ![w] = Null]
    /\ barred' = [barred EXCEPT ![w] = {}]
    /\ UNCHANGED <<users, registerVars>>

-----------------------------------------------------------------------------
(* POST /api/auth/register                                                 *)

RegisterRow(c) ==
    [username |-> c.username, email |-> c.email, openid |-> Null,
     unionid |-> Null, status |-> "active"]

Register(r) ==
    /\ rpc[r] = "idle"
    /\ \E c \in Claim :
          IF UniqueViolation(RegisterRow(c))
          THEN /\ rpc' = [rpc EXCEPT ![r] = "classify"]
               /\ claim' = [claim EXCEPT ![r] = c]
               /\ UNCHANGED users
          ELSE /\ \E u \in UserIds \ Rows :
                     users' = [users EXCEPT ![u] = RegisterRow(c)]
               /\ UNCHANGED registerVars
    /\ UNCHANGED loginVars

\* SELECT 1 ... WHERE username: its error is dropped, as if there were no row.
ClassifyConflict(r) ==
    /\ rpc[r] = "classify"
    /\ \E failed \in BOOLEAN :
          rpc' = [rpc EXCEPT ![r] =
                     IF ~failed /\ Taken("username", claim[r].username)
                     THEN "usernameTaken" ELSE "emailTaken"]
    /\ UNCHANGED <<users, claim, loginVars>>

AnswerRegister(r) ==
    /\ rpc[r] \in {"usernameTaken", "emailTaken"}
    /\ rpc' = [rpc EXCEPT ![r] = "idle"]
    /\ claim' = [claim EXCEPT ![r] = Null]
    /\ UNCHANGED <<users, loginVars>>

-----------------------------------------------------------------------------
\* An operator runs UPDATE users SET status = 'disabled'.
Disable ==
    /\ \E u \in Rows :
          /\ users' = [users EXCEPT ![u].status = "disabled"]
          /\ barred' = [w \in Logins |->
                           IF wpc[w] \in {"find", "insert", "refetch"}
                           THEN barred[w] \cup {u} ELSE barred[w]]
    /\ UNCHANGED <<wpc, session, who, met, registerVars>>

\* The server process dies; no request is answered.
Crash ==
    /\ wpc' = [w \in Logins |-> "idle"]
    /\ session' = [w \in Logins |-> Null]
    /\ who' = [w \in Logins |-> Null]
    /\ barred' = [w \in Logins |-> {}]
    /\ rpc' = [r \in Registers |-> "idle"]
    /\ claim' = [r \in Registers |-> Null]
    /\ UNCHANGED <<users, met>>

Next ==
    \/ \E w \in Logins :
          \/ CodeToSession(w) \/ FindByOpenID(w) \/ InsertUser(w)
          \/ Refetch(w) \/ UpdateLogin(w) \/ UpdateLoginFails(w)
          \/ LoginFails(w) \/ AnswerLogin(w)
    \/ \E r \in Registers :
          Register(r) \/ ClassifyConflict(r) \/ AnswerRegister(r)
    \/ Disable
    \/ Crash

Spec == Init /\ [][Next]_vars

-----------------------------------------------------------------------------
TypeOK ==
    /\ users \in [UserIds -> UserRow \cup {Null}]
    /\ wpc \in [Logins -> {"idle", "find", "insert", "refetch", "update",
                           "ok", "disabled", "failed"}]
    /\ session \in [Logins -> Session \cup {Null}]
    /\ \A w \in Logins : wpc[w] # "idle" => session[w] \in Session
    /\ who \in [Logins -> UserIds \cup {Null}]
    /\ barred \in [Logins -> SUBSET UserIds]
    /\ met \subseteq OpenIds \X UserIds
    /\ rpc \in [Registers -> {"idle", "classify", "usernameTaken",
                              "emailTaken"}]
    /\ claim \in [Registers -> Claim \cup {Null}]
    /\ \A r \in Registers : rpc[r] # "idle" => claim[r] \in Claim

\* One openid, one account: every successful login of it, however many race
\* to create it, is answered with the same account, which keeps the openid.
SameAccount ==
    /\ \A p \in met : HasOpenId(p[2], p[1])
    /\ \A p, q \in met : p[1] = q[1] => p = q

\* A login does not succeed with an account that was disabled before the
\* login's last look at the table: not before it began, and not, when it
\* found no row and lost the race for the insert, before it fetched again.
DisabledStayOut == \A w \in Logins : wpc[w] = "ok" => who[w] \notin barred[w]

\* Users do not lose their identity: names, email and openid never change,
\* and a unionid that is recorded (neither NULL nor the empty string) is not
\* replaced, by however many logins at once.
IdentityKept ==
    [][\A u \in Rows :
          /\ u \in Rows'
          /\ \A f \in {"username", "email", "openid"} :
                users'[u][f] = users[u][f]
          /\ users[u].unionid \in UnionIds =>
                users'[u].unionid = users[u].unionid
      ]_vars

\* "Concurrent insert won the race": the login that meets a unique violation
\* finds the account the other one created.
RaceHasWinner == \A w \in Logins :
    wpc[w] = "refetch" => Taken("openid", session[w].openid)

-----------------------------------------------------------------------------
(* The inductive invariant that carries SameAccount and DisabledStayOut.   *)

OpenIdUnique == \A u, v \in Rows :
    users[u].openid = users[v].openid /\ users[u].openid # Null => u = v

\* The account a login has found is its own and was not disabled before.
RightAccount == \A w \in Logins : wpc[w] \in {"update", "ok"} =>
    HasOpenId(who[w], session[w].openid) /\ who[w] \notin barred[w]

BarredDisabled == \A w \in Logins : \A u \in barred[w] :
    u \in Rows /\ users[u].status = "disabled"

\* Inductive: no statement of any login, registration or operator leads out
\* of it.
AccountInv ==
    TypeOK /\ OpenIdUnique /\ RightAccount /\ BarredDisabled /\ SameAccount

\* When display names tell the ids apart and no client registers one, only
\* the openid can clash: then every lost race has a winner.
NamesApart ==
    /\ \A u, v \in UserIds :
          \/ u = v
          \/ /\ DisplayName[u] # DisplayName[v]
             /\ WechatMail[DisplayName[u]] # WechatMail[DisplayName[v]]
    /\ \A u \in UserIds :
          DisplayName[u] \notin Names /\ WechatMail[DisplayName[u]] \notin Emails

\* Rows as the two INSERTs write them.
Provenance == \A u \in Rows :
    \/ users[u].username = DisplayName[u]
       /\ users[u].email = WechatMail[DisplayName[u]]
    \/ users[u].username \in Names /\ users[u].email \in Emails
=============================================================================
