--------------------------- MODULE AccountsProofs ---------------------------
(***************************************************************************)
(* For every set of ids, openids and request slots: all logins of an       *)
(* openid get one account, a disabled account stays out, and no request    *)
(* rewrites who a user is.  If display names cannot clash, the retry of    *)
(* FindOrCreateByOpenID always finds the row that beat it.                 *)
(***************************************************************************)
EXTENDS Accounts, TLAPS

-----------------------------------------------------------------------------
(* What a step does to the table: at most one row changes, and a row that  *)
(* is there keeps its identity.                                            *)

\* What no step takes from a row.
Keeps(old, new) ==
    /\ new # Null
    /\ \A f \in {"username", "email", "openid"} : new[f] = old[f]
    /\ old.unionid \in UnionIds => new.unionid = old.unionid
    /\ old.status = "disabled" => new.status = "disabled"

RowsKept == \A u \in Rows : Keeps(users[u], users'[u])

\* The rows the two INSERTs add have a type and, but for a new openid, null.
LEMMA InsertedRowType ==
  /\ \A u \in UserIds, s \in Session :
        /\ WechatRow(u, s) \in UserRow
        /\ WechatRow(u, s).openid = s.openid
  /\ \A c \in Claim :
        RegisterRow(c) \in UserRow /\ RegisterRow(c).openid = Null
  BY DEF WechatRow, RegisterRow, UserRow, Session, Claim

\* updateLogin fills a missing unionid and changes nothing else.
LEMMA ReloggedKeeps ==
  ASSUME NEW row \in UserRow, NEW s \in Session
  PROVE  Relogged(row, s) \in UserRow /\ Keeps(row, Relogged(row, s))
<1>1. CASE row.unionid = Null /\ s.unionid # Empty
  <2>1. Relogged(row, s) = [row EXCEPT !.unionid = s.unionid]
    BY <1>1 DEF Relogged
  <2>2. Relogged(row, s) \in UserRow
    BY <1>1, <2>1 DEF UserRow, Session
  <2> QED
    BY <1>1, <2>1, <2>2, NullIsNoRow, AccountConstants DEF Keeps, UserRow
<1>2. CASE ~(row.unionid = Null /\ s.unionid # Empty)
  BY <1>2, NullIsNoRow DEF Relogged, Keeps
<1> QED
  BY <1>1, <1>2

\* Every way a step can write the users table.
InsertsRow == \E u \in UserIds \ Rows, row \in UserRow :
    /\ ~UniqueViolation(row)
    /\ users' = [users EXCEPT ![u] = row]
Relogs == \E s \in Session :
    users' = [u \in UserIds |-> IF HasOpenId(u, s.openid)
                                THEN Relogged(users[u], s) ELSE users[u]]

\* A step inserts a row, updates a login, disables a user, or writes no row.
LEMMA TableWrites ==
  ASSUME TypeOK, [Next]_vars
  PROVE  UNCHANGED users \/ InsertsRow \/ Relogs \/ Disable
<1>1. ASSUME NEW w \in Logins, InsertUser(w)
      PROVE  UNCHANGED users \/ InsertsRow
  <2>1. session[w] \in Session
    BY <1>1 DEF InsertUser, TypeOK
  <2> QED
    BY <1>1, <2>1, InsertedRowType DEF InsertUser, InsertsRow
<1>2. ASSUME NEW w \in Logins, UpdateLogin(w) PROVE Relogs
  BY <1>2 DEF UpdateLogin, Relogs, TypeOK
<1>3. ASSUME NEW r \in Registers, Register(r)
      PROVE  UNCHANGED users \/ InsertsRow
  BY <1>3, InsertedRowType DEF Register, InsertsRow
<1>4. ASSUME NEW w \in Logins,
             \/ CodeToSession(w) \/ FindByOpenID(w) \/ Refetch(w)
             \/ UpdateLoginFails(w) \/ LoginFails(w) \/ AnswerLogin(w)
      PROVE  UNCHANGED users
  BY <1>4 DEF CodeToSession, FindByOpenID, Refetch, UpdateLoginFails,
              LoginFails, AnswerLogin
<1>5. ASSUME NEW r \in Registers, ClassifyConflict(r) \/ AnswerRegister(r)
      PROVE  UNCHANGED users
  BY <1>5 DEF ClassifyConflict, AnswerRegister
<1>6. CASE Crash
  BY <1>6 DEF Crash
<1>7. CASE UNCHANGED vars
  BY <1>7 DEF vars
<1> QED
  BY <1>1, <1>2, <1>3, <1>4, <1>5, <1>6, <1>7 DEF Next

\* Rows never go, keep who they are, and keep their openids apart.
LEMMA TableInv ==
  ASSUME TypeOK, OpenIdUnique, [Next]_vars
  PROVE  /\ users' \in [UserIds -> UserRow \cup {Null}]
         /\ RowsKept
         /\ OpenIdUnique'
<1>1. users \in [UserIds -> UserRow \cup {Null}]
  BY DEF TypeOK
<1>2. CASE UNCHANGED users
  BY <1>1, <1>2 DEF RowsKept, Keeps, Rows, OpenIdUnique
<1>3. CASE InsertsRow
  <2>1. PICK u \in UserIds \ Rows, row \in UserRow :
           ~UniqueViolation(row) /\ users' = [users EXCEPT ![u] = row]
    BY <1>3 DEF InsertsRow
  <2>2. Rows' = Rows \cup {u} /\ \A v \in Rows : users'[v] = users[v]
    BY <1>1, <2>1, NullIsNoRow DEF Rows
  <2>3. users'[u] = row
    BY <1>1, <2>1
  <2>4. row.openid # Null => \A v \in Rows : users[v].openid # row.openid
    BY <2>1 DEF UniqueViolation, Taken
  <2>5. OpenIdUnique'
    BY <2>2, <2>3, <2>4 DEF OpenIdUnique
  <2>6. RowsKept
    BY <2>2 DEF RowsKept, Keeps, Rows
  <2> QED
    BY <1>1, <2>1, <2>5, <2>6
<1>4. CASE Relogs
  <2>1. PICK s \in Session :
           users' = [u \in UserIds |-> IF HasOpenId(u, s.openid)
                                       THEN Relogged(users[u], s) ELSE users[u]]
    BY <1>4 DEF Relogs
  <2>2. users' \in [UserIds -> UserRow \cup {Null}]
    BY <1>1, <2>1, ReloggedKeeps DEF HasOpenId, Rows
  <2>3. RowsKept
    BY <1>1, <2>1, ReloggedKeeps DEF RowsKept, Keeps, Rows
  <2>4. Rows' \subseteq Rows
    BY <2>1 DEF Rows, HasOpenId
  <2>5. OpenIdUnique'
    BY <2>3, <2>4 DEF RowsKept, Keeps, OpenIdUnique
  <2> QED
    BY <2>2, <2>3, <2>5
<1>5. CASE Disable
  <2>1. PICK u \in Rows : users' = [users EXCEPT ![u].status = "disabled"]
    BY <1>5 DEF Disable
  <2>2. u \in UserIds /\ users[u] \in UserRow
    BY <1>1 DEF Rows
  <2>3. /\ [users[u] EXCEPT !.status = "disabled"] \in UserRow
        /\ Keeps(users[u], [users[u] EXCEPT !.status = "disabled"])
    BY <2>2, NullIsNoRow DEF UserRow, Keeps
  <2>4. users' = [users EXCEPT ![u] = [users[u] EXCEPT !.status = "disabled"]]
    BY <1>1, <2>1, <2>2
  <2>5. users' \in [UserIds -> UserRow \cup {Null}]
    BY <1>1, <2>2, <2>3, <2>4
  <2>6. RowsKept /\ Rows' \subseteq Rows
    BY <1>1, <2>2, <2>3, <2>4 DEF RowsKept, Keeps, Rows
  <2>7. OpenIdUnique'
    BY <2>6 DEF RowsKept, Keeps, OpenIdUnique
  <2> QED
    BY <2>5, <2>6, <2>7
<1> QED
  BY <1>2, <1>3, <1>4, <1>5, TableWrites

-----------------------------------------------------------------------------
\* An empty table and idle requests satisfy the invariant.
LEMMA InitAccountInv == Init => AccountInv
  BY DEF Init, AccountInv, TypeOK, OpenIdUnique, RightAccount, BarredDisabled,
         SameAccount, Rows

\* The requests' variables keep their types.
LEMMA TypeInv ==
  ASSUME AccountInv, [Next]_vars
  PROVE  TypeOK'
<1>1. users' \in [UserIds -> UserRow \cup {Null}]
  BY TableInv DEF AccountInv
<1>2. ASSUME NEW w \in Logins, CodeToSession(w) PROVE TypeOK'
  BY <1>1, <1>2 DEF CodeToSession, Goto, registerVars, Rows, AccountInv, TypeOK
<1>3. ASSUME NEW w \in Logins, FindByOpenID(w) \/ Refetch(w) PROVE TypeOK'
  BY <1>1, <1>3 DEF FindByOpenID, Refetch, Found, Absent, Goto, registerVars,
                    AccountInv, TypeOK
<1>4. ASSUME NEW w \in Logins, InsertUser(w) PROVE TypeOK'
  BY <1>1, <1>4 DEF InsertUser, Goto, registerVars, AccountInv, TypeOK
<1>5. ASSUME NEW w \in Logins,
             UpdateLogin(w) \/ UpdateLoginFails(w) \/ LoginFails(w)
      PROVE  TypeOK'
  BY <1>1, <1>5 DEF UpdateLogin, UpdateLoginFails, LoginFails, Goto,
                    registerVars, AccountInv, TypeOK
<1>6. ASSUME NEW w \in Logins, AnswerLogin(w) PROVE TypeOK'
  <2>1. wpc[w] = "ok" => session[w].openid \in OpenIds /\ who[w] \in UserIds
    BY DEF AccountInv, TypeOK, RightAccount, HasOpenId, Rows, Session
  <2> QED
    BY <1>1, <1>6, <2>1 DEF AnswerLogin, Goto, registerVars, AccountInv, TypeOK
<1>7. ASSUME NEW r \in Registers,
             Register(r) \/ ClassifyConflict(r) \/ AnswerRegister(r)
      PROVE  TypeOK'
  BY <1>1, <1>7 DEF Register, ClassifyConflict, AnswerRegister, loginVars,
                    registerVars, AccountInv, TypeOK
<1>8. CASE Disable
  BY <1>1, <1>8 DEF Disable, Rows, registerVars, AccountInv, TypeOK
<1>9. CASE Crash \/ UNCHANGED vars
  BY <1>1, <1>9 DEF Crash, vars, loginVars, registerVars, AccountInv, TypeOK
<1> QED
  BY <1>2, <1>3, <1>4, <1>5, <1>6, <1>7, <1>8, <1>9 DEF Next

\* A login answers the account of its openid, found enabled or just created.
LEMMA RightAccountInv ==
  ASSUME AccountInv, [Next]_vars
  PROVE  RightAccount' /\ BarredDisabled'
<1>1. RowsKept /\ users' \in [UserIds -> UserRow \cup {Null}]
  BY TableInv DEF AccountInv
<1>2. \A u, o : HasOpenId(u, o) => HasOpenId(u, o)'
  BY <1>1 DEF RowsKept, Keeps, HasOpenId, Rows
<1>3. \A u \in Rows : users[u].status = "disabled" =>
         u \in Rows' /\ users'[u].status = "disabled"
  BY <1>1 DEF RowsKept, Keeps, Rows
<1>4. CASE UNCHANGED <<wpc, session, who, barred>>
  BY <1>2, <1>3, <1>4 DEF AccountInv, RightAccount, BarredDisabled
<1>5. ASSUME NEW w \in Logins, CodeToSession(w)
      PROVE  RightAccount' /\ BarredDisabled'
  BY <1>2, <1>3, <1>5 DEF CodeToSession, Goto, AccountInv, TypeOK,
                          RightAccount, BarredDisabled
<1>6. ASSUME NEW w \in Logins, FindByOpenID(w) \/ Refetch(w)
      PROVE  RightAccount' /\ BarredDisabled'
  <2>1. UNCHANGED <<users, session, barred>>
    BY <1>6 DEF FindByOpenID, Refetch
  <2>2. CASE \E u \in UserIds : Found(w, u)
    <3>1. PICK u \in UserIds : Found(w, u)
      BY <2>2
    <3>2. CASE users[u].status = "disabled"
      BY <1>2, <1>3, <2>1, <3>1, <3>2
         DEF Found, Goto, AccountInv, TypeOK, RightAccount, BarredDisabled
    <3>3. CASE users[u].status # "disabled"
      <4>1. u \notin barred[w] /\ HasOpenId(u, session[w].openid)
        BY <3>1, <3>3 DEF Found, AccountInv, BarredDisabled
      <4>2. /\ wpc' = [wpc EXCEPT ![w] = "update"]
            /\ who' = [who EXCEPT ![w] = u]
        BY <3>1, <3>3 DEF Found, Goto
      <4> QED
        BY <1>2, <1>3, <2>1, <4>1, <4>2
           DEF AccountInv, TypeOK, RightAccount, BarredDisabled
    <3> QED
      BY <3>2, <3>3
  <2>3. CASE Absent(w, "insert") \/ Absent(w, "failed")
    BY <1>2, <1>3, <2>1, <2>3
       DEF Absent, Goto, AccountInv, TypeOK, RightAccount, BarredDisabled
  <2> QED
    BY <1>6, <2>2, <2>3 DEF FindByOpenID, Refetch
<1>7. ASSUME NEW w \in Logins, InsertUser(w)
      PROVE  RightAccount' /\ BarredDisabled'
  <2>1. PICK u \in UserIds \ Rows :
           \/ Goto(w, "refetch") /\ UNCHANGED <<users, who>>
           \/ /\ users' = [users EXCEPT ![u] = WechatRow(u, session[w])]
              /\ who' = [who EXCEPT ![w] = u]
              /\ \E answer \in {"ok", "failed"} : Goto(w, answer)
    BY <1>7 DEF InsertUser
  <2>2. UNCHANGED <<session, barred>> /\ session[w] \in Session
    BY <1>7 DEF InsertUser, AccountInv, TypeOK
  <2>3. BarredDisabled'
    BY <1>3, <2>2 DEF AccountInv, BarredDisabled
  <2>4. u \notin barred[w]
    BY <2>1 DEF AccountInv, BarredDisabled
  <2>5. CASE Goto(w, "refetch") /\ UNCHANGED <<users, who>>
    BY <1>2, <2>2, <2>3, <2>5 DEF Goto, AccountInv, TypeOK, RightAccount
  <2>6. CASE /\ users' = [users EXCEPT ![u] = WechatRow(u, session[w])]
             /\ who' = [who EXCEPT ![w] = u]
             /\ \E answer \in {"ok", "failed"} : Goto(w, answer)
    <3>1. HasOpenId(u, session[w].openid)'
      BY <2>1, <2>2, <2>6, InsertedRowType, NullIsNoRow
         DEF HasOpenId, Rows, AccountInv, TypeOK
    <3>2. \A v \in Logins \ {w} :
             wpc'[v] = wpc[v] /\ who'[v] = who[v]
      BY <2>6 DEF Goto, AccountInv, TypeOK
    <3>3. who'[w] = u
      BY <2>6 DEF AccountInv, TypeOK
    <3> QED
      BY <1>2, <2>2, <2>3, <2>4, <3>1, <3>2, <3>3
         DEF AccountInv, RightAccount
  <2> QED
    BY <2>1, <2>5, <2>6
<1>8. ASSUME NEW w \in Logins,
             \/ UpdateLogin(w) \/ UpdateLoginFails(w) \/ LoginFails(w)
      PROVE  RightAccount' /\ BarredDisabled'
  BY <1>2, <1>3, <1>8 DEF UpdateLogin, UpdateLoginFails, LoginFails, Goto,
                          AccountInv, TypeOK, RightAccount, BarredDisabled
<1>9. ASSUME NEW w \in Logins, AnswerLogin(w)
      PROVE  RightAccount' /\ BarredDisabled'
  BY <1>2, <1>3, <1>9 DEF AnswerLogin, Goto, AccountInv, TypeOK, RightAccount,
                          BarredDisabled
<1>10. CASE Crash
  BY <1>10 DEF Crash, RightAccount, BarredDisabled
<1>11. CASE Disable
  <2>1. PICK u \in Rows :
           /\ users' = [users EXCEPT ![u].status = "disabled"]
           /\ barred' = [w \in Logins |->
                            IF wpc[w] \in {"find", "insert", "refetch"}
                            THEN barred[w] \cup {u} ELSE barred[w]]
    BY <1>11 DEF Disable
  <2>2. UNCHANGED <<wpc, session, who>>
    BY <1>11 DEF Disable
  <2>3. u \in Rows' /\ users'[u].status = "disabled"
    <3>1. u \in UserIds /\ users[u] \in UserRow
      BY DEF Rows, AccountInv, TypeOK
    <3>2. users'[u] = [users[u] EXCEPT !.status = "disabled"]
      BY <2>1, <3>1 DEF AccountInv, TypeOK
    <3>3. users'[u].status = "disabled"
      BY <3>1, <3>2 DEF UserRow
    <3>4. u \in Rows'
      BY <1>1, <3>1 DEF RowsKept, Keeps, Rows
    <3> QED
      BY <3>3, <3>4
  <2>4. BarredDisabled'
    BY <1>3, <2>1, <2>3 DEF AccountInv, BarredDisabled
  <2>5. \A w \in Logins : wpc[w] \in {"update", "ok"} => barred'[w] = barred[w]
    BY <2>1
  <2> QED
    BY <1>2, <2>2, <2>4, <2>5 DEF AccountInv, RightAccount
<1>12. CASE \/ UNCHANGED vars
            \/ \E r \in Registers :
                  Register(r) \/ ClassifyConflict(r) \/ AnswerRegister(r)
  BY <1>4, <1>12 DEF vars, loginVars, Register, ClassifyConflict,
                     AnswerRegister
<1> QED
  BY <1>5, <1>6, <1>7, <1>8, <1>9, <1>10, <1>11, <1>12 DEF Next

\* Two answered logins of one openid met the one row that has it.
LEMMA SameAccountInv ==
  ASSUME AccountInv, [Next]_vars
  PROVE  SameAccount'
<1>1. RowsKept /\ OpenIdUnique'
  BY TableInv DEF AccountInv
<1>2. \A u, o : HasOpenId(u, o) => HasOpenId(u, o)'
  BY <1>1 DEF RowsKept, Keeps, HasOpenId, Rows
<1>3. met' \subseteq OpenIds \X UserIds
  BY TypeInv DEF TypeOK
<1>4. \A p \in met' : HasOpenId(p[2], p[1])'
  <2>1. CASE met' = met
    BY <1>2, <2>1 DEF AccountInv, SameAccount
  <2>2. CASE met' # met
    <3>1. PICK w \in Logins : AnswerLogin(w) /\ wpc[w] = "ok"
      BY <2>2 DEF Next, vars, loginVars, registerVars, CodeToSession,
                  FindByOpenID, InsertUser, Refetch, UpdateLogin,
                  UpdateLoginFails, LoginFails, AnswerLogin, Register,
                  ClassifyConflict, AnswerRegister, Disable, Crash
    <3>2. met' = met \cup {<<session[w].openid, who[w]>>}
      BY <3>1 DEF AnswerLogin
    <3>3. HasOpenId(who[w], session[w].openid)
      BY <3>1 DEF AccountInv, RightAccount
    <3> QED
      BY <1>2, <3>2, <3>3 DEF AccountInv, SameAccount
  <2> QED
    BY <2>1, <2>2
<1>5. ASSUME NEW p \in met', NEW q \in met', p[1] = q[1] PROVE p = q
  <2>1. p[1] # Null
    BY <1>3, AccountConstants
  <2>2. p[2] = q[2]
    BY <1>1, <1>4, <1>5, <2>1 DEF OpenIdUnique, HasOpenId
  <2> QED
    BY <1>3, <1>5, <2>2
<1> QED
  BY <1>4, <1>5 DEF SameAccount

\* Every step of every request keeps the invariant.
LEMMA StepAccountInv == AccountInv /\ [Next]_vars => AccountInv'
  BY TypeInv, TableInv, RightAccountInv, SameAccountInv DEF AccountInv

\* The invariant of logins and registrations holds in every reachable state.
THEOREM AccountInvHolds == Spec => []AccountInv
  BY InitAccountInv, StepAccountInv, PTL DEF Spec

\* One openid, one account, however many logins race to create it.
THEOREM OneAccountPerOpenId == Spec => []SameAccount
<1>1. AccountInv => SameAccount
  BY DEF AccountInv
<1> QED
  BY <1>1, AccountInvHolds, PTL

\* No login succeeds with an account that was disabled before the login last
\* looked it up, be it the first look-up or the one after a lost race.
THEOREM DisabledCannotLogIn == Spec => []DisabledStayOut
<1>1. AccountInv => DisabledStayOut
  BY DEF AccountInv, RightAccount, DisabledStayOut
<1> QED
  BY <1>1, AccountInvHolds, PTL

\* No request changes who a user is: a name, an email, an openid, or a unionid
\* that is neither NULL nor empty.
THEOREM IdentitiesKept == Spec => IdentityKept
<1>1. AccountInv /\ [Next]_vars =>
         [\A u \in Rows :
            /\ u \in Rows'
            /\ \A f \in {"username", "email", "openid"} :
                  users'[u][f] = users[u][f]
            /\ users[u].unionid \in UnionIds =>
                  users'[u].unionid = users[u].unionid]_vars
  BY TableInv DEF AccountInv, RowsKept, Keeps, Rows
<1> QED
  BY <1>1, AccountInvHolds, PTL DEF Spec, IdentityKept

-----------------------------------------------------------------------------
(* The retry.                                                              *)

RaceInv == AccountInv /\ Provenance /\ RaceHasWinner

\* With names apart, the only index a WeChat row can hit is the openid's.
LEMMA OnlyOpenIdClashes ==
  ASSUME NamesApart, AccountInv, Provenance,
         NEW u \in UserIds \ Rows, NEW s \in Session,
         UniqueViolation(WechatRow(u, s))
  PROVE  Taken("openid", s.openid)
<1> DEFINE row == WechatRow(u, s)
<1>1. \A v \in Rows : users[v].username # row.username
  BY DEF NamesApart, Provenance, WechatRow, Rows
<1>2. \A v \in Rows : users[v].email # row.email
  BY DEF NamesApart, Provenance, WechatRow, Rows
<1> QED
  BY <1>1, <1>2 DEF UniqueViolation, Taken, WechatRow

\* Rows keep the names one of the two INSERTs gave them.
LEMMA ProvenanceInv ==
  ASSUME AccountInv, Provenance, [Next]_vars
  PROVE  Provenance'
<1>1. RowsKept /\ users' \in [UserIds -> UserRow \cup {Null}]
  BY TableInv DEF AccountInv
<1>2. \A u \in Rows' \ Rows :
         \/ \E s \in Session : users'[u] = WechatRow(u, s)
         \/ \E c \in Claim : users'[u] = RegisterRow(c)
  <2>1. users \in [UserIds -> UserRow \cup {Null}]
    BY DEF AccountInv, TypeOK
  <2>2. ASSUME NEW w \in Logins, InsertUser(w), NEW u \in Rows' \ Rows
        PROVE  \E s \in Session : users'[u] = WechatRow(u, s)
    <3>1. session[w] \in Session
      BY <2>2 DEF InsertUser, AccountInv, TypeOK
    <3> QED
      BY <2>1, <2>2, <3>1 DEF InsertUser, Rows
  <2>3. ASSUME NEW r \in Registers, Register(r), NEW u \in Rows' \ Rows
        PROVE  \E c \in Claim : users'[u] = RegisterRow(c)
    BY <2>1, <2>3 DEF Register, Rows
  <2>4. ASSUME NEW w \in Logins, UpdateLogin(w) PROVE Rows' \subseteq Rows
    BY <2>4 DEF UpdateLogin, HasOpenId, Rows
  <2>5. CASE Disable
    BY <2>1, <2>5 DEF Disable, Rows
  <2>6. CASE UNCHANGED users
    BY <2>6 DEF Rows
  <2> QED
    BY <2>2, <2>3, <2>4, <2>5, <2>6
       DEF Next, vars, CodeToSession, FindByOpenID, Refetch, UpdateLoginFails,
           LoginFails, AnswerLogin, ClassifyConflict, AnswerRegister, Crash
<1>3. \A u \in Rows :
         /\ users'[u].username = users[u].username
         /\ users'[u].email = users[u].email
  BY <1>1 DEF RowsKept, Keeps
<1> SUFFICES ASSUME NEW u \in Rows'
             PROVE  \/ /\ users'[u].username = DisplayName[u]
                       /\ users'[u].email = WechatMail[DisplayName[u]]
                    \/ /\ users'[u].username \in Names
                       /\ users'[u].email \in Emails
  BY DEF Provenance
<1>4. CASE u \in Rows
  BY <1>3, <1>4 DEF Provenance
<1>5. CASE u \notin Rows
  <2>1. CASE \E s \in Session : users'[u] = WechatRow(u, s)
    BY <2>1 DEF WechatRow
  <2>2. CASE \E c \in Claim : users'[u] = RegisterRow(c)
    BY <2>2 DEF RegisterRow, Claim
  <2> QED
    BY <1>2, <1>5, <2>1, <2>2
<1> QED
  BY <1>4, <1>5

\* A login sent to fetch again has met a row with its openid, which stays.
LEMMA WinnerInv ==
  ASSUME NamesApart, RaceInv, [Next]_vars
  PROVE  RaceHasWinner'
<1>1. RowsKept
  BY TableInv DEF RaceInv, AccountInv
<1>2. \A o : Taken("openid", o) => Taken("openid", o)'
  BY <1>1 DEF RowsKept, Keeps, Taken, Rows
<1> SUFFICES ASSUME NEW w \in Logins, wpc'[w] = "refetch"
             PROVE  Taken("openid", session[w].openid)'
  BY DEF RaceHasWinner
<1>3. CASE wpc[w] = "refetch"
  <2>1. session'[w] = session[w]
    BY <1>3 DEF Next, vars, loginVars, registerVars, CodeToSession,
                FindByOpenID, InsertUser, Refetch, UpdateLogin,
                UpdateLoginFails, LoginFails, AnswerLogin, Register,
                ClassifyConflict, AnswerRegister, Disable, Crash, Goto, Found,
                Absent, RaceInv, AccountInv, TypeOK
  <2> QED
    BY <1>2, <1>3, <2>1 DEF RaceInv, RaceHasWinner
<1>4. CASE wpc[w] # "refetch"
  <2>1. InsertUser(w) /\ UNCHANGED users
    BY <1>4 DEF Next, vars, loginVars, registerVars, CodeToSession,
                FindByOpenID, InsertUser, Refetch, UpdateLogin,
                UpdateLoginFails, LoginFails, AnswerLogin, Register,
                ClassifyConflict, AnswerRegister, Disable, Crash, Goto, Found,
                Absent, RaceInv, AccountInv, TypeOK
  <2>2. session[w] \in Session /\ session' = session
    BY <2>1 DEF InsertUser, RaceInv, AccountInv, TypeOK
  <2>3. PICK u \in UserIds \ Rows : UniqueViolation(WechatRow(u, session[w]))
    BY <2>1, <1>4 DEF InsertUser, Goto, RaceInv, AccountInv, TypeOK
  <2> QED
    BY <1>2, <2>2, <2>3, OnlyOpenIdClashes DEF RaceInv
<1> QED
  BY <1>3, <1>4

\* Where display names cannot clash, "Concurrent insert won the race" is
\* right: the row to fetch is there.
THEOREM RetryFindsTheWinner == NamesApart /\ Spec => []RaceHasWinner
<1>1. Init => RaceInv
  BY InitAccountInv DEF Init, RaceInv, Provenance, RaceHasWinner, Rows
<1>2. NamesApart /\ RaceInv /\ [Next]_vars => RaceInv'
  BY StepAccountInv, ProvenanceInv, WinnerInv DEF RaceInv
<1>3. RaceInv => RaceHasWinner
  BY DEF RaceInv
<1>4. CASE NamesApart
  <2>1. RaceInv /\ [Next]_vars => RaceInv'
    BY <1>2, <1>4
  <2> QED
    BY <1>1, <1>3, <2>1, PTL DEF Spec
<1> QED
  BY <1>4
=============================================================================
