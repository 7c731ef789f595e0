--------------------------- MODULE StartupProofs ----------------------------
(***************************************************************************)
(* For any number of instances, restarts, faults and people, and every     *)
(* environment: an instance serves on the whole schema only, and no        *)
(* migration cut short anywhere lets one person have two accounts.         *)
(***************************************************************************)
EXTENDS Startup, TLAPS

\* The schema is a sequence of 13 objects, one of which is the index.
LEMMA SchemaObjects ==
    /\ Len(Schema) = 13
    /\ Range(Schema) = {Schema[k] : k \in 1..13}
    /\ \A k \in 1..13 : Schema[k] \in Range(Schema)
    /\ Schema[11] = "uk_users_openid"
<1>1. DOMAIN Schema = 1..13 /\ Len(Schema) = 13 /\ Schema[11] = "uk_users_openid"
      BY DEF Schema
<1> HIDE DEF Schema
<1> QED BY <1>1 DEF Range

\* config.Load hands OpenMySQL a well-formed DSN or ends the process.
LEMMA ResolvedIsDSN ==
    ASSUME NEW e \in Environment, Loads(e)
    PROVE  ResolveDSN(e) \in DSN
<1>1. CASE e.dsn # Unset
      BY <1>1 DEF ResolveDSN, Environment, DSN
<1>2. CASE e.dsn = Unset
  <2>1. Source(e) \in Setting
        BY <1>2 DEF Loads, Source, FirstURL, Environment, URLKeys
  <2>2. UseTLS(e, Source(e)) \in BOOLEAN
        BY <2>1 DEF UseTLS, Environment, Setting
  <2>3. Source(e).password \in Passwords
        BY <2>1 DEF Setting
  <2> QED BY <1>2, <2>2, <2>3 DEF ResolveDSN, BuildDSN, DSN
<1> QED BY <1>1, <1>2

\* Whatever an earlier migration left satisfies the invariant.
LEMMA StartInitially == Init => StartInv
<1> SUFFICES ASSUME Init PROVE StartInv
    OBVIOUS
<1>1. PICK n \in 0..Len(Schema) : schema = {Schema[k] : k \in 1..n}
      BY DEF Init
<1>2. schema \subseteq Range(Schema)
      BY <1>1, SchemaObjects
<1>3. TypeOK
      BY <1>2, SchemaObjects, StartupConstants DEF Init, TypeOK
<1>4. MigratedSoFar
      BY DEF Init, MigratedSoFar
<1>5. IndexFirst /\ OpenIdsApart
      BY DEF Init, IndexFirst, OpenIdsApart
<1> QED BY <1>3, <1>4, <1>5 DEF StartInv

\* One statement of the migration: what it makes sure of stays.
LEMMA MigrateStep ==
    ASSUME StartInv, NEW i \in Instances, Migrate(i)
    PROVE  StartInv'
<1> USE DEF Goto
<1> DEFINE s == Schema[step[i]]
<1>1. step[i] \in 1..13 /\ s \in Range(Schema)
      BY SchemaObjects DEF Migrate, StartInv, TypeOK, Statements
<1>2. PICK outcome \in {Outcome(i, s), "error"} :
        /\ faults' = IF outcome = Outcome(i, s) THEN faults ELSE faults + 1
        /\ faults' <= MaxFaults
        /\ schema' = IF outcome = "done" THEN schema \cup {s} ELSE schema
        /\ IF outcome = "done" \/ Tolerated(outcome)
           THEN step' = [step EXCEPT ![i] = @ + 1] /\ UNCHANGED pc
           ELSE Goto(i, "exited") /\ UNCHANGED step
      BY DEF Migrate, Statements
<1> HIDE DEF Goto
<1>3. Tolerated(outcome) => s \in schema
      BY <1>2 DEF Tolerated, Outcome
<1>4. schema \subseteq schema' /\ schema' \subseteq Range(Schema)
      BY <1>1, <1>2 DEF StartInv, TypeOK
<1>5. TypeOK'
  <2>1. faults' \in 0..MaxFaults
        BY <1>2, StartupConstants DEF StartInv, TypeOK
  <2>2. step' \in [Instances -> 1..(Len(Schema) + 1)]
        BY <1>1, <1>2, SchemaObjects DEF StartInv, TypeOK
  <2>3. pc' \in [Instances -> {"load", "open", "migrate", "serving", "exited",
                               "stopped"}]
        BY <1>2 DEF StartInv, TypeOK, Goto
  <2> QED BY <1>4, <2>1, <2>2, <2>3 DEF StartInv, TypeOK, Migrate
<1>6. MigratedSoFar'
  <2> SUFFICES ASSUME NEW j \in Instances
               PROVE  /\ pc'[j] = "serving" => step'[j] = Len(Schema) + 1
                      /\ pc'[j] \in {"migrate", "serving"} =>
                            \A k \in 1..(step'[j] - 1) : Schema[k] \in schema'
      BY DEF MigratedSoFar
  <2>1. pc[i] = "migrate"
        BY DEF Migrate
  <2>2. CASE j # i
        BY <1>2, <1>4, <2>2 DEF StartInv, TypeOK, MigratedSoFar, Goto
  <2>3. CASE j = i /\ (outcome = "done" \/ Tolerated(outcome))
    <3>1. s \in schema' /\ step'[i] = step[i] + 1 /\ pc'[i] = "migrate"
          BY <1>2, <1>3, <2>1, <2>3 DEF StartInv, TypeOK
    <3>2. \A k \in 1..(step[i] - 1) : Schema[k] \in schema
          BY <2>1 DEF StartInv, MigratedSoFar
    <3>3. \A k \in 1..step[i] : k \in 1..(step[i] - 1) \/ k = step[i]
          BY <1>1
    <3> QED BY <1>1, <1>4, <2>3, <3>1, <3>2, <3>3
  <2>4. CASE j = i /\ ~(outcome = "done" \/ Tolerated(outcome))
        BY <1>2, <2>4 DEF StartInv, TypeOK, Goto
  <2> QED BY <2>2, <2>3, <2>4
<1>7. IndexFirst' /\ OpenIdsApart'
      BY <1>4 DEF StartInv, IndexFirst, OpenIdsApart, Migrate
<1> QED BY <1>5, <1>6, <1>7 DEF StartInv

\* A first login happens where the whole schema is, so the index decides.
LEMMA LoginStep ==
    ASSUME StartInv, NEW i \in Instances, WechatLogin(i)
    PROVE  StartInv'
<1>1. 11 \in 1..(step[i] - 1)
      BY SchemaObjects DEF WechatLogin, StartInv, MigratedSoFar
<1>2. "uk_users_openid" \in schema
      BY <1>1, SchemaObjects DEF WechatLogin, StartInv, MigratedSoFar
<1>3. PICK o \in OpenIds :
        accounts[o] < 1 /\ accounts' = [accounts EXCEPT ![o] = @ + 1]
      BY <1>2 DEF WechatLogin
<1>4. accounts' \in [OpenIds -> Nat] /\ OpenIdsApart'
      BY <1>3 DEF StartInv, TypeOK, OpenIdsApart
<1>5. TypeOK'
      BY <1>4 DEF StartInv, TypeOK, WechatLogin
<1>6. MigratedSoFar' /\ IndexFirst'
      BY <1>2 DEF StartInv, MigratedSoFar, IndexFirst, WechatLogin
<1> QED BY <1>4, <1>5, <1>6 DEF StartInv

\* No step of an instance leads out of the invariant.
LEMMA StartStep == StartInv /\ [Next]_vars => StartInv'
<1> SUFFICES ASSUME StartInv, [Next]_vars PROVE StartInv'
    OBVIOUS
<1> USE SchemaObjects, StartupConstants
    DEF StartInv, TypeOK, MigratedSoFar, IndexFirst, OpenIdsApart, Goto
<1>1. ASSUME NEW i \in Instances, Load(i) PROVE StartInv'
  <2>1. env \in Environment
        OBVIOUS
  <2>2. Loads(env) => ResolveDSN(env) \in DSN
        BY <2>1, ResolvedIsDSN
  <2> QED BY <1>1, <2>2 DEF Load
<1>2. ASSUME NEW i \in Instances, Ping(i) PROVE StartInv'
      BY <1>2 DEF Ping
<1>3. ASSUME NEW i \in Instances, Migrate(i) PROVE StartInv'
      BY <1>3, MigrateStep
<1>4. ASSUME NEW i \in Instances, Serve(i) PROVE StartInv'
      BY <1>4 DEF Serve, Statements
<1>5. ASSUME NEW i \in Instances, WechatLogin(i) PROVE StartInv'
      BY <1>5, LoginStep
<1>6. ASSUME NEW i \in Instances, Crash(i) PROVE StartInv'
      BY <1>6 DEF Crash
<1>7. ASSUME NEW i \in Instances, Restart(i) PROVE StartInv'
      BY <1>7 DEF Restart
<1>8. CASE UNCHANGED vars
      BY <1>8 DEF vars
<1> QED BY <1>1, <1>2, <1>3, <1>4, <1>5, <1>6, <1>7, <1>8 DEF Next

\* The inductive invariant of starting instances (mysql.go, migrateMySQL and
\* alterMigrateMySQL): everything before an instance's statement is there, and
\* no openid is stored before its index.
THEOREM StartInvHolds == Spec => []StartInv
  BY StartInitially, StartStep, PTL DEF Spec

\* Whoever else migrates, and wherever earlier processes died, OpenMySQL
\* returns a pool on the whole schema only.
THEOREM WholeSchemaServed == Spec => []ServesWholeSchema
<1>1. StartInv => ServesWholeSchema
  <2> SUFFICES ASSUME StartInv, NEW i \in Instances, pc[i] = "serving"
               PROVE  schema = Range(Schema)
      BY DEF ServesWholeSchema
  <2>1. \A k \in 1..13 : Schema[k] \in schema
        BY SchemaObjects DEF StartInv, MigratedSoFar
  <2> QED BY <2>1, SchemaObjects DEF StartInv, TypeOK
<1> QED BY <1>1, StartInvHolds, PTL

\* However starts, crashes and first logins interleave, one openid has at
\* most one account (uk_users_openid before r.Run).
THEOREM OneAccountEach == Spec => []OpenIdsApart
<1>1. StartInv => OpenIdsApart
      BY DEF StartInv
<1> QED BY <1>1, StartInvHolds, PTL
=============================================================================
