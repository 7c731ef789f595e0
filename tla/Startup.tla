------------------------------ MODULE Startup -------------------------------
(***************************************************************************)
(* The start of the server: config.Load reads the environment, OpenMySQL   *)
(* connects and runs migrateMySQL statement by statement, and only then    *)
(* does the process serve.  A failure anywhere ends the process, and the   *)
(* platform starts it again a limited number of times.                     *)
(*                                                                         *)
(* Instances of one service, of one environment, migrate one database at   *)
(* once.  MySQL runs each DDL statement as a whole and commits it, those   *)
(* of a multi-statement Exec one after the other.                          *)
(***************************************************************************)
EXTENDS Integers, Sequences, Functions

CONSTANTS Instances,     \* processes of the service
          Retries,       \* restartPolicyMaxRetries
          MaxFaults,     \* bound: crashes and failing statements
          Environments,  \* environments the service may have been given
          Passwords,     \* passwords of the database account
          Plain,         \* those without a character that URLs escape
          OpenIds,       \* people who log in through WeChat
          Unset,         \* the variable is absent or blank
          Malformed      \* not a mysql:// URL with a database in its path

\* A server as an environment describes it.
Setting == [password : Passwords, remote : BOOLEAN]

\* What go-sql-driver is given.  escaped: the password stands in the DSN
\* percent-encoded, and the driver does not decode it.
DSN == [password : Passwords, escaped : BOOLEAN, multi : BOOLEAN, tls : BOOLEAN]

URLKeys == {"MYSQL_URL", "DATABASE_URL", "MYSQL_PUBLIC_URL"}

Environment ==
    [release : BOOLEAN, secret : BOOLEAN, origin : BOOLEAN,
     dsn : [password : Passwords, escaped : {FALSE}, multi : BOOLEAN, tls : BOOLEAN]
              \cup {Unset},
     url : [URLKeys -> Setting \cup {Unset, Malformed}],
     parts : Setting \cup {Unset},
     tls : BOOLEAN \cup {Unset}]

\* The objects of the schema, in the order migrateMySQL makes sure of them.
Schema == <<"users", "menu_categories", "menu_items", "orders", "order_items",
            "users.openid", "users.unionid", "users.status",
            "users.last_login_at", "users.updated_at", "uk_users_openid",
            "orders.table_no", "orders.updated_at">>

\* Mutant: the unique index is forgotten.
SchemaUnindexed == SelectSeq(Schema, LAMBDA s : s # "uk_users_openid")
Statements == Schema

Tables == {"users", "menu_categories", "menu_items", "orders", "order_items"}

\* What each statement refers to.
Needs(s) ==
    CASE s = "menu_items" -> {"menu_categories"}
      [] s = "orders" -> {"users"}
      [] s = "order_items" -> {"orders"}
      [] s \in {"users.openid", "users.unionid", "users.status",
                "users.last_login_at", "users.updated_at"} -> {"users"}
      [] s = "uk_users_openid" -> {"users.openid"}
      [] s \in {"orders.table_no", "orders.updated_at"} -> {"orders"}
      [] OTHER -> {}

ASSUME StartupConstants ==
    /\ Environments \subseteq Environment /\ Plain \subseteq Passwords
    /\ Retries \in Nat /\ MaxFaults \in Nat
    /\ Unset \notin Setting \cup DSN \cup {Malformed, TRUE, FALSE}

VARIABLES
    env,       \* the service's variables
    pc,        \* where each instance is in main
    restarts,  \* how often the platform has started it again
    dsn,       \* cfg.MySQLDSN
    step,      \* the statement it is to execute next
    schema,    \* objects the database has
    accounts,  \* rows of users with each openid
    faults     \* counts them, for the bound

vars == <<env, pc, restarts, dsn, step, schema, accounts, faults>>

Goto(i, label) == pc' = [pc EXCEPT ![i] = label]

-----------------------------------------------------------------------------
(* config.Load                                                             *)

\* mysqlUseTLS.
UseTLS(e, server) == IF e.tls # Unset THEN e.tls ELSE server.remote

\* buildMySQLDSN: url.UserPassword(...).String() escapes the password.
BuildDSN(e, server) ==
    [password |-> server.password, escaped |-> server.password \notin Plain,
     multi |-> TRUE, tls |-> UseTLS(e, server)]

\* The first of the three URLs that is set, usable or not.
FirstURL(e) ==
    IF e.url["MYSQL_URL"] # Unset THEN e.url["MYSQL_URL"]
    ELSE IF e.url["DATABASE_URL"] # Unset THEN e.url["DATABASE_URL"]
    ELSE e.url["MYSQL_PUBLIC_URL"]

\* resolveMySQLDSN: the source that decides, Unset if there is none.
Source(e) ==
    IF e.dsn # Unset THEN e.dsn
    ELSE IF FirstURL(e) # Unset THEN FirstURL(e) ELSE e.parts

ResolveDSN(e) == IF e.dsn # Unset THEN e.dsn ELSE BuildDSN(e, Source(e))

\* Mutant: development's defaults are taken in production too.
DefaultsEverywhere(e) == Source(e) \notin {Unset, Malformed}
\* None of log.Fatal's conditions holds.
Loads(e) ==
    /\ e.release => e.secret /\ e.origin
    /\ Source(e) \notin {Unset, Malformed}

Init ==
    /\ env \in Environments
    /\ pc = [i \in Instances |-> "load"]
    /\ restarts = [i \in Instances |-> 0]
    /\ dsn = [i \in Instances |-> Unset]
    /\ step = [i \in Instances |-> 1]
    \* What an earlier migration, finished or not, or init_mysql.sql has left.
    /\ \E n \in 0..Len(Schema) : schema = {Schema[k] : k \in 1..n}
    /\ accounts \in [OpenIds -> 0..1]
    /\ "uk_users_openid" \notin schema => \A o \in OpenIds : accounts[o] = 0
    /\ faults = 0

Load(i) ==
    /\ pc[i] = "load"
    /\ IF Loads(env)
       THEN dsn' = [dsn EXCEPT ![i] = ResolveDSN(env)] /\ Goto(i, "open")
       ELSE Goto(i, "exited") /\ UNCHANGED dsn
    /\ UNCHANGED <<env, restarts, step, schema, accounts, faults>>

-----------------------------------------------------------------------------
(* database.Open                                                           *)

\* sql.Open and Ping: the server compares the password as it stands.
Ping(i) ==
    /\ pc[i] = "open"
    /\ IF dsn[i].escaped THEN Goto(i, "exited") ELSE Goto(i, "migrate")
    /\ step' = [step EXCEPT ![i] = 1]
    /\ UNCHANGED <<env, restarts, dsn, schema, accounts, faults>>

\* How MySQL answers statement s of migrateMySQL; CREATE TABLE IF NOT EXISTS
\* answers "done" for a table that is there.
Outcome(i, s) ==
    IF s \in Tables
    THEN IF dsn[i].multi /\ Needs(s) \subseteq schema THEN "done" ELSE "error"
    ELSE IF s \in schema THEN "duplicate"
    ELSE IF /\ Needs(s) \subseteq schema
            /\ s = "uk_users_openid" => \A o \in OpenIds : accounts[o] <= 1
         THEN "done" ELSE "error"

\* Mutant: every error is tolerated.
AnyError(outcome) == outcome # "done"
\* isDupColumnOrIndex: 1060 and 1061.
Tolerated(outcome) == outcome = "duplicate"

Migrate(i) ==
    /\ pc[i] = "migrate" /\ step[i] <= Len(Statements)
    /\ \E outcome \in {Outcome(i, Statements[step[i]]), "error"} :
          \* The statement may fail whatever it says: a lock wait, a lost
          \* connection.
          /\ faults' = IF outcome = Outcome(i, Statements[step[i]])
                       THEN faults ELSE faults + 1
          /\ faults' <= MaxFaults
          /\ schema' = IF outcome = "done"
                       THEN schema \cup {Statements[step[i]]} ELSE schema
          /\ IF outcome = "done" \/ Tolerated(outcome)
             THEN step' = [step EXCEPT ![i] = @ + 1] /\ UNCHANGED pc
             ELSE Goto(i, "exited") /\ UNCHANGED step
    /\ UNCHANGED <<env, restarts, dsn, accounts>>

\* The rest of main: stores, handlers, routes, r.Run.
Serve(i) ==
    /\ pc[i] = "migrate" /\ step[i] > Len(Statements)
    /\ Goto(i, "serving")
    /\ UNCHANGED <<env, restarts, dsn, step, schema, accounts, faults>>

\* A first login through WeChat inserts its row.  Its look-up may be stale, so
\* only the index decides.
WechatLogin(i) ==
    /\ pc[i] = "serving"
    /\ "users.openid" \in schema
    /\ \E o \in OpenIds :
          /\ accounts[o] < IF "uk_users_openid" \in schema THEN 1 ELSE 2
          /\ accounts' = [accounts EXCEPT ![o] = @ + 1]
    /\ UNCHANGED <<env, pc, restarts, dsn, step, schema, faults>>

-----------------------------------------------------------------------------
\* The process dies: log.Fatal after an error, or a kill between any two
\* statements, or one whose effect it did not live to see.
Crash(i) ==
    /\ pc[i] \in {"load", "open", "migrate", "serving"}
    /\ faults < MaxFaults
    /\ faults' = faults + 1
    /\ Goto(i, "exited")
    /\ UNCHANGED <<env, restarts, dsn, step, schema, accounts>>

\* restartPolicyType ON_FAILURE.
Restart(i) ==
    /\ pc[i] = "exited"
    /\ IF restarts[i] < Retries
       THEN Goto(i, "load") /\ restarts' = [restarts EXCEPT ![i] = @ + 1]
       ELSE Goto(i, "stopped") /\ UNCHANGED restarts
    /\ dsn' = [dsn EXCEPT ![i] = Unset]
    /\ step' = [step EXCEPT ![i] = 1]
    /\ UNCHANGED <<env, schema, accounts, faults>>

Next == \E i \in Instances :
    \/ Load(i) \/ Ping(i) \/ Migrate(i) \/ Serve(i)
    \/ WechatLogin(i) \/ Crash(i) \/ Restart(i)

Spec == Init /\ [][Next]_vars

\* MySQL answers, the process runs on and the platform restarts it.
Fairness == \A i \in Instances :
    WF_vars(Load(i) \/ Ping(i) \/ Migrate(i) \/ Serve(i) \/ Restart(i))

FairSpec == Spec /\ Fairness

-----------------------------------------------------------------------------
TypeOK ==
    /\ env \in Environments
    /\ pc \in [Instances -> {"load", "open", "migrate", "serving", "exited",
                             "stopped"}]
    /\ restarts \in [Instances -> 0..Retries]
    /\ dsn \in [Instances -> DSN \cup {Unset}]
    /\ step \in [Instances -> 1..(Len(Schema) + 1)]
    /\ schema \subseteq Range(Schema)
    /\ accounts \in [OpenIds -> Nat]
    /\ faults \in 0..MaxFaults

\* Whoever else migrates, and wherever earlier processes died, an instance
\* that serves finds the whole schema.
ServesWholeSchema == \A i \in Instances :
    pc[i] = "serving" => schema = Range(Schema)

\* No person gets two accounts from instances at different points of their
\* start: no row with an openid is written before the index is there.
OpenIdsApart == \A o \in OpenIds : accounts[o] <= 1

\* What the environment has to say for the service to run: of the sources
\* that are set, the first is sound.
Usable(e) ==
    LET sources == <<e.dsn, e.url["MYSQL_URL"], e.url["DATABASE_URL"],
                     e.url["MYSQL_PUBLIC_URL"], e.parts>>
        Decides(n) == /\ sources[n] # Unset
                      /\ \A k \in 1..(n - 1) : sources[k] = Unset
    IN  /\ e.release => e.secret /\ e.origin
        /\ \/ Decides(1) /\ e.dsn.multi
           \/ \E n \in 2..5 : /\ Decides(n) /\ sources[n] # Malformed
                              /\ sources[n].password \in Plain

\* With a usable environment every instance comes to serve for good, as long
\* as no more goes wrong than the platform retries: each attempt takes up the
\* migration where the last one was cut off.  With any other, none keeps
\* running on half a configuration.
Settles ==
    /\ Usable(env) => \A i \in Instances : <>[](pc[i] = "serving")
    /\ ~Usable(env) => \A i \in Instances : <>[](pc[i] = "stopped")

\* The driver presents the password the environment gives.
PasswordKept == \A i \in Instances : dsn[i] # Unset => ~dsn[i].escaped

-----------------------------------------------------------------------------
(* The inductive invariant.                                                *)

\* An instance has made sure of every object before the one it is at.
MigratedSoFar == \A i \in Instances :
    /\ pc[i] = "serving" => step[i] = Len(Schema) + 1
    /\ pc[i] \in {"migrate", "serving"} =>
          \A k \in 1..(step[i] - 1) : Schema[k] \in schema

\* Until the index is there, no row has an openid.
IndexFirst ==
    "uk_users_openid" \in schema \/ \A o \in OpenIds : accounts[o] = 0

StartInv == TypeOK /\ MigratedSoFar /\ IndexFirst /\ OpenIdsApart
=============================================================================
