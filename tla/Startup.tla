------------------------------ MODULE Startup ------------------------------
(***************************************************************************)
(* How an instance of the service comes up: main.go reads the              *)
(* configuration, internal/storage.go chooses the backend, and the         *)
(* constructor of the backend (sqlite.go, postgres.go, dynamodb.go) makes  *)
(* or verifies the tables before the port is opened.                       *)
(*                                                                         *)
(* Every error on the way is log.Fatalf; docker-compose.yml restarts a     *)
(* stopped container (restart: unless-stopped), so a start that failed or  *)
(* crashed half-way is repeated on the tables the last one left, beside    *)
(* other instances that start at the same time.                            *)
(***************************************************************************)
EXTENDS Naturals, Sequences

CONSTANTS
  Instances,  \* processes of the service
  None,       \* a variable that is not set
  Envs,       \* the environments an instance may be given
  MaxFaults   \* bound on crashes and failed calls

ASSUME FaultsAssumption == MaxFaults \in Nat

\* What the connection settings may name; only the first is a PostgreSQL
\* server, and SQLite takes any of them for a file but the last.
DSNs == {"server", "file", ":memory:"}

\* DB_BACKEND, DATABASE_URL, what POSTGRES_HOST, _USER and _DB amount to if
\* all three are set, SQLITE_DSN, SQLITE_PATH, and whether JWT_PRIVATE_KEY is
\* there.
Env == [backend: {"", "dynamodb", " Postgres", "sqlite", "SQLite3", "mysql"},
        url: DSNs \cup {None}, parts: {"server", None},
        dsn: DSNs \cup {None}, path: DSNs \cup {None}, key: BOOLEAN]

ASSUME EnvsAssumption == Envs \subseteq Env /\ None \notin DSNs

VARIABLES
  env,     \* the environment of each instance
  config,  \* what it has made of it: NewRepositories' cfg
  at,      \* what each instance does next
  step,    \* the table or index it has come to
  stored,  \* the tables and indexes of each database
  creating,\* those on DynamoDB that cannot be used yet: TableStatus CREATING
  ttl,     \* DynamoDB tables with a TTL attribute
  lost,    \* how often each instance was turned away at each statement
  faults   \* crashes and failed calls so far

vars == <<env, config, at, step, stored, creating, ttl, lost, faults>>

-----------------------------------------------------------------------------
(* The configuration *)

\* strings.ToLower(strings.TrimSpace(s))
Normalised(s) ==
  CASE s = " Postgres" -> "postgres" [] s = "SQLite3" -> "sqlite3" [] OTHER -> s

\* The first setting that is there.
FirstOf(settings) ==
  LET Set == {n \in DOMAIN settings : settings[n] # None}
  IN  IF Set = {} THEN None ELSE settings[CHOOSE n \in Set : \A m \in Set : n <= m]

PostgresDSN(e) == FirstOf(<<e.url, e.parts>>)

SqliteDSN(e) == FirstOf(<<e.dsn, e.path, e.url>>)

\* The storage an environment asks for; no DSN where one is needed, or an
\* unsupported backend, is an error: backend None.
LoadStorageConfig(e) ==
  LET b == Normalised(e.backend)
      d == CASE b \in {"", "dynamodb"} -> "aws"
             [] b = "postgres" -> PostgresDSN(e)
             [] b \in {"sqlite", "sqlite3"} -> SqliteDSN(e)
             [] OTHER -> None
  IN  [dsn |-> d,
       backend |-> CASE d = None -> None
                     [] d = "aws" -> "dynamodb"
                     [] b = "postgres" -> b
                     [] OTHER -> "sqlite"]

Unset == [dsn |-> None, backend |-> None]

\* The database a configuration names: an in-memory one is the instance's own.
DatabaseOf(c, i) ==
  IF c.backend = "sqlite" /\ c.dsn = ":memory:" THEN <<":memory:", i>>
  ELSE <<c.backend, c.dsn>>

Shared == <<"dynamodb", "aws">>

Databases ==
  {DatabaseOf(LoadStorageConfig(e), i) : e \in Envs, i \in Instances}
  \cup {<<":memory:", i>> : i \in Instances} \cup {Shared}

Backend(i) == config[i].backend

Database(i) == DatabaseOf(config[i], i)

Objects == {"users", "users_reset_token_idx", "revoked_tokens", "session_csrf"}

Tables == {"users", "revoked_tokens", "session_csrf"}

\* The index GetUserByResetToken queries; DynamoDB's is ResetTokenIndex.
ResetTokenIndex == "users_reset_token_idx"

\* What the constructors go through, in order: the statements of
\* ensureSQLiteSchema and ensurePostgresSchema, and the tables that are looked
\* up on DynamoDB; its index is not.
Schema(b) ==
  IF b = "dynamodb" THEN <<"users", "revoked_tokens", "session_csrf">>
  ELSE <<"users", "users_reset_token_idx", "revoked_tokens", "session_csrf">>

-----------------------------------------------------------------------------
(* The steps of a start *)

Object(i) == Schema(Backend(i))[step[i]]

Missing(i) == Object(i) \notin stored[Database(i)]

\* Instance i is at a statement of its schema.
AtObject(i, place, backend) ==
  at[i] = place /\ Backend(i) = backend /\ step[i] <= Len(Schema(backend))

Goto(i, place) == at' = [at EXCEPT ![i] = place]

\* The process ends, and an in-memory database with it.
Exit(i) ==
  /\ Goto(i, "down")
  /\ config' = [config EXCEPT ![i] = Unset]
  /\ step' = [step EXCEPT ![i] = 1]
  /\ stored' = [stored EXCEPT ![<<":memory:", i>>] = {}]

Launch(i) ==
  /\ at[i] = "down"
  /\ Goto(i, "configure")
  /\ UNCHANGED <<env, config, step, stored, creating, ttl, lost, faults>>

\* NewRepositories calls the constructor of the backend.
Configure(i) ==
  LET c == LoadStorageConfig(env[i])
  IN  /\ at[i] = "configure" /\ c.backend # None
      /\ config' = [config EXCEPT ![i] = c]
      /\ Goto(i, IF c.backend = "dynamodb" THEN "schema" ELSE "open")
      /\ UNCHANGED <<env, step, stored, creating, ttl, lost, faults>>

Misconfigured(i) ==
  /\ at[i] = "configure" /\ LoadStorageConfig(env[i]).backend = None
  /\ Exit(i)
  /\ UNCHANGED <<env, creating, ttl, lost, faults>>

\* A database answers the ping: SQLite makes the file and its directory.
Reachable(c) == c.backend = "postgres" => c.dsn = "server"

Open(i) ==
  /\ at[i] = "open" /\ Reachable(config[i])
  /\ Goto(i, "schema")
  /\ UNCHANGED <<env, config, step, stored, creating, ttl, lost, faults>>

Unreachable(i) ==
  /\ at[i] = "open" /\ ~Reachable(config[i])
  /\ Exit(i)
  /\ UNCHANGED <<env, creating, ttl, lost, faults>>

\* The statement is done.
Advance(i) == Goto(i, "schema") /\ step' = [step EXCEPT ![i] = @ + 1]

Made(i) == stored' = [stored EXCEPT ![Database(i)] = @ \cup {Object(i)}]

\* Mutant: CREATE without IF NOT EXISTS.
ExecSQLiteStrict(i) ==
  /\ AtObject(i, "schema", "sqlite")
  /\ IF Missing(i) THEN Made(i) /\ Advance(i) /\ UNCHANGED config ELSE Exit(i)
  /\ UNCHANGED <<env, creating, ttl, lost, faults>>

\* CREATE ... IF NOT EXISTS, in one piece: SQLite has one writer at a time.
ExecSQLite(i) ==
  /\ AtObject(i, "schema", "sqlite")
  /\ Made(i) /\ Advance(i)
  /\ UNCHANGED <<env, config, creating, ttl, lost, faults>>

\* Mutant: CREATE without IF NOT EXISTS.
LookUpNever(i) ==
  /\ AtObject(i, "schema", "postgres")
  /\ Goto(i, "create") /\ UNCHANGED step
  /\ UNCHANGED <<env, config, stored, creating, ttl, lost, faults>>

\* PostgreSQL looks first ...
LookUp(i) ==
  /\ AtObject(i, "schema", "postgres")
  /\ IF Missing(i) THEN Goto(i, "create") /\ UNCHANGED step ELSE Advance(i)
  /\ UNCHANGED <<env, config, stored, creating, ttl, lost, faults>>

\* ... and enters the object in its catalogue later, where another session may
\* have entered it meanwhile: a duplicate key, an error, the end.
Create(i) ==
  /\ AtObject(i, "create", "postgres") /\ Missing(i)
  /\ Made(i) /\ Advance(i)
  /\ UNCHANGED <<env, config, creating, ttl, lost, faults>>

Duplicate(i) ==
  /\ AtObject(i, "create", "postgres") /\ ~Missing(i)
  /\ Exit(i)
  /\ lost' = [lost EXCEPT ![i][step[i]] = @ + 1]
  /\ UNCHANGED <<env, creating, ttl, faults>>

\* Mutant: all three get one, the users' rows expire.
VerifyTableExistsTTL(i) ==
  /\ AtObject(i, "schema", "dynamodb") /\ ~Missing(i)
  /\ Goto(i, "ttl")
  /\ UNCHANGED <<env, config, step, stored, creating, ttl, lost, faults>>

\* DescribeTable finds the table, which may still be in creation: its status
\* is not looked at.  Two of the three get a TTL attribute.
VerifyTableExists(i) ==
  /\ AtObject(i, "schema", "dynamodb") /\ ~Missing(i)
  /\ IF Object(i) = "users" THEN Advance(i) ELSE Goto(i, "ttl") /\ UNCHANGED step
  /\ UNCHANGED <<env, config, stored, creating, ttl, lost, faults>>

NoTable(i) ==
  /\ AtObject(i, "schema", "dynamodb") /\ Missing(i)
  /\ Exit(i)
  /\ UNCHANGED <<env, creating, ttl, lost, faults>>

\* Best effort: it may fail, as it does for a table in creation, and is only
\* logged.
EnableTTLBestEffort(i) ==
  /\ AtObject(i, "ttl", "dynamodb")
  /\ \/ UNCHANGED ttl
     \/ Object(i) \notin creating /\ ttl' = ttl \cup {Object(i)}
  /\ Advance(i)
  /\ UNCHANGED <<env, config, stored, creating, lost, faults>>

\* Mutant: one statement short.
SchemaDoneEarly(i) == at[i] = "schema" /\ step[i] >= Len(Schema(Backend(i)))

SchemaDone(i) == at[i] = "schema" /\ step[i] > Len(Schema(Backend(i)))

\* The repositories are there: main wants the signing key and listens; from
\* here on /health answers.
Serve(i) ==
  /\ SchemaDone(i) /\ env[i].key
  /\ Goto(i, "serving")
  /\ UNCHANGED <<env, config, step, stored, creating, ttl, lost, faults>>

NoKey(i) ==
  /\ SchemaDone(i) /\ ~env[i].key
  /\ Exit(i)
  /\ UNCHANGED <<env, creating, ttl, lost, faults>>

-----------------------------------------------------------------------------
(* The environment *)

\* A crash at any moment, or a call that failed: both end the process.
Crash(i) ==
  /\ at[i] # "down" /\ faults < MaxFaults
  /\ Exit(i)
  /\ faults' = faults + 1
  /\ UNCHANGED <<env, creating, ttl, lost>>

\* The tables of a deployment on DynamoDB are made by scripts/terraform, in any
\* order, while instances may already be starting; the index of a table comes
\* with it or is added later.  Creation takes a while.
CreateTable(o) ==
  /\ o \notin stored[Shared]
  /\ o = ResetTokenIndex => "users" \in stored[Shared]
  /\ \E i \in Instances : Normalised(env[i].backend) \in {"", "dynamodb"}
  /\ stored' = [stored EXCEPT ![Shared] = @ \cup {o}]
  /\ creating' = creating \cup {o}
  /\ UNCHANGED <<env, config, at, step, ttl, lost, faults>>

Activate(o) ==
  /\ o \in creating
  /\ creating' = creating \ {o}
  /\ UNCHANGED <<env, config, at, step, stored, ttl, lost, faults>>

Provision == \E o \in Objects : CreateTable(o) \/ Activate(o)

-----------------------------------------------------------------------------
Init ==
  /\ env \in [Instances -> Envs]
  /\ config = [i \in Instances |-> Unset]
  /\ at = [i \in Instances |-> "down"]
  /\ step = [i \in Instances |-> 1]
  /\ stored = [d \in Databases |-> {}]
  /\ creating = {}
  /\ ttl = {}
  /\ lost = [i \in Instances |-> [n \in 1..4 |-> 0]]
  /\ faults = 0

Step(i) ==
  \/ Launch(i) \/ Configure(i) \/ Misconfigured(i)
  \/ Open(i) \/ Unreachable(i) \/ ExecSQLite(i)
  \/ LookUp(i) \/ Create(i) \/ Duplicate(i)
  \/ VerifyTableExists(i) \/ NoTable(i) \/ EnableTTLBestEffort(i)
  \/ Serve(i) \/ NoKey(i)

Next ==
  \/ \E i \in Instances : Step(i) \/ Crash(i)
  \/ Provision

Spec == Init /\ [][Next]_vars

\* The restart policy and the scheduler let every instance go on, the operator
\* makes the tables and the index in the end and DynamoDB completes them.
\* Faults are not fair, and bounded.
FairSpec ==
  /\ Spec
  /\ \A i \in Instances : WF_vars(Step(i))
  /\ WF_vars(Provision)

-----------------------------------------------------------------------------
(* Properties *)

\* Every variable has its type.
TypeOK ==
  /\ env \in [Instances -> Envs]
  /\ config \in [Instances -> {LoadStorageConfig(e) : e \in Envs} \cup {Unset}]
  /\ at \in [Instances -> {"down", "configure", "open", "schema", "create", "ttl", "serving"}]
  /\ step \in [Instances -> 1..5]
  /\ stored \in [Databases -> SUBSET Objects]
  /\ creating \subseteq stored[Shared]
  /\ ttl \subseteq Tables \ {"users"}
  /\ lost \in [Instances -> [1..4 -> Nat]]
  /\ faults \in 0..MaxFaults

\* While an instance answers /health, its SQL database has every table and the
\* index, and DynamoDB has at least started to make the three tables, whoever
\* creates them and however many starts were cut short.  DynamoDB's index and
\* the status of its tables are the operator's: no constructor looks at them.
ServingHasSchema ==
  \A i \in Instances : at[i] = "serving" =>
    (IF Backend(i) = "dynamodb" THEN Tables ELSE Objects) \subseteq stored[Database(i)]

\* Instances that start together on an empty PostgreSQL database may turn each
\* other away, but none of them twice at the same statement: the restart finds
\* the table and goes on.
TurnedAwayOnce == \A i \in Instances, n \in 1..4 : lost[i][n] <= 1

\* An environment main.go accepts: a backend that can be reached and a key.
WellConfigured(e) ==
  LET c == LoadStorageConfig(e)
  IN  c.backend # None /\ Reachable(c) /\ e.key

\* Every table and the index that the handlers use are there to be used.
Usable(d) == Objects \subseteq stored[d] /\ (d = Shared => creating = {})

\* However many crashes cut its starts short, and whatever other instances do
\* to the same database meanwhile, a well configured instance comes up in the
\* end and stays up, on a database whose every table and index can be used.
EventuallyServes ==
  <>[](\A i \in Instances : WellConfigured(env[i]) =>
         at[i] = "serving" /\ Usable(Database(i)))
=============================================================================
