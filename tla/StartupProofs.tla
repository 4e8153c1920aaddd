--------------------------- MODULE StartupProofs ---------------------------
(* What holds of every number of instances in whatever environments. *)
EXTENDS Startup, TLAPS

\* What a configured environment leads to.
Config(i) == LoadStorageConfig(env[i])

Places == {"down", "configure", "open", "schema", "create", "ttl", "serving"}

Configured == {"open", "schema", "create", "ttl", "serving"}

\* An instance that is past its configuration works with the one its
\* environment asks for; until it has a connection it is at the first object.
ConfigOf(i) ==
  /\ at[i] \in Configured => config[i] = Config(i) /\ config[i].backend # None
  /\ at[i] \notin {"schema", "create", "ttl", "serving"} => step[i] = 1

\* Only the tables of tokens and secrets are given a TTL.
TtlOf(i) == at[i] = "ttl" => Object(i) \in Tables \ {"users"}

\* Every object before the one an instance is at exists, and the one it gives
\* a TTL.
DoneOf(i) ==
  /\ at[i] \in Configured =>
       \A n \in DOMAIN Schema(Backend(i)) :
         n < step[i] \/ (at[i] = "ttl" /\ n = step[i]) => Schema(Backend(i))[n] \in stored[Database(i)]
  /\ at[i] = "serving" => step[i] > Len(Schema(Backend(i)))

\* An object an instance was turned away at exists by now; it is not about to
\* create an object at which it was turned away before.
TurnedOf(i) ==
  /\ at[i] = "create" => Backend(i) = "postgres" /\ lost[i][step[i]] = 0
  /\ \A n \in 1..4 : lost[i][n] <= 1
  /\ \A n \in 1..4 : lost[i][n] > 0 =>
       /\ Config(i).backend = "postgres"
       /\ Schema("postgres")[n] \in stored[DatabaseOf(Config(i), i)]

Inv == TypeOK /\ \A i \in Instances : ConfigOf(i) /\ TtlOf(i) /\ DoneOf(i) /\ TurnedOf(i)

-----------------------------------------------------------------------------
(* The configuration *)

\* A configuration names one of the three backends, or none.
LEMMA ConfigShape ==
  ASSUME NEW e \in Envs
  PROVE  LoadStorageConfig(e).backend \in {None, "dynamodb", "postgres", "sqlite"}
  BY DEF LoadStorageConfig

\* The databases of environments are among those that are modelled.
LEMMA DatabaseKnown ==
  ASSUME TypeOK, NEW i \in Instances
  PROVE  DatabaseOf(Config(i), i) \in Databases
<1>1. env[i] \in Envs
  BY DEF TypeOK
<1> QED
  BY <1>1 DEF Databases, Config

LEMMA SchemaShape ==
  ASSUME NEW b
  PROVE  /\ DOMAIN Schema(b) = 1..Len(Schema(b))
         /\ Len(Schema(b)) \in {3, 4}
         /\ \A n \in 1..Len(Schema(b)) : Schema(b)[n] \in Objects
<1>1. CASE b = "dynamodb"
  <2>1. Schema(b) = <<"users", "revoked_tokens", "session_csrf">>
    BY <1>1 DEF Schema
  <2> QED
    BY <2>1 DEF Objects
<1>2. CASE b # "dynamodb"
  <2>1. Schema(b) = <<"users", "users_reset_token_idx", "revoked_tokens", "session_csrf">>
    BY <1>2 DEF Schema
  <2> QED
    BY <2>1 DEF Objects
<1> QED
  BY <1>1, <1>2

\* The end of another process takes no object from the database of this one,
\* and none from a database that is not in memory.
LEMMA Kept ==
  ASSUME TypeOK, NEW i \in Instances, NEW j \in Instances,
         i # j \/ Config(i).backend = "postgres",
         stored' = [stored EXCEPT ![<<":memory:", j>>] = {}]
  PROVE  stored'[DatabaseOf(Config(i), i)] = stored[DatabaseOf(Config(i), i)]
<1>1. DatabaseOf(Config(i), i) \in Databases
  BY DatabaseKnown
<1>2. stored \in [Databases -> SUBSET Objects]
  BY DEF TypeOK
<1>3. Config(i).backend \in {None, "dynamodb", "postgres", "sqlite"}
  BY ConfigShape DEF Config, TypeOK
<1>4. None # ":memory:"
  BY EnvsAssumption DEF DSNs
<1>5. DatabaseOf(Config(i), i) # <<":memory:", j>>
  <2>1. CASE Config(i).backend = "sqlite" /\ Config(i).dsn = ":memory:"
    BY <2>1 DEF DatabaseOf
  <2>2. CASE ~(Config(i).backend = "sqlite" /\ Config(i).dsn = ":memory:")
    BY <1>3, <1>4, <2>2 DEF DatabaseOf
  <2> QED
    BY <2>1, <2>2
<1> QED
  BY <1>1, <1>2, <1>5

-----------------------------------------------------------------------------
(* Types *)

LEMMA ExitTypes ==
  ASSUME TypeOK, NEW i \in Instances, Exit(i), UNCHANGED env
  PROVE  /\ config' \in [Instances -> {LoadStorageConfig(e) : e \in Envs} \cup {Unset}]
         /\ at' \in [Instances -> Places]
         /\ step' \in [Instances -> 1..5]
         /\ stored' \in [Databases -> SUBSET Objects]
         /\ stored'[Shared] = stored[Shared]
<1>1. config' \in [Instances -> {LoadStorageConfig(e) : e \in Envs} \cup {Unset}]
  BY DEF TypeOK, Exit
<1>2. at' \in [Instances -> Places]
  BY DEF TypeOK, Exit, Goto, Places
<1>3. step' \in [Instances -> 1..5]
  BY DEF TypeOK, Exit
<1>4. stored' \in [Databases -> SUBSET Objects]
  BY DEF TypeOK, Exit
<1>5. stored'[Shared] = stored[Shared]
  <2>1. Shared \in Databases /\ Shared # <<":memory:", i>>
    BY DEF Databases, Shared
  <2> QED
    BY <2>1 DEF TypeOK, Exit
<1> QED
  BY <1>1, <1>2, <1>3, <1>4, <1>5

\* A step that is an object's is at most the fourth.
LEMMA AtMostFour ==
  ASSUME NEW n \in 1..5, NEW m \in {3, 4}, n <= m
  PROVE  n \in 1..4 /\ n \in 1..m /\ n + 1 \in 1..5
  OBVIOUS

LEMMA Beyond ==
  ASSUME NEW m \in {3, 4}, NEW n \in 1..m, NEW s \in 1..5, s > m
  PROVE  n < s
  OBVIOUS

LEMMA AdvanceTypes ==
  ASSUME TypeOK, NEW i \in Instances, Advance(i), step[i] <= Len(Schema(Backend(i)))
  PROVE  /\ at' \in [Instances -> Places]
         /\ step' \in [Instances -> 1..5]
<1>1. step \in [Instances -> 1..5] /\ at \in [Instances -> Places]
  BY DEF TypeOK, Places
<1>2. Len(Schema(Backend(i))) \in {3, 4}
  BY SchemaShape
<1>3. step[i] + 1 \in 1..5
  <2>1. step[i] \in 1..5
    BY <1>1
  <2> QED
    BY <1>2, <2>1, AtMostFour
<1>4. at' \in [Instances -> Places]
  BY <1>1 DEF Advance, Goto, Places
<1>5. step' \in [Instances -> 1..5]
  BY <1>1, <1>3 DEF Advance
<1> QED
  BY <1>4, <1>5

LEMMA MadeTypes ==
  ASSUME TypeOK, NEW i \in Instances, Made(i), step[i] <= Len(Schema(Backend(i)))
  PROVE  stored' \in [Databases -> SUBSET Objects] /\ stored[Shared] \subseteq stored'[Shared]
<1>1. Object(i) \in Objects
  <2>1. step[i] \in 1..5
    BY DEF TypeOK
  <2>2. Len(Schema(Backend(i))) \in {3, 4}
    BY SchemaShape
  <2>3. step[i] \in 1..Len(Schema(Backend(i)))
    BY <2>1, <2>2
  <2> QED
    BY <2>3, SchemaShape DEF Object
<1>2. Shared \in Databases
  BY DEF Databases
<1> QED
  BY <1>1, <1>2 DEF TypeOK, Made

LEMMA TypeStep ==
  ASSUME TypeOK, \A i \in Instances : TtlOf(i), [Next]_vars
  PROVE  TypeOK'
<1>1. CASE UNCHANGED vars
  BY <1>1 DEF TypeOK, vars
<1>2. ASSUME NEW i \in Instances, Step(i) PROVE TypeOK'
  <2>1. CASE Launch(i)
    BY <2>1 DEF TypeOK, Launch, Goto
  <2>2. CASE Configure(i)
    <3>1. LoadStorageConfig(env[i]) \in {LoadStorageConfig(e) : e \in Envs}
      BY DEF TypeOK
    <3> QED
      BY <2>2, <3>1 DEF TypeOK, Configure, Goto
  <2>3. CASE Misconfigured(i) \/ Unreachable(i) \/ NoTable(i) \/ NoKey(i)
    BY <2>3, ExitTypes DEF Misconfigured, Unreachable, NoTable, NoKey, TypeOK, Places
  <2>4. CASE Open(i) \/ Serve(i)
    BY <2>4 DEF TypeOK, Open, Serve, Goto
  <2>5. CASE ExecSQLite(i) \/ Create(i)
    <3>1. step[i] <= Len(Schema(Backend(i))) /\ Made(i) /\ Advance(i)
      BY <2>5 DEF ExecSQLite, Create, AtObject
    <3> QED
      BY <2>5, <3>1, AdvanceTypes, MadeTypes DEF ExecSQLite, Create, TypeOK, Places
  <2>6. CASE LookUp(i)
    <3>1. CASE Missing(i)
      BY <2>6, <3>1 DEF LookUp, TypeOK, Goto
    <3>2. CASE ~Missing(i)
      BY <2>6, <3>2, AdvanceTypes DEF LookUp, AtObject, TypeOK, Places
    <3> QED
      BY <3>1, <3>2
  <2>7. CASE Duplicate(i)
    <3>1. lost' \in [Instances -> [1..4 -> Nat]]
      <4>1. lost \in [Instances -> [1..4 -> Nat]]
        BY DEF TypeOK
      <4>2. step[i] \in 1..4
        <5>1. Len(Schema(Backend(i))) \in {3, 4}
          BY SchemaShape
        <5>2. Backend(i) = "postgres" /\ step[i] <= Len(Schema("postgres")) /\ step[i] \in 1..5
          BY <2>7 DEF Duplicate, AtObject, TypeOK
        <5> QED
          BY <5>1, <5>2, AtMostFour
      <4>3. lost[i][step[i]] + 1 \in Nat
        BY <4>1, <4>2
      <4>4. lost' = [lost EXCEPT ![i] = [lost[i] EXCEPT ![step[i]] = lost[i][step[i]] + 1]]
        BY <2>7 DEF Duplicate
      <4> QED
        BY <4>1, <4>2, <4>3, <4>4
    <3> QED
      BY <2>7, <3>1, ExitTypes DEF Duplicate, TypeOK, Places
  <2>8. CASE VerifyTableExists(i)
    <3>1. CASE Object(i) = "users"
      BY <2>8, <3>1, AdvanceTypes DEF VerifyTableExists, AtObject, TypeOK, Places
    <3>2. CASE Object(i) # "users"
      BY <2>8, <3>2 DEF VerifyTableExists, TypeOK, Goto
    <3> QED
      BY <3>1, <3>2
  <2>9. CASE EnableTTLBestEffort(i)
    <3>1. Object(i) \in Tables \ {"users"}
      BY <2>9 DEF TtlOf, EnableTTLBestEffort, AtObject
    <3>2. ttl' \subseteq Tables \ {"users"}
      BY <2>9, <3>1 DEF EnableTTLBestEffort, TypeOK
    <3> QED
      BY <2>9, <3>2, AdvanceTypes DEF EnableTTLBestEffort, AtObject, TypeOK, Places
  <2> QED
    BY <1>2, <2>1, <2>2, <2>3, <2>4, <2>5, <2>6, <2>7, <2>8, <2>9 DEF Step
<1>3. ASSUME NEW i \in Instances, Crash(i) PROVE TypeOK'
  <2>1. faults' \in 0..MaxFaults
    BY <1>3, FaultsAssumption DEF Crash, TypeOK
  <2> QED
    BY <1>3, <2>1, ExitTypes DEF Crash, TypeOK, Places
<1>4. ASSUME NEW o \in Objects, CreateTable(o) \/ Activate(o) PROVE TypeOK'
  <2>1. Shared \in Databases
    BY DEF Databases
  <2>2. stored' \in [Databases -> SUBSET Objects] /\ creating' \subseteq stored'[Shared]
    BY <1>4, <2>1 DEF CreateTable, Activate, TypeOK
  <2> QED
    BY <1>4, <2>2 DEF CreateTable, Activate, TypeOK
<1> QED
  BY <1>1, <1>2, <1>3, <1>4 DEF Next, Provision

-----------------------------------------------------------------------------
(* The invariant *)

OwnInv(i) == ConfigOf(i) /\ TtlOf(i) /\ DoneOf(i) /\ TurnedOf(i)

\* A step of another instance keeps what is said of this one, if the database
\* of this one loses nothing by it.
LEMMA Frame ==
  ASSUME NEW i \in Instances, OwnInv(i), UNCHANGED env,
         at'[i] = at[i], step'[i] = step[i], config'[i] = config[i], lost'[i] = lost[i],
         stored[DatabaseOf(Config(i), i)] \subseteq stored'[DatabaseOf(Config(i), i)]
  PROVE  OwnInv(i)'
<1>1. Config(i)' = Config(i) /\ Backend(i)' = Backend(i) /\ Object(i)' = Object(i)
  BY DEF Config, Backend, Object
<1>2. ConfigOf(i)'
  BY <1>1 DEF OwnInv, ConfigOf
<1>3. TtlOf(i)'
  BY <1>1 DEF OwnInv, TtlOf
<1>4. DoneOf(i)'
  <2>1. ASSUME at[i] \in Configured PROVE Database(i) = DatabaseOf(Config(i), i)
    BY <2>1 DEF OwnInv, ConfigOf, Database
  <2>2. Database(i)' = DatabaseOf(config[i], i)
    BY DEF Database
  <2> QED
    BY <1>1, <2>1, <2>2 DEF OwnInv, DoneOf, Database
<1>5. TurnedOf(i)'
  BY <1>1 DEF OwnInv, TurnedOf
<1> QED
  BY <1>2, <1>3, <1>4, <1>5 DEF OwnInv

\* The end of a process, whatever it was turned away at before.
LEMMA ExitOwn ==
  ASSUME TypeOK, NEW i \in Instances, Exit(i), UNCHANGED env,
         \A n \in 1..4 : lost'[i][n] <= 1,
         \A n \in 1..4 : lost'[i][n] > 0 =>
           /\ Config(i).backend = "postgres"
           /\ Schema("postgres")[n] \in stored[DatabaseOf(Config(i), i)]
  PROVE  OwnInv(i)'
<1>1. at'[i] = "down" /\ step'[i] = 1
  BY DEF Exit, Goto, TypeOK
<1>2. Config(i)' = Config(i)
  BY DEF Config
<1>3. ASSUME Config(i).backend = "postgres"
      PROVE  stored'[DatabaseOf(Config(i), i)] = stored[DatabaseOf(Config(i), i)]
  BY <1>3, Kept DEF Exit
<1>4. ConfigOf(i)' /\ TtlOf(i)' /\ DoneOf(i)'
  BY <1>1 DEF ConfigOf, TtlOf, DoneOf, Configured
<1>5. TurnedOf(i)'
  <2>1. ASSUME NEW n \in 1..4, lost'[i][n] > 0
        PROVE  /\ Config(i)'.backend = "postgres"
               /\ Schema("postgres")[n] \in stored'[DatabaseOf(Config(i)', i)]
    BY <1>2, <1>3, <2>1
  <2> QED
    BY <1>1, <2>1 DEF TurnedOf
<1> QED
  BY <1>4, <1>5 DEF OwnInv

LEMMA ExitOthers ==
  ASSUME TypeOK, NEW i \in Instances, NEW j \in Instances, i # j, OwnInv(j),
         Exit(i), UNCHANGED env, lost'[j] = lost[j]
  PROVE  OwnInv(j)'
<1>1. at'[j] = at[j] /\ step'[j] = step[j] /\ config'[j] = config[j]
  BY DEF Exit, Goto, TypeOK
<1>2. stored'[DatabaseOf(Config(j), j)] = stored[DatabaseOf(Config(j), j)]
  BY Kept DEF Exit
<1> QED
  BY <1>1, <1>2, Frame

\* A start that ends without having been turned away.
LEMMA ExitInv ==
  ASSUME Inv, NEW i \in Instances, Exit(i), UNCHANGED <<env, lost>>
  PROVE  \A j \in Instances : OwnInv(j)'
<1>1. TypeOK /\ \A j \in Instances : OwnInv(j)
  BY DEF Inv, OwnInv
<1>2. OwnInv(i)'
  <2>1. TurnedOf(i)
    BY <1>1 DEF OwnInv
  <2> QED
    BY <1>1, <2>1, ExitOwn DEF TurnedOf
<1>3. ASSUME NEW j \in Instances, i # j PROVE OwnInv(j)'
  BY <1>1, <1>3, ExitOthers
<1> QED
  BY <1>2, <1>3

\* The table an instance makes belongs to its database; no other loses one.
LEMMA MadeKeeps ==
  ASSUME TypeOK, NEW i \in Instances, Made(i), NEW d \in Databases
  PROVE  stored[d] \subseteq stored'[d]
  BY DEF Made, TypeOK

\* A statement is done and its object is there.
LEMMA AdvanceOwn ==
  ASSUME TypeOK, NEW i \in Instances, OwnInv(i), at[i] \in {"schema", "create", "ttl"},
         Advance(i), step[i] <= Len(Schema(Backend(i))),
         UNCHANGED <<env, config, lost>>,
         \A d \in Databases : stored[d] \subseteq stored'[d],
         Object(i) \in stored'[Database(i)]
  PROVE  OwnInv(i)'
<1>1. at'[i] = "schema" /\ step'[i] = step[i] + 1
  BY DEF Advance, Goto, TypeOK
<1>2. Config(i)' = Config(i) /\ Backend(i)' = Backend(i)
  BY DEF Config, Backend
<1>3. config[i] = Config(i) /\ config[i].backend # None
  BY DEF OwnInv, ConfigOf, Configured
<1>4. stored[Database(i)] \subseteq stored'[Database(i)]
  BY <1>3, DatabaseKnown DEF Database
<1>5. stored[DatabaseOf(Config(i), i)] \subseteq stored'[DatabaseOf(Config(i), i)]
  BY DatabaseKnown
<1>6. ConfigOf(i)' /\ TtlOf(i)'
  BY <1>1, <1>2, <1>3 DEF ConfigOf, TtlOf
<1>7. DoneOf(i)'
  <2>1. ASSUME NEW n \in DOMAIN Schema(Backend(i)), n < step[i] + 1
        PROVE  Schema(Backend(i))[n] \in stored'[Database(i)]
    <3>1. step[i] \in Nat
      <4>1. step[i] \in 1..5
        BY DEF TypeOK
      <4> QED
        BY <4>1
    <3>2. n \in Nat
      BY SchemaShape
    <3>3. CASE n = step[i]
      BY <3>3 DEF Object
    <3>4. CASE n < step[i]
      <4>1. at[i] \in Configured /\ DoneOf(i)
        BY DEF OwnInv, Configured
      <4>2. Schema(Backend(i))[n] \in stored[Database(i)]
        BY <3>4, <4>1 DEF DoneOf
      <4> QED
        BY <1>4, <4>2
    <3> QED
      BY <2>1, <3>1, <3>2, <3>3, <3>4
  <2>2. Database(i)' = DatabaseOf(config[i], i)
    BY DEF Database
  <2> QED
    BY <1>1, <1>2, <2>1, <2>2 DEF DoneOf, Database
<1>8. TurnedOf(i)'
  BY <1>1, <1>2, <1>5 DEF OwnInv, TurnedOf
<1> QED
  BY <1>6, <1>7, <1>8 DEF OwnInv

\* Only one instance changes places; the databases lose nothing.
LEMMA OthersKeep ==
  ASSUME TypeOK, NEW i \in Instances, NEW j \in Instances, i # j, OwnInv(j),
         UNCHANGED <<env, lost>>,
         at'[j] = at[j], step'[j] = step[j], config'[j] = config[j],
         \A d \in Databases : stored[d] \subseteq stored'[d]
  PROVE  OwnInv(j)'
<1>1. stored[DatabaseOf(Config(j), j)] \subseteq stored'[DatabaseOf(Config(j), j)]
  BY DatabaseKnown
<1> QED
  BY <1>1, Frame

\* PostgreSQL turns an instance away: for the first time at this object, which
\* is there from now on.
LEMMA DuplicateTurned ==
  ASSUME Inv, NEW i \in Instances, Duplicate(i)
  PROVE  OwnInv(i)'
<1>1. TypeOK /\ ConfigOf(i) /\ TurnedOf(i)
  BY DEF Inv
<1>2. /\ at[i] = "create" /\ Backend(i) = "postgres" /\ step[i] <= Len(Schema("postgres"))
      /\ Object(i) \in stored[Database(i)] /\ Exit(i) /\ UNCHANGED env
      /\ lost' = [lost EXCEPT ![i][step[i]] = @ + 1]
  BY DEF Duplicate, AtObject, Missing
<1>3. config[i] = Config(i)
  BY <1>1, <1>2 DEF ConfigOf, Configured
<1>4. lost[i][step[i]] = 0
  BY <1>1, <1>2 DEF TurnedOf
<1>5. Schema("postgres")[step[i]] \in stored[DatabaseOf(Config(i), i)] /\ Config(i).backend = "postgres"
  BY <1>2, <1>3 DEF Object, Database, Backend
<1>6. lost[i] \in [1..4 -> Nat]
  BY <1>1 DEF TypeOK
<1>7. lost'[i] = [lost[i] EXCEPT ![step[i]] = lost[i][step[i]] + 1]
  BY <1>1, <1>2 DEF TypeOK
<1>8. ASSUME NEW n \in 1..4
      PROVE  lost'[i][n] = IF n = step[i] THEN 1 ELSE lost[i][n]
  BY <1>4, <1>6, <1>7
<1>9. \A n \in 1..4 : lost'[i][n] <= 1
  BY <1>1, <1>8 DEF TurnedOf
<1>10. ASSUME NEW n \in 1..4, lost'[i][n] > 0
       PROVE  /\ Config(i).backend = "postgres"
              /\ Schema("postgres")[n] \in stored[DatabaseOf(Config(i), i)]
  <2>1. CASE n = step[i]
    BY <1>5, <2>1
  <2>2. CASE n # step[i]
    BY <1>1, <1>8, <1>10, <2>2 DEF TurnedOf
  <2> QED
    BY <2>1, <2>2
<1> QED
  BY <1>1, <1>2, <1>9, <1>10, ExitOwn

\* One instance takes a step of its start.
LEMMA StepInv ==
  ASSUME Inv, NEW i \in Instances, Step(i)
  PROVE  \A j \in Instances : OwnInv(j)'
<1>1. TypeOK /\ \A j \in Instances : OwnInv(j)
  BY DEF Inv, OwnInv
<1>2. CASE Launch(i) \/ Open(i) \/ Serve(i)
  <2>1. /\ UNCHANGED <<env, config, step, stored, lost>>
        /\ \A j \in Instances : i # j => at'[j] = at[j]
        /\ \/ at[i] = "down" /\ at'[i] = "configure"
           \/ at[i] = "open" /\ at'[i] = "schema"
           \/ at[i] = "schema" /\ at'[i] = "serving" /\ step[i] > Len(Schema(Backend(i)))
    <3>1. at \in [Instances -> Places]
      BY <1>1 DEF TypeOK, Places
    <3>2. CASE Launch(i)
      BY <3>1, <3>2 DEF Launch, Goto
    <3>3. CASE Open(i)
      BY <3>1, <3>3 DEF Open, Goto
    <3>4. CASE Serve(i)
      BY <3>1, <3>4 DEF Serve, SchemaDone, Goto
    <3> QED
      BY <1>2, <3>2, <3>3, <3>4
  <2>2. ASSUME NEW j \in Instances, i # j PROVE OwnInv(j)'
    BY <1>1, <2>1, <2>2, OthersKeep
  <2>3. OwnInv(i)'
    BY <1>1, <2>1 DEF OwnInv, ConfigOf, TtlOf, DoneOf, TurnedOf, Config, Backend, Database, Configured
  <2> QED
    BY <2>2, <2>3
<1>3. CASE Configure(i)
  <2>1. /\ UNCHANGED <<env, step, stored, lost>>
        /\ \A j \in Instances : i # j => at'[j] = at[j] /\ config'[j] = config[j]
        /\ config'[i] = Config(i) /\ Config(i).backend # None
        /\ at[i] = "configure" /\ at'[i] \in {"open", "schema"}
    BY <1>1, <1>3 DEF Configure, Config, Goto, TypeOK
  <2>2. ASSUME NEW j \in Instances, i # j PROVE OwnInv(j)'
    BY <1>1, <2>1, <2>2, OthersKeep
  <2>3. step[i] = 1
    BY <1>1, <2>1 DEF OwnInv, ConfigOf
  <2>4. ConfigOf(i)' /\ TtlOf(i)'
    BY <2>1, <2>3 DEF ConfigOf, TtlOf, Config
  <2>5. DoneOf(i)'
    <3>1. \A b : \A n \in DOMAIN Schema(b) : ~(n < 1)
      BY SchemaShape
    <3> QED
      BY <2>1, <2>3, <3>1 DEF DoneOf
  <2>6. TurnedOf(i)'
    BY <1>1, <2>1 DEF OwnInv, TurnedOf, Config
  <2> QED
    BY <2>2, <2>4, <2>5, <2>6 DEF OwnInv
<1>4. CASE Misconfigured(i) \/ Unreachable(i) \/ NoTable(i) \/ NoKey(i)
  <2>1. Exit(i) /\ UNCHANGED <<env, lost>>
    BY <1>4 DEF Misconfigured, Unreachable, NoTable, NoKey
  <2> QED
    BY <2>1, ExitInv
<1>5. CASE ExecSQLite(i) \/ Create(i)
  <2>1. /\ at[i] \in {"schema", "create", "ttl"} /\ step[i] <= Len(Schema(Backend(i)))
        /\ Made(i) /\ Advance(i) /\ UNCHANGED <<env, config, lost>>
    BY <1>5 DEF ExecSQLite, Create, AtObject
  <2>2. \A d \in Databases : stored[d] \subseteq stored'[d]
    BY <1>1, <2>1, MadeKeeps
  <2>3. Object(i) \in stored'[Database(i)]
    <3>1. Database(i) \in Databases
      BY <1>1, <2>1, DatabaseKnown DEF OwnInv, ConfigOf, Configured, Database
    <3> QED
      BY <1>1, <2>1, <3>1 DEF Made, TypeOK
  <2>4. OwnInv(i)'
    BY <1>1, <2>1, <2>2, <2>3, AdvanceOwn
  <2>5. \A j \in Instances : i # j => at'[j] = at[j] /\ step'[j] = step[j]
    BY <1>1, <2>1 DEF Advance, Goto, TypeOK
  <2>6. ASSUME NEW j \in Instances, i # j PROVE OwnInv(j)'
    BY <1>1, <2>1, <2>2, <2>5, <2>6, OthersKeep
  <2> QED
    BY <2>4, <2>6
<1>6. CASE LookUp(i) /\ Missing(i)
  <2>1. /\ UNCHANGED <<env, config, step, stored, lost>>
        /\ \A j \in Instances : i # j => at'[j] = at[j]
        /\ at[i] = "schema" /\ at'[i] = "create" /\ Backend(i) = "postgres"
        /\ step[i] <= Len(Schema("postgres"))
    BY <1>1, <1>6 DEF LookUp, AtObject, Goto, TypeOK
  <2>2. ASSUME NEW j \in Instances, i # j PROVE OwnInv(j)'
    BY <1>1, <2>1, <2>2, OthersKeep
  <2>3. lost[i][step[i]] = 0
    <3>1. Schema("postgres")[step[i]] \notin stored[DatabaseOf(Config(i), i)]
      BY <1>1, <1>6, <2>1 DEF Missing, Object, Database, OwnInv, ConfigOf, Configured
    <3>2. step[i] \in 1..5 /\ Len(Schema("postgres")) \in {3, 4} /\ lost[i] \in [1..4 -> Nat]
      BY <1>1, SchemaShape DEF TypeOK
    <3>3. step[i] \in 1..4
      BY <2>1, <3>2, AtMostFour
    <3>4. ~(lost[i][step[i]] > 0)
      BY <1>1, <3>1, <3>3 DEF OwnInv, TurnedOf
    <3> QED
      BY <3>2, <3>3, <3>4
  <2>4. OwnInv(i)'
    BY <1>1, <2>1, <2>3 DEF OwnInv, ConfigOf, TtlOf, DoneOf, TurnedOf, Config, Backend, Database, Configured
  <2> QED
    BY <2>2, <2>4
<1>7. CASE \/ (LookUp(i) /\ ~Missing(i))
           \/ (VerifyTableExists(i) /\ Object(i) = "users")
           \/ EnableTTLBestEffort(i)
  <2>1. /\ at[i] \in {"schema", "create", "ttl"} /\ step[i] <= Len(Schema(Backend(i)))
        /\ Advance(i) /\ UNCHANGED <<env, config, stored, lost>>
    BY <1>7 DEF LookUp, VerifyTableExists, EnableTTLBestEffort, AtObject
  <2>2. Object(i) \in stored[Database(i)]
    <3>1. CASE ~Missing(i)
      BY <3>1 DEF Missing
    <3>2. CASE EnableTTLBestEffort(i)
      <4>1. at[i] = "ttl" /\ step[i] \in DOMAIN Schema(Backend(i))
        <5>1. step[i] \in 1..5 /\ Len(Schema(Backend(i))) \in {3, 4}
          BY <1>1, SchemaShape DEF TypeOK
        <5>2. step[i] \in 1..Len(Schema(Backend(i)))
          BY <2>1, <5>1, AtMostFour
        <5> QED
          BY <3>2, <5>2, SchemaShape DEF EnableTTLBestEffort, AtObject
      <4> QED
        BY <1>1, <4>1 DEF OwnInv, DoneOf, Configured, Object
    <3> QED
      BY <1>7, <3>1, <3>2 DEF VerifyTableExists
  <2>3. OwnInv(i)'
    BY <1>1, <2>1, <2>2, AdvanceOwn
  <2>4. \A j \in Instances : i # j => at'[j] = at[j] /\ step'[j] = step[j]
    BY <1>1, <2>1 DEF Advance, Goto, TypeOK
  <2>5. ASSUME NEW j \in Instances, i # j PROVE OwnInv(j)'
    BY <1>1, <2>1, <2>4, <2>5, OthersKeep
  <2> QED
    BY <2>3, <2>5
<1>8. CASE VerifyTableExists(i) /\ Object(i) # "users"
  <2>1. /\ UNCHANGED <<env, config, step, stored, lost>>
        /\ \A j \in Instances : i # j => at'[j] = at[j]
        /\ at[i] = "schema" /\ at'[i] = "ttl" /\ Backend(i) = "dynamodb"
        /\ step[i] <= Len(Schema("dynamodb")) /\ Object(i) \in stored[Database(i)]
    BY <1>1, <1>8 DEF VerifyTableExists, AtObject, Missing, Goto, TypeOK
  <2>2. ASSUME NEW j \in Instances, i # j PROVE OwnInv(j)'
    BY <1>1, <2>1, <2>2, OthersKeep
  <2>3. ConfigOf(i)'
    BY <1>1, <2>1 DEF OwnInv, ConfigOf, Configured, Config
  <2>4. TtlOf(i)'
    <3>1. step[i] \in 1..5 /\ Len(Schema("dynamodb")) \in {3, 4}
      BY <1>1, SchemaShape DEF TypeOK
    <3>2. step[i] \in 1..Len(Schema("dynamodb"))
      BY <2>1, <3>1, AtMostFour
    <3>3. \A n \in 1..Len(Schema("dynamodb")) : Schema("dynamodb")[n] \in Tables
      BY DEF Schema, Tables
    <3>4. Object(i) \in Tables
      BY <2>1, <3>2, <3>3 DEF Object
    <3> QED
      BY <1>8, <2>1, <3>4 DEF TtlOf, Object, Backend
  <2>5. DoneOf(i)'
    BY <1>1, <2>1 DEF OwnInv, DoneOf, Configured, Backend, Database, Object
  <2>6. TurnedOf(i)'
    BY <1>1, <2>1 DEF OwnInv, TurnedOf, Config
  <2> QED
    BY <2>2, <2>3, <2>4, <2>5, <2>6 DEF OwnInv
<1>9. CASE Duplicate(i)
  <2>1. Exit(i) /\ UNCHANGED env /\ \A j \in Instances : i # j => lost'[j] = lost[j]
    BY <1>1, <1>9 DEF Duplicate, TypeOK
  <2>2. ASSUME NEW j \in Instances, i # j PROVE OwnInv(j)'
    BY <1>1, <2>1, <2>2, ExitOthers
  <2> QED
    BY <1>9, <2>2, DuplicateTurned
<1>10. CASE LookUp(i)
  BY <1>6, <1>7, <1>10
<1>11. CASE VerifyTableExists(i)
  BY <1>7, <1>8, <1>11
<1> QED
  BY <1>2, <1>3, <1>4, <1>5, <1>7, <1>9, <1>10, <1>11 DEF Step

LEMMA NextInv == Inv /\ [Next]_vars => Inv'
<1> SUFFICES ASSUME Inv, [Next]_vars
             PROVE  Inv'
  OBVIOUS
<1>1. TypeOK /\ \A j \in Instances : OwnInv(j) /\ TtlOf(j)
  BY DEF Inv, OwnInv
<1>2. TypeOK'
  BY <1>1, TypeStep
<1>3. \A j \in Instances : OwnInv(j)'
  <2>1. CASE UNCHANGED vars
    BY <1>1, <2>1 DEF vars, OwnInv, ConfigOf, TtlOf, DoneOf, TurnedOf, Config, Backend, Database, Object
  <2>2. ASSUME NEW i \in Instances, Step(i) PROVE \A j \in Instances : OwnInv(j)'
    BY <2>2, StepInv
  <2>3. ASSUME NEW i \in Instances, Crash(i) PROVE \A j \in Instances : OwnInv(j)'
    BY <2>3, ExitInv DEF Crash
  <2>4. ASSUME NEW o \in Objects, CreateTable(o) \/ Activate(o), NEW j \in Instances
        PROVE  OwnInv(j)'
    <3>1. UNCHANGED <<env, config, at, step, lost>>
      BY <2>4 DEF CreateTable, Activate
    <3>2. \A d \in Databases : stored[d] \subseteq stored'[d]
      BY <1>1, <2>4 DEF CreateTable, Activate, TypeOK
    <3>3. stored[DatabaseOf(Config(j), j)] \subseteq stored'[DatabaseOf(Config(j), j)]
      BY <1>1, <3>2, DatabaseKnown
    <3> QED
      BY <1>1, <3>1, <3>3, Frame
  <2> QED
    BY <2>1, <2>2, <2>3, <2>4 DEF Next, Provision
<1> QED
  BY <1>2, <1>3 DEF Inv, OwnInv

LEMMA InitInv == Init => Inv
<1> SUFFICES ASSUME Init
             PROVE  Inv
  OBVIOUS
<1>1. TypeOK
  BY FaultsAssumption DEF Init, TypeOK
<1>2. ASSUME NEW i \in Instances PROVE ConfigOf(i) /\ TtlOf(i) /\ DoneOf(i)
  BY <1>2 DEF Init, ConfigOf, TtlOf, DoneOf, Configured
<1>3. ASSUME NEW i \in Instances PROVE TurnedOf(i)
  <2>1. at[i] = "down" /\ \A n \in 1..4 : lost[i][n] = 0
    BY DEF Init
  <2> QED
    BY <2>1 DEF TurnedOf
<1> QED
  BY <1>1, <1>2, <1>3 DEF Inv

\* Types, and that every object before the one a start has come to exists.
THEOREM InvHolds == Spec => []Inv
  BY InitInv, NextInv, PTL DEF Spec

\* Every variable has its type; in particular no start gives the table of
\* users a TTL (enableTTLBestEffort).
THEOREM TypeCorrect == Spec => []TypeOK
<1>1. Inv => TypeOK
  BY DEF Inv
<1> QED
  BY <1>1, InvHolds, PTL

\* The tables and the index of an SQL database are its whole schema, the three
\* tables what is verified on DynamoDB.
LEMMA SchemaCovers ==
  ASSUME NEW b
  PROVE  (IF b = "dynamodb" THEN Tables ELSE Objects) = {Schema(b)[n] : n \in DOMAIN Schema(b)}
<1>1. CASE b = "dynamodb"
  <2>1. Schema(b) = <<"users", "revoked_tokens", "session_csrf">> /\ DOMAIN Schema(b) = 1..3
    BY <1>1 DEF Schema
  <2>2. Schema(b)[1] = "users" /\ Schema(b)[2] = "revoked_tokens" /\ Schema(b)[3] = "session_csrf"
    BY <2>1
  <2>3. 1..3 = {1, 2, 3}
    OBVIOUS
  <2> QED
    BY <1>1, <2>1, <2>2, <2>3 DEF Tables
<1>2. CASE b # "dynamodb"
  <2>1. /\ Schema(b) = <<"users", "users_reset_token_idx", "revoked_tokens", "session_csrf">>
        /\ DOMAIN Schema(b) = 1..4
    BY <1>2 DEF Schema
  <2>2. /\ Schema(b)[1] = "users" /\ Schema(b)[2] = "users_reset_token_idx"
        /\ Schema(b)[3] = "revoked_tokens" /\ Schema(b)[4] = "session_csrf"
    BY <2>1
  <2>3. 1..4 = {1, 2, 3, 4}
    OBVIOUS
  <2> QED
    BY <1>2, <2>1, <2>2, <2>3 DEF Objects
<1> QED
  BY <1>1, <1>2

\* An instance that serves has every table and the index on an SQL backend, and
\* the three tables, in creation or complete, on DynamoDB, after any number of
\* crashes and beside any number of other instances.
THEOREM ServingHasSchemaHolds == Spec => []ServingHasSchema
<1>1. ASSUME Inv PROVE ServingHasSchema
  <2>1. ASSUME NEW i \in Instances, at[i] = "serving", NEW n \in DOMAIN Schema(Backend(i))
        PROVE  Schema(Backend(i))[n] \in stored[Database(i)]
    <3>1. DoneOf(i) /\ step[i] \in 1..5
      BY <1>1 DEF Inv, TypeOK
    <3>2. step[i] > Len(Schema(Backend(i))) /\ n \in 1..Len(Schema(Backend(i)))
      BY <2>1, <3>1, SchemaShape DEF DoneOf
    <3>3. Len(Schema(Backend(i))) \in {3, 4}
      BY SchemaShape
    <3>4. n < step[i]
      BY <3>1, <3>2, <3>3, Beyond
    <3> QED
      BY <2>1, <3>1, <3>4 DEF DoneOf, Configured
  <2>2. ASSUME NEW i \in Instances, at[i] = "serving"
        PROVE  (IF Backend(i) = "dynamodb" THEN Tables ELSE Objects) \subseteq stored[Database(i)]
    <3>1. \A n \in DOMAIN Schema(Backend(i)) : Schema(Backend(i))[n] \in stored[Database(i)]
      BY <2>1, <2>2
    <3>2. {Schema(Backend(i))[n] : n \in DOMAIN Schema(Backend(i))} \subseteq stored[Database(i)]
      BY <3>1
    <3> QED
      BY <3>2, SchemaCovers
  <2> QED
    BY <2>2 DEF ServingHasSchema
<1> QED
  BY <1>1, InvHolds, PTL

\* PostgreSQL turns no instance away twice at the same statement.
THEOREM TurnedAwayOnceHolds == Spec => []TurnedAwayOnce
<1>1. Inv => TurnedAwayOnce
  BY DEF Inv, TurnedOf, TurnedAwayOnce
<1> QED
  BY <1>1, InvHolds, PTL

=============================================================================
