------------------------- MODULE KeyRotationProofs -------------------------
(***************************************************************************)
(* While the operator publishes a key before the service signs with it,    *)
(* no live token is ever refused, for any number of keys, instances and    *)
(* consumers and whatever was left in the local configuration.             *)
(* However the operator edits the secret, every variable has its type.     *)
(***************************************************************************)
EXTENDS KeyRotation, TLAPS

USE ValueAssumption, LeftoversAssumption

Loaded(i) == running[i] # "down"

\* The keys that tokens are signed with, and those that soon will be.
InUse == live \cup {env[i].private : i \in {j \in Instances : Loaded(j)}}

Trusted == InUse \cup {secret.private}

\* Everybody knows every trusted key, and so will whoever starts next: the
\* secret lists them all, or names the only one.
KeyInv ==
  /\ TypeOK
  /\ secret.private \in Keys
  /\ \A i \in Instances : Loaded(i) => env[i].private \in Keys
  /\ \A i \in Instances : running[i] = "serving" => verify[i] = LoadVerifyKeySet(env[i])
  /\ \A k \in Trusted : KnownEverywhere(k)
  /\ Trusted \subseteq Blocks(secret) \cup {secret.private}
  /\ \A i \in Instances : secret.private \in LoadVerifyKeySet(LoadEnv(local[i], secret))

-----------------------------------------------------------------------------
(* The configuration *)

\* Two layers of configuration make one.
LEMMA OverlayType ==
  ASSUME NEW a \in Env, NEW b \in Env
  PROVE  Overlay(a, b) \in Env
<1> DEFINE private == IF a.private = None THEN b.private ELSE a.private
           public  == IF a.public = None THEN b.public ELSE a.public
           publics == IF a.publics = {None} THEN b.publics ELSE a.publics
<1>1. Overlay(a, b) = [private |-> private, public |-> public, publics |-> publics]
  BY DEF Overlay, Unset
<1>2. /\ private \in Keys \cup {None, Blank}
      /\ public \in Keys \cup {None, Blank}
      /\ publics \in (SUBSET Keys) \cup {{None}}
  BY DEF Env
<1> HIDE DEF private, public, publics
<1> QED BY <1>1, <1>2 DEF Env

\* The blocks of a list are keys.
LEMMA BlocksType ==
  ASSUME NEW e \in Env
  PROVE  Blocks(e) \in SUBSET Keys
<1>1. e.publics \in (SUBSET Keys) \cup {{None}}
  BY DEF Env
<1>2. CASE e.publics \in SUBSET Keys
  BY <1>2 DEF Blocks
<1>3. CASE e.publics = {None}
  BY <1>3 DEF Blocks
<1>4. e.publics \in SUBSET Keys \/ e.publics = {None}
  BY <1>1
<1> QED BY <1>2, <1>3, <1>4

LEMMA LoadVerifyKeySetType ==
  ASSUME NEW e \in Env
  PROVE  LoadVerifyKeySet(e) \in SUBSET Keys
<1>1. Listed(e) \in SUBSET Keys
  BY BlocksType DEF Listed
<1> QED BY <1>1 DEF LoadVerifyKeySet

\* A listed key is one to verify with.
LEMMA ListedVerify ==
  ASSUME NEW e \in Env, NEW k \in Blocks(e)
  PROVE  k \in LoadVerifyKeySet(e)
  BY DEF LoadVerifyKeySet, Listed

\* The list of the secret reaches the environment of every instance, and so
\* does its signing key.
LEMMA SecretWins ==
  ASSUME NEW l \in Env, NEW s \in Env
  PROVE  /\ LoadEnv(l, s) \in Env
         /\ Blocks(s) \subseteq Blocks(LoadEnv(l, s))
         /\ s.private \in Keys => LoadEnv(l, s).private = s.private
<1>1. LoadEnv(l, s) \in Env
  BY OverlayType DEF LoadEnv
<1>2. LoadEnv(l, s).publics = IF s.publics = {None} THEN l.publics ELSE s.publics
  BY DEF LoadEnv, Overlay, Unset
<1>3. LoadEnv(l, s).private = IF s.private = None THEN l.private ELSE s.private
  BY DEF LoadEnv, Overlay, Unset
<1> QED BY <1>1, <1>2, <1>3 DEF Blocks, Env

\* A secret that lists its signing key serves every instance.
LEMMA ListedSigner ==
  ASSUME NEW l \in Env, NEW s \in Env, s.private \in Blocks(s)
  PROVE  s.private \in LoadVerifyKeySet(LoadEnv(l, s))
  BY SecretWins, ListedVerify

-----------------------------------------------------------------------------
(* Types, with or without PublishFirst *)

\* A signing key is a key, in the secret and at every instance that has read it.
TypeInv ==
  /\ TypeOK
  /\ secret.private \in Keys
  /\ \A i \in Instances : Loaded(i) => env[i].private \in Keys

LEMMA InitTypes == Init => TypeInv
<1> SUFFICES ASSUME Init PROVE TypeInv
  OBVIOUS
<1>1. local \in [Instances -> Env]
  <2>1. PICK process \in [Instances -> Leftovers], dotenv \in [Instances -> Leftovers] :
          local = [i \in Instances |-> Local(process[i], dotenv[i])]
    BY DEF Init
  <2>2. \A i \in Instances : Local(process[i], dotenv[i]) \in Env
    BY OverlayType DEF Local
  <2> QED BY <2>1, <2>2
<1>2. TypeOK
  BY <1>1 DEF Init, TypeOK
<1> QED BY <1>2 DEF Init, TypeInv, Loaded

LEMMA InstanceTypes ==
  ASSUME TypeInv, NEW i \in Instances,
         Start(i) \/ Serve(i) \/ Stop(i) \/ CreateJWTToken(i)
  PROVE  TypeInv'
<1>1. CASE Start(i)
  <2>1. PICK e : e = LoadEnv(local[i], secret)
    OBVIOUS
  <2>2. e \in Env /\ e.private \in Keys
    BY <2>1, SecretWins DEF TypeInv, TypeOK
  <2>3. /\ env' = [env EXCEPT ![i] = e]
        /\ running' = [running EXCEPT ![i] = "loaded"]
        /\ UNCHANGED <<local, secret, verify, cached, live>>
    BY <1>1, <2>1 DEF Start
  <2> QED BY <2>2, <2>3 DEF TypeInv, TypeOK, Loaded
<1>2. CASE Serve(i)
  <2>1. LoadVerifyKeySet(env[i]) \in SUBSET Keys
    BY LoadVerifyKeySetType DEF TypeInv, TypeOK
  <2> QED BY <1>2, <2>1 DEF Serve, TypeInv, TypeOK, Loaded
<1>3. CASE Stop(i)
  BY <1>3 DEF Stop, TypeInv, TypeOK, Loaded
<1>4. CASE CreateJWTToken(i)
  BY <1>4 DEF CreateJWTToken, TypeInv, TypeOK, Loaded
<1> QED BY <1>1, <1>2, <1>3, <1>4

LEMMA FetchTypes ==
  ASSUME TypeInv, NEW c \in Consumers, Fetch(c)
  PROVE  TypeInv'
<1>1. PICK i \in Instances :
        /\ cached' = [cached EXCEPT ![c] = JWKS(i)]
        /\ UNCHANGED <<local, secret, running, env, verify, live>>
  BY DEF Fetch
<1>2. JWKS(i) \in SUBSET Keys
  BY LoadVerifyKeySetType DEF TypeInv, TypeOK, JWKS
<1> QED BY <1>1, <1>2 DEF TypeInv, TypeOK, Loaded

\* Whatever the operator writes is a secret with a signing key.
LEMMA OperatorTypes ==
  ASSUME TypeInv, NEW k \in Keys, Announce(k) \/ Switch(k) \/ Retire(k)
  PROVE  TypeInv'
<1>1. Blocks(secret) \in SUBSET Keys /\ secret \in Env /\ secret.private \in Keys
  BY BlocksType DEF TypeInv, TypeOK
<1>2. UNCHANGED <<local, running, env, verify, cached, live>>
  BY DEF Announce, Switch, Retire
<1>3. secret' \in Env /\ secret'.private \in Keys
  <2>1. CASE Announce(k)
    BY <1>1, <2>1 DEF Announce, Env
  <2>2. CASE Switch(k)
    BY <1>1, <2>2 DEF Switch, Env
  <2>3. CASE Retire(k)
    BY <1>1, <2>3 DEF Retire, Env
  <2> QED BY <2>1, <2>2, <2>3
<1> QED BY <1>2, <1>3 DEF TypeInv, TypeOK, Loaded

LEMMA NextTypes == TypeInv /\ [Next]_vars => TypeInv'
<1> SUFFICES ASSUME TypeInv, [Next]_vars
             PROVE  TypeInv'
  OBVIOUS
<1>1. ASSUME NEW i \in Instances, Start(i) \/ Serve(i) \/ Stop(i) \/ CreateJWTToken(i)
      PROVE  TypeInv'
  BY <1>1, InstanceTypes
<1>2. ASSUME NEW c \in Consumers, Fetch(c)
      PROVE  TypeInv'
  BY <1>2, FetchTypes
<1>3. ASSUME NEW k \in Keys, Announce(k) \/ Switch(k) \/ Retire(k)
      PROVE  TypeInv'
  BY <1>3, OperatorTypes
<1>4. ASSUME NEW k \in Keys, Expire(k)
      PROVE  TypeInv'
  BY <1>4 DEF Expire, TypeInv, TypeOK, Loaded
<1>5. CASE UNCHANGED vars
  BY <1>5 DEF vars, TypeInv, TypeOK, Loaded
<1> QED BY <1>1, <1>2, <1>3, <1>4, <1>5 DEF Next

\* Every variable has its type, whether or not keys are published first.
THEOREM TypeCorrect == Spec => []TypeOK
<1>1. TypeInv => TypeOK
  BY DEF TypeInv
<1> QED BY <1>1, InitTypes, NextTypes, PTL DEF Spec

-----------------------------------------------------------------------------
(* An instance and its own tokens, with or without PublishFirst *)

\* Whoever reads the secret next will accept its signing key, and whoever has
\* read an earlier one accepts the key of that one.
OwnInv ==
  /\ TypeInv
  /\ \A i \in Instances : secret.private \in LoadVerifyKeySet(LoadEnv(local[i], secret))
  /\ \A i \in Instances : Loaded(i) => env[i].private \in LoadVerifyKeySet(env[i])
  /\ \A i \in Instances : running[i] = "serving" => verify[i] = LoadVerifyKeySet(env[i])

LEMMA InitOwn == Init => OwnInv
  BY InitTypes DEF Init, OwnInv, Loaded

LEMMA InstanceOwn ==
  ASSUME OwnInv, NEW i \in Instances,
         Start(i) \/ Serve(i) \/ Stop(i) \/ CreateJWTToken(i)
  PROVE  OwnInv'
<1>1. TypeInv'
  BY InstanceTypes DEF OwnInv
<1>2. UNCHANGED <<local, secret>>
  BY DEF Start, Serve, Stop, CreateJWTToken
<1>3. \A j \in Instances \ {i} :
        running'[j] = running[j] /\ env'[j] = env[j] /\ verify'[j] = verify[j]
  BY DEF Start, Serve, Stop, CreateJWTToken, OwnInv, TypeInv, TypeOK
<1>4. /\ Loaded(i)' => env'[i].private \in LoadVerifyKeySet(env'[i])
      /\ running'[i] = "serving" => verify'[i] = LoadVerifyKeySet(env'[i])
  <2>1. CASE Start(i)
    <3>1. PICK e : e = LoadEnv(local[i], secret)
      OBVIOUS
    <3>2. e.private = secret.private
      BY <3>1, SecretWins DEF OwnInv, TypeInv, TypeOK
    <3>3. env'[i] = e /\ running'[i] = "loaded"
      BY <2>1, <3>1 DEF Start, OwnInv, TypeInv, TypeOK
    <3> QED BY <3>1, <3>2, <3>3 DEF OwnInv
  <2>2. CASE Serve(i)
    <3>1. /\ env'[i] = env[i] /\ Loaded(i)
          /\ verify'[i] = LoadVerifyKeySet(env[i])
      BY <2>2 DEF Serve, Loaded, OwnInv, TypeInv, TypeOK
    <3> QED BY <3>1 DEF OwnInv
  <2>3. CASE Stop(i)
    BY <2>3 DEF Stop, Loaded, OwnInv, TypeInv, TypeOK
  <2>4. CASE CreateJWTToken(i)
    BY <2>4 DEF CreateJWTToken, Loaded, OwnInv
  <2> QED BY <2>1, <2>2, <2>3, <2>4
<1>5. \A j \in Instances : Loaded(j)' => env'[j].private \in LoadVerifyKeySet(env'[j])
  BY <1>3, <1>4 DEF OwnInv, Loaded
<1> QED BY <1>1, <1>2, <1>3, <1>4, <1>5 DEF OwnInv

\* Whatever the operator writes, the secret lists the key it signs with.
LEMMA OperatorOwn ==
  ASSUME OwnInv, NEW k \in Keys, Announce(k) \/ Switch(k) \/ Retire(k)
  PROVE  OwnInv'
<1>1. TypeInv'
  BY OperatorTypes DEF OwnInv
<1>2. UNCHANGED <<local, running, env, verify, cached, live>>
  BY DEF Announce, Switch, Retire
<1>3. /\ Blocks(secret) \in SUBSET Keys
      /\ secret \in Env /\ secret.private \in Keys
  BY BlocksType DEF OwnInv, TypeInv, TypeOK
<1>4. secret'.private \in Blocks(secret')
  <2>1. CASE Announce(k)
    BY <1>3, <2>1 DEF Announce, Env, Blocks
  <2>2. CASE Switch(k)
    BY <1>3, <2>2 DEF Switch, Env, Blocks
  <2>3. CASE Retire(k)
    BY <1>3, <2>3 DEF Retire, Env, Blocks
  <2> QED BY <2>1, <2>2, <2>3
<1>5. \A i \in Instances : secret'.private \in LoadVerifyKeySet(LoadEnv(local'[i], secret'))
  BY <1>1, <1>4, ListedSigner DEF TypeInv, TypeOK
<1> QED BY <1>1, <1>2, <1>5 DEF OwnInv, Loaded

LEMMA NextOwn == OwnInv /\ [Next]_vars => OwnInv'
<1> SUFFICES ASSUME OwnInv, [Next]_vars
             PROVE  OwnInv'
  OBVIOUS
<1>1. ASSUME NEW i \in Instances, Start(i) \/ Serve(i) \/ Stop(i) \/ CreateJWTToken(i)
      PROVE  OwnInv'
  BY <1>1, InstanceOwn
<1>2. ASSUME NEW k \in Keys, Announce(k) \/ Switch(k) \/ Retire(k)
      PROVE  OwnInv'
  BY <1>2, OperatorOwn
<1>3. CASE \/ \E c \in Consumers : Fetch(c)
           \/ \E k \in Keys : Expire(k)
           \/ UNCHANGED vars
  <2>1. TypeInv'
    BY NextTypes DEF OwnInv
  <2>2. UNCHANGED <<local, secret, running, env, verify>>
    BY <1>3 DEF Fetch, Expire, vars
  <2> QED BY <2>1, <2>2 DEF OwnInv, Loaded
<1> QED BY <1>1, <1>2, <1>3 DEF Next

\* Every instance accepts the tokens it signs, and no start is refused for want
\* of a key, in whatever order the operator edits the secret and instances
\* restart, and whatever their own configuration says (LoadEnv,
\* loadVerifyKeySetFromEnv).
THEOREM OwnTokensVerifyHolds == Spec => []OwnTokensVerify
<1>1. OwnInv => OwnTokensVerify
  BY DEF OwnInv, OwnTokensVerify, Loaded, Accepts
<1> QED BY <1>1, InitOwn, NextOwn, PTL DEF Spec

-----------------------------------------------------------------------------
(* Keys that are published first *)

LEMMA InitKeys == Init => KeyInv
<1> SUFFICES ASSUME Init PROVE KeyInv
  OBVIOUS
<1>2. TypeOK
  BY InitTypes DEF TypeInv
<1>3. Trusted = {secret.private}
  BY DEF Init, Trusted, InUse, Loaded
<1>4. KnownEverywhere(secret.private)
  BY DEF Init, KnownEverywhere
<1> QED BY <1>2, <1>3, <1>4 DEF Init, KeyInv, Loaded

LEMMA StartKeys ==
  ASSUME KeyInv, NEW i \in Instances, Start(i)
  PROVE  KeyInv'
<1> DEFINE e == LoadEnv(local[i], secret)
<1>1. /\ TypeOK /\ local[i] \in Env /\ secret \in Env
      /\ running' = [running EXCEPT ![i] = "loaded"]
      /\ env' = [env EXCEPT ![i] = e]
      /\ UNCHANGED <<local, secret, verify, cached, live>>
  BY DEF KeyInv, TypeOK, Start
<1>2. e \in Env /\ Blocks(secret) \subseteq Blocks(e) /\ e.private = secret.private
  BY <1>1, SecretWins DEF KeyInv
<1>3. secret.private \in LoadVerifyKeySet(e)
  BY DEF KeyInv
<1> HIDE DEF e
<1>4. TypeOK'
  BY <1>1, <1>2 DEF TypeOK
<1>5. /\ running'[i] = "loaded" /\ env'[i] = e
      /\ \A j \in Instances : j # i => running'[j] = running[j] /\ env'[j] = env[j]
  BY <1>1 DEF TypeOK
<1>6. Trusted' \subseteq Trusted
  BY <1>1, <1>2, <1>5 DEF Trusted, InUse, Loaded
<1>7. \A k \in Trusted : k \in LoadVerifyKeySet(e)
  BY <1>2, <1>3, ListedVerify DEF KeyInv
<1>8. \A k \in Trusted' : KnownEverywhere(k)'
  BY <1>1, <1>5, <1>6, <1>7 DEF KeyInv, KnownEverywhere
<1>9. \A j \in Instances : Loaded(j)' => env'[j].private \in Keys
  BY <1>2, <1>5 DEF KeyInv, Loaded
<1>10. \A j \in Instances : running'[j] = "serving" => verify'[j] = LoadVerifyKeySet(env'[j])
  BY <1>1, <1>5 DEF KeyInv
<1> QED BY <1>1, <1>4, <1>6, <1>8, <1>9, <1>10 DEF KeyInv

LEMMA ServeKeys ==
  ASSUME KeyInv, NEW i \in Instances, Serve(i)
  PROVE  KeyInv'
<1>1. /\ TypeOK /\ running[i] = "loaded" /\ LoadVerifyKeySet(env[i]) \in SUBSET Keys
      /\ running' = [running EXCEPT ![i] = "serving"]
      /\ verify' = [verify EXCEPT ![i] = LoadVerifyKeySet(env[i])]
      /\ UNCHANGED <<local, secret, env, cached, live>>
  BY LoadVerifyKeySetType DEF KeyInv, TypeOK, Serve
<1>2. TypeOK'
  BY <1>1 DEF TypeOK
<1>3. \A j \in Instances : Loaded(j)' <=> Loaded(j)
  BY <1>1 DEF TypeOK, Loaded
<1>4. Trusted' = Trusted
  BY <1>1, <1>3 DEF Trusted, InUse
<1>5. \A k \in Trusted : KnownEverywhere(k)'
  BY <1>1, <1>3 DEF KeyInv, KnownEverywhere, Loaded
<1>6. \A j \in Instances : running'[j] = "serving" => verify'[j] = LoadVerifyKeySet(env'[j])
  BY <1>1 DEF KeyInv, TypeOK
<1> QED BY <1>1, <1>2, <1>3, <1>4, <1>5, <1>6 DEF KeyInv

LEMMA StopKeys ==
  ASSUME KeyInv, NEW i \in Instances, Stop(i)
  PROVE  KeyInv'
<1>1. /\ TypeOK
      /\ running' = [running EXCEPT ![i] = "down"]
      /\ env' = [env EXCEPT ![i] = local[i]]
      /\ verify' = [verify EXCEPT ![i] = {}]
      /\ UNCHANGED <<local, secret, cached, live>>
  BY DEF KeyInv, Stop
<1>2. TypeOK'
  BY <1>1 DEF TypeOK
<1>3. /\ ~ Loaded(i)'
      /\ \A j \in Instances : j # i =>
           running'[j] = running[j] /\ env'[j] = env[j] /\ verify'[j] = verify[j]
  BY <1>1 DEF TypeOK, Loaded
<1>4. Trusted' \subseteq Trusted
  BY <1>1, <1>3 DEF Trusted, InUse, Loaded
<1>5. \A k \in Trusted' : KnownEverywhere(k)'
  BY <1>1, <1>3, <1>4 DEF KeyInv, KnownEverywhere, Loaded
<1>6. \A j \in Instances : Loaded(j)' => Loaded(j) /\ j # i
  BY <1>3 DEF Loaded
<1>7. \A j \in Instances : running'[j] = "serving" => verify'[j] = LoadVerifyKeySet(env'[j])
  BY <1>3 DEF KeyInv, Loaded
<1> QED BY <1>1, <1>2, <1>3, <1>4, <1>5, <1>6, <1>7 DEF KeyInv

LEMMA CreateKeys ==
  ASSUME KeyInv, NEW i \in Instances, CreateJWTToken(i)
  PROVE  KeyInv'
<1>1. /\ TypeOK /\ Loaded(i) /\ env[i].private \in Keys
      /\ live' = live \cup {env[i].private}
      /\ UNCHANGED <<local, secret, running, env, verify, cached>>
  BY DEF KeyInv, CreateJWTToken, Loaded
<1>2. TypeOK'
  BY <1>1 DEF TypeOK
<1>3. Trusted' = Trusted
  BY <1>1 DEF Trusted, InUse, Loaded
<1>4. \A k : KnownEverywhere(k)' <=> KnownEverywhere(k)
  BY <1>1 DEF KnownEverywhere
<1> QED BY <1>1, <1>2, <1>3, <1>4 DEF KeyInv, Loaded

LEMMA FetchKeys ==
  ASSUME KeyInv, NEW c \in Consumers, Fetch(c)
  PROVE  KeyInv'
<1>1. PICK i \in Instances :
        /\ running[i] = "serving"
        /\ cached' = [cached EXCEPT ![c] = JWKS(i)]
        /\ UNCHANGED <<local, secret, running, env, verify, live>>
  BY DEF Fetch
<1>2. TypeOK /\ JWKS(i) \in SUBSET Keys
  BY LoadVerifyKeySetType DEF KeyInv, TypeOK, JWKS
<1>3. TypeOK'
  BY <1>1, <1>2 DEF TypeOK
<1>4. Trusted' = Trusted
  BY <1>1 DEF Trusted, InUse, Loaded
<1>5. \A k \in Trusted : k \in JWKS(i)
  BY <1>1 DEF KeyInv, KnownEverywhere, JWKS
<1>6. \A k \in Trusted : KnownEverywhere(k)'
  BY <1>1, <1>2, <1>5 DEF KeyInv, KnownEverywhere, TypeOK
<1> QED BY <1>1, <1>3, <1>4, <1>6 DEF KeyInv, Loaded

-----------------------------------------------------------------------------
(* The operator *)

\* A new version of the secret that names a signing key everybody knows and
\* lists it with all trusted keys keeps the invariant.
LEMMA EditKeys ==
  ASSUME KeyInv,
         secret' \in Env,
         NEW k \in Blocks(secret') \cap Keys,
         secret'.private = k,
         KnownEverywhere(k),
         InUse \subseteq Blocks(secret'),
         UNCHANGED <<local, running, env, verify, cached, live>>
  PROVE  KeyInv'
<1>1. TypeOK'
  BY DEF KeyInv, TypeOK
<1>2. Trusted' = InUse \cup {k}
  BY DEF Trusted, InUse, Loaded
<1>3. \A x \in Trusted' : KnownEverywhere(x)
  BY <1>2 DEF KeyInv, Trusted
<1>4. \A x \in Trusted' : KnownEverywhere(x)'
  BY <1>3 DEF KnownEverywhere
<1>5. Trusted' \subseteq Blocks(secret') \cup {secret'.private}
  BY <1>2
<1>6. \A i \in Instances : secret'.private \in LoadVerifyKeySet(LoadEnv(local'[i], secret'))
  BY ListedSigner DEF KeyInv, TypeOK
<1> QED BY <1>1, <1>4, <1>5, <1>6 DEF KeyInv, Loaded

LEMMA AnnounceKeys ==
  ASSUME KeyInv, NEW k \in Keys, Announce(k)
  PROVE  KeyInv'
<1> DEFINE blocks == Blocks(secret) \cup {k, secret.private}
<1>1. /\ secret \in Env /\ secret.private \in Keys
      /\ secret' = [secret EXCEPT !.publics = blocks]
      /\ UNCHANGED <<local, running, env, verify, cached, live>>
  BY DEF KeyInv, TypeOK, Announce
<1>2. blocks \in SUBSET Keys
  BY <1>1, BlocksType DEF Env
<1> HIDE DEF blocks
<1>3. secret' \in Env /\ secret'.private = secret.private /\ Blocks(secret') = blocks
  BY <1>1, <1>2 DEF Env, Blocks
<1>4. InUse \subseteq blocks /\ secret.private \in blocks
  BY DEF KeyInv, Trusted, blocks
<1>5. KnownEverywhere(secret.private)
  BY DEF KeyInv, Trusted
<1> QED BY <1>1, <1>3, <1>4, <1>5, EditKeys

LEMMA SwitchKeys ==
  ASSUME PublishFirst, KeyInv, NEW k \in Keys, Switch(k)
  PROVE  KeyInv'
<1> DEFINE blocks == Blocks(secret) \cup {k, secret.private}
<1>1. PICK p \in {k, secret.public} :
        secret' = [private |-> k, public |-> p, publics |-> blocks]
  BY DEF Switch
<1>2. /\ secret \in Env /\ secret.private \in Keys
      /\ KnownEverywhere(k)
      /\ UNCHANGED <<local, running, env, verify, cached, live>>
  BY DEF KeyInv, TypeOK, Switch
<1>3. blocks \in SUBSET Keys
  BY <1>2, BlocksType DEF Env
<1>4. InUse \subseteq blocks /\ k \in blocks
  BY DEF KeyInv, Trusted
<1> HIDE DEF blocks
<1>5. secret' \in Env /\ secret'.private = k /\ Blocks(secret') = blocks
  BY <1>1, <1>2, <1>3 DEF Env, Blocks
<1> QED BY <1>2, <1>4, <1>5, EditKeys

LEMMA RetireKeys ==
  ASSUME KeyInv, NEW k \in Keys, Retire(k)
  PROVE  KeyInv'
<1> DEFINE blocks == (Blocks(secret) \cup {secret.private}) \ {k}
           public == IF secret.public = k THEN secret.private ELSE secret.public
<1>1. /\ secret \in Env /\ secret.private \in Keys
      /\ k # secret.private /\ k \notin InUse
      /\ secret' = [secret EXCEPT !.publics = blocks, !.public = public]
      /\ UNCHANGED <<local, running, env, verify, cached, live>>
  BY DEF KeyInv, TypeOK, Retire, InUse, Loaded
<1>2. blocks \in SUBSET Keys /\ public \in Keys \cup {None, Blank}
  BY <1>1, BlocksType DEF Env
<1>3. InUse \subseteq blocks /\ secret.private \in blocks
  BY <1>1 DEF KeyInv, Trusted
<1> HIDE DEF blocks, public
<1>4. secret' \in Env /\ secret'.private = secret.private /\ Blocks(secret') = blocks
  BY <1>1, <1>2 DEF Env, Blocks
<1>5. KnownEverywhere(secret.private)
  BY DEF KeyInv, Trusted
<1> QED BY <1>1, <1>3, <1>4, <1>5, EditKeys

LEMMA ExpireKeys ==
  ASSUME KeyInv, NEW k \in Keys, Expire(k)
  PROVE  KeyInv'
<1>1. live' = live \ {k} /\ UNCHANGED <<local, secret, running, env, verify, cached>>
  BY DEF Expire
<1>2. TypeOK'
  BY <1>1 DEF KeyInv, TypeOK
<1>3. Trusted' \subseteq Trusted
  BY <1>1 DEF Trusted, InUse, Loaded
<1>4. \A x : KnownEverywhere(x)' <=> KnownEverywhere(x)
  BY <1>1 DEF KnownEverywhere
<1> QED BY <1>1, <1>2, <1>3, <1>4 DEF KeyInv, Loaded

-----------------------------------------------------------------------------
LEMMA NextKeys == PublishFirst /\ KeyInv /\ [Next]_vars => KeyInv'
<1> SUFFICES ASSUME PublishFirst, KeyInv, [Next]_vars
             PROVE  KeyInv'
  OBVIOUS
<1>1. ASSUME NEW i \in Instances, Start(i) \/ Serve(i) \/ Stop(i) \/ CreateJWTToken(i)
      PROVE  KeyInv'
  BY <1>1, StartKeys, ServeKeys, StopKeys, CreateKeys
<1>2. ASSUME NEW c \in Consumers, Fetch(c)
      PROVE  KeyInv'
  BY <1>2, FetchKeys
<1>3. ASSUME NEW k \in Keys, Announce(k) \/ Switch(k) \/ Retire(k) \/ Expire(k)
      PROVE  KeyInv'
  BY <1>3, AnnounceKeys, SwitchKeys, RetireKeys, ExpireKeys
<1>4. CASE UNCHANGED vars
  <2>1. Trusted' = Trusted /\ \A k : KnownEverywhere(k)' <=> KnownEverywhere(k)
    BY <1>4 DEF vars, Trusted, InUse, Loaded, KnownEverywhere
  <2> QED BY <1>4, <2>1 DEF vars, KeyInv, TypeOK, Loaded
<1> QED BY <1>1, <1>2, <1>3, <1>4 DEF Next

THEOREM KeyInvHolds ==
  ASSUME PublishFirst
  PROVE  Spec => []KeyInv
<1>1. KeyInv /\ [Next]_vars => KeyInv'
  BY NextKeys
<1> QED BY <1>1, InitKeys, PTL DEF Spec

\* Every token that has not expired verifies at every instance that serves
\* and at every consumer, if a key is published before it signs (LoadEnv,
\* loadVerifyKeySetFromEnv, MultiKeyVerifier, JWKS).
THEOREM LiveTokensVerifyHolds ==
  ASSUME PublishFirst
  PROVE  Spec => []LiveTokensVerify
<1>1. KeyInv => LiveTokensVerify
  BY DEF KeyInv, Trusted, InUse, KnownEverywhere, LiveTokensVerify, Accepts
<1> QED BY <1>1, KeyInvHolds, PTL
=============================================================================
