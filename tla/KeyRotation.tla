---------------------------- MODULE KeyRotation ----------------------------
(***************************************************************************)
(* The signing keys: how an instance of the service gets them from its     *)
(* configuration (internal/util.go, main.go), which tokens it issues and   *)
(* accepts and which keys it publishes (internal/auth.go), while an        *)
(* operator replaces the signing key in the secret (README.md, "JWT key    *)
(* rotation").                                                             *)
(*                                                                         *)
(* An instance reads the secret once, when it starts, and lives with what  *)
(* it read; instances restart one by one, and other services verify tokens *)
(* with the key set they fetched last.                                     *)
(***************************************************************************)
CONSTANTS
  Keys,         \* RSA key pairs; a public key and its kid stand for the pair
  Instances,    \* processes of the service
  Consumers,    \* services that verify tokens with the published key set
  None,         \* a variable that is not set
  Blank,        \* a variable that is set to nothing
  Leftovers,    \* what a .env file or a process environment may say
  PublishFirst  \* the operator publishes a key before signing with it

ASSUME ValueAssumption ==
  /\ None \notin Keys
  /\ Blank \notin Keys
  /\ None # Blank
  /\ PublishFirst \in BOOLEAN

\* JWT_PRIVATE_KEY, JWT_PUBLIC_KEY and JWT_PUBLIC_KEYS; the last is the set of
\* its PEM blocks, empty if it is blank or holds no block, {None} if not set.
Env == [private: Keys \cup {None, Blank}, public: Keys \cup {None, Blank},
        publics: (SUBSET Keys) \cup {{None}}]

ASSUME LeftoversAssumption == Leftovers \subseteq Env

VARIABLES
  local,    \* what .env and the process environment of an instance say
  secret,   \* the secret in Secrets Manager, edited by the operator
  running,  \* each instance: "down", "loaded" or "serving"
  env,      \* its environment after LoadEnv
  verify,   \* h.verifyKeySet
  cached,   \* the key set each consumer fetched last
  live      \* keys of the tokens that have not expired

vars == <<local, secret, running, env, verify, cached, live>>

-----------------------------------------------------------------------------
(* The configuration *)

Unset == [private |-> None, public |-> None, publics |-> {None}]

\* Where the first layer sets a variable, to nothing too, it wins.
Overlay(over, under) ==
  LET Of(v) == IF over[v] = Unset[v] THEN under[v] ELSE over[v]
  IN  [private |-> Of("private"), public |-> Of("public"), publics |-> Of("publics")]

\* The process environment wins over .env.
Local(process, dotenv) == Overlay(process, dotenv)

\* The secret wins over both.
LoadEnv(l, s) == Overlay(s, l)

Blocks(e) == e.publics \ {None}

\* Mutant: a blank JWT_PUBLIC_KEY is not skipped.
ListedBlank(e) == Blocks(e) \cup ({e.public} \ {None})

\* The keys of JWT_PUBLIC_KEYS and JWT_PUBLIC_KEY; blanks are skipped.
Listed(e) == Blocks(e) \cup ({e.public} \cap Keys)

\* Mutant: JWT_PUBLIC_KEYS is only read when JWT_PUBLIC_KEY is not set.
LoadVerifyKeySetEither(e) ==
  IF e.public \in Keys THEN {e.public}
  ELSE IF Blocks(e) # {} THEN Blocks(e) ELSE {e.private} \cap Keys

\* The listed keys, or the public half of the signing key if none is listed;
\* the empty set is an error.
LoadVerifyKeySet(e) ==
  IF Listed(e) # {} THEN Listed(e) ELSE {e.private} \cap Keys

-----------------------------------------------------------------------------
(* An instance *)

\* The process starts and reads its configuration.
Start(i) ==
  /\ running[i] = "down"
  /\ running' = [running EXCEPT ![i] = "loaded"]
  /\ env' = [env EXCEPT ![i] = LoadEnv(local[i], secret)]
  /\ UNCHANGED <<local, secret, verify, cached, live>>

\* It has opened its tables and serves; without a signing key, or without a
\* key to verify with, it stops (log.Fatalf).
Serve(i) ==
  /\ running[i] = "loaded"
  /\ env[i].private \in Keys
  /\ LoadVerifyKeySet(env[i]) # {}
  /\ running' = [running EXCEPT ![i] = "serving"]
  /\ verify' = [verify EXCEPT ![i] = LoadVerifyKeySet(env[i])]
  /\ UNCHANGED <<local, secret, env, cached, live>>

Stop(i) ==
  /\ running[i] # "down"
  /\ running' = [running EXCEPT ![i] = "down"]
  /\ env' = [env EXCEPT ![i] = local[i]]
  /\ verify' = [verify EXCEPT ![i] = {}]
  /\ UNCHANGED <<local, secret, cached, live>>

\* The login signs with JWT_PRIVATE_KEY of the environment.
CreateJWTToken(i) ==
  /\ running[i] = "serving"
  /\ live' = live \cup {env[i].private}
  /\ UNCHANGED <<local, secret, running, env, verify, cached>>

\* The published set is loaded anew from the environment of the process.
JWKS(i) == LoadVerifyKeySet(env[i])

\* A signature verifies if the set holds the key with the kid of its header.
Accepts(i, k) == k \in verify[i]

-----------------------------------------------------------------------------
(* The other services, the operator and the time *)

\* A consumer fetches the key set from whichever instance answers.
Fetch(c) ==
  \E i \in Instances :
    /\ running[i] = "serving"
    /\ cached' = [cached EXCEPT ![c] = JWKS(i)]
    /\ UNCHANGED <<local, secret, running, env, verify, live>>

\* The operator lists a new public key beside those in use.
Announce(k) ==
  /\ secret' = [secret EXCEPT !.publics = Blocks(secret) \cup {k, secret.private}]
  /\ UNCHANGED <<local, running, env, verify, cached, live>>

\* Everybody who may be asked about a token knows the key.
KnownEverywhere(k) ==
  /\ \A i \in Instances : running[i] # "down" => k \in LoadVerifyKeySet(env[i])
  /\ \A c \in Consumers : k \in cached[c]

\* "Put both public keys in the secret [...].  Sign with the current private
\* key": the operator makes k the current key, and maybe JWT_PUBLIC_KEY.
Switch(k) ==
  /\ PublishFirst => KnownEverywhere(k)
  /\ \E p \in {k, secret.public} :
       secret' = [private |-> k, public |-> p,
                  publics |-> Blocks(secret) \cup {k, secret.private}]
  /\ UNCHANGED <<local, running, env, verify, cached, live>>

\* A previous key is taken out once nobody signs with it and its tokens have
\* expired.
Retire(k) ==
  /\ k \in Listed(secret) \ ({secret.private} \cup live)
  /\ \A i \in Instances : running[i] # "down" => env[i].private # k
  /\ secret' = [secret EXCEPT !.publics = (Blocks(secret) \cup {secret.private}) \ {k},
                              !.public = IF @ = k THEN secret.private ELSE @]
  /\ UNCHANGED <<local, running, env, verify, cached, live>>

\* The last token signed with k expires.
Expire(k) ==
  /\ k \in live
  /\ live' = live \ {k}
  /\ UNCHANGED <<local, secret, running, env, verify, cached>>

-----------------------------------------------------------------------------
\* The service is deployed with one key, which the secret names, and accepts
\* its own tokens; what else is configured locally is left over.
Init ==
  /\ \E process, dotenv \in [Instances -> Leftovers] :
       local = [i \in Instances |-> Local(process[i], dotenv[i])]
  /\ secret \in Env /\ secret.private \in Keys
  /\ \A i \in Instances : secret.private \in LoadVerifyKeySet(LoadEnv(local[i], secret))
  /\ running = [i \in Instances |-> "down"]
  /\ env = local
  /\ verify = [i \in Instances |-> {}]
  /\ cached = [c \in Consumers |-> {secret.private}]
  /\ live = {}

Next ==
  \/ \E i \in Instances : Start(i) \/ Serve(i) \/ Stop(i) \/ CreateJWTToken(i)
  \/ \E c \in Consumers : Fetch(c)
  \/ \E k \in Keys : Announce(k) \/ Switch(k) \/ Retire(k) \/ Expire(k)

Spec == Init /\ [][Next]_vars
-----------------------------------------------------------------------------
(* Properties *)

\* Every variable has its type.
TypeOK ==
  /\ local \in [Instances -> Env]
  /\ secret \in Env
  /\ running \in [Instances -> {"down", "loaded", "serving"}]
  /\ env \in [Instances -> Env]
  /\ verify \in [Instances -> SUBSET Keys]
  /\ cached \in [Consumers -> SUBSET Keys]
  /\ live \subseteq Keys

\* A token that has not expired verifies at every instance and at every
\* consumer, whichever key signed it and whichever of them has restarted or
\* fetched the keys since ("tokens signed with either private key still
\* verify", README.md).
LiveTokensVerify ==
  \A k \in live :
    /\ \A i \in Instances : running[i] = "serving" => Accepts(i, k)
    /\ \A c \in Consumers : k \in cached[c]

\* An instance accepts the tokens it signs itself, whichever of its layers of
\* configuration each variable came from, whenever it read the secret and even
\* if a key signs before it is published; and so no start is refused for want
\* of a key (LoadEnv, loadVerifyKeySetFromEnv).
OwnTokensVerify ==
  \A i \in Instances :
    /\ running[i] # "down" => env[i].private \in LoadVerifyKeySet(env[i])
    /\ running[i] = "serving" => Accepts(i, env[i].private)
=============================================================================
