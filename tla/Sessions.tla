------------------------------ MODULE Sessions ------------------------------
(***************************************************************************)
(* What follows a successful login: the JWT and its two cookies, the       *)
(* middleware chain of the protected routes, the rotating CSRF secret that *)
(* is bound to the session, and logout with its revocation record          *)
(* (internal/auth.go, routes.go, the CSRF and revocation repositories).    *)
(*                                                                         *)
(* A request is a worker that makes one repository call at a time; its     *)
(* response is on the way until it is delivered, and responses of one      *)
(* browser may overtake each other.  A middleware that turns a request     *)
(* away without touching any state just ends it.                           *)
(***************************************************************************)
EXTENDS Integers, FiniteSets

CONSTANTS
  Jtis,          \* session ids, one fresh id per JWT
  Browsers,      \* cookie jars
  Workers,       \* request goroutines that run at the same time
  None,          \* no row, no session, no request; the jar of a Bearer client
  JWTExpiry,     \* JWT_EXPIRY_HOURS
  RevocationTTL, \* how long Logout keeps a revocation (24 hours)
  CsrfCookieTTL, \* Max-Age of the csrf_token cookie (24 hours)
  DynamoDB,      \* rows vanish after their TTL, reads do not check it and may lag
  Parallel,      \* a browser sends requests while others are on the way
  Faults,        \* repository errors, lost responses and crashes happen
  MaxTime,       \* bound: the clock stops here
  MaxRequests    \* bound: requests accepted in a behaviour

ASSUME DurationAssumption ==
  /\ JWTExpiry \in Nat \ {0}
  /\ RevocationTTL \in Nat \ {0}
  /\ CsrfCookieTTL \in Nat \ {0}
  /\ MaxTime \in Nat
  /\ MaxRequests \in Nat

ASSUME SwitchAssumption == {DynamoDB, Parallel, Faults} \subseteq BOOLEAN

ASSUME NoneAssumption == None \notin Jtis \cup Browsers

VARIABLES
  now,       \* time.Now()
  expiry,    \* exp claim of each JWT; 0: not issued
  csrf,      \* the SessionCSRF table
  revoked,   \* expires_at in the RevokedTokens table
  replica,   \* the rows of both tables a lagging read returns (DynamoDB)
  jar,       \* auth_token and csrf_token of each browser
  req,       \* the request each worker is in the middle of
  drawn,     \* CSRF secrets drawn; the n-th secret is n, 0 is none
  started,   \* requests accepted so far
  \* What the service has done, for the properties only:
  recorded,  \* sessions whose revocation was stored
  ending,    \* sessions a logout was accepted for
  acked      \* sessions whose logout was answered 200

vars == <<now, expiry, csrf, revoked, replica, jar, req, drawn, started,
          recorded, ending, acked>>

tables  == <<csrf, revoked, replica>>
history == <<recorded, ending, acked>>

-----------------------------------------------------------------------------
CsrfRow == [secret: Nat, until: Nat]
Jar     == [auth: Jtis \cup {None}, authUntil: Nat, csrf: Nat, csrfUntil: Nat]
Places  == {"loginPut", "checkRevoked", "csrfGet", "csrfPut",
            "logoutDelete", "logoutRevoke", "respond"}
Kinds   == {"login", "call", "logout", "verify"}

\* A request: cookie is the csrf_token it carried, secret the one its response
\* sets, until the expiry of the CSRF row it read, and late tells that its
\* session had been revoked before it was sent.
Request == [at: Places, kind: Kinds, from: Browsers \cup {None}, jti: Jtis,
            cookie: Nat, secret: Nat, until: Nat, late: BOOLEAN]

ASSUME NoneIsNoRecord == None \notin CsrfRow \cup Request \cup Nat

EmptyJar == [auth |-> None, authUntil |-> 0, csrf |-> 0, csrfUntil |-> 0]

Init ==
  /\ now = 1
  /\ expiry = [j \in Jtis |-> 0]
  /\ csrf = [j \in Jtis |-> None]
  /\ revoked = [j \in Jtis |-> None]
  /\ replica = [j \in Jtis |-> [csrf |-> None, revoked |-> None]]
  /\ jar = [b \in Browsers |-> EmptyJar]
  /\ req = [w \in Workers |-> None]
  /\ drawn = 0
  /\ started = 0
  /\ recorded = {}
  /\ ending = {}
  /\ acked = {}

At(w, place) == req[w] # None /\ req[w].at = place

OnTheWay(b) == \E w \in Workers : req[w] # None /\ req[w].from = b

\* A browser that is not parallel waits for its last response.
MaySend(b) == Parallel \/ b = None \/ ~OnTheWay(b)

Begin(w, place, kind, b, j, cookie) ==
  /\ req[w] = None
  /\ MaySend(b)
  /\ started < MaxRequests
  /\ started' = started + 1
  /\ req' = [req EXCEPT ![w] =
       [at |-> place, kind |-> kind, from |-> b, jti |-> j, cookie |-> cookie,
        secret |-> 0, until |-> 0, late |-> j \in recorded]]

Continue(w, place, secret, until) ==
  /\ req' = [req EXCEPT ![w] =
               [@ EXCEPT !.at = place, !.secret = secret, !.until = until]]
  /\ UNCHANGED started

Return(w) == req' = [req EXCEPT ![w] = None] /\ UNCHANGED started

-----------------------------------------------------------------------------
(* The CSRF and the revocation repository *)

\* SQL backends treat an expired row as absent; DynamoDB leaves that to its
\* sweeper, and a read without ConsistentRead may see an earlier row.
Present(row) ==
  IF row # None /\ (DynamoDB \/ now <= row.until) THEN row ELSE None

\* The rows one read of j may return.
CsrfGetRow(j) ==
  {Present(row) : row \in {csrf[j]} \cup (IF DynamoDB THEN {replica[j].csrf} ELSE {})}

CsrfPutRow(j, secret, until) ==
  csrf' = [csrf EXCEPT ![j] = [secret |-> secret, until |-> until]]

\* A revocation row that a read at this moment reports as a revocation.
InForce(until) == until # None /\ (DynamoDB \/ now <= until)

\* The answers one read of j's revocation may give.
IsTokenRevoked(j) ==
  {InForce(until) :
     until \in {revoked[j]} \cup (IF DynamoDB THEN {replica[j].revoked} ELSE {})}

Replicate ==
  /\ DynamoDB
  /\ \E j \in Jtis :
       \/ replica' = [replica EXCEPT ![j] = [@ EXCEPT !.csrf = csrf[j]]]
       \/ replica' = [replica EXCEPT ![j] = [@ EXCEPT !.revoked = revoked[j]]]
  /\ UNCHANGED <<now, expiry, csrf, revoked, jar, req, drawn, started, history>>

\* DynamoDB deletes a row some time after its TTL has passed.
Sweep ==
  /\ DynamoDB
  /\ \E j \in Jtis :
       \/ /\ csrf[j] # None
          /\ now > csrf[j].until
          /\ csrf' = [csrf EXCEPT ![j] = None]
          /\ UNCHANGED revoked
       \/ /\ revoked[j] # None
          /\ now > revoked[j]
          /\ revoked' = [revoked EXCEPT ![j] = None]
          /\ UNCHANGED csrf
  /\ UNCHANGED <<now, expiry, replica, jar, req, drawn, started, history>>

-----------------------------------------------------------------------------
(* Login, from the JWT on *)

Login(w) ==
  \E b \in Browsers, j \in Jtis :
    /\ expiry[j] = 0
    /\ Begin(w, "loginPut", "login", b, j, 0)
    /\ expiry' = [expiry EXCEPT ![j] = now + JWTExpiry]
    /\ UNCHANGED <<now, tables, jar, drawn, history>>

\* The auth cookie is part of the response whether or not the CSRF row is
\* stored; the CSRF cookie only if it is.
LoginPut(w) ==
  LET j == req[w].jti IN
  /\ At(w, "loginPut")
  /\ drawn' = drawn + 1
  /\ \/ /\ CsrfPutRow(j, drawn + 1, expiry[j])
        /\ Continue(w, "respond", drawn + 1, 0)
     \/ /\ Faults
        /\ CsrfPutRow(j, drawn + 1, expiry[j]) \/ UNCHANGED csrf
        /\ Continue(w, "respond", 0, 0)
  /\ UNCHANGED <<now, expiry, revoked, replica, jar, history>>

-----------------------------------------------------------------------------
(* The middleware chain of the protected routes *)

\* CookieTokenExtractor and MultiKeyVerifier for a browser: the token of its
\* auth cookie has not expired.  The script of the page copies the csrf_token
\* cookie into X-CSRF-Token.
SendFromBrowser(w) ==
  \E b \in Browsers, kind \in {"call", "logout"} :
    /\ jar[b].auth # None
    /\ now < jar[b].authUntil
    /\ now < expiry[jar[b].auth]
    /\ Begin(w, "checkRevoked", kind, b, jar[b].auth,
             IF now < jar[b].csrfUntil THEN jar[b].csrf ELSE 0)
    /\ UNCHANGED <<now, expiry, tables, jar, drawn, history>>

\* Nobody has the token of j before the response of its login.
Answered(j) ==
  \A v \in Workers : ~(req[v] # None /\ req[v].kind = "login" /\ req[v].jti = j)

\* The same for a client that sends Authorization: Bearer and no cookie.
SendBearer(w) ==
  \E j \in Jtis, kind \in {"call", "logout"} :
    /\ now < expiry[j] /\ Answered(j)
    /\ Begin(w, "checkRevoked", kind, None, j, 0)
    /\ UNCHANGED <<now, expiry, tables, jar, drawn, history>>

\* VerifyToken, for another service: no middleware, the same checks.
VerifyToken(w) ==
  \E j \in Jtis :
    /\ now < expiry[j] /\ Answered(j)
    /\ Begin(w, "checkRevoked", "verify", None, j, 0)
    /\ UNCHANGED <<now, expiry, tables, jar, drawn, history>>

\* CheckRevocation, for another service that verified the JWT: the answer
\* depends on the id alone.
CheckRevocation(w) ==
  \E j \in Jtis :
    /\ expiry[j] # 0 /\ Answered(j)
    /\ Begin(w, "checkRevoked", "verify", None, j, 0)
    /\ UNCHANGED <<now, expiry, tables, jar, drawn, history>>

\* Where an accepted request goes: the handler of its route.
Handler(kind) == IF kind = "logout" THEN "logoutDelete" ELSE "respond"

\* What the rest of the chain does before its next repository call:
\* jwtauth.Authenticator validates the token again, CSRFProtector passes a
\* request that carries no auth cookie.
Authenticated(w) ==
  LET r == req[w] IN
  IF r.kind # "verify" /\ now >= expiry[r.jti] THEN Return(w)
  ELSE Continue(w, IF r.from = None THEN Handler(r.kind) ELSE "csrfGet", 0, 0)

\* Mutant: a session whose revocation cannot be read is let through.
CheckRevokedFailsOpen(w) ==
  /\ At(w, "checkRevoked")
  /\ \/ TRUE \in IsTokenRevoked(req[w].jti) /\ Return(w)
     \/ (Faults \/ FALSE \in IsTokenRevoked(req[w].jti)) /\ Authenticated(w)
  /\ UNCHANGED <<now, expiry, tables, jar, drawn, history>>

\* TokenRevocationChecker, and the same test in VerifyToken and CheckRevocation.
CheckRevoked(w) ==
  /\ At(w, "checkRevoked")
  /\ \E isRevoked \in IsTokenRevoked(req[w].jti) :
       IF isRevoked THEN Return(w) ELSE Authenticated(w)
  /\ UNCHANGED <<now, expiry, tables, jar, drawn, history>>

\* The csrf_token cookie, and the header made from it, equals the stored secret.
Matches(r, row) == row # None /\ r.cookie = row.secret

\* Mutant: the expiry of the row is forgotten.
CsrfGetNoExpiry(w) ==
  /\ At(w, "csrfGet")
  /\ \E row \in CsrfGetRow(req[w].jti) :
       Matches(req[w], row) /\ Continue(w, "csrfPut", 0, 0)
  /\ UNCHANGED <<now, expiry, tables, jar, drawn, history>>

\* CSRFProtector compares cookie, header and server row, ...
CsrfGet(w) ==
  /\ At(w, "csrfGet")
  /\ \E row \in CsrfGetRow(req[w].jti) :
       Matches(req[w], row) /\ Continue(w, "csrfPut", 0, row.until)
  /\ UNCHANGED <<now, expiry, tables, jar, drawn, history>>

\* ... and refuses a request without a matching secret.
CsrfRefuse(w) ==
  /\ At(w, "csrfGet")
  /\ \E row \in CsrfGetRow(req[w].jti) : ~Matches(req[w], row)
  /\ Return(w)
  /\ UNCHANGED <<now, expiry, tables, jar, drawn, history>>

\* Mutant: the rotated secret is stored and not set in the response.
CsrfPutSilently(w) ==
  LET r == req[w] IN
  /\ At(w, "csrfPut")
  /\ drawn' = drawn + 1
  /\ CsrfPutRow(r.jti, drawn + 1, r.until)
  /\ Continue(w, Handler(r.kind), 0, 0)
  /\ UNCHANGED <<now, expiry, revoked, replica, jar, history>>

\* Mutant: rotation grants the row a fresh lifetime.
CsrfPutSliding(w) ==
  LET r == req[w] IN
  /\ At(w, "csrfPut")
  /\ drawn' = drawn + 1
  /\ CsrfPutRow(r.jti, drawn + 1, now + CsrfCookieTTL)
  /\ Continue(w, Handler(r.kind), drawn + 1, 0)
  /\ UNCHANGED <<now, expiry, revoked, replica, jar, history>>

\* ... and in a second call stores the next secret, whatever the row is by
\* then (an upsert), before the handler runs.
CsrfPut(w) ==
  LET r == req[w] IN
  /\ At(w, "csrfPut")
  /\ drawn' = drawn + 1
  /\ \/ /\ CsrfPutRow(r.jti, drawn + 1, r.until)
        /\ Continue(w, Handler(r.kind), drawn + 1, 0)
     \/ /\ Faults
        /\ CsrfPutRow(r.jti, drawn + 1, r.until) \/ UNCHANGED csrf
        /\ Return(w)
  /\ UNCHANGED <<now, expiry, revoked, replica, jar, history>>

-----------------------------------------------------------------------------
(* Logout *)

LogoutDelete(w) ==
  /\ At(w, "logoutDelete")
  /\ \/ csrf' = [csrf EXCEPT ![req[w].jti] = None]
     \/ Faults /\ UNCHANGED csrf
  /\ Continue(w, "logoutRevoke", 0, 0)
  /\ ending' = ending \cup {req[w].jti}
  /\ UNCHANGED <<now, expiry, revoked, replica, jar, drawn, recorded, acked>>

\* Mutant: the revocation expires at once.
LogoutRevokeBriefly(w) ==
  LET j == req[w].jti IN
  /\ At(w, "logoutRevoke")
  /\ revoked' = [revoked EXCEPT ![j] = now]
  /\ recorded' = recorded \cup {j}
  /\ Continue(w, "respond", 0, 0)
  /\ acked' = acked \cup {j}
  /\ UNCHANGED <<now, expiry, csrf, replica, jar, drawn, ending>>

\* The exp claim is never read back as a float64, so the record always gets
\* the default lifetime; an error is logged and the answer is 200 all the same.
LogoutRevoke(w) ==
  LET j == req[w].jti
      store == revoked' = [revoked EXCEPT ![j] = now + RevocationTTL]
  IN
  /\ At(w, "logoutRevoke")
  /\ \/ store /\ recorded' = recorded \cup {j}
     \/ Faults /\ UNCHANGED recorded /\ (store \/ UNCHANGED revoked)
  /\ Continue(w, "respond", 0, 0)
  /\ acked' = acked \cup {j}
  /\ UNCHANGED <<now, expiry, csrf, replica, jar, drawn, ending>>

-----------------------------------------------------------------------------
(* Responses and the environment *)

\* The cookies a browser holds after response r.
Received(b, r) ==
  CASE r.kind = "logout" -> EmptyJar
    [] r.kind = "login"  ->
         [jar[b] EXCEPT !.auth = r.jti, !.authUntil = now + JWTExpiry,
                        !.csrf = IF r.secret = 0 THEN @ ELSE r.secret,
                        !.csrfUntil = IF r.secret = 0 THEN @ ELSE now + CsrfCookieTTL]
    [] OTHER ->
         [jar[b] EXCEPT !.csrf = r.secret, !.csrfUntil = now + CsrfCookieTTL]

Respond(w) ==
  LET b == req[w].from IN
  /\ At(w, "respond")
  /\ Return(w)
  /\ jar' = IF b = None THEN jar ELSE [jar EXCEPT ![b] = Received(b, req[w])]
  /\ UNCHANGED <<now, expiry, tables, drawn, history>>

\* A repository read fails, the request times out or its response is lost.
RequestFails(w) ==
  /\ Faults
  /\ req[w] # None
  /\ req[w].at \in {"checkRevoked", "csrfGet", "respond"}
  /\ Return(w)
  /\ UNCHANGED <<now, expiry, tables, jar, drawn, history>>

Crash ==
  /\ Faults
  /\ req' = [w \in Workers |-> None]
  /\ UNCHANGED <<now, expiry, tables, jar, drawn, started, history>>

Tick ==
  /\ now < MaxTime
  /\ now' = now + 1
  /\ UNCHANGED <<expiry, tables, jar, req, drawn, started, history>>

\* The steps of a request that was accepted.
Step(w) ==
  \/ LoginPut(w) \/ CheckRevoked(w) \/ CsrfGet(w) \/ CsrfRefuse(w) \/ CsrfPut(w)
  \/ LogoutDelete(w) \/ LogoutRevoke(w) \/ Respond(w)

Next ==
  \/ \E w \in Workers :
       \/ Login(w) \/ SendFromBrowser(w) \/ SendBearer(w)
       \/ VerifyToken(w) \/ CheckRevocation(w)
       \/ Step(w) \/ RequestFails(w)
  \/ Replicate \/ Sweep \/ Crash \/ Tick

Spec == Init /\ [][Next]_vars

\* Handlers run to completion: the Go scheduler is fair to goroutines.
FairSpec == Spec /\ \A w \in Workers : WF_vars(Step(w))
-----------------------------------------------------------------------------
(* Properties *)

\* Every variable has its type, and a request about to rotate the secret
\* carries the expiry of the row it read.
TypeOK ==
  /\ now \in Nat
  /\ expiry \in [Jtis -> Nat]
  /\ csrf \in [Jtis -> CsrfRow \cup {None}]
  /\ revoked \in [Jtis -> Nat \cup {None}]
  /\ replica \in [Jtis -> [csrf: CsrfRow \cup {None}, revoked: Nat \cup {None}]]
  /\ jar \in [Browsers -> Jar]
  /\ req \in [Workers -> Request \cup {None}]
  /\ drawn \in Nat
  /\ started \in Nat
  /\ recorded \subseteq Jtis
  /\ ending \subseteq Jtis
  /\ acked \subseteq Jtis
  /\ \A w \in Workers : At(w, "csrfPut") => req[w].until # 0

\* What ties requests and CSRF rows to their session: it was issued, and the
\* expiry of the row, stored, lagging or in flight, is the token's.
RowOfSession(row, j) == row # None => row.until = expiry[j] /\ expiry[j] # 0

RequestOfSession(r) ==
  r # None =>
    /\ expiry[r.jti] # 0
    /\ r.at = "csrfPut" => r.until = expiry[r.jti]
    /\ r.late => r.jti \in recorded

SessionInv ==
  /\ \A j \in Jtis : RowOfSession(csrf[j], j) /\ RowOfSession(replica[j].csrf, j)
  /\ \A w \in Workers : RequestOfSession(req[w])
  /\ \A j \in recorded : expiry[j] # 0

\* However often it is rotated, by whichever of several requests, the CSRF row
\* of a session expires with the session's token (Login, CSRFProtector).
CsrfRowExpiresWithToken ==
  \A j \in Jtis : csrf[j] # None => csrf[j].until = expiry[j]

\* Once a logout has stored its revocation, the stored row is in force for as
\* long as the token would be valid otherwise (Logout).  Holds if tokens live
\* no longer than RevocationTTL.
RevocationOutlivesToken ==
  \A j \in recorded : now < expiry[j] => InForce(revoked[j])

\* Its inductive form.
RevocationInv ==
  /\ \A j \in Jtis : expiry[j] <= now + JWTExpiry
  /\ \A j \in recorded :
       now < expiry[j] => revoked[j] # None /\ expiry[j] <= revoked[j]

\* A request sent after its session was revoked never passes the revocation
\* check while the token is valid, whatever logouts, sweeps and CSRF writes
\* run beside it (TokenRevocationChecker fails closed).
NoAcceptAfterLogout ==
  \A w \in Workers :
    req[w] # None /\ req[w].late /\ now < expiry[req[w].jti]
      => req[w].at = "checkRevoked"

\* A browser with a live session and nothing on the way holds the secret the
\* server stored: its next request, a logout included, passes CSRFProtector.
Live(j) == j # None /\ j \notin ending /\ now < expiry[j]

InSync ==
  \A b \in Browsers : LET held == jar[b] IN
    Live(held.auth) /\ now < held.authUntil /\ ~OnTheWay(b) =>
      /\ Present(csrf[held.auth]) # None
      /\ now < held.csrfUntil
      /\ held.csrf = csrf[held.auth].secret

\* A logout that was answered 200 has revoked the token (Logout).
AckedLogoutRevoked == acked \subseteq recorded

\* A logout a client sends is carried through: the session is revoked or its
\* token expires (CSRFProtector, Logout).
LogoutCompletes ==
  \A w \in Workers, j \in Jtis :
    (req[w] # None /\ req[w].kind = "logout" /\ req[w].jti = j)
      ~> (j \in recorded \/ now >= expiry[j])
=============================================================================
