--------------------------- MODULE SessionsProofs ---------------------------
(***************************************************************************)
(* Theorems about Sessions for every number of sessions, browsers and      *)
(* workers: types, the life of the CSRF row and of the revocation row,     *)
(* that a revoked session stays revoked, and that a browser that waits for *)
(* its responses stays in sync with the server's CSRF secret.              *)
(***************************************************************************)
EXTENDS Sessions, TLAPS

-----------------------------------------------------------------------------
(* What a step does to the requests *)

LEMMA RequestIsNotNone == \A r \in Request : r # None
BY NoneIsNoRecord

LEMMA RowIsNotNone == \A row \in CsrfRow : row # None
BY NoneIsNoRecord

\* A worker takes a request up.
LEMMA BeginShape ==
  ASSUME TypeOK, NEW w \in Workers, NEW place \in Places \ {"csrfPut"},
         NEW kind \in Kinds, NEW b \in Browsers \cup {None}, NEW j \in Jtis,
         NEW cookie \in Nat, Begin(w, place, kind, b, j, cookie)
  PROVE  /\ req' \in [Workers -> Request \cup {None}]
         /\ started' \in Nat
         /\ req'[w] # None /\ req'[w].at = place /\ req'[w].jti = j
         /\ req'[w].late = (j \in recorded)
         /\ \A v \in Workers \ {w} : req'[v] = req[v]
<1> DEFINE r == [at |-> place, kind |-> kind, from |-> b, jti |-> j,
                 cookie |-> cookie, secret |-> 0, until |-> 0,
                 late |-> j \in recorded]
<1>1. r \in Request
  BY DEF Request
<1>2. r.at = place /\ r.jti = j /\ r.late = (j \in recorded)
  OBVIOUS
<1>3. req' = [req EXCEPT ![w] = r] /\ started' = started + 1
  BY DEF Begin
<1> HIDE DEF r
<1>4. req'[w] = r /\ \A v \in Workers \ {w} : req'[v] = req[v]
  BY <1>3 DEF TypeOK
<1>5. req' \in [Workers -> Request \cup {None}] /\ started' \in Nat
  BY <1>1, <1>3 DEF TypeOK
<1>6. r # None
  BY <1>1, RequestIsNotNone
<1> QED
  BY <1>2, <1>4, <1>5, <1>6

\* A request goes on to its next place.
LEMMA ContinueShape ==
  ASSUME TypeOK, NEW w \in Workers, req[w] # None, NEW place \in Places,
         NEW secret \in Nat, NEW until \in Nat, Continue(w, place, secret, until)
  PROVE  /\ req' \in [Workers -> Request \cup {None}]
         /\ started' \in Nat
         /\ req'[w] # None /\ req'[w].at = place /\ req'[w].until = until
         /\ req'[w].jti = req[w].jti /\ req'[w].late = req[w].late
         /\ \A v \in Workers \ {w} : req'[v] = req[v]
<1> DEFINE r == [req[w] EXCEPT !.at = place, !.secret = secret, !.until = until]
<1>0. req[w] \in Request
  BY DEF TypeOK
<1>1. r \in Request
  BY <1>0 DEF Request
<1>2. r.at = place /\ r.until = until /\ r.jti = req[w].jti /\ r.late = req[w].late
  BY <1>0 DEF Request
<1>3. req' = [req EXCEPT ![w] = r] /\ started' = started
  BY DEF Continue
<1> HIDE DEF r
<1>4. req'[w] = r /\ \A v \in Workers \ {w} : req'[v] = req[v]
  BY <1>3 DEF TypeOK
<1>5. req' \in [Workers -> Request \cup {None}] /\ started' \in Nat
  BY <1>1, <1>3 DEF TypeOK
<1>6. r # None
  BY <1>1, RequestIsNotNone
<1> QED
  BY <1>2, <1>4, <1>5, <1>6

\* A request ends.
LEMMA ReturnShape ==
  ASSUME TypeOK, NEW w \in Workers, Return(w)
  PROVE  /\ req' \in [Workers -> Request \cup {None}]
         /\ started' \in Nat
         /\ req'[w] = None
         /\ \A v \in Workers \ {w} : req'[v] = req[v]
BY DEF TypeOK, Return

-----------------------------------------------------------------------------
(* Types and sessions *)

\* What TypeOK and SessionInv say of the requests alone.
RequestsOK ==
  /\ req \in [Workers -> Request \cup {None}]
  /\ started \in Nat
  /\ \A w \in Workers : RequestOfSession(req[w])
  /\ \A w \in Workers : At(w, "csrfPut") => req[w].until # 0

\* The requests a step leaves alone stay right while sessions keep their
\* expiry and revocations are not forgotten.
LEMMA OtherRequests ==
  ASSUME TypeOK, SessionInv, NEW w \in Workers,
         req' \in [Workers -> Request \cup {None}], started' \in Nat,
         \A v \in Workers \ {w} : req'[v] = req[v],
         \A j \in Jtis : expiry[j] # 0 => expiry'[j] = expiry[j],
         recorded \subseteq recorded',
         RequestOfSession(req[w])', At(w, "csrfPut")' => req'[w].until # 0
  PROVE  RequestsOK'
<1>1. ASSUME NEW v \in Workers \ {w}
      PROVE  RequestOfSession(req[v])' /\ (At(v, "csrfPut")' => req'[v].until # 0)
  <2>1. req'[v] = req[v] /\ RequestOfSession(req[v])
    BY <1>1 DEF SessionInv
  <2>2. At(v, "csrfPut") => req[v].until # 0
    BY <1>1 DEF TypeOK
  <2>3. req[v] # None => req[v].jti \in Jtis
    BY <1>1 DEF TypeOK, Request
  <2> QED
    BY <2>1, <2>2, <2>3 DEF RequestOfSession, At
<1>2. \A v \in Workers : RequestOfSession(req[v])'
  BY <1>1
<1>3. \A v \in Workers : (At(v, "csrfPut") => req[v].until # 0)'
  BY <1>1
<1> QED
  BY <1>2, <1>3 DEF RequestsOK

LEMMA BeginKeeps ==
  ASSUME TypeOK, SessionInv, NEW w \in Workers, NEW place \in Places \ {"csrfPut"},
         NEW kind \in Kinds, NEW b \in Browsers \cup {None}, NEW j \in Jtis,
         NEW cookie \in Nat, Begin(w, place, kind, b, j, cookie),
         expiry'[j] # 0, recorded' = recorded,
         \A i \in Jtis : expiry[i] # 0 => expiry'[i] = expiry[i]
  PROVE  RequestsOK'
<1>0. /\ req'[w].at = place /\ req'[w].jti = j
      /\ req'[w].late = (j \in recorded)
  BY BeginShape
<1>1. RequestOfSession(req[w])'
  BY <1>0 DEF RequestOfSession
<1>2. ~At(w, "csrfPut")'
  BY <1>0 DEF At
<1> QED
  BY <1>1, <1>2, BeginShape, OtherRequests

LEMMA ContinueKeeps ==
  ASSUME TypeOK, SessionInv, NEW w \in Workers, req[w] # None, NEW place \in Places,
         NEW secret \in Nat, NEW until \in Nat, Continue(w, place, secret, until),
         place = "csrfPut" => until = expiry[req[w].jti],
         expiry' = expiry, recorded \subseteq recorded'
  PROVE  RequestsOK'
<1>1. RequestOfSession(req[w])
  BY DEF SessionInv
<1>2. RequestOfSession(req[w])'
  BY <1>1, ContinueShape DEF RequestOfSession
<1>3. At(w, "csrfPut")' => req'[w].until # 0
  BY <1>1, ContinueShape DEF RequestOfSession, At
<1> QED
  BY <1>2, <1>3, ContinueShape, OtherRequests

LEMMA ReturnKeeps ==
  ASSUME TypeOK, SessionInv, NEW w \in Workers, Return(w),
         expiry' = expiry, recorded \subseteq recorded'
  PROVE  RequestsOK'
<1>1. RequestOfSession(req[w])' /\ ~At(w, "csrfPut")'
  BY ReturnShape DEF RequestOfSession, At
<1> QED
  BY <1>1, ReturnShape, OtherRequests

\* A step that changes nothing but requests.
LEMMA OnlyRequests ==
  ASSUME TypeOK, SessionInv, RequestsOK',
         UNCHANGED <<now, expiry, tables, jar, drawn, history>>
  PROVE  TypeOK' /\ SessionInv'
BY DEF TypeOK, SessionInv, RequestsOK, RowOfSession, tables, history

\* A CSRF row that is written for a session with its token's expiry.
LEMMA PutKeeps ==
  ASSUME TypeOK, SessionInv, NEW j \in Jtis, expiry[j] # 0, expiry' = expiry,
         CsrfPutRow(j, drawn + 1, expiry[j])
  PROVE  /\ csrf' \in [Jtis -> CsrfRow \cup {None}]
         /\ \A i \in Jtis : RowOfSession(csrf[i], i)'
<1> DEFINE row == [secret |-> drawn + 1, until |-> expiry[j]]
<1>1. row \in CsrfRow /\ row.until = expiry[j]
  BY DEF TypeOK, CsrfRow
<1>2. csrf' = [csrf EXCEPT ![j] = row]
  BY DEF CsrfPutRow
<1> HIDE DEF row
<1> QED
  BY <1>1, <1>2 DEF TypeOK, SessionInv, RowOfSession

LEMMA LoginKeeps ==
  ASSUME TypeOK, SessionInv, NEW w \in Workers, Login(w)
  PROVE  TypeOK' /\ SessionInv'
<1>1. PICK b \in Browsers, j \in Jtis :
        /\ expiry[j] = 0
        /\ Begin(w, "loginPut", "login", b, j, 0)
        /\ expiry' = [expiry EXCEPT ![j] = now + JWTExpiry]
        /\ UNCHANGED <<now, tables, jar, drawn, history>>
  BY DEF Login
<1>2. /\ expiry' \in [Jtis -> Nat]
      /\ expiry'[j] # 0
      /\ \A i \in Jtis : expiry[i] # 0 => expiry'[i] = expiry[i]
  BY <1>1, DurationAssumption DEF TypeOK
<1>3. RequestsOK'
  BY <1>1, <1>2, BeginKeeps DEF Places, Kinds, history
<1>4. TypeOK'
  BY <1>1, <1>2, <1>3 DEF TypeOK, RequestsOK, tables, history
<1>5. \A i \in Jtis : RowOfSession(csrf[i], i)' /\ RowOfSession(replica[i].csrf, i)'
  BY <1>1, <1>2 DEF SessionInv, RowOfSession, tables
<1>6. \A i \in recorded : expiry[i] # 0 /\ i \in Jtis
  BY DEF SessionInv, TypeOK
<1> QED
  BY <1>1, <1>2, <1>3, <1>4, <1>5, <1>6 DEF SessionInv, RequestsOK, history

LEMMA SendKeeps ==
  ASSUME TypeOK, SessionInv, NEW w \in Workers,
         \/ SendFromBrowser(w) \/ SendBearer(w) \/ VerifyToken(w) \/ CheckRevocation(w)
  PROVE  TypeOK' /\ SessionInv'
<1>1. UNCHANGED <<now, expiry, tables, jar, drawn, history>>
  BY DEF SendFromBrowser, SendBearer, VerifyToken, CheckRevocation
<1>2. PICK b \in Browsers \cup {None}, j \in Jtis, kind \in Kinds, cookie \in Nat :
        expiry[j] # 0 /\ Begin(w, "checkRevoked", kind, b, j, cookie)
  <2>1. CASE SendFromBrowser(w)
    <3>1. PICK b \in Browsers, kind \in {"call", "logout"} :
            /\ jar[b].auth # None
            /\ now < expiry[jar[b].auth]
            /\ Begin(w, "checkRevoked", kind, b, jar[b].auth,
                     IF now < jar[b].csrfUntil THEN jar[b].csrf ELSE 0)
      BY <2>1 DEF SendFromBrowser
    <3>2. jar[b].auth \in Jtis /\ jar[b].csrf \in Nat
      BY <3>1 DEF TypeOK, Jar
    <3>3. expiry[jar[b].auth] # 0
      BY <3>1, <3>2 DEF TypeOK
    <3> QED
      BY <3>1, <3>2, <3>3 DEF Kinds
  <2>2. CASE SendBearer(w)
    <3>1. PICK j \in Jtis, kind \in {"call", "logout"} :
            now < expiry[j] /\ Begin(w, "checkRevoked", kind, None, j, 0)
      BY <2>2 DEF SendBearer
    <3>2. expiry[j] # 0
      BY <3>1 DEF TypeOK
    <3> QED
      BY <3>1, <3>2 DEF Kinds
  <2>3. CASE VerifyToken(w)
    <3>1. PICK j \in Jtis :
            now < expiry[j] /\ Begin(w, "checkRevoked", "verify", None, j, 0)
      BY <2>3 DEF VerifyToken
    <3>2. expiry[j] # 0
      BY <3>1 DEF TypeOK
    <3> QED
      BY <3>1, <3>2 DEF Kinds
  <2>4. CASE CheckRevocation(w)
    BY <2>4 DEF CheckRevocation, Kinds
  <2> QED
    BY <2>1, <2>2, <2>3, <2>4
<1>3. RequestsOK'
  BY <1>1, <1>2, BeginKeeps DEF Places, history
<1> QED
  BY <1>1, <1>3, OnlyRequests

LEMMA LoginPutKeeps ==
  ASSUME TypeOK, SessionInv, NEW w \in Workers, LoginPut(w)
  PROVE  TypeOK' /\ SessionInv'
<1> DEFINE j == req[w].jti
<1>1. req[w] # None /\ j \in Jtis /\ expiry[j] # 0
  BY DEF LoginPut, At, TypeOK, Request, SessionInv, RequestOfSession
<1>2. UNCHANGED <<now, expiry, revoked, replica, jar, history>> /\ drawn' = drawn + 1
  BY DEF LoginPut
<1>3. CsrfPutRow(j, drawn + 1, expiry[j]) \/ UNCHANGED csrf
  BY DEF LoginPut
<1>4. \E secret \in Nat : Continue(w, "respond", secret, 0)
  BY DEF LoginPut, TypeOK
<1>5. /\ csrf' \in [Jtis -> CsrfRow \cup {None}]
      /\ \A i \in Jtis : RowOfSession(csrf[i], i)'
  <2>1. CASE CsrfPutRow(j, drawn + 1, expiry[j])
    BY <2>1, <1>1, <1>2, PutKeeps
  <2>2. CASE UNCHANGED csrf
    BY <2>2, <1>2 DEF TypeOK, SessionInv, RowOfSession
  <2> QED
    BY <1>3, <2>1, <2>2
<1>6. RequestsOK'
  BY <1>1, <1>2, <1>4, ContinueKeeps DEF Places, history
<1>7. TypeOK'
  BY <1>2, <1>5, <1>6 DEF TypeOK, RequestsOK, history
<1> QED
  BY <1>2, <1>5, <1>6, <1>7 DEF SessionInv, RequestsOK, RowOfSession, history

LEMMA HandlerPlace == \A kind \in Kinds : Handler(kind) \in Places \ {"csrfPut"}
BY DEF Handler, Places

LEMMA CheckRevokedKeeps ==
  ASSUME TypeOK, SessionInv, NEW w \in Workers, CheckRevoked(w)
  PROVE  TypeOK' /\ SessionInv'
<1>1. UNCHANGED <<now, expiry, tables, jar, drawn, history>>
  BY DEF CheckRevoked
<1>2. req[w] # None /\ req[w] \in Request
  BY DEF CheckRevoked, At, TypeOK
<1>3. Return(w) \/ Authenticated(w)
  BY DEF CheckRevoked
<1>4. Return(w) \/ \E place \in Places \ {"csrfPut"} : Continue(w, place, 0, 0)
  BY <1>2, <1>3, HandlerPlace DEF Authenticated, Places, Request
<1>5. RequestsOK'
  BY <1>1, <1>2, <1>4, ContinueKeeps, ReturnKeeps DEF history
<1> QED
  BY <1>1, <1>5, OnlyRequests

LEMMA CsrfGetKeeps ==
  ASSUME TypeOK, SessionInv, NEW w \in Workers, CsrfGet(w) \/ CsrfRefuse(w)
  PROVE  TypeOK' /\ SessionInv'
<1>1. UNCHANGED <<now, expiry, tables, jar, drawn, history>>
  BY DEF CsrfGet, CsrfRefuse
<1>2. req[w] # None /\ req[w].jti \in Jtis
  BY DEF CsrfGet, CsrfRefuse, At, TypeOK, Request
<1>3. CASE CsrfGet(w)
  <2>1. PICK row \in CsrfGetRow(req[w].jti) :
          row # None /\ Continue(w, "csrfPut", 0, row.until)
    BY <1>3 DEF CsrfGet, Matches
  <2>2. row \in {csrf[req[w].jti], replica[req[w].jti].csrf}
    BY <2>1 DEF CsrfGetRow, Present
  <2>3. row.until = expiry[req[w].jti]
    BY <2>1, <2>2, <1>2 DEF SessionInv, RowOfSession
  <2>4. row.until \in Nat
    BY <2>3, <1>2 DEF TypeOK
  <2>5. RequestsOK'
    BY <1>1, <1>2, <2>1, <2>3, <2>4, ContinueKeeps DEF Places, history
  <2> QED
    BY <1>1, <2>5, OnlyRequests
<1>4. CASE CsrfRefuse(w)
  <2>1. RequestsOK'
    BY <1>1, <1>4, ReturnKeeps DEF CsrfRefuse, history
  <2> QED
    BY <1>1, <2>1, OnlyRequests
<1> QED
  BY <1>3, <1>4

LEMMA CsrfPutKeeps ==
  ASSUME TypeOK, SessionInv, NEW w \in Workers, CsrfPut(w)
  PROVE  TypeOK' /\ SessionInv'
<1> DEFINE j == req[w].jti
<1>1. req[w] # None /\ req[w] \in Request /\ j \in Jtis
  BY DEF CsrfPut, At, TypeOK, Request
<1>2. expiry[j] # 0 /\ req[w].until = expiry[j]
  BY <1>1 DEF CsrfPut, At, SessionInv, RequestOfSession
<1>3. UNCHANGED <<now, expiry, revoked, replica, jar, history>> /\ drawn' = drawn + 1
  BY DEF CsrfPut
<1>4. CsrfPutRow(j, drawn + 1, expiry[j]) \/ UNCHANGED csrf
  BY <1>2 DEF CsrfPut
<1>5. Return(w) \/ Continue(w, Handler(req[w].kind), drawn + 1, 0)
  BY DEF CsrfPut
<1>6. drawn + 1 \in Nat /\ Handler(req[w].kind) \in Places \ {"csrfPut"}
  BY <1>1, HandlerPlace DEF TypeOK, Request
<1>7. /\ csrf' \in [Jtis -> CsrfRow \cup {None}]
      /\ \A i \in Jtis : RowOfSession(csrf[i], i)'
  <2>1. CASE CsrfPutRow(j, drawn + 1, expiry[j])
    BY <2>1, <1>1, <1>2, <1>3, PutKeeps
  <2>2. CASE UNCHANGED csrf
    BY <2>2, <1>3 DEF TypeOK, SessionInv, RowOfSession
  <2> QED
    BY <1>4, <2>1, <2>2
<1>8. RequestsOK'
  BY <1>1, <1>3, <1>5, <1>6, ContinueKeeps, ReturnKeeps DEF history
<1>9. TypeOK'
  BY <1>3, <1>7, <1>8 DEF TypeOK, RequestsOK, history
<1> QED
  BY <1>3, <1>7, <1>8, <1>9 DEF SessionInv, RequestsOK, RowOfSession, history

LEMMA LogoutKeeps ==
  ASSUME TypeOK, SessionInv, NEW w \in Workers, LogoutDelete(w) \/ LogoutRevoke(w)
  PROVE  TypeOK' /\ SessionInv'
<1> DEFINE j == req[w].jti
<1>1. req[w] # None /\ j \in Jtis /\ expiry[j] # 0
  BY DEF LogoutDelete, LogoutRevoke, At, TypeOK, Request, SessionInv, RequestOfSession
<1>2. CASE LogoutDelete(w)
  <2>1. UNCHANGED <<now, expiry, revoked, replica, jar, drawn, recorded, acked>>
        /\ ending' = ending \cup {j}
    BY <1>2 DEF LogoutDelete
  <2>2. \A i \in Jtis : csrf'[i] \in {csrf[i], None}
    BY <1>2 DEF LogoutDelete, TypeOK
  <2>3. csrf' \in [Jtis -> CsrfRow \cup {None}]
    BY <1>2 DEF LogoutDelete, TypeOK
  <2>4. RequestsOK'
    BY <1>1, <1>2, <2>1, ContinueKeeps DEF LogoutDelete, Places
  <2>5. TypeOK'
    BY <1>1, <2>1, <2>3, <2>4 DEF TypeOK, RequestsOK
  <2> QED
    BY <2>1, <2>2, <2>4, <2>5 DEF SessionInv, RequestsOK, RowOfSession
<1>3. CASE LogoutRevoke(w)
  <2>1. UNCHANGED <<now, expiry, csrf, replica, jar, drawn, ending>>
        /\ acked' = acked \cup {j} /\ recorded' \in {recorded, recorded \cup {j}}
    BY <1>3 DEF LogoutRevoke
  <2>2. revoked' \in [Jtis -> Nat \cup {None}]
    BY <1>1, <1>3, DurationAssumption DEF LogoutRevoke, TypeOK
  <2>3. RequestsOK'
    BY <1>1, <1>3, <2>1, ContinueKeeps DEF LogoutRevoke, Places
  <2>4. TypeOK'
    BY <1>1, <2>1, <2>2, <2>3 DEF TypeOK, RequestsOK
  <2> QED
    BY <1>1, <2>1, <2>3, <2>4 DEF SessionInv, RequestsOK, RowOfSession
<1> QED
  BY <1>2, <1>3

LEMMA RespondKeeps ==
  ASSUME TypeOK, SessionInv, NEW w \in Workers, Respond(w)
  PROVE  TypeOK' /\ SessionInv'
<1> DEFINE b == req[w].from
<1>1. UNCHANGED <<now, expiry, tables, drawn, history>> /\ Return(w)
  BY DEF Respond
<1>2. req[w] # None /\ req[w] \in Request
  BY DEF Respond, At, TypeOK
<1>3. ASSUME b \in Browsers
      PROVE  Received(b, req[w]) \in Jar
  <2>1. jar[b] \in Jar /\ now \in Nat /\ now + JWTExpiry \in Nat
        /\ now + CsrfCookieTTL \in Nat
    BY <1>3, DurationAssumption DEF TypeOK
  <2>2. req[w].jti \in Jtis /\ req[w].secret \in Nat
    BY <1>2 DEF Request
  <2>3. CASE req[w].kind = "logout"
    BY <2>3 DEF Received, EmptyJar, Jar
  <2>4. CASE req[w].kind \notin {"login", "logout"}
    BY <2>1, <2>2, <2>4 DEF Received, Jar
  <2>5. CASE req[w].kind = "login"
    BY <2>1, <2>2, <2>5 DEF Received, Jar
  <2> QED
    BY <2>2, <2>3, <2>4, <2>5
<1>4. jar' \in [Browsers -> Jar]
  <2>1. b = None => jar' = jar
    BY DEF Respond
  <2>2. b # None => b \in Browsers /\ jar' = [jar EXCEPT ![b] = Received(b, req[w])]
    BY <1>2 DEF Respond, Request
  <2> QED
    BY <1>3, <2>1, <2>2 DEF TypeOK
<1>5. RequestsOK'
  BY <1>1, ReturnKeeps DEF history
<1> QED
  BY <1>1, <1>4, <1>5 DEF TypeOK, SessionInv, RequestsOK, RowOfSession, tables, history

LEMMA EnvironmentKeeps ==
  ASSUME TypeOK, SessionInv,
         \/ \E w \in Workers : RequestFails(w)
         \/ Replicate \/ Sweep \/ Crash \/ Tick \/ UNCHANGED vars
  PROVE  TypeOK' /\ SessionInv'
<1>1. CASE \E w \in Workers : RequestFails(w)
  <2>1. PICK w \in Workers : RequestFails(w)
    BY <1>1
  <2>2. RequestsOK'
    BY <2>1, ReturnKeeps DEF RequestFails, history
  <2> QED
    BY <2>1, <2>2, OnlyRequests DEF RequestFails
<1>2. CASE Replicate
  <2>1. UNCHANGED <<now, expiry, csrf, revoked, jar, req, drawn, started, history>>
    BY <1>2 DEF Replicate
  <2>2. /\ replica' \in [Jtis -> [csrf: CsrfRow \cup {None}, revoked: Nat \cup {None}]]
        /\ \A i \in Jtis : replica'[i].csrf \in {replica[i].csrf, csrf[i]}
    BY <1>2 DEF Replicate, TypeOK
  <2> QED
    BY <2>1, <2>2 DEF TypeOK, SessionInv, RowOfSession, RequestOfSession, At, history
<1>3. CASE Sweep
  <2>1. UNCHANGED <<now, expiry, replica, jar, req, drawn, started, history>>
    BY <1>3 DEF Sweep
  <2>2. /\ csrf' \in [Jtis -> CsrfRow \cup {None}]
        /\ revoked' \in [Jtis -> Nat \cup {None}]
        /\ \A i \in Jtis : csrf'[i] \in {csrf[i], None}
    BY <1>3 DEF Sweep, TypeOK
  <2> QED
    BY <2>1, <2>2 DEF TypeOK, SessionInv, RowOfSession, RequestOfSession, At, history
<1>4. CASE Crash
  BY <1>4 DEF Crash, TypeOK, SessionInv, RowOfSession, RequestOfSession, At, tables, history
<1>5. CASE Tick
  BY <1>5 DEF Tick, TypeOK, SessionInv, RowOfSession, RequestOfSession, At, tables, history
<1>6. CASE UNCHANGED vars
  BY <1>6 DEF vars, TypeOK, SessionInv, RowOfSession, RequestOfSession, At
<1> QED
  BY <1>1, <1>2, <1>3, <1>4, <1>5, <1>6

\* Types, and the bond of CSRF rows and requests to their session's token,
\* hold in every behaviour.
THEOREM SessionInvHolds == Spec => [](TypeOK /\ SessionInv)
<1>1. Init => TypeOK /\ SessionInv
  BY NoneAssumption
  DEF Init, TypeOK, SessionInv, RowOfSession, RequestOfSession, At, EmptyJar, Jar
<1>2. TypeOK /\ SessionInv /\ [Next]_vars => (TypeOK /\ SessionInv)'
  <2> SUFFICES ASSUME TypeOK, SessionInv, [Next]_vars PROVE TypeOK' /\ SessionInv'
    OBVIOUS
  <2>1. ASSUME NEW w \in Workers, Step(w) PROVE TypeOK' /\ SessionInv'
    BY <2>1, LoginPutKeeps, CheckRevokedKeeps, CsrfGetKeeps, CsrfPutKeeps,
       LogoutKeeps, RespondKeeps
    DEF Step
  <2> QED
    BY <2>1, LoginKeeps, SendKeeps, EnvironmentKeeps DEF Next
<1> QED
  BY <1>1, <1>2, PTL DEF Spec

THEOREM TypeCorrect == Spec => []TypeOK
BY SessionInvHolds, PTL

\* Rotation never shortens or extends the life of a session's CSRF row.
THEOREM CsrfRowExpiresWithTokenHolds == Spec => []CsrfRowExpiresWithToken
<1>1. SessionInv => CsrfRowExpiresWithToken
  BY DEF SessionInv, RowOfSession, CsrfRowExpiresWithToken
<1> QED
  BY <1>1, SessionInvHolds, PTL

-----------------------------------------------------------------------------
(* Revocation *)

\* A stored revocation outlives the token it revokes, if tokens live no longer
\* than revocations are kept.
THEOREM RevocationInvHolds ==
  ASSUME JWTExpiry <= RevocationTTL
  PROVE  Spec => []RevocationInv
<1>1. Init => RevocationInv
  BY DurationAssumption DEF Init, RevocationInv
<1>2. ASSUME TypeOK, SessionInv, RevocationInv, [Next]_vars
      PROVE  RevocationInv'
  <2> USE DEF tables, history
  <2>0. now \in Nat /\ JWTExpiry \in Nat /\ RevocationTTL \in Nat
    BY <1>2, DurationAssumption DEF TypeOK
  <2>1. ASSUME NEW w \in Workers, Login(w) PROVE RevocationInv'
    <3>1. PICK j \in Jtis : /\ expiry[j] = 0
                            /\ expiry' = [expiry EXCEPT ![j] = now + JWTExpiry]
      BY <2>1 DEF Login
    <3>2. now' = now /\ revoked' = revoked /\ recorded' = recorded
      BY <2>1 DEF Login
    <3>3. j \notin recorded
      BY <1>2, <3>1 DEF SessionInv
    <3> QED
      BY <1>2, <2>0, <3>1, <3>2, <3>3 DEF RevocationInv, TypeOK
  <2>2. ASSUME NEW w \in Workers, LogoutRevoke(w) PROVE RevocationInv'
    <3> DEFINE j == req[w].jti
    <3>1. j \in Jtis /\ now' = now /\ expiry' = expiry
      BY <1>2, <2>2 DEF LogoutRevoke, At, TypeOK, Request
    <3>2. expiry[j] \in Nat /\ expiry[j] <= now + RevocationTTL
      BY <1>2, <2>0, <3>1 DEF RevocationInv, TypeOK
    <3>3. now + RevocationTTL # None
      BY <2>0, NoneIsNoRecord
    <3>4. CASE /\ revoked' = [revoked EXCEPT ![j] = now + RevocationTTL]
               /\ recorded' \in {recorded, recorded \cup {j}}
      BY <1>2, <3>1, <3>2, <3>3, <3>4 DEF RevocationInv, TypeOK
    <3>5. CASE revoked' = revoked /\ recorded' = recorded
      BY <1>2, <3>1, <3>5 DEF RevocationInv
    <3> QED
      BY <2>2, <3>4, <3>5 DEF LogoutRevoke
  <2>3. CASE Sweep
    <3>1. UNCHANGED <<now, expiry, recorded>>
      BY <2>3 DEF Sweep
    <3>2. ASSUME NEW j \in recorded, now < expiry[j]
          PROVE  revoked'[j] = revoked[j]
      <4>1. j \in Jtis /\ expiry[j] \in Nat /\ revoked[j] # None
            /\ expiry[j] <= revoked[j]
        BY <1>2, <3>2 DEF TypeOK, RevocationInv
      <4>2. revoked[j] \in Nat
        BY <1>2, <4>1 DEF TypeOK
      <4>3. ~(now > revoked[j])
        BY <2>0, <3>2, <4>1, <4>2
      <4> QED
        BY <1>2, <2>3, <4>1, <4>3 DEF Sweep, TypeOK
    <3> QED
      BY <1>2, <3>1, <3>2 DEF RevocationInv
  <2>4. CASE Tick
    <3>1. now' = now + 1 /\ UNCHANGED <<expiry, revoked, recorded>>
      BY <2>4 DEF Tick
    <3>2. \A j \in Jtis : expiry[j] \in Nat
      BY <1>2 DEF TypeOK
    <3> QED
      BY <1>2, <2>0, <3>1, <3>2 DEF RevocationInv, TypeOK
  <2>5. ASSUME UNCHANGED <<now, expiry, revoked, recorded>> PROVE RevocationInv'
    BY <1>2, <2>5 DEF RevocationInv
  <2>6. ASSUME NEW w \in Workers,
               \/ SendFromBrowser(w) \/ SendBearer(w) \/ VerifyToken(w)
               \/ CheckRevocation(w) \/ LoginPut(w) \/ CheckRevoked(w) \/ CsrfGet(w)
               \/ CsrfRefuse(w) \/ CsrfPut(w) \/ LogoutDelete(w) \/ Respond(w)
               \/ RequestFails(w)
        PROVE  RevocationInv'
    BY <2>5, <2>6
    DEF SendFromBrowser, SendBearer, VerifyToken, CheckRevocation, LoginPut,
        CheckRevoked, CsrfGet, CsrfRefuse, CsrfPut, LogoutDelete, Respond, RequestFails
  <2>7. CASE Replicate \/ Crash \/ UNCHANGED vars
    BY <2>5, <2>7 DEF Replicate, Crash, vars
  <2> QED
    BY <1>2, <2>1, <2>2, <2>3, <2>4, <2>6, <2>7 DEF Next, Step
<1> QED
  BY <1>1, <1>2, SessionInvHolds, PTL DEF Spec

\* The row that revokes a session is in force for as long as the token lives.
THEOREM RevocationOutlivesTokenHolds ==
  ASSUME JWTExpiry <= RevocationTTL
  PROVE  Spec => []RevocationOutlivesToken
<1>1. TypeOK /\ RevocationInv => RevocationOutlivesToken
  <2> SUFFICES ASSUME TypeOK, RevocationInv, NEW j \in recorded, now < expiry[j]
               PROVE  InForce(revoked[j])
    BY DEF RevocationOutlivesToken
  <2>1. j \in Jtis /\ revoked[j] # None /\ expiry[j] <= revoked[j]
    BY DEF TypeOK, RevocationInv
  <2>2. now \in Nat /\ expiry[j] \in Nat /\ revoked[j] \in Nat
    BY <2>1 DEF TypeOK
  <2> QED
    BY <2>1, <2>2 DEF InForce
<1> QED
  BY <1>1, TypeCorrect, RevocationInvHolds, PTL

\* The property for one request.
Refused(r) == r # None /\ r.late /\ now < expiry[r.jti] => r.at = "checkRevoked"

LEMMA OthersRefused ==
  ASSUME TypeOK, SessionInv, NoAcceptAfterLogout, NEW w \in Workers,
         Refused(req[w])', now' = now,
         \A v \in Workers \ {w} : req'[v] = req[v],
         \A j \in Jtis : expiry[j] # 0 => expiry'[j] = expiry[j]
  PROVE  NoAcceptAfterLogout'
<1>1. ASSUME NEW v \in Workers \ {w} PROVE Refused(req[v])'
  <2>1. req'[v] = req[v] /\ Refused(req[v])
    BY <1>1 DEF NoAcceptAfterLogout, Refused
  <2>2. req[v] # None => req[v].jti \in Jtis /\ expiry[req[v].jti] # 0
    BY <1>1 DEF TypeOK, Request, SessionInv, RequestOfSession
  <2> QED
    BY <2>1, <2>2 DEF Refused
<1>2. \A v \in Workers : Refused(req[v])'
  BY <1>1
<1> QED
  BY <1>2 DEF NoAcceptAfterLogout, Refused

\* A request beyond the revocation check that goes on or ends.
LEMMA LaterRefused ==
  ASSUME TypeOK, SessionInv, NoAcceptAfterLogout, NEW w \in Workers,
         req[w] # None, req[w].at # "checkRevoked", now' = now, expiry' = expiry,
         \/ Return(w)
         \/ \E place \in Places, secret, until \in Nat :
              Continue(w, place, secret, until)
  PROVE  NoAcceptAfterLogout'
<1>1. ~req[w].late \/ ~(now < expiry[req[w].jti])
  BY DEF NoAcceptAfterLogout
<1>2. CASE Return(w)
  <2>1. Refused(req[w])'
    BY <1>2, ReturnShape DEF Refused
  <2> QED
    BY <1>2, <2>1, ReturnShape, OthersRefused
<1>3. ASSUME NEW place \in Places, NEW secret \in Nat, NEW until \in Nat,
             Continue(w, place, secret, until)
      PROVE  NoAcceptAfterLogout'
  <2>1. req'[w].jti = req[w].jti /\ req'[w].late = req[w].late
        /\ \A v \in Workers \ {w} : req'[v] = req[v]
    BY <1>3, ContinueShape
  <2>2. Refused(req[w])'
    BY <1>1, <2>1 DEF Refused
  <2> QED
    BY <2>1, <2>2, OthersRefused
<1> QED
  BY <1>2, <1>3

\* The revocation has reached the replica before a request that was sent after
\* it is checked: a lagging read of DynamoDB no longer misses it.
CaughtUp ==
  \A w \in Workers :
    LET r == req[w] IN
    DynamoDB /\ At(w, "checkRevoked") /\ r.late /\ now < expiry[r.jti]
      => InForce(replica[r.jti].revoked)

\* On every backend a request that was sent after its session was revoked is
\* never accepted once the replica has caught up, for any number of concurrent
\* requests, sweeps, failures and crashes: the lag is the only way in.
THEOREM NoAcceptOnceCaughtUp ==
  ASSUME JWTExpiry <= RevocationTTL
  PROVE  Spec /\ []CaughtUp => []NoAcceptAfterLogout
<1>1. Init => NoAcceptAfterLogout
  BY DEF Init, NoAcceptAfterLogout
<1>2. ASSUME TypeOK, SessionInv, RevocationInv, CaughtUp, NoAcceptAfterLogout, [Next]_vars
      PROVE  NoAcceptAfterLogout'
  <2> USE DEF tables, history
  <2>1. ASSUME NEW w \in Workers, Login(w) PROVE NoAcceptAfterLogout'
    <3>1. PICK b \in Browsers, j \in Jtis :
            /\ expiry[j] = 0
            /\ Begin(w, "loginPut", "login", b, j, 0)
            /\ expiry' = [expiry EXCEPT ![j] = now + JWTExpiry]
            /\ now' = now
      BY <2>1 DEF Login
    <3>2. j \notin recorded
      BY <1>2, <3>1 DEF SessionInv
    <3>3. ~req'[w].late /\ \A v \in Workers \ {w} : req'[v] = req[v]
      <4>1. /\ req'[w].late => j \in recorded
            /\ \A v \in Workers \ {w} : req'[v] = req[v]
        BY <1>2, <3>1 DEF Begin, TypeOK
      <4> QED
        BY <3>2, <4>1
    <3>4. Refused(req[w])'
      BY <3>3 DEF Refused
    <3>5. \A i \in Jtis : expiry[i] # 0 => expiry'[i] = expiry[i]
      BY <1>2, <3>1 DEF TypeOK
    <3> QED
      BY <1>2, <3>1, <3>3, <3>4, <3>5, OthersRefused
  <2>2. ASSUME NEW w \in Workers,
               \/ SendFromBrowser(w) \/ SendBearer(w) \/ VerifyToken(w)
               \/ CheckRevocation(w)
        PROVE  NoAcceptAfterLogout'
    <3>1. UNCHANGED <<now, expiry>>
      BY <2>2 DEF SendFromBrowser, SendBearer, VerifyToken, CheckRevocation
    <3>2. \E kind, b, j, cookie : Begin(w, "checkRevoked", kind, b, j, cookie)
      BY <2>2 DEF SendFromBrowser, SendBearer, VerifyToken, CheckRevocation
    <3>3. req'[w].at = "checkRevoked" /\ \A v \in Workers \ {w} : req'[v] = req[v]
      BY <1>2, <3>2 DEF Begin, TypeOK
    <3>4. Refused(req[w])'
      BY <3>3 DEF Refused
    <3> QED
      BY <1>2, <3>1, <3>3, <3>4, OthersRefused
  <2>3. ASSUME NEW w \in Workers, CheckRevoked(w) PROVE NoAcceptAfterLogout'
    <3> DEFINE j == req[w].jti
    <3>1. /\ req[w] # None /\ req[w] \in Request /\ j \in Jtis
          /\ UNCHANGED <<now, expiry>>
      BY <1>2, <2>3 DEF CheckRevoked, At, TypeOK, Request
    <3>2. CASE Return(w)
      <4>1. Refused(req[w])'
        BY <1>2, <3>2, ReturnShape DEF Refused
      <4> QED
        BY <1>2, <3>1, <3>2, <4>1, ReturnShape, OthersRefused
    <3>3. CASE ~Return(w)
      <4>1. FALSE \in IsTokenRevoked(j) /\ Authenticated(w)
        <5>1. PICK isRevoked \in IsTokenRevoked(j) :
                IF isRevoked THEN Return(w) ELSE Authenticated(w)
          BY <2>3 DEF CheckRevoked
        <5>2. isRevoked \in BOOLEAN
          BY <5>1 DEF IsTokenRevoked, InForce
        <5>3. isRevoked = FALSE
          BY <3>3, <5>1, <5>2
        <5> QED
          BY <5>1, <5>3
      <4>2. ~InForce(revoked[j]) \/ (DynamoDB /\ ~InForce(replica[j].revoked))
        BY <4>1 DEF IsTokenRevoked
      <4>3. ~req[w].late \/ ~(now < expiry[j])
        <5>1. SUFFICES ASSUME req[w].late, now < expiry[j] PROVE FALSE
          OBVIOUS
        <5>2. revoked[j] # None /\ expiry[j] <= revoked[j]
          BY <1>2, <3>1, <5>1 DEF SessionInv, RequestOfSession, RevocationInv
        <5>3. now \in Nat /\ expiry[j] \in Nat /\ revoked[j] \in Nat
          BY <1>2, <3>1, <5>2 DEF TypeOK
        <5>4. InForce(revoked[j])
          BY <5>1, <5>2, <5>3 DEF InForce
        <5>5. DynamoDB => InForce(replica[j].revoked)
          BY <1>2, <2>3, <5>1 DEF CaughtUp, CheckRevoked
        <5> QED
          BY <4>2, <5>4, <5>5
      <4>4. PICK place \in Places \ {"csrfPut"} : Continue(w, place, 0, 0)
        BY <3>1, <3>3, <4>1, HandlerPlace DEF Authenticated, Places, Request
      <4>5. req'[w].jti = j /\ req'[w].late = req[w].late
            /\ \A v \in Workers \ {w} : req'[v] = req[v]
        BY <1>2, <3>1, <4>4, ContinueShape
      <4>6. Refused(req[w])'
        BY <3>1, <4>3, <4>5 DEF Refused
      <4> QED
        BY <1>2, <3>1, <4>5, <4>6, OthersRefused
    <3> QED
      BY <3>2, <3>3
  <2>4. ASSUME NEW w \in Workers,
               \/ LoginPut(w) \/ CsrfGet(w) \/ CsrfRefuse(w) \/ CsrfPut(w)
               \/ LogoutDelete(w) \/ LogoutRevoke(w) \/ Respond(w)
        PROVE  NoAcceptAfterLogout'
    <3>1. req[w] # None /\ req[w] \in Request /\ req[w].at # "checkRevoked"
          /\ UNCHANGED <<now, expiry>>
      BY <1>2, <2>4
      DEF LoginPut, CsrfGet, CsrfRefuse, CsrfPut, LogoutDelete, LogoutRevoke,
          Respond, At, TypeOK
    <3>2. CASE CsrfGet(w)
      <4>1. PICK row \in CsrfGetRow(req[w].jti) :
              row # None /\ Continue(w, "csrfPut", 0, row.until)
        BY <3>2 DEF CsrfGet, Matches
      <4>2. row.until \in Nat
        BY <1>2, <3>1, <4>1 DEF CsrfGetRow, Present, TypeOK, Request, CsrfRow
      <4> QED
        BY <1>2, <3>1, <4>1, <4>2, LaterRefused DEF Places
    <3>3. CASE ~CsrfGet(w)
      <4>1. drawn + 1 \in Nat /\ Handler(req[w].kind) \in Places
        BY <1>2, <3>1, HandlerPlace DEF TypeOK, Request
      <4>2. \/ Return(w)
            \/ \E place \in Places, secret \in {0, drawn + 1} :
                 Continue(w, place, secret, 0)
        BY <2>4, <3>3, <4>1
        DEF LoginPut, CsrfRefuse, CsrfPut, LogoutDelete, LogoutRevoke, Respond, Places
      <4> QED
        BY <1>2, <3>1, <4>1, <4>2, LaterRefused
    <3> QED
      BY <3>2, <3>3
  <2>5. ASSUME NEW w \in Workers, RequestFails(w) PROVE NoAcceptAfterLogout'
    <3>1. Refused(req[w])'
      BY <1>2, <2>5, ReturnShape DEF Refused, RequestFails
    <3> QED
      BY <1>2, <2>5, <3>1, ReturnShape, OthersRefused DEF RequestFails
  <2>6. CASE Crash
    BY <2>6 DEF Crash, NoAcceptAfterLogout
  <2>7. CASE Tick
    <3>1. now \in Nat /\ now' = now + 1 /\ UNCHANGED <<expiry, req>>
      BY <1>2, <2>7 DEF Tick, TypeOK
    <3>2. \A w \in Workers : req[w] # None => expiry[req[w].jti] \in Nat
      BY <1>2 DEF TypeOK, Request
    <3>3. \A i \in Nat : now' < i => now < i
      BY <3>1
    <3> QED
      BY <1>2, <3>1, <3>2, <3>3 DEF NoAcceptAfterLogout
  <2>8. CASE Replicate \/ Sweep \/ UNCHANGED vars
    BY <1>2, <2>8 DEF Replicate, Sweep, vars, NoAcceptAfterLogout
  <2> QED
    BY <1>2, <2>1, <2>2, <2>3, <2>4, <2>5, <2>6, <2>7, <2>8 DEF Next, Step
<1> QED
  BY <1>1, <1>2, SessionInvHolds, RevocationInvHolds, PTL DEF Spec

\* On the SQL backends, whose reads do not lag, it never is.
THEOREM NoAcceptAfterLogoutHolds ==
  ASSUME JWTExpiry <= RevocationTTL, DynamoDB = FALSE
  PROVE  Spec => []NoAcceptAfterLogout
<1>1. CaughtUp
  BY DEF CaughtUp
<1> QED
  BY <1>1, NoAcceptOnceCaughtUp, PTL

-----------------------------------------------------------------------------
(* The CSRF secret of a browser that waits for its responses *)

\* Browser b waits for a response that will change its secret or its session.
Rotated(b) ==
  \E w \in Workers :
    /\ req[w] # None /\ req[w].from = b /\ req[w].kind # "login"
    /\ req[w].at \in {"logoutDelete", "logoutRevoke", "respond"}

\* A browser's cookies are those of an issued session; while that lives, its
\* row is there, the CSRF cookie lasts as long, and unless a response is to
\* bring another secret, it is the one in the row.
JarSync(b) ==
  jar[b].auth # None =>
    /\ expiry[jar[b].auth] # 0
    /\ Live(jar[b].auth) =>
         /\ csrf[jar[b].auth] # None
         /\ expiry[jar[b].auth] <= jar[b].csrfUntil
         /\ ~Rotated(b) => jar[b].csrf = csrf[jar[b].auth].secret

\* What a request's place tells of its kind, and whose session it is about: a
\* login of a browser about one that is in no jar yet, other requests of a
\* browser about the one in its jar.  Its response brings the stored secret.
RequestSync(r) ==
  r # None =>
    /\ r.kind = "login" => r.from # None /\ r.at \in {"loginPut", "respond"}
    /\ r.at = "loginPut" => r.kind = "login"
    /\ r.at \in {"csrfGet", "csrfPut"} => r.from # None
    /\ r.at \in {"logoutDelete", "logoutRevoke"} => r.kind = "logout"
    /\ r.kind = "logout" /\ r.at \in {"logoutRevoke", "respond"} => r.jti \in ending
    /\ r.kind = "verify" => r.from = None
    /\ r.from # None =>
         /\ r.kind = "login" => \A b \in Browsers : jar[b].auth # r.jti
         /\ r.kind # "login" => jar[r.from].auth = r.jti
         /\ r.at = "respond" /\ Live(r.jti) =>
              r.secret # 0 /\ csrf[r.jti] # None /\ csrf[r.jti].secret = r.secret

\* Requests of browsers are of different browsers and about different sessions.
RequestsApart(r, s) ==
  (r # None /\ s # None /\ r.from # None /\ s.from # None)
    => (r.from # s.from /\ r.jti # s.jti)

SyncInv ==
  /\ \A j \in Jtis : expiry[j] <= now + JWTExpiry
  /\ \A b \in Browsers : JarSync(b)
  /\ \A b, c \in Browsers : b # c /\ jar[b].auth # None => jar[b].auth # jar[c].auth
  /\ \A w \in Workers : RequestSync(req[w])
  /\ \A v, w \in Workers : v # w => RequestsApart(req[v], req[w])

\* What a request that is taken up, or goes on, keeps of itself.
LEMMA BeginRequest ==
  ASSUME TypeOK, NEW w \in Workers, NEW place \in Places \ {"csrfPut"},
         NEW kind \in Kinds, NEW b \in Browsers \cup {None}, NEW j \in Jtis,
         NEW cookie \in Nat, Begin(w, place, kind, b, j, cookie)
  PROVE  /\ req[w] = None /\ MaySend(b)
         /\ req'[w] # None /\ req'[w].at = place /\ req'[w].kind = kind
         /\ req'[w].from = b /\ req'[w].jti = j
         /\ \A v \in Workers \ {w} : req'[v] = req[v]
<1>1. req[w] = None /\ MaySend(b)
  BY DEF Begin
<1>2. req'[w].kind = kind /\ req'[w].from = b
  BY DEF Begin, TypeOK
<1> QED BY <1>1, <1>2, BeginShape

LEMMA ContinueRequest ==
  ASSUME TypeOK, NEW w \in Workers, req[w] # None, NEW place \in Places,
         NEW secret \in Nat, NEW until \in Nat, Continue(w, place, secret, until)
  PROVE  /\ req'[w] # None /\ req'[w].at = place /\ req'[w].kind = req[w].kind
         /\ req'[w].from = req[w].from /\ req'[w].jti = req[w].jti
         /\ req'[w].secret = secret
         /\ \A v \in Workers \ {w} : req'[v] = req[v]
<1>1. req[w] \in Request
  BY DEF TypeOK
<1>2. /\ req'[w].kind = req[w].kind /\ req'[w].from = req[w].from
      /\ req'[w].secret = secret
  BY <1>1 DEF Continue, TypeOK, Request
<1> QED BY <1>2, ContinueShape

\* A request of somebody else leaves open what b waits for.
LEMMA RotatedSame ==
  ASSUME NEW w \in Workers, NEW b \in Browsers,
         \A v \in Workers \ {w} : req'[v] = req[v],
         req[w] # None => req[w].from # b, req'[w] # None => req'[w].from # b
  PROVE  Rotated(b)' <=> Rotated(b)
BY DEF Rotated

\* A step of a browser's request touches the row and the jar of its own
\* session only.
LEMMA OwnStep ==
  ASSUME TypeOK, SyncInv, NEW w \in Workers, req[w] # None,
         NEW b \in Browsers, req[w].from = b,
         now' = now, expiry' = expiry, ending \subseteq ending',
         \A j \in Jtis \ {req[w].jti} : csrf'[j] = csrf[j],
         \A v \in Workers \ {w} : req'[v] = req[v],
         \A c \in Browsers \ {b} : jar'[c] = jar[c],
         jar'[b].auth \in {jar[b].auth, None, req[w].jti},
         req'[w] # None => /\ req'[w].from = b /\ req'[w].jti = req[w].jti
                           /\ jar'[b] = jar[b],
         JarSync(b)', RequestSync(req[w])'
  PROVE  SyncInv'
<1> DEFINE j == req[w].jti
<1>0. j \in Jtis /\ b # None /\ None \notin Jtis
  BY NoneAssumption DEF TypeOK, Request
<1>1. \A c \in Browsers \ {b} : jar[c].auth # j
  <2>1. CASE req[w].kind = "login"
    BY <2>1, <1>0 DEF SyncInv, RequestSync
  <2>2. CASE req[w].kind # "login"
    <3>1. jar[b].auth = j
      BY <2>2, <1>0 DEF SyncInv, RequestSync
    <3> QED BY <3>1, <1>0 DEF SyncInv
  <2> QED BY <2>1, <2>2
<1>2. \A i \in Jtis : Live(i)' => Live(i)
  BY DEF Live
<1>3. \A c \in Browsers : JarSync(c)'
  <2> SUFFICES ASSUME NEW c \in Browsers \ {b}, jar[c].auth # None PROVE JarSync(c)'
    BY DEF JarSync
  <2>1. jar[c].auth \in Jtis /\ jar[c].auth # j /\ jar'[c] = jar[c]
    BY <1>1 DEF TypeOK, Jar
  <2>2. csrf'[jar[c].auth] = csrf[jar[c].auth]
    BY <2>1
  <2>3. Rotated(c)' <=> Rotated(c)
    BY RotatedSame
  <2>4. JarSync(c)
    BY DEF SyncInv
  <2> QED BY <1>2, <2>1, <2>2, <2>3, <2>4 DEF JarSync
<1>4. \A c, d \in Browsers :
        c # d /\ jar'[c].auth # None => jar'[c].auth # jar'[d].auth
  BY <1>0, <1>1 DEF SyncInv
<1>5. \A v \in Workers \ {w} : req[v] # None /\ req[v].from # None =>
         req[v].from # b /\ req[v].jti # j
  BY <1>0 DEF SyncInv, RequestsApart
<1>6. \A v \in Workers : RequestSync(req[v])'
  <2> SUFFICES ASSUME NEW v \in Workers \ {w}, req[v] # None PROVE RequestSync(req[v])'
    BY DEF RequestSync
  <2>1. req'[v] = req[v] /\ req[v].jti \in Jtis /\ req[v].from \in Browsers \cup {None}
    BY DEF TypeOK, Request
  <2>2. RequestSync(req[v])
    BY DEF SyncInv
  <2>3. CASE req[v].from = None
    BY <2>1, <2>2, <2>3 DEF RequestSync
  <2>4. CASE req[v].from # None
    <3>1. req[v].from \in Browsers \ {b} /\ req[v].jti # j
      BY <1>5, <2>1, <2>4
    <3>2. jar'[req[v].from] = jar[req[v].from] /\ csrf'[req[v].jti] = csrf[req[v].jti]
      BY <3>1, <2>1
    <3>3. req[v].kind = "login" => \A c \in Browsers : jar'[c].auth # req[v].jti
      BY <1>0, <2>1, <2>2, <3>1 DEF RequestSync
    <3> QED BY <1>2, <2>1, <2>2, <3>2, <3>3 DEF RequestSync
  <2> QED BY <2>3, <2>4
<1>7. \A u, v \in Workers : u # v => RequestsApart(req[u], req[v])'
  BY <1>5 DEF SyncInv, RequestsApart
<1>8. \A i \in Jtis : expiry'[i] <= now' + JWTExpiry
  BY DEF SyncInv
<1> QED BY <1>3, <1>4, <1>6, <1>7, <1>8 DEF SyncInv

\* A step of a request without cookies touches no row of a session that
\* lives on.
LEMMA AsideStep ==
  ASSUME TypeOK, SyncInv, NEW w \in Workers,
         req[w] # None => req[w].from = None, req'[w] # None => req'[w].from = None,
         now' = now, expiry' = expiry, jar' = jar, ending \subseteq ending',
         \A j \in Jtis : csrf'[j] = csrf[j] \/ j \in ending',
         \A v \in Workers \ {w} : req'[v] = req[v],
         RequestSync(req[w])'
  PROVE  SyncInv'
<1>1. \A i \in Jtis : Live(i)' => Live(i) /\ csrf'[i] = csrf[i]
  BY DEF Live
<1>2. \A b \in Browsers : JarSync(b)'
  <2> SUFFICES ASSUME NEW b \in Browsers, jar[b].auth # None PROVE JarSync(b)'
    BY DEF JarSync
  <2>1. jar[b].auth \in Jtis /\ b # None
    BY NoneAssumption DEF TypeOK, Jar
  <2>2. Rotated(b)' <=> Rotated(b)
    BY <2>1, RotatedSame
  <2>3. JarSync(b)
    BY DEF SyncInv
  <2> QED BY <1>1, <2>1, <2>2, <2>3 DEF JarSync
<1>3. \A v \in Workers : RequestSync(req[v])'
  <2> SUFFICES ASSUME NEW v \in Workers \ {w}, req[v] # None PROVE RequestSync(req[v])'
    BY DEF RequestSync
  <2>1. req'[v] = req[v] /\ req[v].jti \in Jtis
    BY DEF TypeOK, Request
  <2>2. RequestSync(req[v])
    BY DEF SyncInv
  <2> QED BY <1>1, <2>1, <2>2 DEF RequestSync
<1>4. \A u, v \in Workers : u # v => RequestsApart(req[u], req[v])'
  BY DEF SyncInv, RequestsApart
<1> QED BY <1>2, <1>3, <1>4 DEF SyncInv

\* No repository call fails, no response is lost, reads do not lag, and the
\* CSRF cookie lasts as long as a token.
Undisturbed == ~DynamoDB /\ ~Faults /\ JWTExpiry <= CsrfCookieTTL

\* No browser has two requests on the way.
OneAtATime ==
  \A v, w \in Workers :
    v # w /\ req[v] # None /\ req[w] # None /\ req[v].from # None
      => req[v].from # req[w].from

LEMMA LoginSync ==
  ASSUME OneAtATime', TypeOK, SessionInv, SyncInv, NEW w \in Workers, Login(w)
  PROVE  SyncInv'
<1>1. PICK b \in Browsers, j \in Jtis :
        /\ expiry[j] = 0
        /\ Begin(w, "loginPut", "login", b, j, 0)
        /\ expiry' = [expiry EXCEPT ![j] = now + JWTExpiry]
        /\ UNCHANGED <<now, tables, jar, drawn, history>>
  BY DEF Login
<1>2. /\ req[w] = None /\ b # None
      /\ req'[w] # None /\ req'[w].at = "loginPut" /\ req'[w].kind = "login"
      /\ req'[w].from = b /\ req'[w].jti = j
      /\ \A v \in Workers \ {w} : req'[v] = req[v]
  <2>1. Begin(w, "loginPut", "login", b, j, 0)
    BY <1>1
  <2> QED BY <2>1, BeginRequest, NoneAssumption DEF Places, Kinds
<1>3. UNCHANGED <<now, csrf, jar, ending>>
  BY <1>1 DEF tables, history
<1>4. \A i \in Jtis \ {j} : expiry'[i] = expiry[i] /\ (Live(i)' <=> Live(i))
  BY <1>1, <1>3 DEF TypeOK, Live
<1>5. now \in Nat /\ JWTExpiry \in Nat /\ expiry'[j] = now + JWTExpiry
  BY <1>1, DurationAssumption DEF TypeOK
<1>6. \A b2 \in Browsers : jar[b2].auth # j
  <2> SUFFICES ASSUME NEW b2 \in Browsers, jar[b2].auth = j PROVE FALSE
    OBVIOUS
  <2>1. JarSync(b2)
    BY DEF SyncInv
  <2> QED BY <1>1, <2>1, NoneAssumption DEF JarSync
<1>7. \A v \in Workers : req[v] # None => req[v].jti # j
  BY <1>1 DEF SessionInv, RequestOfSession
<1>8. \A b2 \in Browsers : JarSync(b2)'
  <2> SUFFICES ASSUME NEW b2 \in Browsers, jar[b2].auth # None PROVE JarSync(b2)'
    BY <1>3 DEF JarSync
  <2>1. Rotated(b2)' <=> Rotated(b2)
    BY <1>2 DEF Rotated
  <2>2. JarSync(b2) /\ jar[b2].auth \in Jtis \ {j}
    BY <1>6 DEF SyncInv, TypeOK, Jar
  <2> QED BY <1>3, <1>4, <2>1, <2>2 DEF JarSync
<1>9. \A v \in Workers : RequestSync(req[v])'
  <2>1. RequestSync(req[w])'
    BY <1>2, <1>3, <1>6 DEF RequestSync
  <2> SUFFICES ASSUME NEW v \in Workers \ {w}, req[v] # None PROVE RequestSync(req[v])'
    BY <1>2, <2>1 DEF RequestSync
  <2>2. req'[v] = req[v] /\ req[v].jti \in Jtis \ {j}
    BY <1>2, <1>7 DEF TypeOK, Request
  <2>3. RequestSync(req[v])
    BY DEF SyncInv
  <2> QED BY <1>3, <1>4, <2>2, <2>3 DEF RequestSync
<1>10. \A v \in Workers \ {w} : req[v] # None => req[v].from # b
  BY <1>2 DEF OneAtATime
<1>11. \A u, v \in Workers : u # v => RequestsApart(req[u], req[v])'
  BY <1>2, <1>7, <1>10 DEF SyncInv, RequestsApart
<1>12. \A i \in Jtis : expiry'[i] <= now' + JWTExpiry
  BY <1>3, <1>4, <1>5 DEF SyncInv
<1> QED BY <1>3, <1>8, <1>9, <1>11, <1>12 DEF SyncInv

LEMMA SendFromBrowserSync ==
  ASSUME OneAtATime', TypeOK, SessionInv, SyncInv, NEW w \in Workers, SendFromBrowser(w)
  PROVE  SyncInv'
<1>1. PICK b \in Browsers, kind \in {"call", "logout"}, cookie \in Nat :
        /\ jar[b].auth # None
        /\ Begin(w, "checkRevoked", kind, b, jar[b].auth, cookie)
  <2>1. \A b \in Browsers : (IF now < jar[b].csrfUntil THEN jar[b].csrf ELSE 0) \in Nat
    BY DEF TypeOK, Jar
  <2> QED BY <2>1 DEF SendFromBrowser
<1>2. UNCHANGED <<now, expiry, csrf, jar, ending>>
  BY DEF SendFromBrowser, tables, history
<1>3. jar[b].auth \in Jtis /\ b # None
  BY <1>1, NoneAssumption DEF TypeOK, Jar
<1>4. /\ req[w] = None
      /\ req'[w] # None /\ req'[w].at = "checkRevoked" /\ req'[w].kind = kind
      /\ req'[w].from = b /\ req'[w].jti = jar[b].auth
      /\ \A v \in Workers \ {w} : req'[v] = req[v]
  BY <1>1, <1>3, BeginRequest DEF Places, Kinds
<1>5. \A v \in Workers \ {w} : req[v] # None => req[v].from # b
  BY <1>3, <1>4 DEF OneAtATime
<1>6. \A v \in Workers \ {w} :
        req[v] # None /\ req[v].from # None => req[v].jti # jar[b].auth
  <2> SUFFICES ASSUME NEW v \in Workers \ {w}, req[v] # None, req[v].from # None
               PROVE  req[v].jti # jar[b].auth
    OBVIOUS
  <2>1. RequestSync(req[v]) /\ req[v].from \in Browsers \ {b}
    BY <1>5 DEF SyncInv, TypeOK, Request
  <2> QED BY <1>1, <2>1 DEF RequestSync, SyncInv
<1>7. \A c \in Browsers : JarSync(c)'
  <2> SUFFICES ASSUME NEW c \in Browsers PROVE JarSync(c)'
    OBVIOUS
  <2>1. Rotated(c)' <=> Rotated(c)
    BY <1>4 DEF Rotated
  <2>2. JarSync(c)
    BY DEF SyncInv
  <2> QED BY <1>2, <2>1, <2>2 DEF JarSync, Live
<1>8. \A v \in Workers : RequestSync(req[v])'
  <2>1. RequestSync(req[w])'
    BY <1>2, <1>4 DEF RequestSync
  <2> SUFFICES ASSUME NEW v \in Workers \ {w} PROVE RequestSync(req[v])'
    BY <2>1
  <2>2. RequestSync(req[v]) /\ req'[v] = req[v]
    BY <1>4 DEF SyncInv
  <2> QED BY <1>2, <2>2 DEF RequestSync, Live
<1>9. \A u, v \in Workers : u # v => RequestsApart(req[u], req[v])'
  BY <1>4, <1>5, <1>6 DEF SyncInv, RequestsApart
<1> QED BY <1>2, <1>7, <1>8, <1>9 DEF SyncInv

LEMMA SendWithoutCookieSync ==
  ASSUME TypeOK, SessionInv, SyncInv, NEW w \in Workers,
         SendBearer(w) \/ VerifyToken(w) \/ CheckRevocation(w)
  PROVE  SyncInv'
<1>1. PICK j \in Jtis, kind \in {"call", "logout", "verify"} :
        Begin(w, "checkRevoked", kind, None, j, 0)
  BY DEF SendBearer, VerifyToken, CheckRevocation
<1>2. UNCHANGED <<now, expiry, csrf, jar, ending>>
  BY DEF SendBearer, VerifyToken, CheckRevocation, tables, history
<1>3. /\ req[w] = None
      /\ req'[w] # None /\ req'[w].at = "checkRevoked" /\ req'[w].kind = kind
      /\ req'[w].from = None /\ req'[w].jti = j
      /\ \A v \in Workers \ {w} : req'[v] = req[v]
  BY <1>1, BeginRequest DEF Places, Kinds
<1>4. RequestSync(req[w])'
  BY <1>3 DEF RequestSync
<1> QED BY <1>2, <1>3, <1>4, AsideStep

\* A request that goes on without touching a table, to a place where nothing
\* is promised yet, or ends before its response.
LEMMA PassSync ==
  ASSUME TypeOK, SyncInv, NEW w \in Workers, req[w] # None,
         req[w].kind # "login",
         req[w].at \in {"checkRevoked", "csrfGet"},
         UNCHANGED <<now, expiry, csrf, jar, ending>>,
         \/ Return(w)
         \/ /\ req[w].from # None
            /\ \E place \in {"csrfGet", "csrfPut"}, until \in Nat :
                 Continue(w, place, 0, until)
         \/ /\ req[w].from = None
            /\ Continue(w, Handler(req[w].kind), 0, 0)
  PROVE  SyncInv'
<1>0. req[w] \in Request /\ req[w].from \in Browsers \cup {None} /\ req[w].jti \in Jtis
      /\ RequestSync(req[w])
  BY DEF TypeOK, Request, SyncInv
<1>1. /\ \A v \in Workers \ {w} : req'[v] = req[v]
      /\ req'[w] # None => /\ req'[w].from = req[w].from /\ req'[w].jti = req[w].jti
                           /\ req'[w].kind = req[w].kind
                           /\ req[w].from # None => req'[w].at \in {"csrfGet", "csrfPut"}
                           /\ req[w].from = None => req'[w].at = Handler(req[w].kind)
  <2>1. CASE Return(w)
    BY <2>1, ReturnShape
  <2>2. ASSUME NEW place \in {"csrfGet", "csrfPut"}, NEW until \in Nat,
               req[w].from # None, Continue(w, place, 0, until)
        PROVE  <1>1!:
    BY <2>2, ContinueRequest DEF Places
  <2>3. CASE req[w].from = None /\ Continue(w, Handler(req[w].kind), 0, 0)
    <3>1. Handler(req[w].kind) \in Places
      BY <1>0, HandlerPlace DEF Request
    <3> QED BY <2>3, <3>1, ContinueRequest
  <2> QED BY <2>1, <2>2, <2>3
<1>2. RequestSync(req[w])'
  BY <1>0, <1>1 DEF RequestSync, Handler
<1>3. CASE req[w].from = None
  BY <1>1, <1>2, <1>3, AsideStep
<1>4. CASE req[w].from # None
  <2>1. PICK b \in Browsers : b = req[w].from
    BY <1>0, <1>4
  <2>2. Rotated(b)' => Rotated(b)
    BY <1>1, <1>4, <2>1 DEF Rotated
  <2>3. Rotated(b) => Rotated(b)'
    <3> SUFFICES ASSUME NEW v \in Workers, req[v] # None, req[v].from = b,
                        req[v].kind # "login",
                        req[v].at \in {"logoutDelete", "logoutRevoke", "respond"}
                 PROVE  Rotated(b)'
      BY DEF Rotated
    <3>1. v # w
      BY <2>1
    <3> QED BY <1>1, <2>1, <3>1 DEF Rotated
  <2>4. JarSync(b)
    BY <2>1 DEF SyncInv
  <2>5. JarSync(b)'
    BY <2>2, <2>3, <2>4 DEF JarSync, Live
  <2> QED BY <1>1, <1>2, <2>1, <2>5, OwnStep
<1> QED BY <1>3, <1>4

\* The checks of the middleware chain, passed or not.
LEMMA CheckSync ==
  ASSUME Undisturbed, TypeOK, SyncInv, NEW w \in Workers,
         CheckRevoked(w) \/ CsrfGet(w) \/ CsrfRefuse(w)
  PROVE  SyncInv'
<1>1. /\ UNCHANGED <<now, expiry, csrf, jar, ending>>
      /\ req[w] # None /\ req[w].at \in {"checkRevoked", "csrfGet"}
      /\ req[w].jti \in Jtis
  BY DEF CheckRevoked, CsrfGet, CsrfRefuse, At, tables, history, TypeOK, Request
<1>2. RequestSync(req[w])
  BY DEF SyncInv
<1>3. req[w].kind # "login"
  BY <1>1, <1>2 DEF RequestSync
<1>4. CASE CheckRevoked(w)
  <2>1. Return(w) \/ Authenticated(w)
    BY <1>4 DEF CheckRevoked
  <2>2. \/ Return(w)
        \/ req[w].from # None /\ Continue(w, "csrfGet", 0, 0)
        \/ req[w].from = None /\ Continue(w, Handler(req[w].kind), 0, 0)
    BY <2>1 DEF Authenticated
  <2> QED BY <1>1, <1>3, <2>2, PassSync
<1>5. CASE CsrfGet(w)
  <2>1. PICK row \in CsrfGetRow(req[w].jti) :
          row # None /\ Continue(w, "csrfPut", 0, row.until)
    BY <1>5 DEF CsrfGet, Matches
  <2>2. row.until \in Nat
    BY <1>1, <2>1 DEF CsrfGetRow, Present, TypeOK, CsrfRow
  <2>3. req[w].from # None
    BY <1>2, <1>5 DEF RequestSync, CsrfGet, At
  <2> QED BY <1>1, <1>3, <2>1, <2>2, <2>3, PassSync
<1>6. CASE CsrfRefuse(w)
  BY <1>1, <1>3, <1>6, PassSync DEF CsrfRefuse
<1> QED BY <1>4, <1>5, <1>6

\* A new secret is stored and on its way to the browser.
LEMMA PutSync ==
  ASSUME Undisturbed, TypeOK, SyncInv, NEW w \in Workers, LoginPut(w) \/ CsrfPut(w)
  PROVE  SyncInv'
<1> DEFINE j == req[w].jti
           next == Handler(req[w].kind)
<1>1. /\ UNCHANGED <<now, expiry, jar, ending>>
      /\ req[w] # None /\ req[w] \in Request /\ j \in Jtis
      /\ drawn \in Nat /\ req[w].until \in Nat /\ expiry[j] \in Nat
  BY DEF LoginPut, CsrfPut, At, history, TypeOK, Request
<1>2. RequestSync(req[w])
  BY DEF SyncInv
<1>3. /\ req[w].from # None
      /\ \/ req[w].kind = "login"
         \/ req[w].kind \in {"call", "logout"}
  BY <1>1, <1>2 DEF RequestSync, LoginPut, CsrfPut, At, Request, Kinds
<1>4. /\ \E until \in Nat : CsrfPutRow(j, drawn + 1, until)
      /\ Continue(w, next, drawn + 1, 0)
  BY <1>1, <1>2 DEF Undisturbed, LoginPut, CsrfPut, Handler, RequestSync, At
<1>5. PICK row \in CsrfRow : row.secret = drawn + 1 /\ csrf' = [csrf EXCEPT ![j] = row]
  <2>1. PICK until \in Nat : CsrfPutRow(j, drawn + 1, until)
    BY <1>4
  <2> DEFINE new == [secret |-> drawn + 1, until |-> until]
  <2>2. new \in CsrfRow /\ new.secret = drawn + 1 /\ csrf' = [csrf EXCEPT ![j] = new]
    BY <1>1, <2>1 DEF CsrfPutRow, CsrfRow
  <2> QED BY <2>2
<1>6. /\ csrf'[j] = row /\ row # None
      /\ \A i \in Jtis \ {j} : csrf'[i] = csrf[i]
  BY <1>1, <1>5, RowIsNotNone DEF TypeOK
<1>7. /\ req'[w] # None /\ req'[w].at = next /\ req'[w].kind = req[w].kind
      /\ req'[w].from = req[w].from /\ req'[w].jti = j /\ req'[w].secret = drawn + 1
      /\ \A v \in Workers \ {w} : req'[v] = req[v]
  <2>1. next \in Places
    BY DEF Handler, Places
  <2> QED BY <1>1, <1>4, <2>1, ContinueRequest
<1>8. PICK b \in Browsers : b = req[w].from
  BY <1>1, <1>3 DEF Request
<1> HIDE DEF j
<1>9. RequestSync(req[w])'
  <2>1. drawn + 1 # 0
    BY <1>1
  <2>2. next = "respond" \/ (next = "logoutDelete" /\ req[w].kind = "logout")
    BY DEF Handler
  <2>3. req[w].kind = "logout" => next = "logoutDelete"
    BY DEF Handler
  <2>4. /\ req[w].kind = "login" => \A c \in Browsers : jar[c].auth # j
        /\ req[w].kind # "login" => jar[req[w].from].auth = j
    BY <1>2, <1>1, <1>3 DEF RequestSync, j
  <2> HIDE DEF next
  <2> QED BY <1>1, <1>3, <1>5, <1>6, <1>7, <2>1, <2>2, <2>3, <2>4 DEF RequestSync
<1>10. JarSync(b)'
  <2>1. JarSync(b)
    BY DEF SyncInv
  <2>2. CASE req[w].kind = "login"
    <3>1. jar[b].auth # j
      BY <1>2, <1>1, <1>3, <2>2 DEF RequestSync, j
    <3>2. jar[b].auth # None => csrf'[jar[b].auth] = csrf[jar[b].auth]
      BY <1>6, <3>1 DEF TypeOK, Jar
    <3>3. Rotated(b)' <=> Rotated(b)
      BY <1>7, <2>2 DEF Rotated
    <3> QED BY <1>1, <2>1, <3>2, <3>3 DEF JarSync, Live
  <2>3. CASE req[w].kind # "login"
    <3>1. Rotated(b)'
      BY <1>7, <1>8, <2>3 DEF Rotated, Handler
    <3>2. jar[b].auth = j
      BY <1>1, <1>2, <1>3, <1>8, <2>3 DEF RequestSync, j
    <3> QED BY <1>1, <1>6, <2>1, <3>1, <3>2 DEF JarSync, Live
  <2> QED BY <2>2, <2>3
<1>11. /\ jar'[b].auth = jar[b].auth /\ jar'[b] = jar[b]
       /\ \A c \in Browsers \ {b} : jar'[c] = jar[c]
  BY <1>1
<1> QED BY <1>1, <1>6, <1>7, <1>8, <1>9, <1>10, <1>11, OwnStep DEF j

\* A logout ends the session, whoever asks for it.
LEMMA LogoutSync ==
  ASSUME Undisturbed, TypeOK, SyncInv, NEW w \in Workers, LogoutDelete(w) \/ LogoutRevoke(w)
  PROVE  SyncInv'
<1> DEFINE j == req[w].jti
<1>1. /\ UNCHANGED <<now, expiry, jar>>
      /\ req[w] # None /\ req[w] \in Request /\ j \in Jtis
      /\ req[w].at \in {"logoutDelete", "logoutRevoke"}
  BY DEF LogoutDelete, LogoutRevoke, At, TypeOK, Request
<1>2. RequestSync(req[w])
  BY DEF SyncInv
<1>3. /\ ending \subseteq ending' /\ j \in ending'
      /\ \A i \in Jtis \ {j} : csrf'[i] = csrf[i]
  <2>1. CASE LogoutDelete(w)
    BY <1>1, <2>1 DEF Undisturbed, LogoutDelete, TypeOK
  <2>2. CASE LogoutRevoke(w)
    <3>1. j \in ending
      BY <1>1, <1>2, <2>2 DEF LogoutRevoke, At, RequestSync
    <3> QED BY <2>2, <3>1 DEF LogoutRevoke
  <2> QED BY <2>1, <2>2
<1>4. PICK place \in {"logoutRevoke", "respond"} : Continue(w, place, 0, 0)
  BY DEF LogoutDelete, LogoutRevoke
<1>5. /\ req'[w] # None /\ req'[w].at = place /\ req'[w].kind = req[w].kind
      /\ req'[w].from = req[w].from /\ req'[w].jti = j
      /\ \A v \in Workers \ {w} : req'[v] = req[v]
  BY <1>1, <1>4, ContinueRequest DEF Places
<1>6. RequestSync(req[w])'
  BY <1>1, <1>2, <1>3, <1>5 DEF RequestSync, Live
<1>7. CASE req[w].from = None
  BY <1>1, <1>3, <1>5, <1>6, <1>7, AsideStep
<1>8. CASE req[w].from # None
  <2>1. PICK b \in Browsers : b = req[w].from
    BY <1>1, <1>8 DEF Request
  <2>2. jar[b].auth = j /\ JarSync(b)
    BY <1>1, <1>2, <1>8, <2>1 DEF RequestSync, SyncInv
  <2>3. JarSync(b)'
    BY <1>1, <1>3, <2>2 DEF JarSync, Live
  <2> QED BY <1>1, <1>3, <1>5, <1>6, <2>1, <2>3, OwnStep
<1> QED BY <1>7, <1>8

\* The response brings the browser what the server has stored.
LEMMA RespondSync ==
  ASSUME Undisturbed, TypeOK, SessionInv, SyncInv, NEW w \in Workers, Respond(w)
  PROVE  SyncInv'
<1> DEFINE j == req[w].jti
<1>1. /\ UNCHANGED <<now, expiry, csrf, ending>>
      /\ req[w] # None /\ req[w] \in Request /\ j \in Jtis /\ req[w].at = "respond"
      /\ now \in Nat /\ expiry[j] \in Nat /\ expiry[j] # 0
  BY DEF Respond, At, tables, history, TypeOK, Request, SessionInv, RequestOfSession
<1>2. req'[w] = None /\ \A v \in Workers \ {w} : req'[v] = req[v]
  BY ReturnShape DEF Respond
<1>3. RequestSync(req[w])' /\ RequestSync(req[w])
  BY <1>2 DEF RequestSync, SyncInv
<1>4. CASE req[w].from = None
  <2>1. jar' = jar
    BY <1>4 DEF Respond
  <2> QED BY <1>1, <1>2, <1>3, <1>4, <2>1, AsideStep
<1>5. CASE req[w].from # None
  <2>1. PICK b \in Browsers : b = req[w].from
    BY <1>1, <1>5 DEF Request
  <2> DEFINE new == Received(b, req[w])
  <2>2. jar' = [jar EXCEPT ![b] = new]
    BY <1>5, <2>1 DEF Respond
  <2>3. jar'[b] = new /\ \A c \in Browsers \ {b} : jar'[c] = jar[c]
    BY <2>2 DEF TypeOK
  <2>4. ~Live(j) \/ (req[w].secret # 0 /\ csrf[j] # None /\ csrf[j].secret = req[w].secret)
    BY <1>1, <1>3, <1>5 DEF RequestSync
  <2>5. expiry[j] <= now + CsrfCookieTTL
    BY <1>1, DurationAssumption DEF SyncInv, Undisturbed
  <2>6. jar[b] \in Jar
    BY DEF TypeOK
  <2>7. /\ new.auth \in {jar[b].auth, None, j}
        /\ new.auth # None => new.auth = j
        /\ new.auth # None /\ Live(j) =>
             new.csrf = req[w].secret /\ new.csrfUntil = now + CsrfCookieTTL
    <3>1. CASE req[w].kind = "logout"
      BY <3>1 DEF Received, EmptyJar
    <3>2. CASE req[w].kind = "login"
      BY <2>4, <2>6, <3>2 DEF Received, Jar
    <3>3. CASE req[w].kind \notin {"login", "logout"}
      <4>1. jar[b].auth = j
        BY <1>3, <1>1, <1>5, <2>1, <3>3 DEF RequestSync
      <4> QED BY <2>6, <3>3, <4>1 DEF Received, Jar
    <3> QED BY <3>1, <3>2, <3>3
  <2> HIDE DEF new
  <2>8. JarSync(b)'
    BY <1>1, <2>3, <2>4, <2>5, <2>7 DEF JarSync, Live
  <2> QED BY <1>1, <1>2, <1>3, <2>1, <2>3, <2>7, <2>8, OwnStep
<1> QED BY <1>4, <1>5

\* Browsers with one request on the way at a time always hold the stored secret
\* of a session that lives, whatever Bearer clients and other browsers do beside
\* them: without faults, parallel requests are the only way to lose it.
THEOREM InSyncOneAtATime ==
  ASSUME Undisturbed
  PROVE  Spec /\ []OneAtATime => []InSync
<1>1. Init => SyncInv
  <2> SUFFICES ASSUME Init PROVE SyncInv
    OBVIOUS
  <2>1. /\ \A b \in Browsers : jar[b].auth = None
        /\ \A w \in Workers : req[w] = None
        /\ \A j \in Jtis : expiry[j] = 0
        /\ now = 1
    BY DEF Init, EmptyJar
  <2> QED BY <2>1, DurationAssumption DEF SyncInv, JarSync, RequestSync, RequestsApart
<1>2. ASSUME TypeOK, SessionInv, OneAtATime', SyncInv, [Next]_vars PROVE SyncInv'
  <2>1. ASSUME NEW w \in Workers, Step(w) PROVE SyncInv'
    BY <1>2, <2>1, CheckSync, PutSync, LogoutSync, RespondSync DEF Step
  <2>2. CASE Tick
    <3>1. /\ now \in Nat /\ JWTExpiry \in Nat /\ now' = now + 1
          /\ UNCHANGED <<expiry, csrf, jar, req, ending>>
      BY <1>2, <2>2, DurationAssumption DEF Tick, TypeOK, tables, history
    <3>2. \A j \in Jtis : expiry[j] \in Nat
      BY <1>2 DEF TypeOK
    <3>3. \A j \in Jtis : expiry'[j] <= now' + JWTExpiry
      BY <1>2, <3>1, <3>2 DEF SyncInv
    <3>4. \A j \in Jtis : Live(j)' => Live(j)
      BY <3>1, <3>2 DEF Live
    <3>5. \A b \in Browsers : JarSync(b)'
      <4>1. \A b \in Browsers : Rotated(b)' <=> Rotated(b)
        BY <3>1 DEF Rotated
      <4>2. \A b \in Browsers : jar[b].auth # None => jar[b].auth \in Jtis
        BY <1>2 DEF TypeOK, Jar
      <4> QED BY <1>2, <3>1, <3>4, <4>1, <4>2 DEF SyncInv, JarSync
    <3>6. \A w \in Workers : RequestSync(req[w])'
      <4>1. \A w \in Workers : req[w] # None => req[w].jti \in Jtis
        BY <1>2 DEF TypeOK, Request
      <4> QED BY <1>2, <3>1, <3>4, <4>1 DEF SyncInv, RequestSync
    <3>7. \A v, w \in Workers : v # w => RequestsApart(req[v], req[w])'
      BY <1>2, <3>1 DEF SyncInv, RequestsApart
    <3> QED BY <1>2, <3>1, <3>3, <3>5, <3>6, <3>7 DEF SyncInv
  <2>3. CASE UNCHANGED vars
    <3>1. UNCHANGED <<now, expiry, csrf, jar, req, ending>>
      BY <2>3 DEF vars
    <3> QED BY <1>2, <3>1 DEF SyncInv, JarSync, Rotated, RequestSync, RequestsApart, Live
  <2>4. ~Replicate /\ ~Sweep /\ ~Crash /\ \A w \in Workers : ~RequestFails(w)
    BY DEF Undisturbed, Replicate, Sweep, Crash, RequestFails
  <2> QED
    BY <1>2, <2>1, <2>2, <2>3, <2>4, LoginSync, SendFromBrowserSync, SendWithoutCookieSync
    DEF Next
<1>3. TypeOK /\ SessionInv /\ SyncInv => InSync
  <2> SUFFICES ASSUME TypeOK, SessionInv, SyncInv, NEW b \in Browsers,
                      Live(jar[b].auth), ~OnTheWay(b)
               PROVE  /\ Present(csrf[jar[b].auth]) # None
                      /\ now < jar[b].csrfUntil
                      /\ jar[b].csrf = csrf[jar[b].auth].secret
    BY DEF InSync
  <2> DEFINE j == jar[b].auth
  <2>1. j \in Jtis /\ j # None /\ jar[b].csrfUntil \in Nat
    BY DEF Live, TypeOK, Jar
  <2>2. ~Rotated(b)
    BY DEF Rotated, OnTheWay
  <2>3. /\ csrf[j] # None /\ expiry[j] <= jar[b].csrfUntil
        /\ jar[b].csrf = csrf[j].secret
    BY <2>1, <2>2 DEF SyncInv, JarSync
  <2>4. csrf[j].until = expiry[j]
    BY <2>1, <2>3 DEF SessionInv, RowOfSession
  <2>5. now \in Nat /\ expiry[j] \in Nat /\ now < expiry[j]
    BY <2>1 DEF Live, TypeOK
  <2> QED BY <2>1, <2>3, <2>4, <2>5 DEF Present
<1> QED BY <1>1, <1>2, <1>3, SessionInvHolds, PTL DEF Spec

\* A request taken up keeps it if its browser waited, ...
LEMMA BeginAlone ==
  ASSUME ~Parallel, OneAtATime, NEW w \in Workers, TypeOK,
         NEW place, NEW kind, NEW b, NEW j, NEW cookie,
         Begin(w, place, kind, b, j, cookie)
  PROVE  OneAtATime'
<1>1. req'[w].from = b /\ \A v \in Workers \ {w} : req'[v] = req[v]
  BY DEF Begin, TypeOK
<1>2. b = None \/ \A v \in Workers : req[v] # None => req[v].from # b
  BY DEF Begin, MaySend, OnTheWay
<1> QED BY <1>1, <1>2 DEF OneAtATime

\* ... and one that goes on or ends is still of the same browser.
LEMMA GoOnAlone ==
  ASSUME OneAtATime, NEW w \in Workers, TypeOK, req[w] # None,
         Return(w) \/ \E place, secret, until : Continue(w, place, secret, until)
  PROVE  OneAtATime'
<1>1. req[w] \in Request
  BY DEF TypeOK
<1>2. /\ req'[w] = None \/ req'[w].from = req[w].from
      /\ \A v \in Workers \ {w} : req'[v] = req[v]
  BY <1>1 DEF Return, Continue, TypeOK, Request
<1> QED BY <1>2 DEF OneAtATime

\* A browser that waits for its responses has one request on the way.
LEMMA WaitingIsOneAtATime ==
  ASSUME ~Parallel
  PROVE  Spec => []OneAtATime
<1>1. Init => OneAtATime
  BY DEF Init, OneAtATime
<1>2. ASSUME TypeOK, OneAtATime, [Next]_vars PROVE OneAtATime'
  <2>1. ASSUME NEW w \in Workers,
               \/ Login(w) \/ SendFromBrowser(w) \/ SendBearer(w)
               \/ VerifyToken(w) \/ CheckRevocation(w)
        PROVE  OneAtATime'
    <3>1. \E place, kind, b, j, cookie : Begin(w, place, kind, b, j, cookie)
      BY <2>1 DEF Login, SendFromBrowser, SendBearer, VerifyToken, CheckRevocation
    <3> QED BY <1>2, <3>1, BeginAlone
  <2>2. ASSUME NEW w \in Workers, Step(w) \/ RequestFails(w) PROVE OneAtATime'
    <3>1. /\ req[w] # None
          /\ Return(w) \/ \E place, secret, until : Continue(w, place, secret, until)
      BY <2>2 DEF Step, RequestFails, LoginPut, CheckRevoked, Authenticated, CsrfGet,
                  CsrfRefuse, CsrfPut, LogoutDelete, LogoutRevoke, Respond, At
    <3> QED BY <1>2, <3>1, GoOnAlone
  <2>3. CASE Replicate \/ Sweep \/ Tick \/ UNCHANGED vars
    BY <1>2, <2>3 DEF Replicate, Sweep, Tick, vars, OneAtATime
  <2>4. CASE Crash
    BY <2>4 DEF Crash, OneAtATime
  <2> QED BY <1>2, <2>1, <2>2, <2>3, <2>4 DEF Next
<1> QED BY <1>1, <1>2, TypeCorrect, PTL DEF Spec

\* A browser that waits for its responses always holds the stored secret of a
\* session that lives, if nothing fails.
COROLLARY InSyncHolds ==
  ASSUME Undisturbed, ~Parallel
  PROVE  Spec => []InSync
BY InSyncOneAtATime, WaitingIsOneAtATime, PTL
=============================================================================
