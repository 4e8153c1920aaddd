--------------------------- MODULE AccountsProofs ---------------------------
(***************************************************************************)
(* Theorems about Accounts for every number of workers, addresses and      *)
(* passwords, with and without lagging reads.                              *)
(***************************************************************************)
EXTENDS Accounts, TLAPS

\* The part of TypeOK that a step of one request can disturb.
RequestsOK ==
  /\ req \in [Workers -> Request \cup {None}]
  /\ started \in Nat
  /\ \A w \in Workers : WellFormed(req[w])

\* A read returns a well-formed row or none.
LEMMA ReadType ==
  ASSUME TypeOK, NEW e \in Emails, NEW row \in GetUserByEmail(e)
  PROVE  row \in User \cup {None}
BY DEF TypeOK, GetUserByEmail

\* A look-up by token returns a well-formed row.
LEMMA TokenReadType ==
  ASSUME TypeOK, NEW e \in Emails, NEW t, NEW row \in GetUserByResetToken(e, t)
  PROVE  row \in User /\ row \in GetUserByEmail(e)
BY ReadType DEF GetUserByResetToken

\* Each edit a handler makes to its copy yields a row again.
LEMMA EditType ==
  ASSUME TypeOK, NEW row \in User
  PROVE  /\ CountFailure(row) \in User
         /\ NoFailures(row) \in User
         /\ \A p \in Passwords, c \in Codes :
              [row EXCEPT !.pw = p, !.code = c, !.codeExp = now + CodeTTL] \in User
         /\ \A c \in Codes : [row EXCEPT !.code = c, !.codeExp = now + CodeTTL] \in User
         /\ [row EXCEPT !.verified = TRUE, !.code = None, !.codeExp = 0] \in User
         /\ \A t \in Tokens :
              [row EXCEPT !.token = t, !.tokenExp = now + ResetTTL] \in User
         /\ \A p \in Passwords :
              [row EXCEPT !.pw = p, !.token = None, !.tokenExp = 0] \in User
         /\ \A p \in Passwords : [row EXCEPT !.pw = p] \in User
<1>0. now \in Nat
  BY DEF TypeOK
<1>1. CountFailure(row) \in User
  <2>1. row.fails + 1 \in Nat /\ now + LockTTL \in Nat /\ row.lockUntil \in Nat
    BY <1>0, NumberAssumption DEF User
  <2> DEFINE until == IF row.fails + 1 >= LockThreshold
                        THEN now + LockTTL ELSE row.lockUntil
  <2>2. until \in Nat
    BY <2>1
  <2>3. CountFailure(row) = [row EXCEPT !.fails = row.fails + 1, !.lockUntil = until]
    BY DEF CountFailure, User
  <2> HIDE DEF until
  <2> QED
    BY <2>1, <2>2, <2>3 DEF User
<1>2. NoFailures(row) \in User
  BY DEF NoFailures, User
<1>3. now + CodeTTL \in Nat /\ now + ResetTTL \in Nat
  BY <1>0, NumberAssumption
<1>4. \A p \in Passwords, c \in Codes :
        [row EXCEPT !.pw = p, !.code = c, !.codeExp = now + CodeTTL] \in User
  BY <1>3 DEF User
<1>5. \A c \in Codes : [row EXCEPT !.code = c, !.codeExp = now + CodeTTL] \in User
  BY <1>3 DEF User
<1>6. [row EXCEPT !.verified = TRUE, !.code = None, !.codeExp = 0] \in User
  BY DEF User
<1>7. \A t \in Tokens : [row EXCEPT !.token = t, !.tokenExp = now + ResetTTL] \in User
  BY <1>3 DEF User
<1>8. \A p \in Passwords :
        [row EXCEPT !.pw = p, !.token = None, !.tokenExp = 0] \in User
  BY DEF User
<1>9. \A p \in Passwords : [row EXCEPT !.pw = p] \in User
  BY DEF User
<1> QED
  BY <1>1, <1>2, <1>4, <1>5, <1>6, <1>7, <1>8, <1>9

\* So does the row signup fills in.
LEMMA NewUserType ==
  ASSUME TypeOK, NEW p \in Passwords, NEW c \in Codes
  PROVE  NewUser(p, c) \in User
BY NumberAssumption DEF TypeOK, User, NewUser

\* A worker that takes a request up.
LEMMA BeginType ==
  ASSUME TypeOK, NEW w \in Workers, NEW place \in Places, NEW e \in Emails,
         NEW p \in Passwords \cup {None}, NEW t \in Tokens \cup {None},
         NEW verified \in BOOLEAN, NEW row \in User \cup {None},
         WellFormed([at |-> place, who |-> e, pass |-> p, tok |-> t,
                     seen |-> verified, copy |-> row]),
         Begin(w, place, e, p, t, verified, row)
  PROVE  RequestsOK'
<1> DEFINE r == [at |-> place, who |-> e, pass |-> p, tok |-> t,
                 seen |-> verified, copy |-> row]
<1>1. r \in Request
  BY DEF Request
<1>2. req' = [req EXCEPT ![w] = r] /\ started' = started + 1
  BY DEF Begin
<1>3. WellFormed(r)
  OBVIOUS
<1> HIDE DEF r
<1>4. \A v \in Workers : req'[v] = IF v = w THEN r ELSE req[v]
  BY <1>2 DEF TypeOK
<1> QED
  BY <1>1, <1>2, <1>3, <1>4 DEF TypeOK, RequestsOK

\* A request that goes on.
LEMMA ContinueType ==
  ASSUME TypeOK, NEW w \in Workers, req[w] # None, NEW place \in Places,
         NEW row \in User \cup {None},
         WellFormed([req[w] EXCEPT !.at = place, !.copy = row]),
         Continue(w, place, row)
  PROVE  RequestsOK'
<1> DEFINE r == [req[w] EXCEPT !.at = place, !.copy = row]
<1>0. req[w] \in Request
  BY DEF TypeOK
<1>1. r \in Request
  BY <1>0 DEF Request
<1>2. req' = [req EXCEPT ![w] = r] /\ started' = started
  BY DEF Continue, TypeOK
<1>3. WellFormed(r)
  OBVIOUS
<1> HIDE DEF r
<1>4. \A v \in Workers : req'[v] = IF v = w THEN r ELSE req[v]
  BY <1>2 DEF TypeOK
<1> QED
  BY <1>1, <1>2, <1>3, <1>4 DEF TypeOK, RequestsOK

\* A request that ends.
LEMMA ReturnType ==
  ASSUME TypeOK, NEW w \in Workers, Return(w)
  PROVE  RequestsOK'
<1>1. req' = [req EXCEPT ![w] = None] /\ started' = started
  BY DEF Return
<1>2. \A v \in Workers : req'[v] = IF v = w THEN None ELSE req[v]
  BY <1>1 DEF TypeOK
<1>3. WellFormed(None)
  BY DEF WellFormed
<1> QED
  BY <1>1, <1>2, <1>3 DEF TypeOK, RequestsOK

\* The write of a whole row.
LEMMA StoreType ==
  ASSUME TypeOK, NEW e \in Emails, NEW row \in User, StoreRow(e, row)
  PROVE  /\ users' \in [Emails -> User \cup {None}]
         /\ replica' \in [Emails -> User \cup {None}]
BY DEF TypeOK, StoreRow

LEMMA UpdateType ==
  ASSUME TypeOK, NEW w \in Workers, req[w] # None, req[w].at \in CopyPlaces,
         UpdateUser(w)
  PROVE  /\ users' \in [Emails -> User \cup {None}]
         /\ replica' \in [Emails -> User \cup {None}]
<1>1. req[w] \in Request /\ req[w].copy # None
  BY DEF TypeOK, WellFormed
<1>2. req[w].who \in Emails /\ req[w].copy \in User
  BY <1>1 DEF Request
<1> QED
  BY <1>2, StoreType DEF UpdateUser

-----------------------------------------------------------------------------
(* Type correctness *)

\* The row a worker read or edited is not None, so a place that needs a copy
\* has one.
LEMMA RowIsNotNone == \A row \in User : row # None
BY NoneIsNoRecord

LEMMA RequestIsNotNone == \A r \in Request : r # None
BY NoneIsNoRecord

\* The steps of login keep the type invariant.
LEMMA LoginType ==
  ASSUME TypeOK, NEW w \in Workers, Login(w)
  PROVE  TypeOK'
<1> USE DEF table, mail, history
<1>1. ASSUME LoginMatch(w) PROVE TypeOK'
  <2>1. PICK e \in Emails, p \in Passwords : \E row \in GetUserByEmail(e) :
          /\ row # None
          /\ Begin(w, "checkLockout", e, p, None, row.verified, None)
    BY <1>1 DEF LoginMatch
  <2>2. PICK row \in GetUserByEmail(e) :
          row # None /\ Begin(w, "checkLockout", e, p, None, row.verified, None)
    BY <2>1
  <2>3. row.verified \in BOOLEAN
    BY <2>2, ReadType DEF User
  <2>4. WellFormed([at |-> "checkLockout", who |-> e, pass |-> p, tok |-> None,
                    seen |-> row.verified, copy |-> None])
    BY NoneAssumption DEF WellFormed, CopyPlaces, UpdatePlaces
  <2>5. RequestsOK'
    BY <2>2, <2>3, <2>4, BeginType DEF Places, LoginPlaces
  <2> QED
    BY <1>1, <2>5 DEF LoginMatch, TypeOK, RequestsOK
<1>2. ASSUME LoginMismatch(w) PROVE TypeOK'
  <2>1. PICK e \in Emails, p \in Passwords : \E row \in GetUserByEmail(e) :
          /\ row # None
          /\ Begin(w, "recordRead", e, p, None, row.verified, None)
    BY <1>2 DEF LoginMismatch
  <2>2. PICK row \in GetUserByEmail(e) :
          row # None /\ Begin(w, "recordRead", e, p, None, row.verified, None)
    BY <2>1
  <2>3. row.verified \in BOOLEAN
    BY <2>2, ReadType DEF User
  <2>4. WellFormed([at |-> "recordRead", who |-> e, pass |-> p, tok |-> None,
                    seen |-> row.verified, copy |-> None])
    BY NoneAssumption DEF WellFormed, CopyPlaces, UpdatePlaces
  <2>5. RequestsOK'
    BY <2>2, <2>3, <2>4, BeginType DEF Places, LoginPlaces
  <2> QED
    BY <1>2, <2>5 DEF LoginMismatch, TypeOK, RequestsOK
<1>3. ASSUME RecordRead(w) PROVE TypeOK'
  <2>1. PICK row \in GetUserByEmail(req[w].who) :
          row # None /\ Continue(w, "recordWrite", CountFailure(row))
    BY <1>3 DEF RecordRead
  <2>2. req[w] \in Request /\ req[w] # None /\ req[w].at = "recordRead"
    BY <1>3 DEF RecordRead, At, TypeOK
  <2>3. CountFailure(row) \in User
    BY <2>1, <2>2, ReadType, EditType DEF Request
  <2>4. WellFormed([req[w] EXCEPT !.at = "recordWrite", !.copy = CountFailure(row)])
    BY <2>2, <2>3, RowIsNotNone DEF WellFormed, TypeOK, LoginPlaces, Request
  <2>5. RequestsOK'
    BY <2>1, <2>2, <2>3, <2>4, ContinueType DEF Places, LoginPlaces
  <2> QED
    BY <1>3, <2>5 DEF RecordRead, TypeOK, RequestsOK
<1>4. ASSUME RecordWrite(w) PROVE TypeOK'
  <2>1. req[w] \in Request /\ req[w] # None /\ req[w].at \in CopyPlaces
    BY <1>4 DEF RecordWrite, At, TypeOK, CopyPlaces, UpdatePlaces
  <2>2. RequestsOK'
    BY <1>4, ReturnType DEF RecordWrite
  <2>3. users' \in [Emails -> User \cup {None}] /\ replica' \in [Emails -> User \cup {None}]
    BY <1>4, <2>1, UpdateType DEF RecordWrite
  <2>4. recorded' \in [Emails -> Nat]
    BY <1>4, <2>1 DEF RecordWrite, TypeOK, Request
  <2> QED
    BY <1>4, <2>2, <2>3, <2>4 DEF RecordWrite, TypeOK, RequestsOK
<1>5. ASSUME Unlocked(w), req[w] # None, req[w].at \in LoginPlaces
      PROVE  RequestsOK'
  <2>1. WellFormed([req[w] EXCEPT !.at = "clearRead", !.copy = None])
    BY <1>5, NoneAssumption
    DEF WellFormed, CopyPlaces, UpdatePlaces, LoginPlaces, TypeOK, Request
  <2> QED
    BY <1>5, <2>1, ContinueType, ReturnType DEF Unlocked, Places, LoginPlaces
<1>6. ASSUME CheckAccountLockout(w) PROVE TypeOK'
  <2>1. req[w] \in Request /\ req[w] # None /\ req[w].at = "checkLockout"
    BY <1>6 DEF CheckAccountLockout, At, TypeOK
  <2>2. PICK row \in GetUserByEmail(req[w].who) :
          /\ row # None
          /\ \/ Return(w)
             \/ Continue(w, "unlock", NoFailures(row))
             \/ Unlocked(w)
    BY <1>6 DEF CheckAccountLockout
  <2>3. NoFailures(row) \in User
    BY <2>1, <2>2, ReadType, EditType DEF Request
  <2>4. WellFormed([req[w] EXCEPT !.at = "unlock", !.copy = NoFailures(row)])
    BY <2>1, <2>3, RowIsNotNone DEF WellFormed, TypeOK, LoginPlaces, Request
  <2>5. Continue(w, "unlock", NoFailures(row)) => RequestsOK'
    BY <2>1, <2>3, <2>4, ContinueType DEF Places, LoginPlaces
  <2>6. RequestsOK'
    BY <2>1, <2>2, <2>5, <1>5, ReturnType DEF LoginPlaces
  <2> QED
    BY <1>6, <2>6 DEF CheckAccountLockout, TypeOK, RequestsOK
<1>7. ASSUME Unlock(w) PROVE TypeOK'
  <2>1. req[w] \in Request /\ req[w] # None /\ req[w].at = "unlock"
    BY <1>7 DEF Unlock, At, TypeOK
  <2>2. RequestsOK'
    BY <1>7, <2>1, <1>5, ReturnType DEF Unlock, LoginPlaces
  <2>3. users' \in [Emails -> User \cup {None}] /\ replica' \in [Emails -> User \cup {None}]
    BY <1>7, <2>1, UpdateType DEF Unlock, CopyPlaces, UpdatePlaces
  <2>4. forgiven' \in [Emails -> Nat]
    BY <1>7, <2>1 DEF Unlock, TypeOK, Request
  <2> QED
    BY <1>7, <2>2, <2>3, <2>4 DEF Unlock, TypeOK, RequestsOK
<1>8. ASSUME ClearRead(w) PROVE TypeOK'
  <2>1. PICK row \in GetUserByEmail(req[w].who) :
          row # None /\ Continue(w, "clearWrite", NoFailures(row))
    BY <1>8 DEF ClearRead
  <2>2. req[w] \in Request /\ req[w] # None /\ req[w].at = "clearRead"
    BY <1>8 DEF ClearRead, At, TypeOK
  <2>3. NoFailures(row) \in User
    BY <2>1, <2>2, ReadType, EditType DEF Request
  <2>4. WellFormed([req[w] EXCEPT !.at = "clearWrite", !.copy = NoFailures(row)])
    BY <2>2, <2>3, RowIsNotNone DEF WellFormed, TypeOK, LoginPlaces, Request
  <2>5. RequestsOK'
    BY <2>1, <2>2, <2>3, <2>4, ContinueType DEF Places, LoginPlaces
  <2> QED
    BY <1>8, <2>5 DEF ClearRead, TypeOK, RequestsOK
<1>9. ASSUME req[w] # None, req[w].at \in LoginPlaces, Continue(w, "issue", None)
      PROVE  RequestsOK'
  <2>1. WellFormed([req[w] EXCEPT !.at = "issue", !.copy = None])
    BY <1>9, NoneAssumption
    DEF WellFormed, CopyPlaces, UpdatePlaces, LoginPlaces, TypeOK, Request
  <2> QED
    BY <1>9, <2>1, ContinueType DEF Places, LoginPlaces
<1>10. ASSUME ClearWrite(w) PROVE TypeOK'
  <2>1. req[w] \in Request /\ req[w] # None /\ req[w].at = "clearWrite"
    BY <1>10 DEF ClearWrite, At, TypeOK
  <2>2. RequestsOK'
    BY <1>10, <2>1, <1>9 DEF ClearWrite, LoginPlaces
  <2>3. users' \in [Emails -> User \cup {None}] /\ replica' \in [Emails -> User \cup {None}]
    BY <1>10, <2>1, UpdateType DEF ClearWrite, CopyPlaces, UpdatePlaces
  <2>4. forgiven' \in [Emails -> Nat]
    BY <1>10, <2>1 DEF ClearWrite, TypeOK, Request
  <2> QED
    BY <1>10, <2>2, <2>3, <2>4 DEF ClearWrite, TypeOK, RequestsOK
<1>11. ASSUME ClearFails(w) PROVE TypeOK'
  <2>1. RequestsOK'
    BY <1>11, <1>9 DEF ClearFails, At, LoginPlaces
  <2> QED
    BY <1>11, <2>1 DEF ClearFails, TypeOK, RequestsOK
<1>12. ASSUME IssueSession(w) PROVE TypeOK'
  <2>1. req[w] \in Request /\ req[w].pass # None
    BY <1>12 DEF IssueSession, At, TypeOK, WellFormed, LoginPlaces
  <2>2. RequestsOK'
    BY <1>12, ReturnType DEF IssueSession
  <2> QED
    BY <1>12, <2>1, <2>2 DEF IssueSession, TypeOK, RequestsOK, Request
<1> QED
  BY <1>1, <1>2, <1>3, <1>4, <1>6, <1>7, <1>8, <1>10, <1>11, <1>12 DEF Login

\* The steps of signup keep the type invariant.
LEMMA SignupType ==
  ASSUME TypeOK, NEW w \in Workers, Signup(w)
  PROVE  TypeOK'
<1> USE DEF table, mail, history
<1>1. ASSUME SignupExisting(w) PROVE TypeOK'
  <2>1. PICK e \in Emails, p \in Passwords, c \in Codes :
          \E row \in GetUserByEmail(e) :
            /\ row # None
            /\ Begin(w, "resendMail", e, p, None, FALSE,
                     [row EXCEPT !.pw = p, !.code = c, !.codeExp = now + CodeTTL])
    BY <1>1 DEF SignupExisting
  <2>2. PICK row \in GetUserByEmail(e) :
            /\ row # None
            /\ Begin(w, "resendMail", e, p, None, FALSE,
                     [row EXCEPT !.pw = p, !.code = c, !.codeExp = now + CodeTTL])
    BY <2>1
  <2> DEFINE new == [row EXCEPT !.pw = p, !.code = c, !.codeExp = now + CodeTTL]
  <2>3. row \in User
    BY <2>2, ReadType
  <2>4. new \in User /\ new.code = c
    BY <2>3, EditType DEF User
  <2>5. Begin(w, "resendMail", e, p, None, FALSE, new)
    BY <2>2
  <2> HIDE DEF new
  <2>6. WellFormed([at |-> "resendMail", who |-> e, pass |-> p, tok |-> None,
                    seen |-> FALSE, copy |-> new])
    BY <2>4, RowIsNotNone, NoneAssumption DEF WellFormed, LoginPlaces
  <2>7. RequestsOK'
    BY <2>4, <2>5, <2>6, BeginType DEF Places, CopyPlaces
  <2> QED
    BY <1>1, <2>7 DEF SignupExisting, TypeOK, RequestsOK
<1>2. ASSUME ResendMail(w) PROVE TypeOK'
  <2>1. /\ req[w] \in Request /\ req[w] # None /\ req[w].at = "resendMail"
        /\ req[w].copy \in User /\ req[w].copy.code \in Codes
    BY <1>2 DEF ResendMail, At, TypeOK, WellFormed, Request, CopyPlaces, User
  <2>2. WellFormed([req[w] EXCEPT !.at = "resendWrite", !.copy = req[w].copy])
    BY <2>1, RowIsNotNone DEF WellFormed, LoginPlaces, Request
  <2>3. RequestsOK'
    BY <1>2, <2>1, <2>2, ContinueType, ReturnType
    DEF ResendMail, Places, CopyPlaces, UpdatePlaces
  <2>4. mailed' \in [Emails -> SUBSET (Codes \cup Tokens)]
    BY <1>2, <2>1 DEF ResendMail, TypeOK, Request
  <2> QED
    BY <1>2, <2>3, <2>4 DEF ResendMail, TypeOK, RequestsOK
<1>3. ASSUME ResendWrite(w) PROVE TypeOK'
  <2>1. req[w] \in Request /\ req[w] # None /\ req[w].at \in CopyPlaces
    BY <1>3 DEF ResendWrite, At, TypeOK, CopyPlaces, UpdatePlaces
  <2>2. RequestsOK'
    BY <1>3, ReturnType DEF ResendWrite
  <2>3. users' \in [Emails -> User \cup {None}] /\ replica' \in [Emails -> User \cup {None}]
    BY <1>3, <2>1, UpdateType DEF ResendWrite
  <2> QED
    BY <1>3, <2>2, <2>3 DEF ResendWrite, TypeOK, RequestsOK
<1>4. ASSUME SignupNew(w) PROVE TypeOK'
  <2>1. PICK e \in Emails, p \in Passwords, c \in Codes :
          Begin(w, "create", e, p, None, FALSE, NewUser(p, c))
    BY <1>4 DEF SignupNew
  <2>2. NewUser(p, c) \in User
    BY NewUserType
  <2>3. WellFormed([at |-> "create", who |-> e, pass |-> p, tok |-> None,
                    seen |-> FALSE, copy |-> NewUser(p, c)])
    BY <2>2, RowIsNotNone DEF WellFormed, LoginPlaces
  <2>4. RequestsOK'
    BY <2>1, <2>2, <2>3, BeginType DEF Places, CopyPlaces
  <2> QED
    BY <1>4, <2>4 DEF SignupNew, TypeOK, RequestsOK
<1>5. ASSUME Create(w) PROVE TypeOK'
  <2>1. /\ req[w] \in Request /\ req[w] # None /\ req[w].at = "create"
        /\ req[w].who \in Emails /\ req[w].copy \in User
    BY <1>5 DEF Create, At, TypeOK, WellFormed, Request, CopyPlaces
  <2> DEFINE new(c) == [req[w].copy EXCEPT !.code = c, !.codeExp = now + CodeTTL]
  <2>2. PICK c \in Codes :
          /\ StoreRow(req[w].who, new(c))
          /\ \/ Continue(w, "createMail", new(c)) /\ outbox' = outbox \cup {<<req[w].who, c>>}
             \/ Return(w) /\ UNCHANGED outbox
    BY <1>5 DEF Create
  <2>3. new(c) \in User /\ new(c).code = c
    BY <2>1, EditType DEF User
  <2> HIDE DEF new
  <2>4. WellFormed([req[w] EXCEPT !.at = "createMail", !.copy = new(c)])
    BY <2>1, <2>3, RowIsNotNone, NoneAssumption DEF WellFormed, LoginPlaces, Request
  <2>5. RequestsOK'
    BY <2>1, <2>2, <2>3, <2>4, ContinueType, ReturnType DEF Places, CopyPlaces
  <2>6. users' \in [Emails -> User \cup {None}] /\ replica' \in [Emails -> User \cup {None}]
    BY <2>1, <2>2, <2>3, StoreType
  <2>7. outbox' \subseteq Emails \X (Codes \cup Tokens)
    BY <2>1, <2>2 DEF TypeOK
  <2> QED
    BY <1>5, <2>5, <2>6, <2>7 DEF Create, TypeOK, RequestsOK
<1>6. ASSUME CreateMail(w) PROVE TypeOK'
  <2>1. req[w] \in Request /\ req[w].copy \in User /\ req[w].copy.code \in Codes
    BY <1>6 DEF CreateMail, At, TypeOK, WellFormed, Request, CopyPlaces, User
  <2>2. RequestsOK'
    BY <1>6, ReturnType DEF CreateMail
  <2>3. mailed' \in [Emails -> SUBSET (Codes \cup Tokens)]
    BY <1>6, <2>1 DEF CreateMail, TypeOK, Request
  <2> QED
    BY <1>6, <2>2, <2>3 DEF CreateMail, TypeOK, RequestsOK
<1> QED
  BY <1>1, <1>2, <1>3, <1>4, <1>5, <1>6 DEF Signup

\* The steps of verification, reset and profile keep the type invariant.
LEMMA OtherType ==
  ASSUME TypeOK, NEW w \in Workers, OtherRequests(w)
  PROVE  TypeOK'
<1> USE DEF table, mail, history
<1>1. ASSUME VerifyEmail(w) PROVE TypeOK'
  <2> DEFINE new(row) == [row EXCEPT !.verified = TRUE, !.code = None, !.codeExp = 0]
  <2>1. PICK e \in Emails, p \in Passwords : \E row \in GetUserByEmail(e) :
          row # None /\ Begin(w, "verifyWrite", e, p, None, FALSE, new(row))
    BY <1>1 DEF VerifyEmail
  <2>2. PICK row \in GetUserByEmail(e) :
          row # None /\ Begin(w, "verifyWrite", e, p, None, FALSE, new(row))
    BY <2>1
  <2>3. new(row) \in User
    BY <2>2, ReadType, EditType
  <2> HIDE DEF new
  <2>4. WellFormed([at |-> "verifyWrite", who |-> e, pass |-> p, tok |-> None,
                    seen |-> FALSE, copy |-> new(row)])
    BY <2>3, RowIsNotNone, NoneAssumption DEF WellFormed, LoginPlaces
  <2>5. RequestsOK'
    BY <2>2, <2>3, <2>4, BeginType DEF Places, CopyPlaces, UpdatePlaces
  <2> QED
    BY <1>1, <2>5 DEF VerifyEmail, TypeOK, RequestsOK
<1>2. ASSUME VerifyWrite(w) PROVE TypeOK'
  <2>1. req[w] \in Request /\ req[w] # None /\ req[w].at \in CopyPlaces
    BY <1>2 DEF VerifyWrite, At, TypeOK, CopyPlaces, UpdatePlaces
  <2>2. RequestsOK'
    BY <1>2, ReturnType DEF VerifyWrite
  <2>3. users' \in [Emails -> User \cup {None}] /\ replica' \in [Emails -> User \cup {None}]
    BY <1>2, <2>1, UpdateType DEF VerifyWrite
  <2>4. authorised' \in [Emails -> SUBSET Passwords]
    <3>1. req[w].copy.pw \in Passwords
      BY <2>1 DEF TypeOK, WellFormed, Request, User
    <3> QED
      BY <1>2, <2>1, <3>1 DEF VerifyWrite, TypeOK, Request
  <2> QED
    BY <1>2, <2>2, <2>3, <2>4 DEF VerifyWrite, TypeOK, RequestsOK
<1>3. ASSUME ResetPassword(w) PROVE TypeOK'
  <2> DEFINE new(row, t) == [row EXCEPT !.token = t, !.tokenExp = now + ResetTTL]
  <2>1. PICK e \in Emails, t \in Tokens \ issued : \E row \in GetUserByEmail(e) :
          /\ row # None
          /\ Begin(w, "resetWrite", e, None, t, FALSE, new(row, t))
          /\ issued' = issued \cup {t}
    BY <1>3 DEF ResetPassword
  <2>2. PICK row \in GetUserByEmail(e) :
          row # None /\ Begin(w, "resetWrite", e, None, t, FALSE, new(row, t))
    BY <2>1
  <2>3. new(row, t) \in User
    BY <2>2, ReadType, EditType
  <2> HIDE DEF new
  <2>4. WellFormed([at |-> "resetWrite", who |-> e, pass |-> None, tok |-> t,
                    seen |-> FALSE, copy |-> new(row, t)])
    BY <2>3, RowIsNotNone, NoneAssumption DEF WellFormed, LoginPlaces
  <2>5. RequestsOK'
    BY <2>2, <2>3, <2>4, BeginType DEF Places, CopyPlaces, UpdatePlaces
  <2>6. issued' \subseteq Tokens
    BY <2>1 DEF TypeOK
  <2> QED
    BY <1>3, <2>5, <2>6 DEF ResetPassword, TypeOK, RequestsOK
<1>4. ASSUME ResetWrite(w) PROVE TypeOK'
  <2>1. req[w] \in Request /\ req[w] # None /\ req[w].at \in CopyPlaces
    BY <1>4 DEF ResetWrite, At, TypeOK, CopyPlaces, UpdatePlaces
  <2>2. RequestsOK'
    BY <1>4, ReturnType DEF ResetWrite
  <2>3. users' \in [Emails -> User \cup {None}] /\ replica' \in [Emails -> User \cup {None}]
    BY <1>4, <2>1, UpdateType DEF ResetWrite
  <2>4. outbox' \subseteq Emails \X (Codes \cup Tokens)
    <3>1. req[w].who \in Emails /\ req[w].tok \in Tokens
      BY <1>4, <2>1 DEF ResetWrite, At, TypeOK, WellFormed, Request
    <3> QED
      BY <1>4, <3>1 DEF ResetWrite, TypeOK
  <2> QED
    BY <1>4, <2>2, <2>3, <2>4 DEF ResetWrite, TypeOK, RequestsOK
<1>5. ASSUME ConfirmResetPassword(w) PROVE TypeOK'
  <2> DEFINE new(row, p) == [row EXCEPT !.pw = p, !.token = None, !.tokenExp = 0]
  <2>1. PICK e \in Emails, box \in Emails, p \in Passwords :
          \E t \in mailed[box] \cap Tokens : \E row \in GetUserByResetToken(e, t) :
            Begin(w, "confirmWrite", e, p, t, FALSE, new(row, p))
    BY <1>5 DEF ConfirmResetPassword
  <2>2. PICK t \in Tokens : \E row \in GetUserByResetToken(e, t) :
            Begin(w, "confirmWrite", e, p, t, FALSE, new(row, p))
    BY <2>1
  <2>3. PICK row \in GetUserByResetToken(e, t) :
            Begin(w, "confirmWrite", e, p, t, FALSE, new(row, p))
    BY <2>2
  <2>4. new(row, p) \in User
    BY <2>3, TokenReadType, EditType
  <2> HIDE DEF new
  <2>5. WellFormed([at |-> "confirmWrite", who |-> e, pass |-> p, tok |-> t,
                    seen |-> FALSE, copy |-> new(row, p)])
    BY <2>4, RowIsNotNone, NoneAssumption DEF WellFormed, LoginPlaces
  <2>6. RequestsOK'
    BY <2>3, <2>4, <2>5, BeginType DEF Places, CopyPlaces, UpdatePlaces
  <2> QED
    BY <1>5, <2>6 DEF ConfirmResetPassword, TypeOK, RequestsOK
<1>6. ASSUME ConfirmWrite(w) PROVE TypeOK'
  <2>1. req[w] \in Request /\ req[w] # None /\ req[w].at \in CopyPlaces
    BY <1>6 DEF ConfirmWrite, At, TypeOK, CopyPlaces, UpdatePlaces
  <2>2. RequestsOK'
    BY <1>6, ReturnType DEF ConfirmWrite
  <2>3. users' \in [Emails -> User \cup {None}] /\ replica' \in [Emails -> User \cup {None}]
    BY <1>6, <2>1, UpdateType DEF ConfirmWrite
  <2>4. authorised' \in [Emails -> SUBSET Passwords] /\ used' \in [Tokens -> Nat]
    <3>1. req[w].pass \in Passwords /\ req[w].tok \in Tokens
      BY <1>6, <2>1 DEF ConfirmWrite, At, TypeOK, WellFormed, Request
    <3> QED
      BY <1>6, <2>1, <3>1 DEF ConfirmWrite, TypeOK, Request
  <2> QED
    BY <1>6, <2>2, <2>3, <2>4 DEF ConfirmWrite, TypeOK, RequestsOK
<1>7. ASSUME Profile(w) PROVE TypeOK'
  <2> DEFINE new(row, p) == IF p = None THEN row ELSE [row EXCEPT !.pw = p]
  <2>1. PICK e \in Emails, p \in Passwords \cup {None} : \E row \in GetUserByEmail(e) :
          row # None /\ Begin(w, "profileWrite", e, p, None, FALSE, new(row, p))
    BY <1>7 DEF Profile
  <2>2. PICK row \in GetUserByEmail(e) :
          row # None /\ Begin(w, "profileWrite", e, p, None, FALSE, new(row, p))
    BY <2>1
  <2>3. new(row, p) \in User
    BY <2>2, ReadType, EditType
  <2> HIDE DEF new
  <2>4. WellFormed([at |-> "profileWrite", who |-> e, pass |-> p, tok |-> None,
                    seen |-> FALSE, copy |-> new(row, p)])
    BY <2>3, RowIsNotNone DEF WellFormed, LoginPlaces
  <2>5. RequestsOK'
    BY <2>2, <2>3, <2>4, BeginType DEF Places, CopyPlaces, UpdatePlaces
  <2> QED
    BY <1>7, <2>5 DEF Profile, TypeOK, RequestsOK
<1>8. ASSUME ProfileWrite(w) PROVE TypeOK'
  <2>1. req[w] \in Request /\ req[w] # None /\ req[w].at \in CopyPlaces
    BY <1>8 DEF ProfileWrite, At, TypeOK, CopyPlaces, UpdatePlaces
  <2>2. RequestsOK'
    BY <1>8, ReturnType DEF ProfileWrite
  <2>3. users' \in [Emails -> User \cup {None}] /\ replica' \in [Emails -> User \cup {None}]
    BY <1>8, <2>1, UpdateType DEF ProfileWrite
  <2>4. authorised' \in [Emails -> SUBSET Passwords]
    BY <1>8, <2>1 DEF ProfileWrite, TypeOK, Request
  <2> QED
    BY <1>8, <2>2, <2>3, <2>4 DEF ProfileWrite, TypeOK, RequestsOK
<1> QED
  BY <1>1, <1>2, <1>3, <1>4, <1>5, <1>6, <1>7, <1>8 DEF OtherRequests

\* The rest of Next keeps the type invariant.
LEMMA EnvironmentType ==
  ASSUME TypeOK
  PROVE  /\ \A w \in Workers : RequestFails(w) => TypeOK'
         /\ DeliverMail => TypeOK'
         /\ Replicate => TypeOK'
         /\ Crash => TypeOK'
         /\ Tick => TypeOK'
<1> USE DEF table, mail, history
<1>1. ASSUME NEW w \in Workers, RequestFails(w) PROVE TypeOK'
  <2>1. RequestsOK'
    BY <1>1, ReturnType DEF RequestFails
  <2> QED
    BY <1>1, <2>1 DEF RequestFails, TypeOK, RequestsOK
<1>2. ASSUME DeliverMail PROVE TypeOK'
  <2>1. PICK m \in outbox :
          /\ outbox' = outbox \ {m}
          /\ \/ mailed' = [mailed EXCEPT ![m[1]] = @ \cup {m[2]}]
             \/ UNCHANGED mailed
    BY <1>2 DEF DeliverMail
  <2>2. m[1] \in Emails /\ m[2] \in Codes \cup Tokens
    BY DEF TypeOK
  <2>3. mailed' \in [Emails -> SUBSET (Codes \cup Tokens)]
    BY <2>1, <2>2 DEF TypeOK
  <2> QED
    BY <1>2, <2>1, <2>3 DEF DeliverMail, TypeOK
<1>3. ASSUME Replicate PROVE TypeOK'
  BY <1>3 DEF Replicate, TypeOK
<1>4. ASSUME Crash PROVE TypeOK'
  BY <1>4 DEF Crash, TypeOK, WellFormed
<1>5. ASSUME Tick PROVE TypeOK'
  BY <1>5 DEF Tick, TypeOK
<1> QED
  BY <1>1, <1>2, <1>3, <1>4, <1>5

\* Every variable of the account model keeps its type in every behaviour, and
\* no handler reaches a write without a row in its hand.
THEOREM TypeCorrect == Spec => []TypeOK
<1>1. Init => TypeOK
  BY DEF Init, TypeOK, WellFormed
<1>2. TypeOK /\ [Next]_vars => TypeOK'
  <2> SUFFICES ASSUME TypeOK, [Next]_vars PROVE TypeOK'
    OBVIOUS
  <2>1. CASE UNCHANGED vars
    BY <2>1 DEF vars, TypeOK
  <2>2. CASE Next
    BY <2>2, LoginType, SignupType, OtherType, EnvironmentType DEF Next
  <2> QED
    BY <2>1, <2>2
<1> QED
  BY <1>1, <1>2, PTL DEF Spec
=============================================================================
