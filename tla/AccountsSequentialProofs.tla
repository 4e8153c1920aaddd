---------------------- MODULE AccountsSequentialProofs ----------------------
(***************************************************************************)
(* Where reads do not lag and requests on one account do not overlap,      *)
(* Accounts implements AccountsAtomic: every request takes effect at once  *)
(* or not at all, whatever calls fail, mails are late or processes crash   *)
(* in between, and however requests on different accounts interleave.      *)
(***************************************************************************)
EXTENDS AccountsSafetyProofs

\* Requests on one account wait for each other, as under a mutex per account.
NoOverlap ==
  \A v, w \in Workers :
    v # w /\ req[v] # None /\ req[w] # None => req[v].who # req[w].who

Serial == ~StaleReads /\ NoOverlap

\* The row after one more failed login, counted at time t.
Failed(u, t) ==
  [u EXCEPT !.fails = u.fails + 1,
            !.lockUntil = IF u.fails + 1 >= LockThreshold THEN t + LockTTL ELSE u.lockUntil]

\* The edits of the other handlers.
Resigned(u, p, c, exp)  == [u EXCEPT !.pw = p, !.code = c, !.codeExp = exp]
Verified(u)             == [u EXCEPT !.verified = TRUE, !.code = None, !.codeExp = 0]
WithToken(u, t, exp)    == [u EXCEPT !.token = t, !.tokenExp = exp]
WithoutToken(u, p)      == [u EXCEPT !.pw = p, !.token = None, !.tokenExp = 0]
WithPassword(u, p)      == [u EXCEPT !.pw = p]

Cleared(r, u) == u # None /\ u.pw = r.pass /\ u.verified /\ now >= u.lockUntil

\* What request r holds is one edit of row u as it is stored now: nobody has
\* written the row since r read it.
PendingAt(r, u) ==
  /\ r.at = "recordWrite" =>
       u # None /\ \E t \in 1..now : u.lockUntil <= t + LockTTL /\ r.copy = Failed(u, t)
  /\ r.at \in {"checkLockout", "unlock"} =>
       u # None /\ u.pw = r.pass /\ (r.seen => u.verified)
  /\ r.at = "unlock" => now >= u.lockUntil
  /\ r.at \in {"unlock", "clearWrite"} => r.copy = NoFailures(u)
  /\ r.at \in {"clearRead", "clearWrite", "issue"} => Cleared(r, u)
  /\ r.at \in {"resendMail", "resendWrite"} =>
       /\ u # None /\ ~u.verified
       /\ \E c \in Codes, exp \in 1..now + CodeTTL : r.copy = Resigned(u, r.pass, c, exp)
  /\ r.at = "resendWrite" => r.copy.code \in mailed[r.who]
  /\ r.at = "create" =>
       /\ ~r.copy.verified /\ r.copy.token = None /\ r.copy.tokenExp = 0
       /\ r.copy.fails = 0 /\ r.copy.lockUntil = 0
  /\ r.at = "verifyWrite" =>
       /\ u # None /\ ~u.verified /\ u.code # None
       /\ r.copy = Verified(u)
  /\ r.at = "resetWrite" =>
       /\ u # None /\ r.tok \in Tokens
       /\ \E exp \in 1..now + ResetTTL : r.copy = WithToken(u, r.tok, exp)
  /\ r.at = "confirmWrite" =>
       /\ u # None /\ u.token = r.tok /\ r.tok # None
       /\ r.copy = WithoutToken(u, r.pass)
  /\ r.at = "profileWrite" =>
       /\ u # None /\ \E q \in Passwords : <<r.who, q>> \in granted
       /\ r.copy = u \/ (r.pass # None /\ r.copy = WithPassword(u, r.pass))

\* The inductive invariant: every request in flight holds one edit of its row,
\* and no lock reaches further than LockTTL ahead.
SeqInv ==
  /\ now >= 1
  /\ \A e \in Emails : users[e] # None => users[e].lockUntil <= now + LockTTL
  /\ \A w \in Workers : req[w] # None => PendingAt(req[w], users[req[w].who])

\* A step of the abstract account, or none.
AtomicStep == [Atomic!Next]_(Atomic!vars)

-----------------------------------------------------------------------------
\* A read returns the row.
LEMMA SequentialRead ==
  ASSUME Serial, NEW e
  PROVE  GetUserByEmail(e) = {users[e]}
  BY DEF Serial, GetUserByEmail

\* What one step of worker w has to show: its own request still holds an edit
\* of the row, and the rows of the other requests are as they were.
SeqStep(w) ==
  /\ UNCHANGED now
  /\ granted \subseteq granted'
  /\ \A e \in Emails : users'[e] # None => users'[e].lockUntil <= now' + LockTTL
  /\ \A v \in Workers \ {w} : req[v] # None => users'[req[v].who] = users[req[v].who]
  /\ req'[w] = None \/ PendingAt(req[w], users[req[w].who])'

\* A step that leaves table, time and sessions alone.
LEMMA SeqQuiet ==
  ASSUME Serial, SeqInv, NEW w \in Workers, UNCHANGED <<now, users, granted>>,
         req'[w] = None \/ PendingAt(req[w], users[req[w].who])'
  PROVE  SeqStep(w) /\ AtomicStep
<1>1. AtomicStep
  BY DEF AtomicStep, Atomic!vars
<1>2. SeqStep(w)
  BY DEF SeqInv, SeqStep
<1> QED BY <1>1, <1>2

\* The times at which a handler may have read the clock.
LEMMA Times ==
  ASSUME TypeOK, SeqInv
  PROVE  /\ now \in Nat /\ now \in 1..now
         /\ now + CodeTTL \in 1..now + CodeTTL
         /\ now + ResetTTL \in 1..now + ResetTTL
         /\ LockTTL \in Nat
  BY NumberAssumption DEF TypeOK, SeqInv

\* Counting a failure is Failed at the present time.
LEMMA CountFailureIsFailed ==
  ASSUME NEW row \in User
  PROVE  CountFailure(row) = Failed(row, now)
  BY DEF CountFailure, Failed, User

-----------------------------------------------------------------------------
(* Login *)

LEMMA LoginMatchSeq ==
  ASSUME Serial, TypeOK, SeqInv, NEW w \in Workers, LoginMatch(w) \/ LoginMismatch(w)
  PROVE  SeqStep(w) /\ AtomicStep
<1> USE DEF table, mail, history
<1>1. PICK place \in {"checkLockout", "recordRead"}, e \in Emails, p \in Passwords :
        /\ users[e] # None
        /\ place = "checkLockout" => users[e].pw = p
        /\ Begin(w, place, e, p, None, users[e].verified, None)
  BY SequentialRead DEF LoginMatch, LoginMismatch
<1>2. users[e].verified \in BOOLEAN
  BY <1>1 DEF TypeOK, User
<1>3. /\ req'[w].at = place /\ req'[w].who = e /\ req'[w].pass = p
      /\ req'[w].seen = users[e].verified
  <2>1. place \in Places
    BY DEF Places, LoginPlaces
  <2> QED BY <1>1, <1>2, <2>1, BeginShape
<1>4. UNCHANGED <<now, users, granted>>
  BY DEF LoginMatch, LoginMismatch
<1>5. PendingAt(req[w], users[req[w].who])'
  BY <1>1, <1>3, <1>4 DEF PendingAt
<1> QED BY <1>4, <1>5, SeqQuiet

LEMMA RecordReadSeq ==
  ASSUME Serial, TypeOK, SeqInv, NEW w \in Workers, RecordRead(w)
  PROVE  SeqStep(w) /\ AtomicStep
<1> USE DEF table, mail, history
<1> DEFINE u == users[req[w].who]
<1>1. req[w] # None /\ req[w].who \in Emails
  BY PassShape DEF RecordRead, At, LoginPlaces
<1>2. u # None /\ u \in User /\ Continue(w, "recordWrite", CountFailure(u))
  BY <1>1, SequentialRead DEF RecordRead, TypeOK
<1>3. CountFailure(u) \in User /\ CountFailure(u) = Failed(u, now)
  BY <1>2, EditType, CountFailureIsFailed
<1>4. /\ req'[w].at = "recordWrite" /\ req'[w].who = req[w].who
      /\ req'[w].copy = Failed(u, now)
  BY <1>1, <1>2, <1>3, ContinueShape DEF Places, LoginPlaces
<1>5. UNCHANGED <<now, users, granted>>
  BY DEF RecordRead
<1>6. u.lockUntil <= now + LockTTL /\ now \in 1..now
  BY <1>1, <1>2, Times DEF SeqInv
<1>7. PendingAt(req[w], users[req[w].who])'
  <2>1. req'[w].at = "recordWrite" /\ users'[req'[w].who] = u
    BY <1>4, <1>5
  <2>2. \E t \in 1..now' : u.lockUntil <= t + LockTTL /\ req'[w].copy = Failed(u, t)
    BY <1>4, <1>5, <1>6
  <2> QED BY <2>1, <2>2, <1>2 DEF PendingAt, Failed
<1> QED BY <1>5, <1>7, SeqQuiet

\* The write of a row that ends the request or takes it to a place where only
\* a cleared account matters.
LEMMA SeqWrite ==
  ASSUME Serial, TypeOK, SeqInv, NEW w \in Workers, req[w] # None,
         NEW row \in User, req[w].who \in Emails, StoreRow(req[w].who, row),
         UNCHANGED <<now, granted>>,
         row.lockUntil <= now + LockTTL,
         \/ req'[w] = None
         \/ /\ req'[w].at \in {"clearRead", "issue"} /\ req'[w].who = req[w].who
            /\ row.pw = req'[w].pass /\ row.verified /\ now >= row.lockUntil
         \/ req'[w].at = "createMail"
  PROVE  SeqStep(w)
<1>1. \A e \in Emails : users'[e] = IF e = req[w].who THEN row ELSE users[e]
  BY StoreShape
<1>2. \A e \in Emails : users'[e] # None => users'[e].lockUntil <= now' + LockTTL
  BY <1>1 DEF SeqInv
<1>3. req'[w] = None \/ PendingAt(req[w], users[req[w].who])'
  <2>1. CASE req'[w].at \in {"clearRead", "issue"} /\ req'[w].who = req[w].who
             /\ row.pw = req'[w].pass /\ row.verified /\ now >= row.lockUntil
    <3>1. users'[req'[w].who] = row /\ row # None
      BY <2>1, <1>1, RowIsNotNone
    <3> QED BY <2>1, <3>1 DEF PendingAt, Cleared
  <2>2. CASE req'[w].at = "createMail"
    BY <2>2 DEF PendingAt
  <2> QED BY <2>1, <2>2
<1>4. \A v \in Workers \ {w} : req[v] # None => users'[req[v].who] = users[req[v].who]
  BY <1>1 DEF Serial, NoOverlap, TypeOK, Request
<1> QED BY <1>2, <1>3, <1>4 DEF SeqStep

\* What the abstract account calls an update.
LEMMA AtomicUpdate ==
  ASSUME TypeOK, NEW e \in Emails, NEW row, StoreRow(e, row), UNCHANGED <<now, granted>>
  PROVE  Atomic!Update(e, row)
  BY DEF StoreRow, Atomic!Update

LEMMA RecordWriteSeq ==
  ASSUME Serial, TypeOK, SeqInv, NEW w \in Workers, RecordWrite(w)
  PROVE  SeqStep(w) /\ AtomicStep
<1> DEFINE e == req[w].who
           u == users[e]
           row == req[w].copy
<1>1. /\ req[w] # None /\ e \in Emails /\ row \in User /\ req[w].at = "recordWrite"
      /\ StoreRow(e, row) /\ UNCHANGED <<now, granted>> /\ req'[w] = None
  BY WriterShape, ReturnShape
     DEF RecordWrite, At, CopyPlaces, UpdatePlaces, UpdateUser
<1>2. u # None /\ u \in User
  BY <1>1 DEF SeqInv, PendingAt, TypeOK
<1>3. PICK t \in 1..now : u.lockUntil <= t + LockTTL /\ row = Failed(u, t)
  BY <1>1 DEF SeqInv, PendingAt
<1>4. now \in Nat /\ LockTTL \in Nat /\ u.fails \in Nat /\ u.lockUntil \in Nat
      /\ u.lockUntil <= now + LockTTL
  BY <1>1, <1>2, Times DEF SeqInv, User
<1>5. /\ row.lockUntil = IF u.fails + 1 >= LockThreshold THEN t + LockTTL ELSE u.lockUntil
  BY <1>2, <1>3 DEF Failed, User
<1>6. row.lockUntil <= now + LockTTL
  BY <1>4, <1>5
<1>7. Atomic!FailLogin(e)
  <2>1. CASE u.fails + 1 < LockThreshold
    <3>1. row = [u EXCEPT !.fails = @ + 1]
      <4>1. ~(u.fails + 1 >= LockThreshold)
        BY <2>1, <1>4, NumberAssumption
      <4>2. row = [u EXCEPT !.fails = u.fails + 1, !.lockUntil = u.lockUntil]
        BY <4>1, <1>3 DEF Failed
      <4> QED BY <4>2, <1>2 DEF User
    <3> QED BY <2>1, <3>1, <1>1, <1>2, AtomicUpdate DEF Atomic!FailLogin
  <2>2. CASE u.fails + 1 >= LockThreshold
    <3>1. row = [u EXCEPT !.fails = @ + 1, !.lockUntil = t + LockTTL]
      BY <2>2, <1>2, <1>3 DEF Failed, User
    <3>2. t + LockTTL \in 1..now + LockTTL /\ t + LockTTL >= u.lockUntil
      BY <1>3, <1>4
    <3> QED BY <2>2, <3>1, <3>2, <1>1, <1>2, AtomicUpdate DEF Atomic!FailLogin
  <2> QED BY <2>1, <2>2, <1>4, NumberAssumption
<1>8. AtomicStep
  BY <1>1, <1>7 DEF AtomicStep, Atomic!Next
<1> QED BY <1>1, <1>6, <1>8, SeqWrite

LEMMA CheckAccountLockoutSeq ==
  ASSUME Serial, TypeOK, SeqInv, NEW w \in Workers, CheckAccountLockout(w)
  PROVE  SeqStep(w) /\ AtomicStep
<1> USE DEF table, mail, history
<1> DEFINE u == users[req[w].who]
<1>1. req[w] # None /\ req[w].who \in Emails /\ req[w].at = "checkLockout"
      /\ req[w] \in Request
  BY PassShape DEF CheckAccountLockout, At, LoginPlaces, TypeOK
<1>2. /\ u # None /\ u \in User
      /\ \/ Return(w)
         \/ now > u.lockUntil /\ Continue(w, "unlock", NoFailures(u))
         \/ u.lockUntil \in {0, now} /\ Unlocked(w)
  BY <1>1, SequentialRead DEF CheckAccountLockout, TypeOK
<1>3. u.pw = req[w].pass /\ (req[w].seen => u.verified)
  BY <1>1 DEF SeqInv, PendingAt
<1>4. now \in Nat /\ u.lockUntil \in Nat
  BY <1>2, Times DEF User
<1>5. UNCHANGED <<now, users, granted>>
  BY DEF CheckAccountLockout
<1>6. CASE Return(w)
  BY <1>5, <1>6, ReturnShape, SeqQuiet
<1>7. CASE now > u.lockUntil /\ Continue(w, "unlock", NoFailures(u))
  <2>1. NoFailures(u) \in User
    BY <1>2, EditType
  <2>2. /\ req'[w].at = "unlock" /\ req'[w].who = req[w].who /\ req'[w].pass = req[w].pass
        /\ req'[w].seen = req[w].seen /\ req'[w].copy = NoFailures(u)
    BY <1>1, <1>7, <2>1, ContinueShape DEF Places, LoginPlaces
  <2>3. users'[req'[w].who] = u /\ now' >= u.lockUntil
    BY <1>4, <1>5, <1>7, <2>2
  <2>4. PendingAt(req[w], users[req[w].who])'
    BY <1>2, <1>3, <2>2, <2>3 DEF PendingAt, NoFailures
  <2> QED BY <1>5, <2>4, SeqQuiet
<1>8. CASE u.lockUntil \in {0, now} /\ Unlocked(w)
  <2>1. CASE Return(w)
    BY <1>5, <2>1, ReturnShape, SeqQuiet
  <2>2. CASE req[w].seen /\ Continue(w, "clearRead", None)
    <3>1. /\ req'[w].at = "clearRead" /\ req'[w].who = req[w].who
          /\ req'[w].pass = req[w].pass
      BY <1>1, <2>2, ContinueShape DEF Places, LoginPlaces
    <3>2. users'[req'[w].who] = u /\ now' >= u.lockUntil
      BY <1>4, <1>5, <1>8, <3>1
    <3>3. PendingAt(req[w], users[req[w].who])'
      BY <1>2, <1>3, <2>2, <3>1, <3>2 DEF PendingAt, Cleared
    <3> QED BY <1>5, <3>3, SeqQuiet
  <2> QED BY <1>8, <2>1, <2>2 DEF Unlocked
<1> QED BY <1>2, <1>6, <1>7, <1>8

LEMMA UnlockSeq ==
  ASSUME Serial, TypeOK, SeqInv, NEW w \in Workers, Unlock(w)
  PROVE  SeqStep(w) /\ AtomicStep
<1> USE DEF mail
<1> DEFINE e == req[w].who
           u == users[e]
           row == req[w].copy
<1>1. /\ req[w] # None /\ e \in Emails /\ row \in User /\ req[w].at = "unlock"
      /\ StoreRow(e, row) /\ UNCHANGED <<now, granted>>
      /\ Unlocked(w) \/ Return(w)
  BY WriterShape DEF Unlock, At, CopyPlaces, UpdatePlaces, UpdateUser
<1>2. u # None /\ u \in User /\ u.pw = req[w].pass /\ (req[w].seen => u.verified)
      /\ now >= u.lockUntil /\ row = NoFailures(u)
  BY <1>1 DEF SeqInv, PendingAt, TypeOK
<1>3. row.lockUntil = 0 /\ row.pw = u.pw /\ row.verified = u.verified
  BY <1>2 DEF NoFailures, User
<1>4. now \in Nat /\ LockTTL \in Nat
  BY Times
<1>5. \/ req'[w] = None
      \/ /\ req'[w].at = "clearRead" /\ req'[w].who = e /\ req'[w].pass = req[w].pass
         /\ req[w].seen
  BY <1>1, ContinueShape, ReturnShape DEF Unlocked, Places, LoginPlaces
<1>6. Atomic!Forgive(e)
  BY <1>1, <1>2, AtomicUpdate DEF Atomic!Forgive, NoFailures
<1>7. AtomicStep
  BY <1>1, <1>6 DEF AtomicStep, Atomic!Next
<1> QED BY <1>1, <1>2, <1>3, <1>4, <1>5, <1>7, SeqWrite

LEMMA ClearReadSeq ==
  ASSUME Serial, TypeOK, SeqInv, NEW w \in Workers, ClearRead(w)
  PROVE  SeqStep(w) /\ AtomicStep
<1> USE DEF table, mail, history
<1> DEFINE u == users[req[w].who]
<1>1. req[w] # None /\ req[w].who \in Emails /\ req[w].at = "clearRead"
  BY PassShape DEF ClearRead, At, LoginPlaces
<1>2. u # None /\ u \in User /\ Continue(w, "clearWrite", NoFailures(u))
  BY <1>1, SequentialRead DEF ClearRead, TypeOK
<1>3. Cleared(req[w], u)
  BY <1>1 DEF SeqInv, PendingAt
<1>4. NoFailures(u) \in User
  BY <1>2, EditType
<1>5. /\ req'[w].at = "clearWrite" /\ req'[w].who = req[w].who
      /\ req'[w].pass = req[w].pass /\ req'[w].copy = NoFailures(u)
  BY <1>1, <1>2, <1>4, ContinueShape DEF Places, LoginPlaces
<1>6. UNCHANGED <<now, users, granted>>
  BY DEF ClearRead
<1>7. PendingAt(req[w], users[req[w].who])'
  BY <1>3, <1>5, <1>6 DEF PendingAt, Cleared, NoFailures
<1> QED BY <1>6, <1>7, SeqQuiet

LEMMA ClearWriteSeq ==
  ASSUME Serial, TypeOK, SeqInv, NEW w \in Workers, ClearWrite(w)
  PROVE  SeqStep(w) /\ AtomicStep
<1> USE DEF mail
<1> DEFINE e == req[w].who
           u == users[e]
           row == req[w].copy
<1>1. /\ req[w] # None /\ e \in Emails /\ row \in User /\ req[w].at = "clearWrite"
      /\ StoreRow(e, row) /\ UNCHANGED <<now, granted>>
      /\ Continue(w, "issue", None)
  BY WriterShape DEF ClearWrite, At, CopyPlaces, UpdatePlaces, UpdateUser
<1>2. Cleared(req[w], u) /\ row = NoFailures(u) /\ u \in User
  BY <1>1 DEF SeqInv, PendingAt, TypeOK, Cleared
<1>3. row.lockUntil = 0 /\ row.pw = req[w].pass /\ row.verified
  BY <1>2 DEF NoFailures, User, Cleared
<1>4. now \in Nat /\ LockTTL \in Nat
  BY Times
<1>5. req'[w].at = "issue" /\ req'[w].who = e /\ req'[w].pass = req[w].pass
  BY <1>1, ContinueShape DEF Places, LoginPlaces
<1>6. Atomic!Forgive(e)
  BY <1>1, <1>2, AtomicUpdate DEF Atomic!Forgive, NoFailures, Cleared
<1>7. AtomicStep
  BY <1>1, <1>6 DEF AtomicStep, Atomic!Next
<1> QED BY <1>1, <1>3, <1>4, <1>5, <1>7, SeqWrite

LEMMA ClearFailsSeq ==
  ASSUME Serial, TypeOK, SeqInv, NEW w \in Workers, ClearFails(w)
  PROVE  SeqStep(w) /\ AtomicStep
<1> USE DEF table, mail, history
<1>1. req[w] # None /\ req[w].at \in {"clearRead", "clearWrite"}
      /\ Continue(w, "issue", None) /\ UNCHANGED <<now, users, granted>>
  BY DEF ClearFails, At
<1>2. Cleared(req[w], users[req[w].who])
  BY <1>1 DEF SeqInv, PendingAt
<1>3. req'[w].at = "issue" /\ req'[w].who = req[w].who /\ req'[w].pass = req[w].pass
  BY <1>1, ContinueShape DEF Places, LoginPlaces
<1>4. PendingAt(req[w], users[req[w].who])'
  BY <1>1, <1>2, <1>3 DEF PendingAt, Cleared
<1> QED BY <1>1, <1>4, SeqQuiet

LEMMA IssueSessionSeq ==
  ASSUME Serial, TypeOK, SeqInv, NEW w \in Workers, IssueSession(w)
  PROVE  SeqStep(w) /\ AtomicStep
<1> USE DEF table, mail
<1> DEFINE e == req[w].who
<1>1. /\ req[w] # None /\ req[w].at = "issue" /\ e \in Emails
      /\ UNCHANGED <<now, users>> /\ req'[w] = None
      /\ granted' = granted \cup {<<e, req[w].pass>>}
  BY PassShape, ReturnShape DEF IssueSession, At, LoginPlaces
<1>2. Cleared(req[w], users[e])
  BY <1>1 DEF SeqInv, PendingAt
<1>3. Atomic!OpenSession(e)
  BY <1>1, <1>2 DEF Cleared, Atomic!OpenSession
<1>4. AtomicStep
  BY <1>1, <1>3 DEF AtomicStep, Atomic!Next
<1>5. SeqStep(w)
  BY <1>1 DEF SeqInv, SeqStep
<1> QED BY <1>4, <1>5

LEMMA LoginSeq ==
  ASSUME Serial, TypeOK, SeqInv, NEW w \in Workers, Login(w)
  PROVE  SeqStep(w) /\ AtomicStep
  BY LoginMatchSeq, RecordReadSeq, RecordWriteSeq, CheckAccountLockoutSeq, UnlockSeq,
     ClearReadSeq, ClearWriteSeq, ClearFailsSeq, IssueSessionSeq DEF Login

-----------------------------------------------------------------------------
(* Signup *)

\* The write of a copy that leaves the lock alone and ends the request.
LEMMA SeqLastWrite ==
  ASSUME Serial, TypeOK, SeqInv, NEW w \in Workers, req[w] # None,
         req[w].at \in CopyPlaces, UpdateUser(w), Return(w), UNCHANGED <<now, granted>>,
         req[w].copy.lockUntil = users[req[w].who].lockUntil
  PROVE  /\ SeqStep(w)
         /\ req[w].who \in Emails /\ users[req[w].who] \in User
         /\ users[req[w].who] # None
         /\ Atomic!Update(req[w].who, req[w].copy)
<1>1. /\ req[w].who \in Emails /\ req[w].copy \in User
      /\ StoreRow(req[w].who, req[w].copy) /\ req'[w] = None
  BY WriterShape, ReturnShape DEF UpdateUser
<1>2. users[req[w].who] # None /\ users[req[w].who] \in User
  BY <1>1 DEF UpdateUser, TypeOK
<1>3. req[w].copy.lockUntil <= now + LockTTL
  BY <1>1, <1>2 DEF SeqInv
<1>4. Atomic!Update(req[w].who, req[w].copy)
  BY <1>1, AtomicUpdate
<1> QED BY <1>1, <1>2, <1>3, <1>4, SeqWrite

\* What a worker holds after it has taken a request up.
LEMMA BeginCopy ==
  ASSUME TypeOK, NEW w \in Workers, NEW place, NEW e, NEW p, NEW t, NEW row,
         Begin(w, place, e, p, t, FALSE, row)
  PROVE  /\ req'[w].at = place /\ req'[w].who = e /\ req'[w].pass = p
         /\ req'[w].tok = t /\ req'[w].copy = row
BY DEF TypeOK, Begin

LEMMA SignupExistingSeq ==
  ASSUME Serial, TypeOK, SeqInv, NEW w \in Workers, SignupExisting(w)
  PROVE  SeqStep(w) /\ AtomicStep
<1> USE DEF table, mail, history
<1>1. PICK e \in Emails, p \in Passwords, c \in Codes : \E row \in GetUserByEmail(e) :
        /\ row # None /\ ~row.verified
        /\ Begin(w, "resendMail", e, p, None, FALSE, Resigned(row, p, c, now + CodeTTL))
  BY DEF SignupExisting, Resigned
<1> DEFINE new == Resigned(users[e], p, c, now + CodeTTL)
<1>2. /\ users[e] # None /\ ~users[e].verified
      /\ Begin(w, "resendMail", e, p, None, FALSE, new)
  <2>1. PICK row \in GetUserByEmail(e) :
          /\ row # None /\ ~row.verified
          /\ Begin(w, "resendMail", e, p, None, FALSE, Resigned(row, p, c, now + CodeTTL))
    BY <1>1
  <2>2. row = users[e]
    BY SequentialRead
  <2> QED BY <2>1, <2>2
<1>3. /\ req'[w].at = "resendMail" /\ req'[w].who = e /\ req'[w].pass = p
      /\ req'[w].copy = new
  <2> HIDE DEF new
  <2> QED BY <1>2, BeginCopy
<1>4. UNCHANGED <<now, users, granted>>
  BY DEF SignupExisting
<1>5. now + CodeTTL \in 1..now' + CodeTTL
  BY <1>4, Times
<1>6. PendingAt(req[w], users[req[w].who])'
  BY <1>2, <1>3, <1>4, <1>5 DEF PendingAt
<1> QED BY <1>4, <1>6, SeqQuiet

LEMMA ResendMailSeq ==
  ASSUME Serial, TypeOK, SeqInv, NEW w \in Workers, ResendMail(w)
  PROVE  SeqStep(w) /\ AtomicStep
<1> USE DEF table, mail, history
<1>1. /\ req[w] # None /\ req[w].at = "resendMail" /\ req[w].copy \in User
      /\ req[w].who \in Emails /\ UNCHANGED <<now, users, granted>>
      /\ Continue(w, "resendWrite", req[w].copy) \/ Return(w)
      /\ mailed' = [mailed EXCEPT ![req[w].who] = @ \cup {req[w].copy.code}]
  BY WriterShape DEF ResendMail, At, CopyPlaces
<1>2. PendingAt(req[w], users[req[w].who])
  BY <1>1 DEF SeqInv
<1>3. CASE Return(w)
  BY <1>1, <1>3, ReturnShape, SeqQuiet
<1>4. CASE Continue(w, "resendWrite", req[w].copy)
  <2>1. "resendWrite" \in Places
    BY DEF Places, CopyPlaces, UpdatePlaces
  <2>2. /\ req'[w].at = "resendWrite" /\ req'[w].who = req[w].who
        /\ req'[w].pass = req[w].pass /\ req'[w].copy = req[w].copy
    BY <1>1, <1>4, <2>1, ContinueShape
  <2>3. req[w].copy.code \in mailed'[req[w].who]
    BY <1>1 DEF TypeOK
  <2>4. PendingAt(req[w], users[req[w].who])'
    BY <1>1, <1>2, <2>2, <2>3 DEF PendingAt
  <2> QED BY <1>1, <2>4, SeqQuiet
<1> QED BY <1>1, <1>3, <1>4

LEMMA ResendWriteSeq ==
  ASSUME Serial, TypeOK, SeqInv, NEW w \in Workers, ResendWrite(w)
  PROVE  SeqStep(w) /\ AtomicStep
<1> USE DEF mail, history
<1> DEFINE e == req[w].who
           u == users[e]
<1>1. /\ req[w] # None /\ req[w].at = "resendWrite" /\ req[w].at \in CopyPlaces
      /\ UpdateUser(w) /\ Return(w) /\ UNCHANGED <<now, granted>>
  BY DEF ResendWrite, At, CopyPlaces, UpdatePlaces
<1>2. u # None /\ ~u.verified
  BY <1>1 DEF SeqInv, PendingAt
<1> DEFINE p == req[w].pass
<1>3. PICK c \in Codes, exp \in 1..now + CodeTTL : req[w].copy = Resigned(u, p, c, exp)
  BY <1>1 DEF SeqInv, PendingAt
<1>4. u \in User /\ req[w].copy \in User
  BY <1>1, <1>2, WriterShape DEF TypeOK
<1>5. req[w].copy.lockUntil = u.lockUntil /\ p \in Passwords
  BY <1>3, <1>4 DEF User, Resigned
<1>6. SeqStep(w) /\ e \in Emails /\ Atomic!Update(e, req[w].copy)
  BY <1>1, <1>5, SeqLastWrite
<1>7. Atomic!Update(e, [users[e] EXCEPT !.pw = p, !.code = c, !.codeExp = exp])
  BY <1>3, <1>6 DEF Resigned
<1>8. Atomic!RegisterAgain(e)
  BY <1>2, <1>5, <1>7 DEF Atomic!RegisterAgain
<1> QED BY <1>6, <1>8 DEF AtomicStep, Atomic!Next

LEMMA SignupNewSeq ==
  ASSUME Serial, TypeOK, SeqInv, NEW w \in Workers, SignupNew(w)
  PROVE  SeqStep(w) /\ AtomicStep
<1> USE DEF table, mail, history
<1>1. PICK e \in Emails, p \in Passwords, c \in Codes :
        Begin(w, "create", e, p, None, FALSE, NewUser(p, c))
  BY DEF SignupNew
<1>2. req'[w].at = "create" /\ req'[w].copy = NewUser(p, c)
  BY <1>1, BeginCopy
<1>3. PendingAt(req[w], users[req[w].who])'
  BY <1>2 DEF PendingAt, NewUser
<1> QED BY <1>3, SeqQuiet DEF SignupNew

LEMMA CreateSeq ==
  ASSUME Serial, TypeOK, SeqInv, NEW w \in Workers, Create(w)
  PROVE  SeqStep(w) /\ AtomicStep
<1> USE DEF mail, history
<1> DEFINE e == req[w].who
           new(c) == [req[w].copy EXCEPT !.code = c, !.codeExp = now + CodeTTL]
<1>1. /\ req[w] # None /\ req[w].at = "create" /\ e \in Emails
      /\ req[w].copy \in User /\ users[e] = None /\ UNCHANGED <<now, granted>>
  BY WriterShape DEF Create, At, CopyPlaces
<1>2. PICK c \in Codes :
        StoreRow(e, new(c)) /\ (Continue(w, "createMail", new(c)) \/ Return(w))
  BY DEF Create
<1>3. /\ ~req[w].copy.verified /\ req[w].copy.token = None /\ req[w].copy.tokenExp = 0
      /\ req[w].copy.fails = 0 /\ req[w].copy.lockUntil = 0
  BY <1>1 DEF SeqInv, PendingAt
<1>4. new(c) \in User /\ new(c).lockUntil = 0
  BY <1>1, <1>3, EditType DEF User
<1>5. new(c) = [pw |-> req[w].copy.pw, verified |-> FALSE, code |-> c,
                codeExp |-> now + CodeTTL, token |-> None, tokenExp |-> 0,
                fails |-> 0, lockUntil |-> 0]
  <2>1. req[w].copy.verified = FALSE
    BY <1>1, <1>3 DEF User
  <2>2. /\ new(c).pw = req[w].copy.pw /\ new(c).code = c /\ new(c).codeExp = now + CodeTTL
        /\ new(c).verified = FALSE /\ new(c).token = None /\ new(c).tokenExp = 0
        /\ new(c).fails = 0
    BY <1>1, <1>3, <2>1 DEF User
  <2> HIDE DEF new
  <2>3. new(c) = [pw |-> new(c).pw, verified |-> new(c).verified, code |-> new(c).code,
                  codeExp |-> new(c).codeExp, token |-> new(c).token,
                  tokenExp |-> new(c).tokenExp, fails |-> new(c).fails,
                  lockUntil |-> new(c).lockUntil]
    BY <1>4 DEF User
  <2> QED BY <1>4, <2>2, <2>3
<1>6. req[w].copy.pw \in Passwords /\ now + CodeTTL \in 1..now + CodeTTL
      /\ now \in Nat /\ LockTTL \in Nat
  BY <1>1, Times DEF User
<1> HIDE DEF new
<1>7. Atomic!Update(e, new(c))
  BY <1>1, <1>2, AtomicUpdate
<1>8. Atomic!Register(e)
  BY <1>1, <1>5, <1>6, <1>7 DEF Atomic!Register
<1>9. req'[w] = None \/ req'[w].at = "createMail"
  <2>1. "createMail" \in Places
    BY DEF Places, CopyPlaces
  <2> QED BY <1>1, <1>2, <1>4, <2>1, ContinueShape, ReturnShape
<1>10. SeqStep(w)
  BY <1>1, <1>2, <1>4, <1>6, <1>9, SeqWrite
<1> QED BY <1>1, <1>8, <1>10 DEF AtomicStep, Atomic!Next

LEMMA SignupSeq ==
  ASSUME Serial, TypeOK, SeqInv, NEW w \in Workers, Signup(w)
  PROVE  SeqStep(w) /\ AtomicStep
<1>1. CASE CreateMail(w)
  BY <1>1, ReturnShape, SeqQuiet DEF CreateMail, table, history
<1> QED BY <1>1, SignupExistingSeq, ResendMailSeq, ResendWriteSeq, SignupNewSeq, CreateSeq
        DEF Signup

-----------------------------------------------------------------------------
(* Verification, password reset, profile *)

LEMMA VerifyEmailSeq ==
  ASSUME Serial, TypeOK, SeqInv, NEW w \in Workers, VerifyEmail(w)
  PROVE  SeqStep(w) /\ AtomicStep
<1> USE DEF table, mail, history
<1>1. PICK e \in Emails, p \in Passwords, c \in Codes : \E row \in GetUserByEmail(e) :
        /\ row # None /\ ~row.verified /\ row.code = c
        /\ Begin(w, "verifyWrite", e, p, None, FALSE, Verified(row))
  BY DEF VerifyEmail, Verified
<1>2. /\ users[e] # None /\ ~users[e].verified /\ users[e].code # None
      /\ Begin(w, "verifyWrite", e, p, None, FALSE, Verified(users[e]))
  <2>1. PICK row \in GetUserByEmail(e) :
          /\ row # None /\ ~row.verified /\ row.code = c
          /\ Begin(w, "verifyWrite", e, p, None, FALSE, Verified(row))
    BY <1>1
  <2>2. row = users[e] /\ c # None
    BY SequentialRead, NoneAssumption
  <2> QED BY <2>1, <2>2
<1>3. req'[w].at = "verifyWrite" /\ req'[w].who = e /\ req'[w].copy = Verified(users[e])
  BY <1>2, BeginCopy
<1>4. UNCHANGED <<now, users, granted>>
  BY DEF VerifyEmail
<1>5. PendingAt(req[w], users[req[w].who])'
  BY <1>2, <1>3, <1>4 DEF PendingAt
<1> QED BY <1>4, <1>5, SeqQuiet

LEMMA VerifyWriteSeq ==
  ASSUME Serial, TypeOK, SeqInv, NEW w \in Workers, VerifyWrite(w)
  PROVE  SeqStep(w) /\ AtomicStep
<1> DEFINE e == req[w].who
           u == users[e]
<1>1. /\ req[w] # None /\ req[w].at = "verifyWrite" /\ req[w].at \in CopyPlaces
      /\ UpdateUser(w) /\ Return(w) /\ UNCHANGED <<now, granted>>
  BY DEF VerifyWrite, At, CopyPlaces, UpdatePlaces
<1>2. u # None /\ ~u.verified /\ u.code # None /\ req[w].copy = Verified(u)
  BY <1>1 DEF SeqInv, PendingAt
<1>3. u \in User
  BY <1>1, <1>2, WriterShape DEF TypeOK
<1>4. req[w].copy.lockUntil = u.lockUntil
  BY <1>2, <1>3 DEF User, Verified
<1>5. SeqStep(w) /\ e \in Emails /\ Atomic!Update(e, req[w].copy)
  BY <1>1, <1>4, SeqLastWrite
<1>6. Atomic!Verify(e)
  BY <1>2, <1>5 DEF Atomic!Verify, Verified
<1> QED BY <1>5, <1>6 DEF AtomicStep, Atomic!Next

LEMMA ResetPasswordSeq ==
  ASSUME Serial, TypeOK, SeqInv, NEW w \in Workers, ResetPassword(w)
  PROVE  SeqStep(w) /\ AtomicStep
<1> USE DEF table, mail, history
<1>1. PICK e \in Emails, t \in Tokens : \E row \in GetUserByEmail(e) :
        row # None /\ Begin(w, "resetWrite", e, None, t, FALSE,
                            WithToken(row, t, now + ResetTTL))
  BY DEF ResetPassword, WithToken
<1> DEFINE new == WithToken(users[e], t, now + ResetTTL)
<1>2. users[e] # None /\ Begin(w, "resetWrite", e, None, t, FALSE, new)
  <2>1. PICK row \in GetUserByEmail(e) :
          row # None /\ Begin(w, "resetWrite", e, None, t, FALSE,
                              WithToken(row, t, now + ResetTTL))
    BY <1>1
  <2>2. row = users[e]
    BY SequentialRead
  <2> QED BY <2>1, <2>2
<1>3. /\ req'[w].at = "resetWrite" /\ req'[w].who = e /\ req'[w].tok = t
      /\ req'[w].copy = new
  <2> HIDE DEF new
  <2> QED BY <1>2, BeginCopy
<1>4. UNCHANGED <<now, users, granted>>
  BY DEF ResetPassword
<1>5. now + ResetTTL \in 1..now' + ResetTTL
  BY <1>4, Times
<1>6. PendingAt(req[w], users[req[w].who])'
  BY <1>2, <1>3, <1>4, <1>5 DEF PendingAt
<1> QED BY <1>4, <1>6, SeqQuiet

LEMMA ResetWriteSeq ==
  ASSUME Serial, TypeOK, SeqInv, NEW w \in Workers, ResetWrite(w)
  PROVE  SeqStep(w) /\ AtomicStep
<1> USE DEF history
<1> DEFINE e == req[w].who
           u == users[e]
<1>1. /\ req[w] # None /\ req[w].at = "resetWrite" /\ req[w].at \in CopyPlaces
      /\ UpdateUser(w) /\ Return(w) /\ UNCHANGED <<now, granted>>
  BY DEF ResetWrite, At, CopyPlaces, UpdatePlaces
<1>2. u # None /\ req[w].tok \in Tokens
  BY <1>1 DEF SeqInv, PendingAt
<1>3. PICK exp \in 1..now + ResetTTL : req[w].copy = WithToken(u, req[w].tok, exp)
  BY <1>1 DEF SeqInv, PendingAt
<1>4. u \in User
  BY <1>1, <1>2, WriterShape DEF TypeOK
<1>5. req[w].copy.lockUntil = u.lockUntil
  BY <1>3, <1>4 DEF User, WithToken
<1>6. SeqStep(w) /\ e \in Emails /\ Atomic!Update(e, req[w].copy)
  BY <1>1, <1>5, SeqLastWrite
<1>7. Atomic!Update(e, [users[e] EXCEPT !.token = req[w].tok, !.tokenExp = exp])
  BY <1>3, <1>6 DEF WithToken
<1>8. Atomic!IssueResetToken(e)
  BY <1>2, <1>7 DEF Atomic!IssueResetToken
<1> QED BY <1>6, <1>8 DEF AtomicStep, Atomic!Next

LEMMA ConfirmResetPasswordSeq ==
  ASSUME Serial, TypeOK, SeqInv, NEW w \in Workers, ConfirmResetPassword(w)
  PROVE  SeqStep(w) /\ AtomicStep
<1> USE DEF table, mail, history
<1>1. PICK e \in Emails, p \in Passwords, t \in Tokens :
        \E row \in GetUserByResetToken(e, t) :
          Begin(w, "confirmWrite", e, p, t, FALSE, WithoutToken(row, p))
  BY DEF ConfirmResetPassword, WithoutToken
<1>2. /\ users[e] # None /\ users[e].token = t
      /\ Begin(w, "confirmWrite", e, p, t, FALSE, WithoutToken(users[e], p))
  BY <1>1, SequentialRead DEF GetUserByResetToken
<1>3. /\ req'[w].at = "confirmWrite" /\ req'[w].who = e /\ req'[w].pass = p
      /\ req'[w].tok = t /\ req'[w].copy = WithoutToken(users[e], p)
  BY <1>2, BeginCopy
<1>4. UNCHANGED <<now, users, granted>> /\ t # None
  BY NoneAssumption DEF ConfirmResetPassword
<1>5. PendingAt(req[w], users[req[w].who])'
  BY <1>2, <1>3, <1>4 DEF PendingAt
<1> QED BY <1>4, <1>5, SeqQuiet

LEMMA ConfirmWriteSeq ==
  ASSUME Serial, TypeOK, SeqInv, NEW w \in Workers, ConfirmWrite(w)
  PROVE  SeqStep(w) /\ AtomicStep
<1> DEFINE e == req[w].who
           u == users[e]
<1>1. /\ req[w] # None /\ req[w].at = "confirmWrite" /\ req[w].at \in CopyPlaces
      /\ UpdateUser(w) /\ Return(w) /\ UNCHANGED <<now, granted>>
  BY DEF ConfirmWrite, At, CopyPlaces, UpdatePlaces
<1> DEFINE p == req[w].pass
<1>2. u # None /\ u.token # None
  BY <1>1 DEF SeqInv, PendingAt
<1>3. req[w].copy = WithoutToken(u, p)
  BY <1>1 DEF SeqInv, PendingAt
<1>4. u \in User /\ req[w].copy \in User
  BY <1>1, <1>2, WriterShape DEF TypeOK
<1>5. req[w].copy.lockUntil = u.lockUntil /\ p \in Passwords
  BY <1>3, <1>4 DEF User, WithoutToken
<1>6. SeqStep(w) /\ e \in Emails /\ Atomic!Update(e, req[w].copy)
  BY <1>1, <1>5, SeqLastWrite
<1>7. Atomic!Update(e, [users[e] EXCEPT !.pw = p, !.token = None, !.tokenExp = 0])
  BY <1>3, <1>6 DEF WithoutToken
<1>8. Atomic!ConfirmReset(e)
  BY <1>2, <1>5, <1>7 DEF Atomic!ConfirmReset
<1> QED BY <1>6, <1>8 DEF AtomicStep, Atomic!Next

LEMMA ProfileSeq ==
  ASSUME Serial, TypeOK, SeqInv, NEW w \in Workers, Profile(w)
  PROVE  SeqStep(w) /\ AtomicStep
<1> USE DEF table, mail, history
<1> DEFINE new(u, p) == IF p = None THEN u ELSE WithPassword(u, p)
<1>1. PICK e \in Emails, p \in Passwords \cup {None} : \E row \in GetUserByEmail(e) :
        /\ \E q \in Passwords : <<e, q>> \in granted
        /\ row # None
        /\ Begin(w, "profileWrite", e, p, None, FALSE, new(row, p))
  BY DEF Profile, WithPassword
<1>2. \/ new(users[e], p) = users[e]
      \/ p # None /\ new(users[e], p) = WithPassword(users[e], p)
  OBVIOUS
<1> HIDE DEF new
<1>3. /\ users[e] # None /\ \E q \in Passwords : <<e, q>> \in granted
      /\ Begin(w, "profileWrite", e, p, None, FALSE, new(users[e], p))
  <2>1. PICK row \in GetUserByEmail(e) :
          row # None /\ Begin(w, "profileWrite", e, p, None, FALSE, new(row, p))
    BY <1>1
  <2>2. row = users[e]
    BY SequentialRead
  <2> QED BY <1>1, <2>1, <2>2
<1>4. /\ req'[w].at = "profileWrite" /\ req'[w].who = e /\ req'[w].pass = p
      /\ req'[w].copy = new(users[e], p)
  BY <1>3, BeginCopy
<1>5. UNCHANGED <<now, users, granted>>
  BY DEF Profile
<1>6. PendingAt(req[w], users[req[w].who])'
  BY <1>2, <1>3, <1>4, <1>5 DEF PendingAt
<1> QED BY <1>5, <1>6, SeqQuiet

LEMMA ProfileWriteSeq ==
  ASSUME Serial, TypeOK, SeqInv, NEW w \in Workers, ProfileWrite(w)
  PROVE  SeqStep(w) /\ AtomicStep
<1> DEFINE e == req[w].who
           u == users[e]
           p == req[w].pass
<1>1. /\ req[w] # None /\ req[w].at = "profileWrite" /\ req[w].at \in CopyPlaces
      /\ UpdateUser(w) /\ Return(w) /\ UNCHANGED <<now, granted>>
  BY DEF ProfileWrite, At, CopyPlaces, UpdatePlaces
<1>2. /\ u # None /\ \E q \in Passwords : <<e, q>> \in granted
      /\ req[w].copy = u \/ req[w].copy = WithPassword(u, p)
  BY <1>1 DEF SeqInv, PendingAt
<1>3. u \in User /\ req[w].copy \in User
  BY <1>1, <1>2, WriterShape DEF TypeOK
<1>4. req[w].copy.lockUntil = u.lockUntil
  BY <1>2, <1>3 DEF User, WithPassword
<1>5. SeqStep(w) /\ e \in Emails /\ Atomic!Update(e, req[w].copy)
  BY <1>1, <1>4, SeqLastWrite
<1>6. CASE req[w].copy = u
  <2>1. UNCHANGED <<now, users, granted>>
    BY <1>5, <1>6 DEF Atomic!Update, TypeOK
  <2> QED BY <1>5, <2>1 DEF AtomicStep, Atomic!vars
<1>7. CASE req[w].copy = WithPassword(u, p)
  <2>1. p \in Passwords
    BY <1>3, <1>7 DEF User, WithPassword
  <2>2. Atomic!Update(e, [users[e] EXCEPT !.pw = p])
    BY <1>5, <1>7 DEF WithPassword
  <2>3. Atomic!ChangePassword(e)
    BY <1>2, <2>1, <2>2 DEF Atomic!ChangePassword
  <2> QED BY <1>5, <2>3 DEF AtomicStep, Atomic!Next
<1> QED BY <1>2, <1>6, <1>7

LEMMA OtherSeq ==
  ASSUME Serial, TypeOK, SeqInv, NEW w \in Workers, OtherRequests(w)
  PROVE  SeqStep(w) /\ AtomicStep
BY VerifyEmailSeq, VerifyWriteSeq, ResetPasswordSeq, ResetWriteSeq, ConfirmResetPasswordSeq,
   ConfirmWriteSeq, ProfileSeq, ProfileWriteSeq DEF OtherRequests

-----------------------------------------------------------------------------
(* Failures and the environment *)

\* A request whose row is left alone goes on holding an edit of it: time,
\* sessions and mailed codes only widen what it may hold.
LEMMA PendingKept ==
  ASSUME TypeOK, NEW r \in Request, NEW u \in User \cup {None}, PendingAt(r, u),
         now' \in {now, now + 1}, granted \subseteq granted',
         \A e \in Emails : mailed[e] \subseteq mailed'[e]
  PROVE  PendingAt(r, u)'
<1>1. /\ now \in Nat /\ LockTTL \in Nat /\ CodeTTL \in Nat /\ ResetTTL \in Nat
      /\ u # None => u.lockUntil \in Nat
      /\ r.who \in Emails
  BY NumberAssumption DEF TypeOK, User, Request
<1>2. /\ 1..now \subseteq 1..now' /\ 1..now + CodeTTL \subseteq 1..now' + CodeTTL
      /\ 1..now + ResetTTL \subseteq 1..now' + ResetTTL
      /\ u # None /\ now >= u.lockUntil => now' >= u.lockUntil
  BY <1>1
<1>3. r.at \in {"unlock", "clearRead", "clearWrite", "issue", "checkLockout"}
        => PendingAt(r, u)'
  BY <1>2 DEF PendingAt, Cleared
<1>4. r.at \in {"resendMail", "resendWrite"} => PendingAt(r, u)'
  BY <1>1, <1>2 DEF PendingAt
<1>5. r.at \notin {"unlock", "clearRead", "clearWrite", "issue", "checkLockout",
                   "resendMail", "resendWrite"} => PendingAt(r, u)'
  BY <1>2 DEF PendingAt
<1> QED BY <1>3, <1>4, <1>5

\* Nothing takes a mail back.
LEMMA MailedGrows ==
  ASSUME TypeOK, [Next]_vars, NEW e \in Emails
  PROVE  mailed[e] \subseteq mailed'[e]
<1> USE DEF mail
<1>1. CASE UNCHANGED vars
  BY <1>1 DEF vars
<1>2. ASSUME NEW w \in Workers, Login(w) PROVE mailed' = mailed
  BY <1>2 DEF Login, LoginMatch, LoginMismatch, RecordRead, RecordWrite,
              CheckAccountLockout, Unlock, ClearRead, ClearWrite, ClearFails, IssueSession
<1>3. ASSUME NEW w \in Workers, Signup(w) PROVE mailed[e] \subseteq mailed'[e]
  BY <1>3 DEF TypeOK, Signup, SignupExisting, ResendMail, ResendWrite, SignupNew, Create,
              CreateMail
<1>4. ASSUME NEW w \in Workers, OtherRequests(w) PROVE mailed' = mailed
  BY <1>4 DEF OtherRequests, VerifyEmail, VerifyWrite, ResetPassword, ResetWrite,
              ConfirmResetPassword, ConfirmWrite, Profile, ProfileWrite
<1>5. ASSUME NEW w \in Workers, RequestFails(w) PROVE mailed' = mailed
  BY <1>5 DEF RequestFails
<1>6. DeliverMail => mailed[e] \subseteq mailed'[e]
  BY DEF TypeOK, DeliverMail
<1>7. Replicate \/ Crash \/ Tick => mailed' = mailed
  BY DEF Replicate, Crash, Tick
<1> QED BY <1>1, <1>2, <1>3, <1>4, <1>5, <1>6, <1>7 DEF Next

\* A step of one worker leaves the requests of the others alone.
LEMMA OthersKept ==
  ASSUME TypeOK, NEW w \in Workers,
         Login(w) \/ Signup(w) \/ OtherRequests(w) \/ RequestFails(w)
  PROVE  \A v \in Workers \ {w} : req'[v] = req[v]
<1>1. ASSUME NEW r, req' = [req EXCEPT ![w] = r]
      PROVE  \A v \in Workers \ {w} : req'[v] = req[v]
  BY <1>1 DEF TypeOK
<1>2. ASSUME Login(w) PROVE \E r : req' = [req EXCEPT ![w] = r]
  BY <1>2 DEF Login, LoginMatch, LoginMismatch, RecordRead, RecordWrite, Unlocked,
              CheckAccountLockout, Unlock, ClearRead, ClearWrite, ClearFails, IssueSession,
              Begin, Continue, Return
<1>3. ASSUME Signup(w) PROVE \E r : req' = [req EXCEPT ![w] = r]
  BY <1>3 DEF Signup, SignupExisting, ResendMail, ResendWrite, SignupNew, Create,
              CreateMail, Begin, Continue, Return
<1>4. ASSUME OtherRequests(w) PROVE \E r : req' = [req EXCEPT ![w] = r]
  BY <1>4 DEF OtherRequests, VerifyEmail, VerifyWrite, ResetPassword, ResetWrite,
              ConfirmResetPassword, ConfirmWrite, Profile, ProfileWrite, Begin, Return
<1>5. ASSUME RequestFails(w) PROVE \E r : req' = [req EXCEPT ![w] = r]
  BY <1>5 DEF RequestFails, Return
<1> QED BY <1>1, <1>2, <1>3, <1>4, <1>5

\* A request that no step touched, on a row that no step touched.
LEMMA UntouchedKept ==
  ASSUME TypeOK, SeqInv, [Next]_vars, NEW v \in Workers, req[v] # None, req'[v] = req[v],
         users'[req[v].who] = users[req[v].who],
         now' \in {now, now + 1}, granted \subseteq granted'
  PROVE  PendingAt(req[v], users[req[v].who])'
<1>1. PICK r \in Request : r = req[v]
  BY DEF TypeOK
<1>2. PICK u \in User \cup {None} : u = users[r.who]
  BY <1>1 DEF TypeOK, Request
<1>3. PendingAt(r, u)
  BY <1>1, <1>2 DEF SeqInv
<1>4. PendingAt(r, u)'
  BY <1>3, MailedGrows, PendingKept
<1> QED BY <1>1, <1>2, <1>4

LEMMA WorkerSeq ==
  ASSUME Serial, TypeOK, SeqInv, NEW w \in Workers,
         Login(w) \/ Signup(w) \/ OtherRequests(w) \/ RequestFails(w)
  PROVE  SeqInv' /\ AtomicStep
<1>2. SeqStep(w) /\ AtomicStep
  <2>1. CASE RequestFails(w)
    BY <2>1, ReturnShape, SeqQuiet DEF RequestFails, table, history
  <2> QED BY <2>1, LoginSeq, SignupSeq, OtherSeq
<1>3. \A v \in Workers \ {w} : req'[v] = req[v]
  BY OthersKept
<1>4. ASSUME NEW v \in Workers, req'[v] # None
      PROVE  PendingAt(req[v], users[req[v].who])'
  <2>1. CASE v = w
    BY <1>2, <1>4, <2>1 DEF SeqStep
  <2>2. CASE v # w
    BY <1>2, <1>3, <1>4, <2>2, UntouchedKept DEF SeqStep, Next
  <2> QED BY <2>1, <2>2
<1> QED BY <1>2, <1>4 DEF SeqStep, SeqInv

LEMMA EnvironmentSeq ==
  ASSUME Serial, TypeOK, SeqInv, DeliverMail \/ Replicate \/ Crash \/ Tick
  PROVE  SeqInv' /\ AtomicStep
<1> USE DEF table, mail, history
<1>1. /\ UNCHANGED <<users, granted>> /\ now' \in {now, now + 1}
      /\ req' = req \/ \A w \in Workers : req'[w] = None
  BY DEF DeliverMail, Replicate, Crash, Tick
<1>2. now \in Nat /\ LockTTL \in Nat
      /\ \A e \in Emails : users[e] # None => users[e].lockUntil \in Nat
  BY NumberAssumption DEF TypeOK, User
<1>3. now' >= 1 /\ \A e \in Emails : users'[e] # None => users'[e].lockUntil <= now' + LockTTL
  BY <1>1, <1>2 DEF SeqInv
<1>4. ASSUME NEW v \in Workers, req'[v] # None
      PROVE  PendingAt(req[v], users[req[v].who])'
  BY <1>1, <1>4, UntouchedKept DEF Next
<1>5. AtomicStep
  BY DEF DeliverMail, Replicate, Crash, Tick, AtomicStep, Atomic!vars, Atomic!Next, Atomic!Tick
<1> QED BY <1>3, <1>4, <1>5 DEF SeqInv

LEMMA NextSeq ==
  ASSUME Serial, TypeOK, SeqInv, [Next]_vars
  PROVE  SeqInv' /\ AtomicStep
<1>1. CASE UNCHANGED vars
  BY <1>1 DEF vars, SeqInv, PendingAt, Cleared, AtomicStep, Atomic!vars
<1>2. CASE Next
  BY <1>2, WorkerSeq, EnvironmentSeq DEF Next
<1> QED BY <1>1, <1>2

LEMMA SeqInvHolds ==
  ASSUME ~StaleReads
  PROVE  Spec /\ []NoOverlap => []SeqInv
<1>1. Init => SeqInv
  BY DEF Init, SeqInv
<1>2. NoOverlap /\ TypeOK /\ SeqInv /\ [Next]_vars => SeqInv'
  BY NextSeq DEF Serial
<1> QED BY <1>1, <1>2, TypeCorrect, PTL DEF Spec

\* Requests are atomic where no two on one account overlap and reads do not lag
\* (read and write-back of a row, auth.go, whatever fails in between): overlap
\* on an account is the only thing that breaks them.
THEOREM ImplementsAtomicHolds ==
  ASSUME ~StaleReads
  PROVE  Spec /\ []NoOverlap => ImplementsAtomic
<1>1. Init => Atomic!Init
  BY DEF Init, Atomic!Init
<1>2. NoOverlap /\ TypeOK /\ SeqInv /\ [Next]_vars => AtomicStep
  BY NextSeq DEF Serial
<1> QED BY <1>1, <1>2, SeqInvHolds, TypeCorrect, PTL
        DEF Spec, ImplementsAtomic, Atomic!Spec, AtomicStep

-----------------------------------------------------------------------------
(* What follows for locks and verifications *)

\* No operation of the abstract account shortens a lock that has not expired
\* or takes a verification back.
LEMMA AtomicKeeps ==
  ASSUME TypeOK, AtomicStep, NEW e \in Emails, users[e] # None
  PROVE  /\ now < users[e].lockUntil => users'[e].lockUntil >= users[e].lockUntil
         /\ users[e].verified => users'[e].verified
<1> DEFINE Kept == /\ now < users[e].lockUntil => users'[e].lockUntil >= users[e].lockUntil
                   /\ users[e].verified => users'[e].verified
<1>1. users[e] \in User /\ now \in Nat /\ users[e].lockUntil \in Nat
  BY DEF TypeOK, User
<1>2. CASE users' = users
  BY <1>1, <1>2
<1>3. ASSUME NEW d \in Emails, NEW row, Atomic!Update(d, row), d = e =>
               /\ now < users[e].lockUntil => row.lockUntil >= users[e].lockUntil
               /\ users[e].verified => row.verified
      PROVE  Kept
  <2>1. users'[e] = IF d = e THEN row ELSE users[e]
    BY <1>3 DEF Atomic!Update, TypeOK
  <2> QED BY <1>1, <1>3, <2>1
<1>4. ASSUME NEW d \in Emails, Atomic!Register(d) PROVE Kept
  BY <1>3, <1>4 DEF Atomic!Register
<1>5. ASSUME NEW d \in Emails, Atomic!RegisterAgain(d) PROVE Kept
  <2>1. PICK p \in Passwords, c \in Codes, exp \in 1..now + CodeTTL :
          ~users[d].verified /\ Atomic!Update(d, Resigned(users[d], p, c, exp))
    BY <1>5 DEF Atomic!RegisterAgain, Resigned
  <2>2. d = e => Resigned(users[d], p, c, exp).lockUntil = users[e].lockUntil
    BY <1>1 DEF Resigned, User
  <2> QED BY <1>1, <1>3, <2>1, <2>2
<1>6. ASSUME NEW d \in Emails, Atomic!Verify(d) PROVE Kept
  <2>1. Atomic!Update(d, Verified(users[d]))
    BY <1>6 DEF Atomic!Verify, Verified
  <2>2. d = e => Verified(users[d]).lockUntil = users[e].lockUntil
                 /\ Verified(users[d]).verified
    BY <1>1 DEF Verified, User
  <2> QED BY <1>1, <1>3, <2>1, <2>2
<1>7. ASSUME NEW d \in Emails, Atomic!FailLogin(d) PROVE Kept
  <2>1. CASE Atomic!Update(d, [users[d] EXCEPT !.fails = @ + 1])
    <3> DEFINE row == [users[d] EXCEPT !.fails = @ + 1]
    <3>1. d = e => row.lockUntil = users[e].lockUntil /\ row.verified = users[e].verified
      BY <1>1 DEF User
    <3>2. Atomic!Update(d, row)
      BY <2>1
    <3> HIDE DEF row
    <3> QED BY <1>1, <1>3, <2>1, <3>1, <3>2
  <2>2. ASSUME NEW until \in 1..now + LockTTL, until >= users[d].lockUntil,
               Atomic!Update(d, [users[d] EXCEPT !.fails = @ + 1, !.lockUntil = until])
        PROVE  Kept
    <3> DEFINE row == [users[d] EXCEPT !.fails = @ + 1, !.lockUntil = until]
    <3>1. d = e => row.lockUntil = until /\ row.verified = users[e].verified
      BY <1>1 DEF User
    <3>2. Atomic!Update(d, row)
      BY <2>2
    <3> HIDE DEF row
    <3> QED BY <1>1, <1>3, <2>2, <3>1, <3>2
  <2> QED BY <1>7, <2>1, <2>2 DEF Atomic!FailLogin
<1>8. ASSUME NEW d \in Emails, Atomic!Forgive(d) PROVE Kept
  <2> DEFINE row == [users[d] EXCEPT !.fails = 0, !.lockUntil = 0]
  <2>1. now >= users[d].lockUntil /\ Atomic!Update(d, row)
    BY <1>8 DEF Atomic!Forgive
  <2>2. d = e => row.verified = users[e].verified /\ ~(now < users[e].lockUntil)
    BY <1>1, <2>1 DEF User
  <2> HIDE DEF row
  <2> QED BY <1>1, <1>3, <2>1, <2>2
<1>9. ASSUME NEW d \in Emails, Atomic!IssueResetToken(d) PROVE Kept
  <2>1. PICK t \in Tokens, exp \in 1..now + ResetTTL :
          Atomic!Update(d, WithToken(users[d], t, exp))
    BY <1>9 DEF Atomic!IssueResetToken, WithToken
  <2>2. d = e => WithToken(users[d], t, exp).lockUntil = users[e].lockUntil
                 /\ WithToken(users[d], t, exp).verified = users[e].verified
    BY <1>1 DEF WithToken, User
  <2> QED BY <1>1, <1>3, <2>1, <2>2
<1>10. ASSUME NEW d \in Emails, Atomic!ConfirmReset(d) PROVE Kept
  <2>1. PICK p \in Passwords : Atomic!Update(d, WithoutToken(users[d], p))
    BY <1>10 DEF Atomic!ConfirmReset, WithoutToken
  <2>2. d = e => WithoutToken(users[d], p).lockUntil = users[e].lockUntil
                 /\ WithoutToken(users[d], p).verified = users[e].verified
    BY <1>1 DEF WithoutToken, User
  <2> QED BY <1>1, <1>3, <2>1, <2>2
<1>11. ASSUME NEW d \in Emails, Atomic!ChangePassword(d) PROVE Kept
  <2>1. PICK p \in Passwords : Atomic!Update(d, WithPassword(users[d], p))
    BY <1>11 DEF Atomic!ChangePassword, WithPassword
  <2>2. d = e => WithPassword(users[d], p).lockUntil = users[e].lockUntil
                 /\ WithPassword(users[d], p).verified = users[e].verified
    BY <1>1 DEF WithPassword, User
  <2> QED BY <1>1, <1>3, <2>1, <2>2
<1>12. \A d \in Emails : Atomic!OpenSession(d) => users' = users
  BY DEF Atomic!OpenSession
<1>13. Atomic!Tick \/ UNCHANGED Atomic!vars => users' = users
  BY DEF Atomic!Tick, Atomic!vars
<1> QED BY <1>2, <1>4, <1>5, <1>6, <1>7, <1>8, <1>9, <1>10, <1>11, <1>12, <1>13
        DEF AtomicStep, Atomic!Next

\* A lock holds until it expires (recordFailedAttempt, CheckAccountLockout,
\* clearFailedAttempts) when requests on one account do not overlap.
THEOREM LockoutHoldsUntilExpiryHolds ==
  ASSUME ~StaleReads
  PROVE  Spec /\ []NoOverlap => LockoutHoldsUntilExpiry
<1>1. NoOverlap /\ TypeOK /\ SeqInv /\ [Next]_vars =>
        [\A e \in Emails : users[e] # None /\ now < users[e].lockUntil
             => users'[e].lockUntil >= users[e].lockUntil]_vars
  BY NextSeq, AtomicKeeps DEF Serial
<1> QED BY <1>1, SeqInvHolds, TypeCorrect, PTL DEF Spec, LockoutHoldsUntilExpiry

\* An account stays verified (signup, login, reset and profile write the flag
\* back as they read it) when requests on one account do not overlap.
THEOREM VerifiedStableHolds ==
  ASSUME ~StaleReads
  PROVE  Spec /\ []NoOverlap => VerifiedStable
<1>1. NoOverlap /\ TypeOK /\ SeqInv /\ [Next]_vars =>
        [\A e \in Emails : users[e] # None /\ users[e].verified => users'[e].verified]_vars
  BY NextSeq, AtomicKeeps DEF Serial
<1> QED BY <1>1, SeqInvHolds, TypeCorrect, PTL DEF Spec, VerifiedStable
=============================================================================
