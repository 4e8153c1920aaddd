------------------- MODULE AccountsSequentialSafetyProofs -------------------
(***************************************************************************)
(* What requests that overlap on an account break in Accounts, and others  *)
(* keep: every LockThreshold-th failed login locks the account, a reset    *)
(* token changes a password once, a password changes only on a request     *)
(* for it, and no row gets a code that was not mailed.                     *)
(***************************************************************************)
EXTENDS AccountsSequentialProofs

\* Worker w is about to store the reset token it has drawn.
Drawn(w) == req[w] # None /\ req[w].at = "resetWrite"

(* The ways a step changes the row of e *)

SameCount(e, row) ==
  row.fails = users[e].fails /\ row.lockUntil = users[e].lockUntil

Created(e, row) ==
  /\ users[e] = None
  /\ row.fails = 0 /\ row.token = None
  /\ UNCHANGED <<recorded, forgiven, used>>

Counted(e, row) ==
  /\ users[e] # None /\ row.token = users[e].token
  /\ row.fails = users[e].fails + 1
  /\ row.fails >= LockThreshold => row.lockUntil # 0
  /\ recorded' = [recorded EXCEPT ![e] = @ + 1]
  /\ UNCHANGED <<forgiven, used>>

Cleaned(e, row) ==
  /\ users[e] # None /\ row.token = users[e].token
  /\ row.fails = 0
  /\ forgiven' = [forgiven EXCEPT ![e] = recorded[e]]
  /\ UNCHANGED <<recorded, used>>

Edited(e, row) ==
  /\ users[e] # None /\ row.token = users[e].token
  /\ SameCount(e, row)
  /\ UNCHANGED <<recorded, forgiven, used>>

Mailable(e, row) ==
  /\ users[e] # None /\ SameCount(e, row)
  /\ \E w \in Workers : Drawn(w) /\ row.token = req[w].tok /\ req'[w] = None
  /\ UNCHANGED <<recorded, forgiven, used>>

Confirmed(e, row) ==
  /\ users[e] # None /\ SameCount(e, row)
  /\ users[e].token \in Tokens /\ row.token = None
  /\ used' = [used EXCEPT ![users[e].token] = @ + 1]
  /\ UNCHANGED <<recorded, forgiven>>

RowStep ==
  \/ UNCHANGED <<users, recorded, forgiven, used>>
  \/ \E e \in Emails, row \in User :
       /\ users' = [users EXCEPT ![e] = row]
       /\ \/ Created(e, row) \/ Counted(e, row) \/ Cleaned(e, row)
          \/ Edited(e, row) \/ Mailable(e, row) \/ Confirmed(e, row)

\* A write of the request's copy.
LEMMA WriteRow ==
  ASSUME TypeOK, NEW w \in Workers, req[w] # None, req[w].at \in CopyPlaces, UpdateUser(w)
  PROVE  /\ req[w].who \in Emails /\ req[w].copy \in User
         /\ users[req[w].who] # None /\ users[req[w].who] \in User
         /\ users' = [users EXCEPT ![req[w].who] = req[w].copy]
<1>1. req[w].who \in Emails /\ req[w].copy \in User
  BY WriterShape
<1> QED BY <1>1 DEF UpdateUser, StoreRow, TypeOK

LEMMA RecordWriteRow ==
  ASSUME TypeOK, SeqInv, NEW w \in Workers, RecordWrite(w)
  PROVE  RowStep
<1> DEFINE e == req[w].who
           row == req[w].copy
<1>1. /\ req[w] # None /\ req[w].at = "recordWrite" /\ UpdateUser(w)
      /\ recorded' = [recorded EXCEPT ![e] = @ + 1] /\ UNCHANGED <<forgiven, used>>
  BY DEF RecordWrite, At
<1>2. /\ e \in Emails /\ row \in User /\ users[e] # None /\ users[e] \in User
      /\ users' = [users EXCEPT ![e] = row]
  BY <1>1, WriteRow DEF CopyPlaces, UpdatePlaces
<1>3. PICK t \in 1..now : row = Failed(users[e], t)
  BY <1>1 DEF SeqInv, PendingAt
<1>4. t + LockTTL # 0 /\ users[e].fails \in Nat
  BY <1>2, Times DEF User
<1>5. /\ row.token = users[e].token /\ row.fails = users[e].fails + 1
      /\ row.lockUntil = IF users[e].fails + 1 >= LockThreshold
                           THEN t + LockTTL ELSE users[e].lockUntil
  BY <1>2, <1>3 DEF Failed, User
<1>6. Counted(e, row)
  BY <1>1, <1>2, <1>4, <1>5 DEF Counted
<1> QED BY <1>2, <1>6 DEF RowStep

LEMMA CleanRow ==
  ASSUME TypeOK, SeqInv, NEW w \in Workers, Unlock(w) \/ ClearWrite(w)
  PROVE  RowStep
<1> DEFINE e == req[w].who
           row == req[w].copy
<1>1. /\ req[w] # None /\ req[w].at \in {"unlock", "clearWrite"} /\ UpdateUser(w)
      /\ forgiven' = [forgiven EXCEPT ![e] = recorded[e]] /\ UNCHANGED <<recorded, used>>
  BY DEF Unlock, ClearWrite, At
<1>2. /\ e \in Emails /\ row \in User /\ users[e] # None /\ users[e] \in User
      /\ users' = [users EXCEPT ![e] = row]
  BY <1>1, WriteRow DEF CopyPlaces, UpdatePlaces
<1>3. row = NoFailures(users[e])
  BY <1>1 DEF SeqInv, PendingAt
<1>4. row.token = users[e].token /\ row.fails = 0
  BY <1>2, <1>3 DEF NoFailures, User
<1>5. Cleaned(e, row)
  BY <1>1, <1>2, <1>4 DEF Cleaned
<1> QED BY <1>2, <1>5 DEF RowStep

LEMMA EditRow ==
  ASSUME TypeOK, SeqInv, NEW w \in Workers, ResendWrite(w) \/ VerifyWrite(w) \/ ProfileWrite(w)
  PROVE  RowStep
<1> DEFINE e == req[w].who
           u == users[e]
           row == req[w].copy
<1>1. /\ req[w] # None /\ req[w].at \in {"resendWrite", "verifyWrite", "profileWrite"}
      /\ UpdateUser(w) /\ UNCHANGED <<recorded, forgiven, used>>
  BY DEF ResendWrite, VerifyWrite, ProfileWrite, At, history
<1>2. /\ e \in Emails /\ row \in User /\ u # None /\ u \in User
      /\ users' = [users EXCEPT ![e] = row]
  BY <1>1, WriteRow DEF CopyPlaces, UpdatePlaces
<1>3. row.token = u.token /\ row.fails = u.fails /\ row.lockUntil = u.lockUntil
  <2>1. CASE req[w].at = "resendWrite"
    <3>1. PICK c \in Codes, exp \in 1..now + CodeTTL : row = Resigned(u, req[w].pass, c, exp)
      BY <1>1, <2>1 DEF SeqInv, PendingAt
    <3> QED BY <1>2, <3>1 DEF Resigned, User
  <2>2. CASE req[w].at = "verifyWrite"
    <3>1. row = Verified(u)
      BY <1>1, <2>2 DEF SeqInv, PendingAt
    <3> QED BY <1>2, <3>1 DEF Verified, User
  <2>3. CASE req[w].at = "profileWrite"
    <3>1. row = u \/ row = WithPassword(u, req[w].pass)
      BY <1>1, <2>3 DEF SeqInv, PendingAt
    <3> QED BY <1>2, <3>1 DEF WithPassword, User
  <2> QED BY <1>1, <2>1, <2>2, <2>3
<1>4. Edited(e, row)
  BY <1>1, <1>2, <1>3 DEF Edited, SameCount
<1> QED BY <1>2, <1>4 DEF RowStep

LEMMA ResetWriteRow ==
  ASSUME TypeOK, SeqInv, NEW w \in Workers, ResetWrite(w)
  PROVE  RowStep
<1> DEFINE e == req[w].who
           row == req[w].copy
<1>1. /\ req[w] # None /\ req[w].at = "resetWrite"
      /\ UpdateUser(w) /\ req'[w] = None /\ UNCHANGED <<recorded, forgiven, used>>
  BY ReturnShape DEF ResetWrite, At, history
<1>2. /\ e \in Emails /\ row \in User /\ users[e] # None /\ users[e] \in User
      /\ users' = [users EXCEPT ![e] = row]
  BY <1>1, WriteRow DEF CopyPlaces, UpdatePlaces
<1>3. PICK exp \in 1..now + ResetTTL : row = WithToken(users[e], req[w].tok, exp)
  BY <1>1 DEF SeqInv, PendingAt
<1>4. row.token = req[w].tok /\ SameCount(e, row)
  BY <1>2, <1>3 DEF WithToken, User, SameCount
<1>5. Mailable(e, row)
  BY <1>1, <1>2, <1>4 DEF Mailable, Drawn
<1> QED BY <1>2, <1>5 DEF RowStep

LEMMA ConfirmWriteRow ==
  ASSUME TypeOK, SeqInv, NEW w \in Workers, ConfirmWrite(w)
  PROVE  RowStep
<1> DEFINE e == req[w].who
           row == req[w].copy
<1>1. /\ req[w] # None /\ req[w].at = "confirmWrite" /\ UpdateUser(w)
      /\ used' = [used EXCEPT ![req[w].tok] = @ + 1] /\ UNCHANGED <<recorded, forgiven>>
  BY DEF ConfirmWrite, At
<1>2. /\ e \in Emails /\ row \in User /\ users[e] # None /\ users[e] \in User
      /\ users' = [users EXCEPT ![e] = row]
  BY <1>1, WriteRow DEF CopyPlaces, UpdatePlaces
<1>3. users[e].token = req[w].tok /\ req[w].tok # None
  BY <1>1 DEF SeqInv, PendingAt
<1>4. row = WithoutToken(users[e], req[w].pass)
  BY <1>1 DEF SeqInv, PendingAt
<1>5. row.token = None /\ SameCount(e, row)
  BY <1>2, <1>4 DEF WithoutToken, User, SameCount
<1>6. users[e].token \in Tokens
  BY <1>2, <1>3 DEF User
<1>7. Confirmed(e, row)
  BY <1>1, <1>2, <1>3, <1>5, <1>6 DEF Confirmed
<1> QED BY <1>2, <1>7 DEF RowStep

LEMMA CreateRow ==
  ASSUME TypeOK, SeqInv, NEW w \in Workers, Create(w)
  PROVE  RowStep
<1> DEFINE e == req[w].who
           new(c) == [req[w].copy EXCEPT !.code = c, !.codeExp = now + CodeTTL]
<1>1. /\ req[w] # None /\ req[w].at = "create" /\ users[e] = None
      /\ UNCHANGED <<recorded, forgiven, used>>
  BY DEF Create, At, history
<1>2. e \in Emails /\ req[w].copy \in User
  BY <1>1, WriterShape DEF CopyPlaces
<1>3. PICK c \in Codes : StoreRow(e, new(c))
  BY DEF Create
<1>4. req[w].copy.fails = 0 /\ req[w].copy.token = None
  BY <1>1 DEF SeqInv, PendingAt
<1>5. new(c) \in User /\ new(c).fails = 0 /\ new(c).token = None
  <2>1. new(c) \in User
    BY <1>2, EditType
  <2> QED BY <1>2, <1>4, <2>1 DEF User
<1> HIDE DEF new
<1>6. Created(e, new(c)) /\ users' = [users EXCEPT ![e] = new(c)]
  BY <1>1, <1>3, <1>5 DEF Created, StoreRow
<1> QED BY <1>2, <1>5, <1>6 DEF RowStep

\* Every step changes at most one row, in one of these ways.
LEMMA EveryRowStep ==
  ASSUME TypeOK, SeqInv, [Next]_vars
  PROVE  RowStep
<1> USE DEF table, mail, history
<1>1. CASE UNCHANGED vars
  BY <1>1 DEF vars, RowStep
<1>2. ASSUME NEW w \in Workers, Login(w) PROVE RowStep
  BY <1>2, RecordWriteRow, CleanRow
     DEF Login, LoginMatch, LoginMismatch, RecordRead, CheckAccountLockout, ClearRead,
         ClearFails, IssueSession, RowStep
<1>3. ASSUME NEW w \in Workers, Signup(w) PROVE RowStep
  BY <1>3, EditRow, CreateRow
     DEF Signup, SignupExisting, ResendMail, SignupNew, CreateMail, RowStep
<1>4. ASSUME NEW w \in Workers, OtherRequests(w) PROVE RowStep
  BY <1>4, EditRow, ResetWriteRow, ConfirmWriteRow
     DEF OtherRequests, VerifyEmail, ResetPassword, ConfirmResetPassword, Profile, RowStep
<1>5. ASSUME NEW w \in Workers, RequestFails(w) PROVE RowStep
  BY <1>5 DEF RequestFails, RowStep
<1>6. DeliverMail \/ Replicate \/ Crash \/ Tick => RowStep
  BY DEF DeliverMail, Replicate, Crash, Tick, RowStep
<1> QED BY <1>1, <1>2, <1>3, <1>4, <1>5, <1>6 DEF Next

-----------------------------------------------------------------------------
(* LockoutEngages *)

\* The inductive invariant: the counter in the row is the number of failures
\* since it was last cleared, and at the threshold the row is locked.
CountInv ==
  \A e \in Emails :
    /\ users[e] = None => recorded[e] = 0 /\ forgiven[e] = 0
    /\ users[e] # None =>
         /\ recorded[e] = forgiven[e] + users[e].fails
         /\ users[e].fails >= LockThreshold => users[e].lockUntil # 0

LEMMA CountStep ==
  ASSUME TypeOK, CountInv, RowStep
  PROVE  CountInv'
<1>1. CASE UNCHANGED <<users, recorded, forgiven, used>>
  BY <1>1 DEF CountInv
<1>2. ASSUME NEW e \in Emails, NEW row \in User, users' = [users EXCEPT ![e] = row],
             \/ Created(e, row) \/ Counted(e, row) \/ Cleaned(e, row)
             \/ Edited(e, row) \/ Mailable(e, row) \/ Confirmed(e, row)
      PROVE  CountInv'
  <2>1. users'[e] = row /\ row # None /\ \A d \in Emails \ {e} : users'[d] = users[d]
    BY <1>2, RowIsNotNone DEF TypeOK
  <2>2. /\ \A d \in Emails \ {e} : recorded'[d] = recorded[d] /\ forgiven'[d] = forgiven[d]
    BY <1>2 DEF TypeOK, Created, Counted, Cleaned, Edited, Mailable, Confirmed
  <2>3. /\ recorded[e] \in Nat /\ forgiven[e] \in Nat /\ row.fails \in Nat
        /\ users[e] # None => users[e].fails \in Nat
        /\ LockThreshold \in Nat \ {0}
    BY NumberAssumption DEF TypeOK, User
  <2>4. /\ recorded'[e] = forgiven'[e] + row.fails
        /\ row.fails >= LockThreshold => row.lockUntil # 0
    <3>1. CASE Created(e, row)
      BY <2>3, <3>1 DEF Created, CountInv
    <3>2. CASE Counted(e, row)
      <4>1. recorded'[e] = recorded[e] + 1 /\ forgiven'[e] = forgiven[e]
        BY <3>2 DEF Counted, TypeOK
      <4> QED BY <2>3, <3>2, <4>1 DEF Counted, CountInv
    <3>3. CASE Cleaned(e, row)
      <4>1. recorded'[e] = recorded[e] /\ forgiven'[e] = recorded[e]
        BY <3>3 DEF Cleaned, TypeOK
      <4> QED BY <2>3, <3>3, <4>1 DEF Cleaned
    <3>4. CASE Edited(e, row) \/ Mailable(e, row) \/ Confirmed(e, row)
      <4>1. users[e] # None /\ SameCount(e, row) /\ UNCHANGED <<recorded, forgiven>>
        BY <3>4 DEF Edited, Mailable, Confirmed
      <4> QED BY <2>3, <4>1 DEF SameCount, CountInv
    <3> QED BY <1>2, <3>1, <3>2, <3>3, <3>4
  <2> QED BY <2>1, <2>2, <2>4 DEF CountInv
<1> QED BY <1>1, <1>2 DEF RowStep

\* The LockThreshold-th failed login locks the account (recordFailedAttempt)
\* when no two requests on it overlap.
THEOREM LockoutEngagesHolds ==
  ASSUME ~StaleReads
  PROVE  Spec /\ []NoOverlap => []LockoutEngages
<1>1. Init => CountInv
  BY DEF Init, CountInv
<1>2. TypeOK /\ SeqInv /\ CountInv /\ [Next]_vars => CountInv'
  BY EveryRowStep, CountStep
<1>3. TypeOK /\ CountInv => LockoutEngages
  <2> SUFFICES ASSUME TypeOK, CountInv, NEW e \in Emails, users[e] # None,
                      recorded[e] - forgiven[e] >= LockThreshold
               PROVE  users[e].lockUntil # 0
    BY DEF LockoutEngages
  <2>1. recorded[e] \in Nat /\ forgiven[e] \in Nat /\ users[e].fails \in Nat
    BY DEF TypeOK, User
  <2> QED BY <2>1, NumberAssumption DEF CountInv
<1> QED BY <1>1, <1>2, <1>3, SeqInvHolds, TypeCorrect, PTL DEF Spec

-----------------------------------------------------------------------------
(* ResetTokenSingleUse *)

\* A token that no row of the table holds.
Nowhere(t) == \A e \in Emails : users[e] # None => users[e].token # t

\* The inductive invariant: a token is in at most one row, and only before it
\* is used; the token of a request that is about to store it is in none, and
\* no two requests have drawn the same.
TokenInv ==
  /\ ResetTokenSingleUse
  /\ \A t \in Tokens : t \notin issued => used[t] = 0 /\ Nowhere(t)
  /\ \A e \in Emails : users[e] # None /\ users[e].token # None =>
       /\ used[users[e].token] = 0
       /\ \A d \in Emails \ {e} : users[d] # None => users[d].token # users[e].token
  /\ \A w \in Workers : Drawn(w) =>
       req[w].tok \in issued /\ used[req[w].tok] = 0 /\ Nowhere(req[w].tok)
  /\ \A v, w \in Workers : v # w /\ Drawn(v) /\ Drawn(w) => req[v].tok # req[w].tok

\* How a step treats the tokens that are not in a row: a request that is about
\* to store one was about to already, or has just drawn it.
DrawStep ==
  /\ issued \subseteq issued'
  /\ \A w \in Workers : req'[w] # None /\ req'[w].at = "resetWrite" =>
       \/ req'[w] = req[w]
       \/ /\ req'[w].tok \in (Tokens \cap issued') \ issued
          /\ UNCHANGED <<users, used>>
          /\ \A v \in Workers \ {w} : req'[v] = req[v]

LEMMA EveryDrawStep ==
  ASSUME TypeOK, [Next]_vars
  PROVE  DrawStep
<1> USE DEF table, mail, history
<1>1. CASE UNCHANGED vars
  BY <1>1 DEF vars, DrawStep
<1>2. ASSUME NEW w \in Workers, req'[w] = None \/ req'[w].at # "resetWrite",
             issued' = issued,
             Login(w) \/ Signup(w) \/ OtherRequests(w) \/ RequestFails(w)
      PROVE  DrawStep
  <2>1. \A v \in Workers \ {w} : req'[v] = req[v]
    BY <1>2, OthersKept
  <2> QED BY <1>2, <2>1 DEF DrawStep
<1>3. ASSUME NEW w \in Workers, NEW place, NEW row, place # "resetWrite",
             Continue(w, place, row), req[w] # None
      PROVE  req'[w].at # "resetWrite"
  <2>1. req[w] \in Request
    BY <1>3 DEF TypeOK
  <2>2. req'[w] = [req[w] EXCEPT !.at = place, !.copy = row]
    BY <1>3 DEF TypeOK, Continue
  <2> QED BY <1>3, <2>1, <2>2 DEF Request
<1>4. ASSUME NEW w \in Workers, NEW place, NEW e, NEW p, NEW t, NEW v, NEW row,
             place # "resetWrite", Begin(w, place, e, p, t, v, row)
      PROVE  req'[w].at # "resetWrite"
  BY <1>4 DEF TypeOK, Begin
<1>5. ASSUME NEW w \in Workers, Login(w) PROVE DrawStep
  <2>1. issued' = issued
    BY <1>5 DEF Login, LoginMatch, LoginMismatch, RecordRead, RecordWrite,
                CheckAccountLockout, Unlock, ClearRead, ClearWrite, ClearFails, IssueSession
  <2>2. req'[w] = None \/ req'[w].at # "resetWrite"
    BY <1>3, <1>4, <1>5, ReturnShape
       DEF Login, LoginMatch, LoginMismatch, RecordRead, RecordWrite, Unlocked,
           CheckAccountLockout, Unlock, ClearRead, ClearWrite, ClearFails, IssueSession, At
  <2> QED BY <1>2, <1>5, <2>1, <2>2
<1>6. ASSUME NEW w \in Workers, Signup(w) PROVE DrawStep
  <2>1. issued' = issued
    BY <1>6 DEF Signup, SignupExisting, ResendMail, ResendWrite, SignupNew, Create, CreateMail
  <2>2. req'[w] = None \/ req'[w].at # "resetWrite"
    BY <1>3, <1>4, <1>6, ReturnShape
       DEF Signup, SignupExisting, ResendMail, ResendWrite, SignupNew, Create, CreateMail, At
  <2> QED BY <1>2, <1>6, <2>1, <2>2
<1>7. ASSUME NEW w \in Workers, OtherRequests(w), ~ResetPassword(w) PROVE DrawStep
  <2>1. issued' = issued
    BY <1>7 DEF OtherRequests, VerifyEmail, VerifyWrite, ResetWrite, ConfirmResetPassword,
                ConfirmWrite, Profile, ProfileWrite
  <2>2. req'[w] = None \/ req'[w].at # "resetWrite"
    BY <1>3, <1>4, <1>7, ReturnShape
       DEF OtherRequests, VerifyEmail, VerifyWrite, ResetWrite, ConfirmResetPassword,
           ConfirmWrite, Profile, ProfileWrite, At
  <2> QED BY <1>2, <1>7, <2>1, <2>2
<1>8. ASSUME NEW w \in Workers, ResetPassword(w) PROVE DrawStep
  <2>1. PICK e \in Emails, t \in Tokens \ issued :
          /\ \E row : Begin(w, "resetWrite", e, None, t, FALSE, row)
          /\ issued' = issued \cup {t}
    BY <1>8 DEF ResetPassword
  <2>2. req'[w].tok = t /\ UNCHANGED <<users, used>>
    BY <1>8, <2>1, BeginCopy DEF ResetPassword
  <2>3. \A v \in Workers \ {w} : req'[v] = req[v]
    BY <1>8, OthersKept DEF OtherRequests
  <2> QED BY <2>1, <2>2, <2>3 DEF DrawStep
<1>9. ASSUME NEW w \in Workers, RequestFails(w) PROVE DrawStep
  BY <1>2, <1>9, ReturnShape DEF RequestFails
<1>10. DeliverMail \/ Replicate \/ Crash \/ Tick => DrawStep
  BY DEF DeliverMail, Replicate, Crash, Tick, DrawStep
<1> QED BY <1>1, <1>5, <1>6, <1>7, <1>8, <1>9, <1>10 DEF Next

\* The drawn tokens stay fresh and different.
LEMMA DrawnStep ==
  ASSUME TypeOK, TokenInv, RowStep, DrawStep
  PROVE  /\ (\A w \in Workers : Drawn(w) =>
               req[w].tok \in issued /\ used[req[w].tok] = 0 /\ Nowhere(req[w].tok))'
         /\ (\A v, w \in Workers : v # w /\ Drawn(v) /\ Drawn(w) => req[v].tok # req[w].tok)'
<1>1. ASSUME NEW w \in Workers, Drawn(w)', req'[w] = req[w]
      PROVE  /\ req[w].tok \in issued' /\ used'[req[w].tok] = 0
             /\ \A d \in Emails : users'[d] # None => users'[d].token # req[w].tok
  <2> DEFINE t == req[w].tok
  <2>1. Drawn(w)
    BY <1>1 DEF Drawn
  <2>2. t \in issued /\ used[t] = 0 /\ Nowhere(t)
    BY <2>1 DEF TokenInv
  <2>3. t \in Tokens /\ t # None /\ t \in issued'
    BY <2>2, NoneAssumption DEF TypeOK, DrawStep
  <2>4. CASE UNCHANGED <<users, recorded, forgiven, used>>
    BY <2>2, <2>3, <2>4 DEF Nowhere
  <2>5. ASSUME NEW e \in Emails, NEW row \in User, users' = [users EXCEPT ![e] = row],
               \/ Created(e, row) \/ Counted(e, row) \/ Cleaned(e, row)
               \/ Edited(e, row) \/ Mailable(e, row) \/ Confirmed(e, row)
        PROVE  used'[t] = 0 /\ \A d \in Emails : users'[d] # None => users'[d].token # t
    <3>1. users'[e] = row /\ \A d \in Emails \ {e} : users'[d] = users[d]
      BY <2>5 DEF TypeOK
    <3>2. row.token # t
      <4>1. CASE Mailable(e, row)
        <5>1. PICK x \in Workers : Drawn(x) /\ row.token = req[x].tok /\ req'[x] = None
          BY <4>1 DEF Mailable
        <5>2. x # w
          BY <1>1, <5>1 DEF Drawn
        <5> QED BY <2>1, <5>1, <5>2 DEF TokenInv
      <4>2. CASE Created(e, row) \/ Counted(e, row) \/ Cleaned(e, row)
                 \/ Edited(e, row) \/ Confirmed(e, row)
        BY <2>2, <2>3, <4>2 DEF Nowhere, Created, Counted, Cleaned, Edited, Confirmed
      <4> QED BY <2>5, <4>1, <4>2
    <3>3. used'[t] = 0
      <4>1. CASE Confirmed(e, row)
        BY <2>2, <2>3, <4>1 DEF Nowhere, Confirmed, TypeOK
      <4>2. CASE ~Confirmed(e, row)
        BY <2>2, <2>5, <4>2 DEF Created, Counted, Cleaned, Edited, Mailable
      <4> QED BY <4>1, <4>2
    <3> QED BY <2>2, <3>1, <3>2, <3>3 DEF Nowhere
  <2> QED BY <2>3, <2>4, <2>5, <2>2 DEF RowStep
<1>2. ASSUME NEW w \in Workers, Drawn(w)', req'[w] # req[w]
      PROVE  /\ req'[w].tok \in (Tokens \cap issued') \ issued
             /\ UNCHANGED <<users, used>>
             /\ \A v \in Workers \ {w} : req'[v] = req[v]
  BY <1>2 DEF Drawn, DrawStep
<1>3. ASSUME NEW w \in Workers, Drawn(w)'
      PROVE  /\ req'[w].tok \in issued' /\ used'[req'[w].tok] = 0
             /\ \A d \in Emails : users'[d] # None => users'[d].token # req'[w].tok
  <2>1. CASE req'[w] = req[w]
    BY <1>1, <1>3, <2>1
  <2>2. CASE req'[w] # req[w]
    BY <1>2, <1>3, <2>2 DEF TokenInv, Nowhere
  <2> QED BY <2>1, <2>2
<1>4. ASSUME NEW v \in Workers, NEW w \in Workers, v # w, Drawn(v)', Drawn(w)'
      PROVE  req'[v].tok # req'[w].tok
  <2>1. CASE req'[v] = req[v] /\ req'[w] = req[w]
    BY <1>4, <2>1 DEF TokenInv, Drawn
  <2>2. CASE req'[v] # req[v]
    <3>1. req'[v].tok \notin issued /\ req'[w] = req[w]
      BY <1>2, <1>4, <2>2
    <3> QED BY <1>4, <3>1 DEF TokenInv, Drawn
  <2>3. CASE req'[w] # req[w]
    <3>1. req'[w].tok \notin issued /\ req'[v] = req[v]
      BY <1>2, <1>4, <2>3
    <3> QED BY <1>4, <3>1 DEF TokenInv, Drawn
  <2> QED BY <2>1, <2>2, <2>3
<1> QED BY <1>3, <1>4 DEF Nowhere

LEMMA TokenStep ==
  ASSUME TypeOK, TokenInv, RowStep, DrawStep
  PROVE  TokenInv'
<1>1. /\ (\A w \in Workers : Drawn(w) =>
             req[w].tok \in issued /\ used[req[w].tok] = 0 /\ Nowhere(req[w].tok))'
      /\ (\A v, w \in Workers : v # w /\ Drawn(v) /\ Drawn(w) => req[v].tok # req[w].tok)'
  BY DrawnStep
<1>2. \A t \in Tokens : used[t] \in Nat
  BY DEF TypeOK
<1>3. issued \subseteq issued'
  BY DEF DrawStep
<1>4. CASE UNCHANGED <<users, recorded, forgiven, used>>
  <2>1. ResetTokenSingleUse' /\ \A t : Nowhere(t)' <=> Nowhere(t)
    BY <1>4 DEF TokenInv, Nowhere, ResetTokenSingleUse
  <2> QED BY <1>1, <1>3, <1>4, <2>1 DEF TokenInv
<1>5. ASSUME NEW e \in Emails, NEW row \in User, users' = [users EXCEPT ![e] = row],
             used' = used,
             \/ row.token = None
             \/ users[e] # None /\ row.token = users[e].token
             \/ /\ row.token \in issued /\ used[row.token] = 0
                /\ Nowhere(row.token)
      PROVE  TokenInv'
  <2>1. users'[e] = row /\ row # None /\ \A d \in Emails \ {e} : users'[d] = users[d]
    BY <1>5, RowIsNotNone DEF TypeOK
  <2>2. row.token # None =>
          /\ used[row.token] = 0
          /\ \A d \in Emails \ {e} : users[d] # None => users[d].token # row.token
    BY <1>5 DEF TokenInv, Nowhere
  <2>3. \A t \in Tokens : t \notin issued' => used'[t] = 0 /\ Nowhere(t)'
    <3> SUFFICES ASSUME NEW t \in Tokens, t \notin issued' PROVE used'[t] = 0 /\ Nowhere(t)'
      OBVIOUS
    <3>1. used[t] = 0 /\ Nowhere(t) /\ t \notin issued /\ t # None
      BY <1>3, NoneAssumption DEF TokenInv
    <3>2. row.token # t
      BY <1>5, <3>1 DEF Nowhere
    <3> QED BY <1>5, <2>1, <3>1, <3>2 DEF Nowhere
  <2>4. \A d \in Emails : users'[d] # None /\ users'[d].token # None =>
          /\ used'[users'[d].token] = 0
          /\ \A c \in Emails \ {d} : users'[c] # None => users'[c].token # users'[d].token
    <3> SUFFICES ASSUME NEW d \in Emails, users'[d] # None, users'[d].token # None
                 PROVE  /\ used[users'[d].token] = 0
                        /\ \A c \in Emails \ {d} :
                             users'[c] # None => users'[c].token # users'[d].token
      BY <1>5
    <3>1. CASE d = e
      BY <2>1, <2>2, <3>1
    <3>2. CASE d # e
      <4>1. used[users[d].token] = 0
            /\ \A c \in Emails \ {d} : users[c] # None => users[c].token # users[d].token
        BY <2>1, <3>2 DEF TokenInv
      <4>2. row.token # users[d].token
        BY <2>1, <2>2, <3>2
      <4> QED BY <2>1, <3>2, <4>1, <4>2
    <3> QED BY <3>1, <3>2
  <2> QED BY <1>1, <1>5, <2>3, <2>4 DEF TokenInv, ResetTokenSingleUse
<1>6. ASSUME NEW e \in Emails, NEW row \in User, users' = [users EXCEPT ![e] = row],
             Confirmed(e, row)
      PROVE  TokenInv'
  <2> DEFINE t == users[e].token
  <2>1. /\ users'[e] = row /\ row.token = None /\ users[e] # None /\ t \in Tokens /\ t # None
        /\ \A d \in Emails \ {e} : users'[d] = users[d]
    BY <1>6, NoneAssumption DEF TypeOK, Confirmed
  <2>2. /\ used[t] = 0
        /\ used'[t] = 1 /\ \A s \in Tokens \ {t} : used'[s] = used[s]
    BY <1>6, <2>1 DEF TokenInv, TypeOK, Confirmed
  <2>3. ResetTokenSingleUse'
    BY <2>2 DEF TokenInv, ResetTokenSingleUse
  <2>4. \A s \in Tokens : s \notin issued' => used'[s] = 0 /\ Nowhere(s)'
    BY <1>3, <2>1, <2>2, NoneAssumption DEF TokenInv, Nowhere
  <2>5. \A d \in Emails : users'[d] # None /\ users'[d].token # None =>
          /\ used'[users'[d].token] = 0
          /\ \A c \in Emails \ {d} : users'[c] # None => users'[c].token # users'[d].token
    <3>1. \A d \in Emails \ {e} : users[d] # None /\ users[d].token # None =>
            users[d].token \in Tokens \ {t}
      BY <2>1 DEF TypeOK, User, TokenInv
    <3> SUFFICES ASSUME NEW d \in Emails \ {e}, users[d] # None, users[d].token # None
                 PROVE  /\ used'[users[d].token] = 0
                        /\ \A c \in Emails \ {d} :
                             users'[c] # None => users'[c].token # users[d].token
      BY <2>1
    <3>2. used[users[d].token] = 0
          /\ \A c \in Emails \ {d} : users[c] # None => users[c].token # users[d].token
      BY DEF TokenInv
    <3> QED BY <2>1, <2>2, <3>1, <3>2
  <2> QED BY <1>1, <2>3, <2>4, <2>5 DEF TokenInv
<1>7. ASSUME NEW e \in Emails, NEW row \in User, users' = [users EXCEPT ![e] = row],
             Mailable(e, row)
      PROVE  TokenInv'
  <2>1. used' = used /\ row.token \in issued /\ used[row.token] = 0 /\ Nowhere(row.token)
    BY <1>7 DEF Mailable, TokenInv
  <2> QED BY <1>5, <1>7, <2>1
<1>8. ASSUME NEW e \in Emails, NEW row \in User, users' = [users EXCEPT ![e] = row],
             Created(e, row) \/ Counted(e, row) \/ Cleaned(e, row) \/ Edited(e, row)
      PROVE  TokenInv'
  BY <1>5, <1>8 DEF Created, Counted, Cleaned, Edited
<1> QED BY <1>4, <1>6, <1>7, <1>8 DEF RowStep

\* A reset token changes a password once (ConfirmResetPassword, "Clear the
\* reset token after use") when no two requests on an account overlap.
THEOREM ResetTokenSingleUseHolds ==
  ASSUME ~StaleReads
  PROVE  Spec /\ []NoOverlap => []ResetTokenSingleUse
<1>1. Init => TokenInv
  BY DEF Init, TokenInv, Nowhere, Drawn, ResetTokenSingleUse
<1>2. TypeOK /\ SeqInv /\ TokenInv /\ [Next]_vars => TokenInv'
  BY EveryRowStep, EveryDrawStep, TokenStep
<1>3. TokenInv => ResetTokenSingleUse
  BY DEF TokenInv
<1> QED BY <1>1, <1>2, <1>3, SeqInvHolds, TypeCorrect, PTL DEF Spec

-----------------------------------------------------------------------------
(* PasswordChangesOnlyOnRequest and ReplacedCodeWasMailed *)

\* A write changes the password only to the one its request was sent, and the
\* code only to none or to one that was mailed.
LEMMA WriteEdits ==
  ASSUME TypeOK, SeqInv, NEW w \in Workers, req[w] # None, req[w].at \in UpdatePlaces,
         UpdateUser(w)
  PROVE  /\ \/ req[w].copy.pw = users[req[w].who].pw
            \/ /\ req[w].at \in {"resendWrite", "confirmWrite", "profileWrite"}
               /\ req[w].copy.pw = req[w].pass
         /\ \/ req[w].copy.code \in {users[req[w].who].code, None}
            \/ req[w].copy.code \in mailed[req[w].who]
<1> DEFINE u == users[req[w].who]
           row == req[w].copy
<1>1. u \in User /\ PendingAt(req[w], u)
  BY WriteRow DEF SeqInv, CopyPlaces
<1>2. CASE req[w].at = "recordWrite"
  <2>1. PICK t \in 1..now : row = Failed(u, t)
    BY <1>1, <1>2 DEF PendingAt
  <2> QED BY <1>1, <2>1 DEF Failed, User
<1>3. CASE req[w].at \in {"unlock", "clearWrite"}
  <2>1. row = NoFailures(u)
    BY <1>1, <1>3 DEF PendingAt
  <2> QED BY <1>1, <2>1 DEF NoFailures, User
<1>4. CASE req[w].at = "resendWrite"
  <2>1. PICK c \in Codes, exp \in 1..now + CodeTTL : row = Resigned(u, req[w].pass, c, exp)
    BY <1>1, <1>4 DEF PendingAt
  <2>2. row.code \in mailed[req[w].who]
    BY <1>1, <1>4 DEF PendingAt
  <2> QED BY <1>1, <1>4, <2>1, <2>2 DEF Resigned, User
<1>5. CASE req[w].at = "verifyWrite"
  <2>1. row = Verified(u)
    BY <1>1, <1>5 DEF PendingAt
  <2> QED BY <1>1, <2>1 DEF Verified, User
<1>6. CASE req[w].at = "resetWrite"
  <2>1. PICK exp \in 1..now + ResetTTL : row = WithToken(u, req[w].tok, exp)
    BY <1>1, <1>6 DEF PendingAt
  <2> QED BY <1>1, <2>1 DEF WithToken, User
<1>7. CASE req[w].at = "confirmWrite"
  <2>1. row = WithoutToken(u, req[w].pass)
    BY <1>1, <1>7 DEF PendingAt
  <2> QED BY <1>1, <1>7, <2>1 DEF WithoutToken, User
<1>8. CASE req[w].at = "profileWrite"
  <2>1. row = u \/ row = WithPassword(u, req[w].pass)
    BY <1>1, <1>8 DEF PendingAt
  <2> QED BY <1>1, <1>8, <2>1 DEF WithPassword, User
<1> QED BY <1>2, <1>3, <1>4, <1>5, <1>6, <1>7, <1>8 DEF UpdatePlaces

\* A step that changes the row of a known account is the write of a request.
LEMMA OnlyWritesChange ==
  ASSUME TypeOK, [Next]_vars, NEW e \in Emails, users[e] # None, users'[e] # users[e]
  PROVE  \E w \in Workers : /\ req[w] # None /\ req[w].at \in UpdatePlaces
                            /\ UpdateUser(w)
<1> USE DEF table, mail, history, At, UpdatePlaces
<1> DEFINE Writes(w) == req[w] # None /\ req[w].at \in UpdatePlaces /\ UpdateUser(w)
<1>1. ASSUME NEW w \in Workers, Login(w) PROVE Writes(w) \/ users' = users
  BY <1>1 DEF Login, LoginMatch, LoginMismatch, RecordRead, RecordWrite,
              CheckAccountLockout, Unlock, ClearRead, ClearWrite, ClearFails, IssueSession
<1>2. ASSUME NEW w \in Workers, Signup(w) PROVE Writes(w) \/ users'[e] = users[e]
  <2>1. CASE Create(w)
    <3>1. req[w].who # e /\ \E row : StoreRow(req[w].who, row)
      BY <2>1 DEF Create
    <3> QED BY <3>1 DEF StoreRow, TypeOK
  <2> QED BY <1>2, <2>1 DEF Signup, SignupExisting, ResendMail, ResendWrite, SignupNew,
                            CreateMail
<1>3. ASSUME NEW w \in Workers, OtherRequests(w) PROVE Writes(w) \/ users' = users
  BY <1>3 DEF OtherRequests, VerifyEmail, VerifyWrite, ResetPassword, ResetWrite,
              ConfirmResetPassword, ConfirmWrite, Profile, ProfileWrite
<1>4. ASSUME NEW w \in Workers, RequestFails(w) PROVE users' = users
  BY <1>4 DEF RequestFails
<1>5. DeliverMail \/ Replicate \/ Crash \/ Tick \/ UNCHANGED vars => users' = users
  BY DEF DeliverMail, Replicate, Crash, Tick, vars
<1> QED BY <1>1, <1>2, <1>3, <1>4, <1>5 DEF Next

\* What a step does to the password and the code of an account.
LEMMA StepEdits ==
  ASSUME TypeOK, SeqInv, [Next]_vars, NEW e \in Emails, users[e] # None
  PROVE  /\ \/ users'[e].pw = users[e].pw
            \/ \E w \in Workers :
                 /\ req[w] # None
                 /\ req[w].who = e
                 /\ req[w].at \in {"resendWrite", "confirmWrite", "profileWrite"}
                 /\ req[w].pass = users'[e].pw
         /\ \/ users'[e].code \in {users[e].code, None}
            \/ users'[e].code \in mailed[e]
<1>1. CASE users'[e] = users[e]
  BY <1>1
<1>2. CASE users'[e] # users[e]
  <2>1. PICK w \in Workers : req[w] # None /\ req[w].at \in UpdatePlaces /\ UpdateUser(w)
    BY <1>2, OnlyWritesChange
  <2>2. users' = [users EXCEPT ![req[w].who] = req[w].copy] /\ req[w].who \in Emails
    BY <2>1, WriteRow DEF CopyPlaces
  <2>3. req[w].who = e /\ users'[e] = req[w].copy
    BY <1>2, <2>2 DEF TypeOK
  <2> QED BY <2>1, <2>3, WriteEdits
<1> QED BY <1>1, <1>2

\* The stored password changes only in the write of a request that was sent
\* the new one (Signup, ConfirmResetPassword, Profile): without overlap no
\* handler writes an old password back.
THEOREM PasswordChangesOnlyOnRequestHolds ==
  ASSUME ~StaleReads
  PROVE  Spec /\ []NoOverlap => PasswordChangesOnlyOnRequest
<1>1. TypeOK /\ SeqInv /\ [Next]_vars =>
        [\A e \in Emails : users[e] # None /\ users'[e].pw # users[e].pw =>
           \E w \in Workers :
             /\ req[w] # None
             /\ req[w].who = e
             /\ req[w].at \in {"resendWrite", "confirmWrite", "profileWrite"}
             /\ req[w].pass = users'[e].pw]_vars
  BY StepEdits
<1> QED BY <1>1, SeqInvHolds, TypeCorrect, PTL DEF Spec, PasswordChangesOnlyOnRequest

\* A code replaces the one in a row only after it was mailed (Signup sends the
\* code of an account that exists before it stores it).
THEOREM ReplacedCodeWasMailedHolds ==
  ASSUME ~StaleReads
  PROVE  Spec /\ []NoOverlap => ReplacedCodeWasMailed
<1>1. TypeOK /\ SeqInv /\ [Next]_vars =>
        [\A e \in Emails :
           users[e] # None /\ users'[e].code \notin {users[e].code, None}
             => users'[e].code \in mailed[e]]_vars
  BY StepEdits
<1> QED BY <1>1, SeqInvHolds, TypeCorrect, PTL DEF Spec, ReplacedCodeWasMailed
=============================================================================
