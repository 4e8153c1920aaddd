------------------------ MODULE AccountsSafetyProofs ------------------------
(***************************************************************************)
(* Two safety theorems about Accounts: verified accounts and sessions rest *)
(* on proven passwords, and no account is locked without the failures that *)
(* justify it.  Both hold although reads and writes of a row interleave    *)
(* freely, reads lag, calls fail and the process crashes.                  *)
(***************************************************************************)
EXTENDS AccountsProofs

-----------------------------------------------------------------------------
(* What a step does to the requests and to the table *)

LEMMA BeginShape ==
  ASSUME TypeOK, NEW w \in Workers, NEW place \in Places, NEW e \in Emails,
         NEW p \in Passwords \cup {None}, NEW t \in Tokens \cup {None},
         NEW verified \in BOOLEAN, NEW row \in User \cup {None},
         Begin(w, place, e, p, t, verified, row)
  PROVE  /\ req'[w] # None
         /\ req'[w].at = place /\ req'[w].who = e /\ req'[w].pass = p
         /\ req'[w].tok = t /\ req'[w].seen = verified /\ req'[w].copy = row
         /\ \A v \in Workers \ {w} : req'[v] = req[v]
<1> DEFINE r == [at |-> place, who |-> e, pass |-> p, tok |-> t,
                 seen |-> verified, copy |-> row]
<1>1. r # None
  BY RequestIsNotNone DEF Request
<1>2. req'[w] = r /\ \A v \in Workers \ {w} : req'[v] = req[v]
  BY DEF TypeOK, Begin
<1> QED
  BY <1>1, <1>2

LEMMA ContinueShape ==
  ASSUME TypeOK, NEW w \in Workers, req[w] # None, NEW place \in Places,
         NEW row \in User \cup {None},
         Continue(w, place, row)
  PROVE  /\ req'[w] # None
         /\ req'[w].at = place /\ req'[w].who = req[w].who
         /\ req'[w].pass = req[w].pass /\ req'[w].tok = req[w].tok
         /\ req'[w].seen = req[w].seen /\ req'[w].copy = row
         /\ \A v \in Workers \ {w} : req'[v] = req[v]
<1>1. req[w] \in Request
  BY DEF TypeOK
<1>2. req' = [req EXCEPT ![w] = [req[w] EXCEPT !.at = place, !.copy = row]]
  BY DEF Continue
<1>3. /\ req'[w] = [req[w] EXCEPT !.at = place, !.copy = row]
      /\ \A v \in Workers \ {w} : req'[v] = req[v]
  BY <1>2 DEF TypeOK
<1>4. req'[w] \in Request
  BY <1>1, <1>3 DEF Request
<1> QED
  BY <1>1, <1>3, <1>4, RequestIsNotNone DEF Request

LEMMA ReturnShape ==
  ASSUME TypeOK, NEW w \in Workers, Return(w)
  PROVE  req'[w] = None /\ \A v \in Workers \ {w} : req'[v] = req[v]
BY DEF TypeOK, Return

LEMMA StoreShape ==
  ASSUME TypeOK, NEW e \in Emails, NEW row, StoreRow(e, row)
  PROVE  /\ \A d \in Emails : users'[d] = IF d = e THEN row ELSE users[d]
         /\ \A d \in Emails : replica'[d] \in {replica[d], users'[d]}
BY DEF TypeOK, StoreRow

\* A request that is about to write holds a row of the account it is about.
LEMMA WriterShape ==
  ASSUME TypeOK, NEW w \in Workers, req[w] # None, req[w].at \in CopyPlaces
  PROVE  /\ req[w].who \in Emails
         /\ req[w].copy \in User
         /\ req[w].copy # None
BY DEF TypeOK, WellFormed, Request

\* The password of a request, where its step needs one.
LEMMA PassShape ==
  ASSUME TypeOK, NEW w \in Workers, req[w] # None,
         req[w].at \in LoginPlaces \cup {"confirmWrite"}
  PROVE  req[w].who \in Emails /\ req[w].pass \in Passwords
BY DEF TypeOK, WellFormed, Request

-----------------------------------------------------------------------------
(* No spurious lockout *)

\* Counting one more failure on a row keeps it within the failures written.
LEMMA CountFailureCounted ==
  ASSUME TypeOK, NEW row \in User, NEW n \in Nat, RowCounted(row, n)
  PROVE  RowCounted(CountFailure(row), n + 1)
<1>1. row.fails \in Nat /\ row.lockUntil \in Nat /\ row # None
  BY RowIsNotNone DEF User
<1>2. CountFailure(row).fails = row.fails + 1
  BY DEF CountFailure, User
<1>3. \/ row.fails + 1 >= LockThreshold
      \/ CountFailure(row).lockUntil = row.lockUntil
  BY DEF CountFailure, User
<1> QED
  BY <1>1, <1>2, <1>3, NumberAssumption DEF RowCounted

\* A row without failures is within any count.
LEMMA NoFailuresCounted ==
  ASSUME NEW row \in User, NEW n \in Nat
  PROVE  RowCounted(NoFailures(row), n)
BY DEF RowCounted, NoFailures, User

\* Edits that leave the counter and the lock alone leave the row counted.
LEMMA SameCountCounted ==
  ASSUME NEW row, NEW new, NEW n, row # None, RowCounted(row, n),
         new.fails = row.fails, new.lockUntil = row.lockUntil
  PROVE  RowCounted(new, n)
BY DEF RowCounted

\* Counts only grow, so a row that was counted stays counted.
LEMMA CountedMonotone ==
  ASSUME NEW row \in User \cup {None}, NEW m \in Nat, NEW n \in Nat, m <= n,
         RowCounted(row, m)
  PROVE  RowCounted(row, n)
BY DEF RowCounted, User

\* What one step of a request has to show for FailureInv.
LEMMA FailureFrame ==
  ASSUME TypeOK, TypeOK', FailureInv, NEW w \in Workers,
         \A e \in Emails : recorded[e] <= recorded'[e],
         \A e \in Emails :
           users'[e] = users[e] \/ RowCounted(users'[e], recorded'[e]),
         \A e \in Emails : replica'[e] \in {replica[e], users[e], users'[e]},
         \A v \in Workers \ {w} : req'[v] = req[v],
         RequestCounted(req[w])'
  PROVE  FailureInv'
<1>1. \A e \in Emails : RowCounted(users'[e], recorded'[e])
  BY CountedMonotone DEF FailureInv, TypeOK
<1>2. \A e \in Emails : RowCounted(replica'[e], recorded'[e])
  <2> TAKE e \in Emails
  <2>1. RowCounted(replica[e], recorded'[e]) /\ RowCounted(users[e], recorded'[e])
    BY CountedMonotone DEF FailureInv, TypeOK
  <2> QED
    BY <2>1, <1>1
<1>3. \A v \in Workers : RequestCounted(req[v])'
  <2> TAKE v \in Workers
  <2>1. CASE v = w
    BY <2>1
  <2>2. CASE v # w /\ req[v] # None /\ req[v].at \in CopyPlaces
    <3>1. req[v].who \in Emails /\ req[v].copy \in User /\ req'[v] = req[v]
      BY <2>2, WriterShape
    <3> DEFINE own == IF req[v].at = "recordWrite" THEN 1 ELSE 0
    <3>2. RowCounted(req[v].copy, recorded[req[v].who] + own)
      BY <2>2 DEF FailureInv, RequestCounted
    <3>3. RowCounted(req[v].copy, recorded'[req[v].who] + own)
      <4>1. /\ recorded[req[v].who] + own \in Nat
            /\ recorded'[req[v].who] + own \in Nat
            /\ recorded[req[v].who] + own <= recorded'[req[v].who] + own
        BY <3>1 DEF TypeOK
      <4> QED
        BY <3>1, <3>2, <4>1, CountedMonotone
    <3> QED
      BY <3>1, <3>3 DEF RequestCounted
  <2>3. CASE v # w /\ (req[v] = None \/ req[v].at \notin CopyPlaces)
    BY <2>3 DEF RequestCounted
  <2> QED
    BY <2>1, <2>2, <2>3
<1> QED
  BY <1>1, <1>2, <1>3 DEF FailureInv

\* A row that was read is counted.
LEMMA ReadCounted ==
  ASSUME FailureInv, NEW e \in Emails, NEW row \in GetUserByEmail(e)
  PROVE  RowCounted(row, recorded[e])
BY DEF FailureInv, GetUserByEmail

\* A step that leaves the table and the failures alone and ends the request,
\* takes it to a place without a copy, or gives it a counted copy.
LEMMA FailureQuiet ==
  ASSUME TypeOK, TypeOK', FailureInv, NEW w \in Workers,
         UNCHANGED <<users, replica, recorded>>,
         \A v \in Workers \ {w} : req'[v] = req[v],
         \/ req'[w] = None
         \/ req'[w].at \notin CopyPlaces
         \/ /\ req'[w].at # "recordWrite"
            /\ RowCounted(req'[w].copy, recorded[req'[w].who])
         \/ /\ req'[w].at = "recordWrite"
            /\ RowCounted(req'[w].copy, recorded[req'[w].who] + 1)
  PROVE  FailureInv'
<1>1. \A e \in Emails : recorded[e] <= recorded'[e]
  BY DEF TypeOK
<1>2. RequestCounted(req[w])'
  <2>1. CASE req'[w] = None \/ req'[w].at \notin CopyPlaces
    BY <2>1 DEF RequestCounted
  <2>2. CASE /\ req'[w] # None
             /\ req'[w].at # "recordWrite"
             /\ RowCounted(req'[w].copy, recorded[req'[w].who])
    <3>1. recorded'[req'[w].who] + 0 = recorded[req'[w].who]
      BY <2>2 DEF TypeOK, Request
    <3> QED
      BY <2>2, <3>1 DEF RequestCounted
  <2>3. CASE /\ req'[w].at = "recordWrite"
             /\ RowCounted(req'[w].copy, recorded[req'[w].who] + 1)
    BY <2>3 DEF RequestCounted
  <2> QED
    BY <2>1, <2>2, <2>3
<1> QED
  BY <1>1, <1>2, FailureFrame

\* The write of a counted copy that ends the request or takes it to a place
\* without a copy.
LEMMA FailureWrite ==
  ASSUME TypeOK, TypeOK', FailureInv, NEW w \in Workers, req[w] # None,
         req[w].at \in UpdatePlaces \ {"recordWrite"},
         UpdateUser(w), UNCHANGED recorded,
         \A v \in Workers \ {w} : req'[v] = req[v],
         req'[w] = None \/ req'[w].at \notin CopyPlaces
  PROVE  FailureInv'
<1>1. req[w].who \in Emails /\ req[w].copy \in User /\ req[w].at \in CopyPlaces
  BY WriterShape DEF CopyPlaces
<1>2. RowCounted(req[w].copy, recorded[req[w].who])
  <2>1. RowCounted(req[w].copy, recorded[req[w].who] + 0)
    BY <1>1 DEF FailureInv, RequestCounted
  <2> QED
    BY <1>1, <2>1 DEF TypeOK
<1>3. /\ \A e \in Emails : users'[e] = users[e] \/ RowCounted(users'[e], recorded'[e])
      /\ \A e \in Emails : replica'[e] \in {replica[e], users[e], users'[e]}
  BY <1>1, <1>2, StoreShape DEF UpdateUser
<1>4. RequestCounted(req[w])'
  BY DEF RequestCounted
<1> QED
  BY <1>3, <1>4, FailureFrame DEF TypeOK

LEMMA LoginFailure ==
  ASSUME TypeOK, TypeOK', FailureInv, NEW w \in Workers, Login(w)
  PROVE  FailureInv'
<1> USE DEF table, mail, history
<1> DEFINE NoCopy == req'[w] = None \/ req'[w].at \notin CopyPlaces
<1>1. CASE LoginMatch(w) \/ LoginMismatch(w)
  <2>1. PICK place \in {"checkLockout", "recordRead"}, e \in Emails, p \in Passwords :
          \E row \in GetUserByEmail(e) :
            row # None /\ Begin(w, place, e, p, None, row.verified, None)
    BY <1>1 DEF LoginMatch, LoginMismatch
  <2>2. PICK row \in GetUserByEmail(e) :
          row # None /\ Begin(w, place, e, p, None, row.verified, None)
    BY <2>1
  <2>3. row.verified \in BOOLEAN
    BY <2>2, ReadType DEF User
  <2>4. place \in Places /\ place \notin CopyPlaces
    BY DEF Places, LoginPlaces, CopyPlaces, UpdatePlaces
  <2>5. NoCopy /\ \A v \in Workers \ {w} : req'[v] = req[v]
    BY <2>2, <2>3, <2>4, BeginShape
  <2> QED
    BY <1>1, <2>5, FailureQuiet DEF LoginMatch, LoginMismatch
<1>2. CASE RecordRead(w)
  <2>1. PICK row \in GetUserByEmail(req[w].who) :
          row # None /\ Continue(w, "recordWrite", CountFailure(row))
    BY <1>2 DEF RecordRead
  <2>2. req[w] # None /\ req[w].who \in Emails
    BY <1>2, PassShape DEF RecordRead, At, LoginPlaces
  <2>3. RowCounted(CountFailure(row), recorded[req[w].who] + 1)
    BY <2>1, <2>2, ReadType, ReadCounted, CountFailureCounted DEF TypeOK
  <2>0. CountFailure(row) \in User
    BY <2>1, <2>2, ReadType, EditType
  <2>4. /\ req'[w].at = "recordWrite" /\ req'[w].who = req[w].who
        /\ req'[w].copy = CountFailure(row)
        /\ \A v \in Workers \ {w} : req'[v] = req[v]
    BY <2>0, <2>1, <2>2, ContinueShape DEF Places, LoginPlaces
  <2> QED
    BY <1>2, <2>3, <2>4, FailureQuiet DEF RecordRead
<1>3. CASE RecordWrite(w)
  <2>1. /\ req[w] # None /\ req[w].who \in Emails /\ req[w].copy \in User
        /\ req[w].at = "recordWrite" /\ req[w].at \in CopyPlaces
    BY <1>3, WriterShape DEF RecordWrite, At, CopyPlaces, UpdatePlaces
  <2>2. RowCounted(req[w].copy, recorded[req[w].who] + 1)
    BY <2>1 DEF FailureInv, RequestCounted
  <2>3. /\ recorded'[req[w].who] = recorded[req[w].who] + 1
        /\ \A e \in Emails : recorded[e] <= recorded'[e]
    BY <1>3, <2>1 DEF RecordWrite, TypeOK
  <2>4. /\ \A e \in Emails : users'[e] = users[e] \/ RowCounted(users'[e], recorded'[e])
        /\ \A e \in Emails : replica'[e] \in {replica[e], users[e], users'[e]}
    BY <1>3, <2>1, <2>2, <2>3, StoreShape DEF RecordWrite, UpdateUser
  <2>5. RequestCounted(req[w])' /\ \A v \in Workers \ {w} : req'[v] = req[v]
    BY <1>3, ReturnShape DEF RecordWrite, RequestCounted
  <2> QED
    BY <2>3, <2>4, <2>5, FailureFrame
<1>4. ASSUME req[w] # None, Unlocked(w)
      PROVE  NoCopy /\ \A v \in Workers \ {w} : req'[v] = req[v]
  BY <1>4, ContinueShape, ReturnShape
  DEF Unlocked, CopyPlaces, UpdatePlaces, Places, LoginPlaces
<1>5. CASE CheckAccountLockout(w)
  <2>1. PICK row \in GetUserByEmail(req[w].who) :
          /\ row # None
          /\ \/ Return(w)
             \/ Continue(w, "unlock", NoFailures(row))
             \/ Unlocked(w)
    BY <1>5 DEF CheckAccountLockout
  <2>2. req[w] # None /\ req[w].who \in Emails
    BY <1>5, PassShape DEF CheckAccountLockout, At, LoginPlaces
  <2>3. CASE Return(w) \/ Unlocked(w)
    <3>1. NoCopy /\ \A v \in Workers \ {w} : req'[v] = req[v]
      BY <2>2, <2>3, <1>4, ReturnShape
    <3> QED
      BY <1>5, <3>1, FailureQuiet DEF CheckAccountLockout
  <2>4. CASE Continue(w, "unlock", NoFailures(row))
    <3>1. RowCounted(NoFailures(row), recorded[req[w].who])
      BY <2>1, <2>2, ReadType, NoFailuresCounted DEF TypeOK
    <3>0. NoFailures(row) \in User
      BY <2>1, <2>2, ReadType, EditType
    <3>2. /\ req'[w].at = "unlock" /\ req'[w].who = req[w].who
          /\ req'[w].copy = NoFailures(row)
          /\ \A v \in Workers \ {w} : req'[v] = req[v]
      BY <3>0, <2>2, <2>4, ContinueShape DEF Places, LoginPlaces
    <3> QED
      BY <1>5, <3>1, <3>2, FailureQuiet DEF CheckAccountLockout
  <2> QED
    BY <2>1, <2>3, <2>4
<1>6. CASE Unlock(w)
  <2>1. req[w] # None /\ req[w].at = "unlock"
    BY <1>6 DEF Unlock, At
  <2>2. NoCopy /\ \A v \in Workers \ {w} : req'[v] = req[v]
    BY <1>6, <2>1, <1>4, ReturnShape DEF Unlock
  <2> QED
    BY <1>6, <2>1, <2>2, FailureWrite DEF Unlock, UpdatePlaces
<1>7. CASE ClearRead(w)
  <2>1. PICK row \in GetUserByEmail(req[w].who) :
          row # None /\ Continue(w, "clearWrite", NoFailures(row))
    BY <1>7 DEF ClearRead
  <2>2. req[w] # None /\ req[w].who \in Emails
    BY <1>7, PassShape DEF ClearRead, At, LoginPlaces
  <2>3. RowCounted(NoFailures(row), recorded[req[w].who])
    BY <2>1, <2>2, ReadType, NoFailuresCounted DEF TypeOK
  <2>0. NoFailures(row) \in User
    BY <2>1, <2>2, ReadType, EditType
  <2>4. /\ req'[w].at = "clearWrite" /\ req'[w].who = req[w].who
        /\ req'[w].copy = NoFailures(row)
        /\ \A v \in Workers \ {w} : req'[v] = req[v]
    BY <2>0, <2>1, <2>2, ContinueShape DEF Places, LoginPlaces
  <2> QED
    BY <1>7, <2>3, <2>4, FailureQuiet DEF ClearRead
<1>8. ASSUME req[w] # None, Continue(w, "issue", None)
      PROVE  NoCopy /\ \A v \in Workers \ {w} : req'[v] = req[v]
  BY <1>8, ContinueShape DEF CopyPlaces, UpdatePlaces, Places, LoginPlaces
<1>9. CASE ClearWrite(w)
  <2>1. req[w] # None /\ req[w].at = "clearWrite"
    BY <1>9 DEF ClearWrite, At
  <2> QED
    BY <1>9, <2>1, <1>8, FailureWrite DEF ClearWrite, UpdatePlaces
<1>10. CASE ClearFails(w)
  BY <1>10, <1>8, FailureQuiet DEF ClearFails, At
<1>11. CASE IssueSession(w)
  BY <1>11, ReturnShape, FailureQuiet DEF IssueSession
<1> QED
  BY <1>1, <1>2, <1>3, <1>5, <1>6, <1>7, <1>9, <1>10, <1>11 DEF Login

\* A request that begins with an edited copy whose counter and lock are those
\* of a row it read.
LEMMA FailureBegin ==
  ASSUME TypeOK, TypeOK', FailureInv, NEW w \in Workers,
         NEW place \in CopyPlaces \ {"recordWrite"}, NEW e \in Emails,
         NEW p \in Passwords \cup {None}, NEW t \in Tokens \cup {None},
         NEW row \in GetUserByEmail(e), row # None,
         NEW new \in User, new.fails = row.fails, new.lockUntil = row.lockUntil,
         Begin(w, place, e, p, t, FALSE, new),
         UNCHANGED <<users, replica, recorded>>
  PROVE  FailureInv'
<1>1. RowCounted(new, recorded[e])
  BY ReadCounted, SameCountCounted
<1>2. place \in Places
  BY DEF Places
<1>3. /\ req'[w].at = place /\ req'[w].who = e /\ req'[w].copy = new
      /\ \A v \in Workers \ {w} : req'[v] = req[v]
  BY DEF Begin, TypeOK
<1>4. req'[w].at # "recordWrite" /\ RowCounted(req'[w].copy, recorded[req'[w].who])
  BY <1>1, <1>3
<1> QED
  BY <1>3, <1>4, FailureQuiet

LEMMA SignupFailure ==
  ASSUME TypeOK, TypeOK', FailureInv, NEW w \in Workers, Signup(w)
  PROVE  FailureInv'
<1> USE DEF table, mail, history
<1>1. CASE SignupExisting(w)
  <2> DEFINE new(row, p, c) == [row EXCEPT !.pw = p, !.code = c, !.codeExp = now + CodeTTL]
  <2>1. PICK e \in Emails, p \in Passwords, c \in Codes :
          \E row \in GetUserByEmail(e) :
            row # None /\ Begin(w, "resendMail", e, p, None, FALSE, new(row, p, c))
    BY <1>1 DEF SignupExisting
  <2>2. PICK row \in GetUserByEmail(e) :
            row # None /\ Begin(w, "resendMail", e, p, None, FALSE, new(row, p, c))
    BY <2>1
  <2>3. row \in User
    BY <2>2, ReadType
  <2>4. /\ new(row, p, c) \in User
        /\ new(row, p, c).fails = row.fails
        /\ new(row, p, c).lockUntil = row.lockUntil
    BY <2>3, EditType DEF User
  <2> HIDE DEF new
  <2> QED
    BY <1>1, <2>2, <2>4, FailureBegin DEF SignupExisting, CopyPlaces
<1>2. CASE ResendMail(w)
  <2>1. /\ req[w] # None /\ req[w].at = "resendMail"
        /\ req[w].who \in Emails /\ req[w].copy \in User
    BY <1>2, WriterShape DEF ResendMail, At, CopyPlaces
  <2>2. RowCounted(req[w].copy, recorded[req[w].who])
    BY <2>1 DEF FailureInv, RequestCounted, CopyPlaces, TypeOK
  <2>3. CASE Continue(w, "resendWrite", req[w].copy)
    <3>1. /\ req'[w].at = "resendWrite" /\ req'[w].who = req[w].who
          /\ req'[w].copy = req[w].copy
          /\ \A v \in Workers \ {w} : req'[v] = req[v]
      BY <2>1, <2>3, ContinueShape DEF Places, CopyPlaces, UpdatePlaces
    <3> QED
      BY <1>2, <2>2, <3>1, FailureQuiet DEF ResendMail
  <2>4. CASE Return(w)
    BY <1>2, <2>4, ReturnShape, FailureQuiet DEF ResendMail
  <2> QED
    BY <1>2, <2>3, <2>4 DEF ResendMail
<1>3. CASE ResendWrite(w)
  <2>1. req[w] # None /\ req[w].at \in UpdatePlaces \ {"recordWrite"}
    BY <1>3 DEF ResendWrite, At, UpdatePlaces
  <2>2. req'[w] = None /\ \A v \in Workers \ {w} : req'[v] = req[v]
    BY <1>3, ReturnShape DEF ResendWrite
  <2> QED
    BY <1>3, <2>1, <2>2, FailureWrite DEF ResendWrite
<1>4. CASE SignupNew(w)
  <2>1. PICK e \in Emails, p \in Passwords, c \in Codes :
          Begin(w, "create", e, p, None, FALSE, NewUser(p, c))
    BY <1>4 DEF SignupNew
  <2>2. NewUser(p, c) \in User /\ RowCounted(NewUser(p, c), recorded[e])
    <3>1. NewUser(p, c).fails = 0 /\ NewUser(p, c).lockUntil = 0
      BY DEF NewUser
    <3>2. recorded[e] \in Nat
      BY DEF TypeOK
    <3> QED
      BY <3>1, <3>2, NewUserType DEF RowCounted
  <2>3. /\ req'[w].at = "create" /\ req'[w].who = e /\ req'[w].copy = NewUser(p, c)
        /\ \A v \in Workers \ {w} : req'[v] = req[v]
    BY <2>1, <2>2 DEF Begin, TypeOK
  <2> QED
    BY <1>4, <2>2, <2>3, FailureQuiet DEF SignupNew
<1>5. CASE Create(w)
  <2>1. /\ req[w] # None /\ req[w].at = "create" /\ req[w].at \in CopyPlaces
        /\ req[w].who \in Emails /\ req[w].copy \in User /\ req[w].copy # None
    BY <1>5, WriterShape DEF Create, At, CopyPlaces
  <2> DEFINE new(c) == [req[w].copy EXCEPT !.code = c, !.codeExp = now + CodeTTL]
  <2>2. PICK c \in Codes :
          /\ StoreRow(req[w].who, new(c))
          /\ \/ Continue(w, "createMail", new(c))
             \/ Return(w)
    BY <1>5 DEF Create
  <2>3. /\ new(c) \in User
        /\ new(c).fails = req[w].copy.fails
        /\ new(c).lockUntil = req[w].copy.lockUntil
    BY <2>1, EditType DEF User
  <2> HIDE DEF new
  <2>4. RowCounted(new(c), recorded[req[w].who])
    <3>1. RowCounted(req[w].copy, recorded[req[w].who])
      BY <2>1 DEF FailureInv, RequestCounted, TypeOK
    <3> QED
      BY <2>1, <2>3, <3>1, SameCountCounted
  <2>5. /\ \A v \in Workers \ {w} : req'[v] = req[v]
        /\ RequestCounted(req[w])'
    <3>1. CASE Return(w)
      BY <3>1, ReturnShape DEF RequestCounted
    <3>2. CASE Continue(w, "createMail", new(c))
      <4>1. /\ req'[w].at = "createMail" /\ req'[w].who = req[w].who
            /\ req'[w].copy = new(c)
            /\ \A v \in Workers \ {w} : req'[v] = req[v]
        BY <3>2, <2>1, <2>3, ContinueShape DEF Places, CopyPlaces
      <4>2. recorded'[req[w].who] + 0 = recorded[req[w].who]
        BY <1>5, <2>1 DEF Create, TypeOK
      <4> QED
        BY <4>1, <4>2, <2>4 DEF RequestCounted
    <3> QED
      BY <2>2, <3>1, <3>2
  <2>6. /\ \A e \in Emails : users'[e] = users[e] \/ RowCounted(users'[e], recorded'[e])
        /\ \A e \in Emails : replica'[e] \in {replica[e], users[e], users'[e]}
    BY <1>5, <2>1, <2>2, <2>3, <2>4, StoreShape DEF Create
  <2>7. \A e \in Emails : recorded[e] <= recorded'[e]
    BY <1>5 DEF Create, TypeOK
  <2> QED
    BY <2>5, <2>6, <2>7, FailureFrame
<1>6. CASE CreateMail(w)
  BY <1>6, ReturnShape, FailureQuiet DEF CreateMail
<1> QED
  BY <1>1, <1>2, <1>3, <1>4, <1>5, <1>6 DEF Signup

LEMMA OtherFailure ==
  ASSUME TypeOK, TypeOK', FailureInv, NEW w \in Workers, OtherRequests(w)
  PROVE  FailureInv'
<1> USE DEF table, mail, history
<1>1. CASE VerifyEmail(w)
  <2> DEFINE new(row) == [row EXCEPT !.verified = TRUE, !.code = None, !.codeExp = 0]
  <2>1. PICK e \in Emails, p \in Passwords : \E row \in GetUserByEmail(e) :
          row # None /\ Begin(w, "verifyWrite", e, p, None, FALSE, new(row))
    BY <1>1 DEF VerifyEmail
  <2>2. PICK row \in GetUserByEmail(e) :
          row # None /\ Begin(w, "verifyWrite", e, p, None, FALSE, new(row))
    BY <2>1
  <2>3. row \in User
    BY <2>2, ReadType
  <2>4. new(row) \in User /\ new(row).fails = row.fails /\ new(row).lockUntil = row.lockUntil
    BY <2>3, EditType DEF User
  <2> HIDE DEF new
  <2> QED
    BY <1>1, <2>2, <2>4, FailureBegin DEF VerifyEmail, CopyPlaces, UpdatePlaces
<1>2. CASE VerifyWrite(w)
  <2>1. req[w] # None /\ req[w].at \in UpdatePlaces \ {"recordWrite"}
    BY <1>2 DEF VerifyWrite, At, UpdatePlaces
  <2>2. req'[w] = None /\ \A v \in Workers \ {w} : req'[v] = req[v]
    BY <1>2, ReturnShape DEF VerifyWrite
  <2> QED
    BY <1>2, <2>1, <2>2, FailureWrite DEF VerifyWrite
<1>3. CASE ResetPassword(w)
  <2> DEFINE new(row, t) == [row EXCEPT !.token = t, !.tokenExp = now + ResetTTL]
  <2>1. PICK e \in Emails, t \in Tokens : \E row \in GetUserByEmail(e) :
          row # None /\ Begin(w, "resetWrite", e, None, t, FALSE, new(row, t))
    BY <1>3 DEF ResetPassword
  <2>2. PICK row \in GetUserByEmail(e) :
          row # None /\ Begin(w, "resetWrite", e, None, t, FALSE, new(row, t))
    BY <2>1
  <2>3. row \in User
    BY <2>2, ReadType
  <2>4. /\ new(row, t) \in User
        /\ new(row, t).fails = row.fails
        /\ new(row, t).lockUntil = row.lockUntil
    BY <2>3, EditType DEF User
  <2> HIDE DEF new
  <2> QED
    BY <1>3, <2>2, <2>4, FailureBegin DEF ResetPassword, CopyPlaces, UpdatePlaces
<1>4. CASE ResetWrite(w)
  <2>1. req[w] # None /\ req[w].at \in UpdatePlaces \ {"recordWrite"}
    BY <1>4 DEF ResetWrite, At, UpdatePlaces
  <2>2. req'[w] = None /\ \A v \in Workers \ {w} : req'[v] = req[v]
    BY <1>4, ReturnShape DEF ResetWrite
  <2> QED
    BY <1>4, <2>1, <2>2, FailureWrite DEF ResetWrite
<1>5. CASE ConfirmResetPassword(w)
  <2> DEFINE new(row, p) == [row EXCEPT !.pw = p, !.token = None, !.tokenExp = 0]
  <2>1. PICK e \in Emails, box \in Emails, p \in Passwords :
          \E t \in mailed[box] \cap Tokens : \E row \in GetUserByResetToken(e, t) :
            Begin(w, "confirmWrite", e, p, t, FALSE, new(row, p))
    BY <1>5 DEF ConfirmResetPassword
  <2>2. PICK t \in Tokens : \E row \in GetUserByResetToken(e, t) :
            Begin(w, "confirmWrite", e, p, t, FALSE, new(row, p))
    BY <2>1
  <2>3. PICK row \in GetUserByResetToken(e, t) :
            Begin(w, "confirmWrite", e, p, t, FALSE, new(row, p))
    BY <2>2
  <2>4. row \in User /\ row \in GetUserByEmail(e) /\ row # None
    BY <2>3, TokenReadType, RowIsNotNone
  <2>5. /\ new(row, p) \in User
        /\ new(row, p).fails = row.fails
        /\ new(row, p).lockUntil = row.lockUntil
    BY <2>4, EditType DEF User
  <2> HIDE DEF new
  <2> QED
    BY <1>5, <2>3, <2>4, <2>5, FailureBegin
    DEF ConfirmResetPassword, CopyPlaces, UpdatePlaces
<1>6. CASE ConfirmWrite(w)
  <2>1. req[w] # None /\ req[w].at \in UpdatePlaces \ {"recordWrite"}
    BY <1>6 DEF ConfirmWrite, At, UpdatePlaces
  <2>2. req'[w] = None /\ \A v \in Workers \ {w} : req'[v] = req[v]
    BY <1>6, ReturnShape DEF ConfirmWrite
  <2> QED
    BY <1>6, <2>1, <2>2, FailureWrite DEF ConfirmWrite
<1>7. CASE Profile(w)
  <2> DEFINE new(row, p) == IF p = None THEN row ELSE [row EXCEPT !.pw = p]
  <2>1. PICK e \in Emails, p \in Passwords \cup {None} : \E row \in GetUserByEmail(e) :
          row # None /\ Begin(w, "profileWrite", e, p, None, FALSE, new(row, p))
    BY <1>7 DEF Profile
  <2>2. PICK row \in GetUserByEmail(e) :
          row # None /\ Begin(w, "profileWrite", e, p, None, FALSE, new(row, p))
    BY <2>1
  <2>3. row \in User
    BY <2>2, ReadType
  <2>4. /\ new(row, p) \in User
        /\ new(row, p).fails = row.fails
        /\ new(row, p).lockUntil = row.lockUntil
    BY <2>3, EditType DEF User
  <2> HIDE DEF new
  <2> QED
    BY <1>7, <2>2, <2>4, FailureBegin DEF Profile, CopyPlaces, UpdatePlaces
<1>8. CASE ProfileWrite(w)
  <2>1. req[w] # None /\ req[w].at \in UpdatePlaces \ {"recordWrite"}
    BY <1>8 DEF ProfileWrite, At, UpdatePlaces
  <2>2. req'[w] = None /\ \A v \in Workers \ {w} : req'[v] = req[v]
    BY <1>8, ReturnShape DEF ProfileWrite
  <2> QED
    BY <1>8, <2>1, <2>2, FailureWrite DEF ProfileWrite
<1> QED
  BY <1>1, <1>2, <1>3, <1>4, <1>5, <1>6, <1>7, <1>8 DEF OtherRequests

LEMMA EnvironmentFailure ==
  ASSUME TypeOK, TypeOK', FailureInv
  PROVE  /\ \A w \in Workers : RequestFails(w) => FailureInv'
         /\ DeliverMail \/ Replicate \/ Crash \/ Tick \/ UNCHANGED vars => FailureInv'
<1> USE DEF table, mail, history
<1>1. ASSUME NEW w \in Workers, RequestFails(w) PROVE FailureInv'
  BY <1>1, ReturnShape, FailureQuiet DEF RequestFails
<1>2. ASSUME DeliverMail \/ Tick \/ UNCHANGED vars PROVE FailureInv'
  <2>1. UNCHANGED <<users, replica, req, recorded>>
    BY <1>2 DEF DeliverMail, Tick, vars
  <2> QED
    BY <2>1 DEF FailureInv, RequestCounted
<1>3. ASSUME Replicate PROVE FailureInv'
  <2>1. UNCHANGED <<users, req, recorded>>
    BY <1>3 DEF Replicate
  <2>2. \A e \in Emails : replica'[e] \in {replica[e], users[e]}
    BY <1>3 DEF Replicate, TypeOK
  <2>3. \A e \in Emails : RowCounted(replica'[e], recorded'[e])
    BY <2>1, <2>2 DEF FailureInv
  <2> QED
    BY <2>1, <2>3 DEF FailureInv, RequestCounted
<1>4. ASSUME Crash PROVE FailureInv'
  <2>1. UNCHANGED <<users, replica, recorded>> /\ \A w \in Workers : req'[w] = None
    BY <1>4 DEF Crash
  <2> QED
    BY <2>1 DEF FailureInv, RequestCounted
<1> QED
  BY <1>1, <1>2, <1>3, <1>4

\* No interleaving, lagging read, ambiguous failure or crash locks an account
\* to which fewer than LockThreshold failed logins were written.
THEOREM NoSpuriousLockoutHolds == Spec => []NoSpuriousLockout
<1>1. Init => FailureInv
  BY NoneAssumption DEF Init, FailureInv, RowCounted, RequestCounted
<1>2. TypeOK /\ TypeOK' /\ FailureInv /\ [Next]_vars => FailureInv'
  <2> SUFFICES ASSUME TypeOK, TypeOK', FailureInv, [Next]_vars PROVE FailureInv'
    OBVIOUS
  <2>1. CASE Next
    BY <2>1, LoginFailure, SignupFailure, OtherFailure, EnvironmentFailure DEF Next
  <2>2. CASE UNCHANGED vars
    BY <2>2, EnvironmentFailure
  <2> QED
    BY <2>1, <2>2
<1>3. TypeOK /\ FailureInv => NoSpuriousLockout
  BY NumberAssumption DEF TypeOK, FailureInv, RowCounted, NoSpuriousLockout, User
<1> QED
  BY <1>1, <1>2, <1>3, TypeCorrect, PTL DEF Spec

-----------------------------------------------------------------------------
(* Verified accounts and sessions rest on proven passwords *)

LEMMA ProvenMonotone ==
  ASSUME NEW row, NEW S, NEW T, S \subseteq T, RowProven(row, S)
  PROVE  RowProven(row, T)
BY DEF RowProven

\* Edits that keep password and verification keep the row proven; so do edits
\* that leave it unverified.
LEMMA SamePasswordProven ==
  ASSUME NEW row, NEW new, NEW S, row # None, RowProven(row, S),
         ~new.verified \/ (new.verified = row.verified /\ new.pw = row.pw)
  PROVE  RowProven(new, S)
BY DEF RowProven

\* What one step of a request has to show for ProvenInv.
LEMMA ProvenFrame ==
  ASSUME TypeOK, TypeOK', ProvenInv, NEW w \in Workers,
         \A e \in Emails : authorised[e] \subseteq authorised'[e],
         \A e \in Emails :
           users'[e] = users[e] \/ RowProven(users'[e], authorised'[e]),
         \A e \in Emails : replica'[e] \in {replica[e], users[e], users'[e]},
         \A v \in Workers \ {w} : req'[v] = req[v],
         RequestProven(req[w])',
         granted' = granted \/ SessionsOnlyForProvenPasswords'
  PROVE  ProvenInv'
<1>1. \A e \in Emails : RowProven(users'[e], authorised'[e])
  BY ProvenMonotone DEF ProvenInv
<1>2. \A e \in Emails : RowProven(replica'[e], authorised'[e])
  <2> TAKE e \in Emails
  <2>1. RowProven(replica[e], authorised'[e]) /\ RowProven(users[e], authorised'[e])
    BY ProvenMonotone DEF ProvenInv
  <2> QED
    BY <2>1, <1>1
<1>3. \A v \in Workers : RequestProven(req[v])'
  <2> TAKE v \in Workers
  <2>1. CASE v = w
    BY <2>1
  <2>2. CASE v # w /\ req[v] # None
    <3>1. req[v] \in Request /\ req[v].who \in Emails /\ req'[v] = req[v]
      BY <2>2 DEF TypeOK, Request
    <3>2. RequestProven(req[v])
      BY DEF ProvenInv
    <3>3. authorised[req[v].who] \subseteq authorised'[req[v].who]
      BY <3>1
    <3>4. RowProven(req[v].copy, authorised[req[v].who])
            => RowProven(req[v].copy, authorised'[req[v].who])
      BY <3>3, ProvenMonotone
    <3> QED
      BY <3>1, <3>2, <3>3, <3>4 DEF RequestProven
  <2>3. CASE v # w /\ req[v] = None
    BY <2>3 DEF RequestProven
  <2> QED
    BY <2>1, <2>2, <2>3
<1>4. SessionsOnlyForProvenPasswords'
  <2>1. CASE granted' = granted
    <3> SUFFICES ASSUME NEW g \in granted PROVE g[2] \in authorised'[g[1]]
      BY <2>1 DEF SessionsOnlyForProvenPasswords
    <3>1. g[1] \in Emails
      BY DEF TypeOK
    <3> QED
      BY <3>1 DEF ProvenInv, SessionsOnlyForProvenPasswords
  <2> QED
    BY <2>1
<1> QED
  BY <1>1, <1>2, <1>3, <1>4 DEF ProvenInv

\* A row that was read is proven.
LEMMA ReadProven ==
  ASSUME ProvenInv, NEW e \in Emails, NEW row \in GetUserByEmail(e)
  PROVE  RowProven(row, authorised[e])
BY DEF ProvenInv, GetUserByEmail

\* A step that changes neither table nor history.
LEMMA ProvenQuiet ==
  ASSUME TypeOK, TypeOK', ProvenInv, NEW w \in Workers,
         UNCHANGED <<users, replica, granted, authorised>>,
         \A v \in Workers \ {w} : req'[v] = req[v],
         RequestProven(req[w])'
  PROVE  ProvenInv'
BY ProvenFrame

\* The write of a copy that is proven once the step is done.
LEMMA ProvenWrite ==
  ASSUME TypeOK, TypeOK', ProvenInv, NEW w \in Workers, req[w] # None,
         req[w].at \in CopyPlaces, UpdateUser(w), UNCHANGED granted,
         \A e \in Emails : authorised[e] \subseteq authorised'[e],
         RowProven(req[w].copy, authorised'[req[w].who]),
         \A v \in Workers \ {w} : req'[v] = req[v],
         RequestProven(req[w])'
  PROVE  ProvenInv'
<1>1. req[w].who \in Emails /\ req[w].copy \in User
  BY WriterShape
<1>2. /\ \A e \in Emails : users'[e] = users[e] \/ RowProven(users'[e], authorised'[e])
      /\ \A e \in Emails : replica'[e] \in {replica[e], users[e], users'[e]}
  BY <1>1, StoreShape DEF UpdateUser
<1> QED
  BY <1>2, ProvenFrame

\* A login that goes on keeps its password proven if it saw Verified.
LEMMA LoginGoesOn ==
  ASSUME ProvenInv, NEW w \in Workers, req[w] # None,
         req[w].at \in {"checkLockout", "unlock", "clearRead", "clearWrite"},
         NEW place \in {"unlock", "clearRead", "clearWrite", "issue"},
         UNCHANGED authorised,
         req'[w].at = place, req'[w].who = req[w].who,
         req'[w].pass = req[w].pass, req'[w].seen = req[w].seen,
         place # "unlock" => req[w].seen,
         place \in {"unlock", "clearWrite"} =>
           RowProven(req'[w].copy, authorised[req[w].who])
  PROVE  RequestProven(req[w])'
<1>1. req[w].seen => req[w].pass \in authorised[req[w].who]
  BY DEF ProvenInv, RequestProven, LoginPlaces
<1> QED
  BY <1>1 DEF RequestProven, LoginPlaces, CopyPlaces, UpdatePlaces

LEMMA LoginProven ==
  ASSUME TypeOK, TypeOK', ProvenInv, NEW w \in Workers, Login(w)
  PROVE  ProvenInv'
<1> USE DEF table, mail, history
<1> DEFINE Others == \A v \in Workers \ {w} : req'[v] = req[v]
<1>1. ASSUME Return(w) PROVE Others /\ RequestProven(req[w])'
  BY <1>1, ReturnShape DEF RequestProven
<1>2. CASE LoginMatch(w)
  <2>1. PICK e \in Emails, p \in Passwords : \E row \in GetUserByEmail(e) :
          /\ row # None /\ row.pw = p
          /\ Begin(w, "checkLockout", e, p, None, row.verified, None)
    BY <1>2 DEF LoginMatch
  <2>2. PICK row \in GetUserByEmail(e) :
          /\ row # None /\ row.pw = p
          /\ Begin(w, "checkLockout", e, p, None, row.verified, None)
    BY <2>1
  <2>3. row.verified => p \in authorised[e]
    BY <2>2, ReadProven DEF RowProven
  <2>4. /\ req'[w] = [at |-> "checkLockout", who |-> e, pass |-> p, tok |-> None,
                      seen |-> row.verified, copy |-> None]
        /\ Others
    BY <2>2 DEF Begin, TypeOK
  <2>5. UNCHANGED <<users, replica, granted, authorised>>
    BY <1>2 DEF LoginMatch
  <2>6. RequestProven(req[w])'
    BY <2>3, <2>4, <2>5 DEF RequestProven, LoginPlaces, CopyPlaces, UpdatePlaces
  <2> QED
    BY <2>4, <2>5, <2>6, ProvenQuiet
<1>3. CASE LoginMismatch(w)
  <2>1. PICK e \in Emails, p \in Passwords : \E row \in GetUserByEmail(e) :
          Begin(w, "recordRead", e, p, None, row.verified, None)
    BY <1>3 DEF LoginMismatch
  <2>2. PICK row \in GetUserByEmail(e) :
          Begin(w, "recordRead", e, p, None, row.verified, None)
    BY <2>1
  <2>3. /\ req'[w] = [at |-> "recordRead", who |-> e, pass |-> p, tok |-> None,
                      seen |-> row.verified, copy |-> None]
        /\ Others
    BY <2>2 DEF Begin, TypeOK
  <2>4. RequestProven(req[w])'
    BY <2>3 DEF RequestProven, LoginPlaces, CopyPlaces, UpdatePlaces
  <2> QED
    BY <1>3, <2>3, <2>4, ProvenQuiet DEF LoginMismatch
<1>4. CASE RecordRead(w)
  <2>1. PICK row \in GetUserByEmail(req[w].who) :
          row # None /\ Continue(w, "recordWrite", CountFailure(row))
    BY <1>4 DEF RecordRead
  <2>2. req[w] # None /\ req[w].who \in Emails
    BY <1>4, PassShape DEF RecordRead, At, LoginPlaces
  <2>3. row \in User /\ CountFailure(row) \in User
    BY <2>1, <2>2, ReadType, EditType
  <2>4. CountFailure(row).pw = row.pw /\ CountFailure(row).verified = row.verified
    BY <2>3 DEF CountFailure, User
  <2>5. RowProven(CountFailure(row), authorised[req[w].who])
    BY <2>1, <2>2, <2>4, ReadProven, SamePasswordProven
  <2>6. /\ req'[w].at = "recordWrite" /\ req'[w].who = req[w].who
        /\ req'[w].copy = CountFailure(row) /\ Others
    BY <2>1, <2>2, <2>3, ContinueShape DEF Places, LoginPlaces
  <2>7. UNCHANGED <<users, replica, granted, authorised>>
    BY <1>4 DEF RecordRead
  <2>8. RequestProven(req[w])'
    BY <2>5, <2>6, <2>7 DEF RequestProven, LoginPlaces
  <2> QED
    BY <2>6, <2>7, <2>8, ProvenQuiet
<1>5. CASE RecordWrite(w)
  <2>1. /\ req[w] # None /\ req[w].at = "recordWrite" /\ req[w].at \in CopyPlaces
        /\ UNCHANGED <<granted, authorised>>
    BY <1>5 DEF RecordWrite, At, CopyPlaces, UpdatePlaces
  <2>2. RowProven(req[w].copy, authorised'[req[w].who])
    BY <2>1 DEF ProvenInv, RequestProven
  <2> QED
    BY <1>1, <1>5, <2>1, <2>2, ProvenWrite DEF RecordWrite
<1>6. ASSUME req[w] # None, req[w].at \in {"checkLockout", "unlock"}, Unlocked(w),
             UNCHANGED authorised
      PROVE  Others /\ RequestProven(req[w])'
  <2>1. CASE Return(w)
    BY <2>1, <1>1
  <2>2. CASE req[w].seen /\ Continue(w, "clearRead", None)
    <3>1. /\ req'[w].at = "clearRead" /\ req'[w].who = req[w].who
          /\ req'[w].pass = req[w].pass /\ req'[w].seen = req[w].seen /\ Others
      BY <1>6, <2>2, ContinueShape DEF Places, LoginPlaces
    <3> QED
      BY <1>6, <2>2, <3>1, LoginGoesOn
  <2> QED
    BY <1>6, <2>1, <2>2 DEF Unlocked
<1>7. CASE CheckAccountLockout(w)
  <2>1. PICK row \in GetUserByEmail(req[w].who) :
          /\ row # None
          /\ \/ Return(w)
             \/ Continue(w, "unlock", NoFailures(row))
             \/ Unlocked(w)
    BY <1>7 DEF CheckAccountLockout
  <2>2. /\ req[w] # None /\ req[w].at = "checkLockout" /\ req[w].who \in Emails
        /\ UNCHANGED <<users, replica, granted, authorised>>
    BY <1>7, PassShape DEF CheckAccountLockout, At, LoginPlaces
  <2>3. CASE Return(w) \/ Unlocked(w)
    BY <2>2, <2>3, <1>1, <1>6, ProvenQuiet
  <2>4. CASE Continue(w, "unlock", NoFailures(row))
    <3>1. row \in User /\ NoFailures(row) \in User
      BY <2>1, <2>2, ReadType, EditType
    <3>2. NoFailures(row).pw = row.pw /\ NoFailures(row).verified = row.verified
      BY <3>1 DEF NoFailures, User
    <3>3. RowProven(NoFailures(row), authorised[req[w].who])
      BY <2>1, <2>2, <3>2, ReadProven, SamePasswordProven
    <3>4. /\ req'[w].at = "unlock" /\ req'[w].who = req[w].who
          /\ req'[w].pass = req[w].pass /\ req'[w].seen = req[w].seen
          /\ req'[w].copy = NoFailures(row) /\ Others
      BY <2>2, <2>4, <3>1, ContinueShape DEF Places, LoginPlaces
    <3>5. RequestProven(req[w])'
      BY <2>2, <3>3, <3>4, LoginGoesOn
    <3> QED
      BY <2>2, <3>4, <3>5, ProvenQuiet
  <2> QED
    BY <2>1, <2>3, <2>4
<1>8. CASE Unlock(w)
  <2>1. /\ req[w] # None /\ req[w].at = "unlock" /\ req[w].at \in CopyPlaces
        /\ UNCHANGED <<granted, authorised>>
    BY <1>8 DEF Unlock, At, CopyPlaces, UpdatePlaces
  <2>2. RowProven(req[w].copy, authorised'[req[w].who])
    BY <2>1 DEF ProvenInv, RequestProven
  <2>3. Others /\ RequestProven(req[w])'
    BY <1>1, <1>6, <1>8, <2>1 DEF Unlock
  <2> QED
    BY <1>8, <2>1, <2>2, <2>3, ProvenWrite DEF Unlock
<1>9. CASE ClearRead(w)
  <2>1. PICK row \in GetUserByEmail(req[w].who) :
          row # None /\ Continue(w, "clearWrite", NoFailures(row))
    BY <1>9 DEF ClearRead
  <2>2. /\ req[w] # None /\ req[w].at = "clearRead" /\ req[w].who \in Emails
        /\ UNCHANGED <<users, replica, granted, authorised>>
    BY <1>9, PassShape DEF ClearRead, At, LoginPlaces
  <2>3. row \in User /\ NoFailures(row) \in User
    BY <2>1, <2>2, ReadType, EditType
  <2>4. NoFailures(row).pw = row.pw /\ NoFailures(row).verified = row.verified
    BY <2>3 DEF NoFailures, User
  <2>5. RowProven(NoFailures(row), authorised[req[w].who])
    BY <2>1, <2>2, <2>4, ReadProven, SamePasswordProven
  <2>6. /\ req'[w].at = "clearWrite" /\ req'[w].who = req[w].who
        /\ req'[w].pass = req[w].pass /\ req'[w].seen = req[w].seen
        /\ req'[w].copy = NoFailures(row) /\ Others
    BY <2>1, <2>2, <2>3, ContinueShape DEF Places, LoginPlaces
  <2>7. req[w].seen
    BY <2>2 DEF ProvenInv, RequestProven
  <2>8. RequestProven(req[w])'
    BY <2>2, <2>5, <2>6, <2>7, LoginGoesOn
  <2> QED
    BY <2>2, <2>6, <2>8, ProvenQuiet
<1>10. ASSUME req[w] # None, req[w].at \in {"clearRead", "clearWrite"},
              Continue(w, "issue", None), UNCHANGED authorised
       PROVE  Others /\ RequestProven(req[w])'
  <2>1. /\ req'[w].at = "issue" /\ req'[w].who = req[w].who
        /\ req'[w].pass = req[w].pass /\ req'[w].seen = req[w].seen /\ Others
    BY <1>10, ContinueShape DEF Places, LoginPlaces
  <2>2. req[w].seen
    BY <1>10 DEF ProvenInv, RequestProven
  <2> QED
    BY <1>10, <2>1, <2>2, LoginGoesOn
<1>11. CASE ClearWrite(w)
  <2>1. /\ req[w] # None /\ req[w].at = "clearWrite" /\ req[w].at \in CopyPlaces
        /\ UNCHANGED <<granted, authorised>>
    BY <1>11 DEF ClearWrite, At, CopyPlaces, UpdatePlaces
  <2>2. RowProven(req[w].copy, authorised'[req[w].who])
    BY <2>1 DEF ProvenInv, RequestProven
  <2>3. Others /\ RequestProven(req[w])'
    BY <1>10, <1>11, <2>1 DEF ClearWrite
  <2> QED
    BY <1>11, <2>1, <2>2, <2>3, ProvenWrite DEF ClearWrite
<1>12. CASE ClearFails(w)
  BY <1>12, <1>10, ProvenQuiet DEF ClearFails, At
<1>13. CASE IssueSession(w)
  <2>1. /\ req[w] # None /\ req[w].at = "issue"
        /\ granted' = granted \cup {<<req[w].who, req[w].pass>>}
        /\ UNCHANGED <<users, replica, authorised>>
    BY <1>13 DEF IssueSession, At
  <2>2. req[w].pass \in authorised[req[w].who]
    BY <2>1 DEF ProvenInv, RequestProven, LoginPlaces
  <2>3. SessionsOnlyForProvenPasswords'
    BY <2>1, <2>2 DEF ProvenInv, SessionsOnlyForProvenPasswords
  <2>4. Others /\ RequestProven(req[w])'
    BY <1>1, <1>13 DEF IssueSession
  <2> QED
    BY <2>1, <2>3, <2>4, ProvenFrame
<1> QED
  BY <1>2, <1>3, <1>4, <1>5, <1>7, <1>8, <1>9, <1>11, <1>12, <1>13 DEF Login

LEMMA SignupProven ==
  ASSUME TypeOK, TypeOK', ProvenInv, NEW w \in Workers, Signup(w)
  PROVE  ProvenInv'
<1> USE DEF table, mail, history
<1> DEFINE Others == \A v \in Workers \ {w} : req'[v] = req[v]
<1>0. ASSUME Return(w) PROVE Others /\ RequestProven(req[w])'
  BY <1>0, ReturnShape DEF RequestProven
<1>1. CASE SignupExisting(w)
  <2> DEFINE new(row, p, c) == [row EXCEPT !.pw = p, !.code = c, !.codeExp = now + CodeTTL]
  <2>1. PICK e \in Emails, p \in Passwords, c \in Codes :
          \E row \in GetUserByEmail(e) :
            /\ row # None /\ ~row.verified
            /\ Begin(w, "resendMail", e, p, None, FALSE, new(row, p, c))
    BY <1>1 DEF SignupExisting
  <2>2. PICK row \in GetUserByEmail(e) :
            /\ row # None /\ ~row.verified
            /\ Begin(w, "resendMail", e, p, None, FALSE, new(row, p, c))
    BY <2>1
  <2>3. row \in User
    BY <2>2, ReadType
  <2>4. ~new(row, p, c).verified
    BY <2>2, <2>3 DEF User
  <2> HIDE DEF new
  <2>5. /\ req'[w] = [at |-> "resendMail", who |-> e, pass |-> p, tok |-> None,
                      seen |-> FALSE, copy |-> new(row, p, c)]
        /\ Others
    BY <2>2 DEF Begin, TypeOK
  <2>6. RequestProven(req[w])'
    BY <2>4, <2>5 DEF RequestProven, LoginPlaces, RowProven
  <2> QED
    BY <1>1, <2>5, <2>6, ProvenQuiet DEF SignupExisting
<1>2. CASE ResendMail(w)
  <2>1. /\ req[w] # None /\ req[w].at = "resendMail" /\ req[w].copy \in User
        /\ UNCHANGED <<users, replica, granted, authorised>>
    BY <1>2, WriterShape DEF ResendMail, At, CopyPlaces
  <2>2. RowProven(req[w].copy, authorised[req[w].who])
    BY <2>1 DEF ProvenInv, RequestProven, CopyPlaces
  <2>3. CASE Continue(w, "resendWrite", req[w].copy)
    <3>1. /\ req'[w].at = "resendWrite" /\ req'[w].who = req[w].who
          /\ req'[w].copy = req[w].copy /\ Others
      BY <2>1, <2>3, ContinueShape DEF Places, CopyPlaces, UpdatePlaces
    <3>2. RequestProven(req[w])'
      BY <2>1, <2>2, <3>1 DEF RequestProven, LoginPlaces
    <3> QED
      BY <2>1, <3>1, <3>2, ProvenQuiet
  <2>4. CASE Return(w)
    BY <2>1, <2>4, <1>0, ProvenQuiet
  <2> QED
    BY <1>2, <2>3, <2>4 DEF ResendMail
<1>3. CASE ResendWrite(w)
  <2>1. /\ req[w] # None /\ req[w].at = "resendWrite" /\ req[w].at \in CopyPlaces
        /\ UNCHANGED <<granted, authorised>>
    BY <1>3 DEF ResendWrite, At, CopyPlaces, UpdatePlaces
  <2>2. RowProven(req[w].copy, authorised'[req[w].who])
    BY <2>1 DEF ProvenInv, RequestProven
  <2> QED
    BY <1>0, <1>3, <2>1, <2>2, ProvenWrite DEF ResendWrite
<1>4. CASE SignupNew(w)
  <2>1. PICK e \in Emails, p \in Passwords, c \in Codes :
          Begin(w, "create", e, p, None, FALSE, NewUser(p, c))
    BY <1>4 DEF SignupNew
  <2>2. ~NewUser(p, c).verified
    BY DEF NewUser
  <2>3. /\ req'[w] = [at |-> "create", who |-> e, pass |-> p, tok |-> None,
                      seen |-> FALSE, copy |-> NewUser(p, c)]
        /\ Others
    BY <2>1 DEF Begin, TypeOK
  <2>4. RequestProven(req[w])'
    BY <2>2, <2>3 DEF RequestProven, LoginPlaces, RowProven
  <2> QED
    BY <1>4, <2>3, <2>4, ProvenQuiet DEF SignupNew
<1>5. CASE Create(w)
  <2>1. /\ req[w] # None /\ req[w].at = "create"
        /\ req[w].who \in Emails /\ req[w].copy \in User /\ req[w].copy # None
        /\ UNCHANGED <<granted, authorised>>
    BY <1>5, WriterShape DEF Create, At, CopyPlaces
  <2> DEFINE new(c) == [req[w].copy EXCEPT !.code = c, !.codeExp = now + CodeTTL]
  <2>2. PICK c \in Codes :
          /\ StoreRow(req[w].who, new(c))
          /\ \/ Continue(w, "createMail", new(c))
             \/ Return(w)
    BY <1>5 DEF Create
  <2>3. new(c) \in User
    BY <2>1, EditType
  <2>4. ~new(c).verified
    BY <2>1 DEF ProvenInv, RequestProven, User
  <2> HIDE DEF new
  <2>5. Others /\ RequestProven(req[w])'
    <3>1. CASE Return(w)
      BY <3>1, <1>0
    <3>2. CASE Continue(w, "createMail", new(c))
      <4>1. /\ req'[w].at = "createMail" /\ req'[w].copy = new(c) /\ Others
        BY <3>2, <2>1, <2>3, ContinueShape DEF Places, CopyPlaces
      <4> QED
        BY <4>1, <2>4 DEF RequestProven, LoginPlaces, RowProven
    <3> QED
      BY <2>2, <3>1, <3>2
  <2>6. /\ \A e \in Emails : users'[e] = users[e] \/ RowProven(users'[e], authorised'[e])
        /\ \A e \in Emails : replica'[e] \in {replica[e], users[e], users'[e]}
    BY <2>1, <2>2, <2>3, <2>4, StoreShape DEF RowProven
  <2> QED
    BY <2>1, <2>5, <2>6, ProvenFrame
<1>6. CASE CreateMail(w)
  BY <1>0, <1>6, ProvenQuiet DEF CreateMail
<1> QED
  BY <1>1, <1>2, <1>3, <1>4, <1>5, <1>6 DEF Signup

LEMMA OtherProven ==
  ASSUME TypeOK, TypeOK', ProvenInv, NEW w \in Workers, OtherRequests(w)
  PROVE  ProvenInv'
<1> USE DEF table, mail, history
<1> DEFINE Others == \A v \in Workers \ {w} : req'[v] = req[v]
<1>0. ASSUME Return(w) PROVE Others /\ RequestProven(req[w])'
  BY <1>0, ReturnShape DEF RequestProven
<1>1. CASE VerifyEmail(w)
  <2> DEFINE new(row) == [row EXCEPT !.verified = TRUE, !.code = None, !.codeExp = 0]
  <2>1. PICK e \in Emails, p \in Passwords : \E row \in GetUserByEmail(e) :
          Begin(w, "verifyWrite", e, p, None, FALSE, new(row))
    BY <1>1 DEF VerifyEmail
  <2>2. PICK row \in GetUserByEmail(e) :
          Begin(w, "verifyWrite", e, p, None, FALSE, new(row))
    BY <2>1
  <2> HIDE DEF new
  <2>3. /\ req'[w] = [at |-> "verifyWrite", who |-> e, pass |-> p, tok |-> None,
                      seen |-> FALSE, copy |-> new(row)]
        /\ Others
    BY <2>2 DEF Begin, TypeOK
  <2>4. RequestProven(req[w])'
    BY <2>3 DEF RequestProven, LoginPlaces
  <2> QED
    BY <1>1, <2>3, <2>4, ProvenQuiet DEF VerifyEmail
<1>2. CASE VerifyWrite(w)
  <2>1. /\ req[w] # None /\ req[w].at = "verifyWrite" /\ req[w].at \in CopyPlaces
        /\ UNCHANGED granted
    BY <1>2 DEF VerifyWrite, At, CopyPlaces, UpdatePlaces
  <2>2. req[w].who \in Emails /\ req[w].copy \in User
    BY <2>1, WriterShape
  <2>3. /\ \A e \in Emails : authorised[e] \subseteq authorised'[e]
        /\ req[w].copy.pw \in authorised'[req[w].who]
    BY <1>2, <2>2 DEF VerifyWrite, TypeOK
  <2>4. RowProven(req[w].copy, authorised'[req[w].who])
    BY <2>1, <2>3 DEF ProvenInv, RequestProven, RowProven
  <2> QED
    BY <1>0, <1>2, <2>1, <2>3, <2>4, ProvenWrite DEF VerifyWrite
<1>3. CASE ResetPassword(w)
  <2> DEFINE new(row, t) == [row EXCEPT !.token = t, !.tokenExp = now + ResetTTL]
  <2>1. PICK e \in Emails, t \in Tokens : \E row \in GetUserByEmail(e) :
          row # None /\ Begin(w, "resetWrite", e, None, t, FALSE, new(row, t))
    BY <1>3 DEF ResetPassword
  <2>2. PICK row \in GetUserByEmail(e) :
          row # None /\ Begin(w, "resetWrite", e, None, t, FALSE, new(row, t))
    BY <2>1
  <2>3. row \in User
    BY <2>2, ReadType
  <2>4. new(row, t).verified = row.verified /\ new(row, t).pw = row.pw
    BY <2>3 DEF User
  <2> HIDE DEF new
  <2>5. RowProven(new(row, t), authorised[e])
    BY <2>2, <2>4, ReadProven, SamePasswordProven
  <2>6. /\ req'[w] = [at |-> "resetWrite", who |-> e, pass |-> None, tok |-> t,
                      seen |-> FALSE, copy |-> new(row, t)]
        /\ Others
    BY <2>2 DEF Begin, TypeOK
  <2>7. UNCHANGED <<users, replica, granted, authorised>>
    BY <1>3 DEF ResetPassword
  <2>8. RequestProven(req[w])'
    BY <2>5, <2>6, <2>7 DEF RequestProven, LoginPlaces
  <2> QED
    BY <2>6, <2>7, <2>8, ProvenQuiet
<1>4. CASE ResetWrite(w)
  <2>1. /\ req[w] # None /\ req[w].at = "resetWrite" /\ req[w].at \in CopyPlaces
        /\ UNCHANGED <<granted, authorised>>
    BY <1>4 DEF ResetWrite, At, CopyPlaces, UpdatePlaces
  <2>2. RowProven(req[w].copy, authorised'[req[w].who])
    BY <2>1 DEF ProvenInv, RequestProven
  <2> QED
    BY <1>0, <1>4, <2>1, <2>2, ProvenWrite DEF ResetWrite
<1>5. CASE ConfirmResetPassword(w)
  <2> DEFINE new(row, p) == [row EXCEPT !.pw = p, !.token = None, !.tokenExp = 0]
  <2>1. PICK e \in Emails, box \in Emails, p \in Passwords :
          \E t \in mailed[box] \cap Tokens : \E row \in GetUserByResetToken(e, t) :
            Begin(w, "confirmWrite", e, p, t, FALSE, new(row, p))
    BY <1>5 DEF ConfirmResetPassword
  <2>2. PICK t \in Tokens : \E row \in GetUserByResetToken(e, t) :
            Begin(w, "confirmWrite", e, p, t, FALSE, new(row, p))
    BY <2>1
  <2>3. PICK row \in GetUserByResetToken(e, t) :
            Begin(w, "confirmWrite", e, p, t, FALSE, new(row, p))
    BY <2>2
  <2>4. new(row, p).pw = p
    BY TokenReadType DEF User
  <2> HIDE DEF new
  <2>5. /\ req'[w] = [at |-> "confirmWrite", who |-> e, pass |-> p, tok |-> t,
                      seen |-> FALSE, copy |-> new(row, p)]
        /\ Others
    BY <2>3 DEF Begin, TypeOK
  <2>6. RequestProven(req[w])'
    BY <2>4, <2>5 DEF RequestProven, LoginPlaces
  <2> QED
    BY <1>5, <2>5, <2>6, ProvenQuiet DEF ConfirmResetPassword
<1>6. CASE ConfirmWrite(w)
  <2>1. /\ req[w] # None /\ req[w].at = "confirmWrite" /\ req[w].at \in CopyPlaces
        /\ UNCHANGED granted
    BY <1>6 DEF ConfirmWrite, At, CopyPlaces, UpdatePlaces
  <2>2. req[w].who \in Emails /\ req[w].copy \in User
    BY <2>1, WriterShape
  <2>3. /\ \A e \in Emails : authorised[e] \subseteq authorised'[e]
        /\ req[w].pass \in authorised'[req[w].who]
    BY <1>6, <2>2 DEF ConfirmWrite, TypeOK
  <2>4. RowProven(req[w].copy, authorised'[req[w].who])
    BY <2>1, <2>3 DEF ProvenInv, RequestProven, RowProven
  <2> QED
    BY <1>0, <1>6, <2>1, <2>3, <2>4, ProvenWrite DEF ConfirmWrite
<1>7. CASE Profile(w)
  <2> DEFINE new(row, p) == IF p = None THEN row ELSE [row EXCEPT !.pw = p]
  <2>1. PICK e \in Emails, p \in Passwords \cup {None} : \E row \in GetUserByEmail(e) :
          row # None /\ Begin(w, "profileWrite", e, p, None, FALSE, new(row, p))
    BY <1>7 DEF Profile
  <2>2. PICK row \in GetUserByEmail(e) :
          row # None /\ Begin(w, "profileWrite", e, p, None, FALSE, new(row, p))
    BY <2>1
  <2>3. row \in User
    BY <2>2, ReadType
  <2>4. IF p = None THEN new(row, p) = row ELSE new(row, p).pw = p
    BY <2>3 DEF User
  <2> HIDE DEF new
  <2>5. RowProven(row, authorised[e])
    BY ReadProven
  <2>6. /\ req'[w] = [at |-> "profileWrite", who |-> e, pass |-> p, tok |-> None,
                      seen |-> FALSE, copy |-> new(row, p)]
        /\ Others
    BY <2>2 DEF Begin, TypeOK
  <2>7. UNCHANGED <<users, replica, granted, authorised>>
    BY <1>7 DEF Profile
  <2>8. RequestProven(req[w])'
    BY <2>4, <2>5, <2>6, <2>7 DEF RequestProven, LoginPlaces
  <2> QED
    BY <2>6, <2>7, <2>8, ProvenQuiet
<1>8. CASE ProfileWrite(w)
  <2>1. /\ req[w] # None /\ req[w].at = "profileWrite" /\ req[w].at \in CopyPlaces
        /\ UNCHANGED granted
    BY <1>8 DEF ProfileWrite, At, CopyPlaces, UpdatePlaces
  <2>2. req[w].who \in Emails /\ req[w].copy \in User
    BY <2>1, WriterShape
  <2>3. /\ \A e \in Emails : authorised[e] \subseteq authorised'[e]
        /\ req[w].pass # None => req[w].pass \in authorised'[req[w].who]
    BY <1>8, <2>2 DEF ProfileWrite, TypeOK
  <2>4. RowProven(req[w].copy, authorised'[req[w].who])
    BY <2>1, <2>2, <2>3 DEF ProvenInv, RequestProven, RowProven
  <2> QED
    BY <1>0, <1>8, <2>1, <2>3, <2>4, ProvenWrite DEF ProfileWrite
<1> QED
  BY <1>1, <1>2, <1>3, <1>4, <1>5, <1>6, <1>7, <1>8 DEF OtherRequests

LEMMA EnvironmentProven ==
  ASSUME TypeOK, TypeOK', ProvenInv
  PROVE  /\ \A w \in Workers : RequestFails(w) => ProvenInv'
         /\ DeliverMail \/ Replicate \/ Crash \/ Tick \/ UNCHANGED vars => ProvenInv'
<1> USE DEF table, mail, history
<1>1. ASSUME NEW w \in Workers, RequestFails(w) PROVE ProvenInv'
  <2>1. RequestProven(req[w])'
    BY <1>1, ReturnShape DEF RequestFails, RequestProven
  <2> QED
    BY <1>1, <2>1, ReturnShape, ProvenQuiet DEF RequestFails
<1>2. ASSUME DeliverMail \/ Tick \/ UNCHANGED vars PROVE ProvenInv'
  <2>1. UNCHANGED <<users, replica, req, authorised, granted>>
    BY <1>2 DEF DeliverMail, Tick, vars
  <2> QED
    BY <2>1 DEF ProvenInv, RequestProven, SessionsOnlyForProvenPasswords
<1>3. ASSUME Replicate PROVE ProvenInv'
  <2>1. UNCHANGED <<users, req, authorised, granted>>
    BY <1>3 DEF Replicate
  <2>2. \A e \in Emails : replica'[e] \in {replica[e], users[e]}
    BY <1>3 DEF Replicate, TypeOK
  <2>3. \A e \in Emails : RowProven(replica'[e], authorised'[e])
    BY <2>1, <2>2 DEF ProvenInv
  <2> QED
    BY <2>1, <2>3 DEF ProvenInv, RequestProven, SessionsOnlyForProvenPasswords
<1>4. ASSUME Crash PROVE ProvenInv'
  <2>1. UNCHANGED <<users, replica, authorised, granted>>
        /\ \A w \in Workers : req'[w] = None
    BY <1>4 DEF Crash
  <2> QED
    BY <2>1 DEF ProvenInv, RequestProven, SessionsOnlyForProvenPasswords
<1> QED
  BY <1>1, <1>2, <1>3, <1>4

\* The inductive invariant holds in every behaviour.
THEOREM ProvenInvHolds == Spec => []ProvenInv
<1>1. Init => ProvenInv
  BY DEF Init, ProvenInv, RowProven, RequestProven, SessionsOnlyForProvenPasswords
<1>2. TypeOK /\ TypeOK' /\ ProvenInv /\ [Next]_vars => ProvenInv'
  <2> SUFFICES ASSUME TypeOK, TypeOK', ProvenInv, [Next]_vars PROVE ProvenInv'
    OBVIOUS
  <2>1. CASE Next
    BY <2>1, LoginProven, SignupProven, OtherProven, EnvironmentProven DEF Next
  <2>2. CASE UNCHANGED vars
    BY <2>2, EnvironmentProven
  <2> QED
    BY <2>1, <2>2
<1> QED
  BY <1>1, <1>2, TypeCorrect, PTL DEF Spec

\* Whatever the interleaving of signups, verifications, resets and profile
\* updates, a verified account carries a password that was proven.
THEOREM VerifiedPasswordProvenHolds == Spec => []VerifiedPasswordProven
<1>1. ProvenInv => VerifiedPasswordProven
  BY DEF ProvenInv, RowProven, VerifiedPasswordProven
<1> QED
  BY <1>1, ProvenInvHolds, PTL

\* Login returns a session only for a password that was proven.
THEOREM SessionsOnlyForProvenPasswordsHolds ==
  Spec => []SessionsOnlyForProvenPasswords
<1>1. ProvenInv => SessionsOnlyForProvenPasswords
  BY DEF ProvenInv
<1> QED
  BY <1>1, ProvenInvHolds, PTL
=============================================================================
