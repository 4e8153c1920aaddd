------------------------------ MODULE Accounts ------------------------------
(***************************************************************************)
(* The account half of the service: signup, e-mail verification, login     *)
(* with lockout, password reset and profile update (internal/auth.go) over *)
(* a user table (internal/sqlite.go, postgres.go, dynamodb.go).            *)
(*                                                                         *)
(* Every handler runs in a goroutine of its own (a worker), reads a whole  *)
(* user row, changes its private copy and later writes the whole row back: *)
(* no transaction and no version check joins the read to the write.  One   *)
(* step of the module is one repository call or one mail, with the local   *)
(* computation up to the next one.  A handler's early return that changed  *)
(* nothing is a stutter and has no action.                                 *)
(***************************************************************************)
EXTENDS Integers, FiniteSets

CONSTANTS
  Emails,        \* normalised addresses, the key of the user table
  Passwords,     \* plain texts; a row stores "the hash of p" as p
  Codes,         \* six-digit verification codes: guessable, may repeat
  Tokens,        \* 32-character reset tokens: fresh, known only by mail
  Workers,       \* request goroutines that run at the same time
  None,          \* no row, no code, no token, no request
  LockThreshold, \* failed logins that lock an account (5)
  LockTTL,       \* duration of a lockout (15 minutes)
  CodeTTL,       \* VERIFICATION_CODE_EXPIRY_MINUTES
  ResetTTL,      \* RESET_TOKEN_EXPIRY_MINUTES
  StaleReads,    \* reads may lag (DynamoDB without ConsistentRead)
  MaxTime,       \* bound: the clock stops here
  MaxRequests    \* bound: requests accepted in a behaviour

ASSUME NoneAssumption ==
  /\ None \notin Emails \cup Passwords \cup Codes \cup Tokens
  /\ Codes \cap Tokens = {}

ASSUME NumberAssumption ==
  /\ LockThreshold \in Nat \ {0}
  /\ LockTTL \in Nat \ {0}
  /\ CodeTTL \in Nat \ {0}
  /\ ResetTTL \in Nat \ {0}
  /\ MaxTime \in Nat
  /\ MaxRequests \in Nat

ASSUME StaleReadsAssumption == StaleReads \in BOOLEAN

VARIABLES
  now,        \* time.Now(); 0 stands for the zero time.Time
  users,      \* the user table
  replica,    \* what a lagging read of the table returns
  req,        \* the request each worker is in the middle of
  outbox,     \* mails that detached goroutines have still to send
  started,    \* requests accepted so far
  \* What the service has done, for the properties only:
  mailed,     \* codes and tokens that reached the mailbox of an address
  issued,     \* reset tokens drawn so far
  granted,    \* <<email, password>> of every login that returned a session
  authorised, \* passwords proved by a code, a reset token or a session
  recorded,   \* failed logins written to the row
  forgiven,   \* the value of recorded when the counter was last cleared
  used        \* how often a reset token changed a password

vars == <<now, users, replica, req, outbox, started,
          mailed, issued, granted, authorised, recorded, forgiven, used>>

-----------------------------------------------------------------------------
(* Rows and requests *)

User == [pw: Passwords, verified: BOOLEAN,
         code: Codes \cup {None}, codeExp: Nat,
         token: Tokens \cup {None}, tokenExp: Nat,
         fails: Nat, lockUntil: Nat]

UpdatePlaces == {"recordWrite", "unlock", "clearWrite", "resendWrite",
                 "verifyWrite", "resetWrite", "confirmWrite", "profileWrite"}
CopyPlaces   == UpdatePlaces \cup {"resendMail", "create", "createMail"}
LoginPlaces  == {"recordRead", "recordWrite", "checkLockout", "unlock",
                 "clearRead", "clearWrite", "issue"}
Places       == LoginPlaces \cup CopyPlaces

\* A request between two calls: the call it makes next, the account it is
\* about, the password it was sent (the new one for signup, confirm and
\* profile), the token it was sent, the Verified field login read first, and
\* its private copy of the row.
Request == [at: Places, who: Emails,
            pass: Passwords \cup {None}, tok: Tokens \cup {None},
            seen: BOOLEAN, copy: User \cup {None}]

ASSUME NoneIsNoRecord == None \notin User \cup Request

Init ==
  /\ now = 1
  /\ users = [e \in Emails |-> None]
  /\ replica = users
  /\ req = [w \in Workers |-> None]
  /\ outbox = {}
  /\ started = 0
  /\ mailed = [e \in Emails |-> {}]
  /\ issued = {}
  /\ granted = {}
  /\ authorised = [e \in Emails |-> {}]
  /\ recorded = [e \in Emails |-> 0]
  /\ forgiven = [e \in Emails |-> 0]
  /\ used = [t \in Tokens |-> 0]

At(w, place) == req[w] # None /\ req[w].at = place

Begin(w, place, e, p, t, verified, row) ==
  /\ req[w] = None
  /\ started < MaxRequests
  /\ started' = started + 1
  /\ req' = [req EXCEPT ![w] = [at |-> place, who |-> e, pass |-> p, tok |-> t,
                                seen |-> verified, copy |-> row]]

Continue(w, place, row) ==
  /\ req' = [req EXCEPT ![w] = [@ EXCEPT !.at = place, !.copy = row]]
  /\ UNCHANGED started

Return(w) == req' = [req EXCEPT ![w] = None] /\ UNCHANGED started

table   == <<users, replica>>
mail    == <<outbox, mailed, issued>>
history == <<granted, authorised, recorded, forgiven, used>>

-----------------------------------------------------------------------------
(* The user repository *)

\* The rows one read of e may return; None is ErrUserNotFound.
GetUserByEmail(e) == IF StaleReads THEN {users[e], replica[e]} ELSE {users[e]}

\* The rows a look-up of token t may return (an index of the same table).
GetUserByResetToken(e, t) ==
  {row \in GetUserByEmail(e) : row # None /\ row.token = t}

StoreRow(e, row) ==
  /\ users' = [users EXCEPT ![e] = row]
  /\ replica' = IF StaleReads THEN replica ELSE users'

\* UPDATE ... WHERE email = ?: the whole copy replaces the row.
UpdateUser(w) ==
  /\ users[req[w].who] # None
  /\ StoreRow(req[w].who, req[w].copy)

-----------------------------------------------------------------------------
(* Login *)

\* Mutant: the failures are cleared without looking at the lock.
LoginMatchIgnoresLock(w) ==
  \E e \in Emails, p \in Passwords : \E row \in GetUserByEmail(e) :
    /\ row # None
    /\ row.pw = p
    /\ Begin(w, "clearRead", e, p, None, row.verified, None)
    /\ UNCHANGED <<now, table, mail, history>>

\* Right password: the account's lock is looked at next.
LoginMatch(w) ==
  \E e \in Emails, p \in Passwords : \E row \in GetUserByEmail(e) :
    /\ row # None
    /\ row.pw = p
    /\ Begin(w, "checkLockout", e, p, None, row.verified, None)
    /\ UNCHANGED <<now, table, mail, history>>

\* Wrong password: recordFailedAttempt, whether the account is locked or not.
LoginMismatch(w) ==
  \E e \in Emails, p \in Passwords : \E row \in GetUserByEmail(e) :
    /\ row # None
    /\ row.pw # p
    /\ Begin(w, "recordRead", e, p, None, row.verified, None)
    /\ UNCHANGED <<now, table, mail, history>>

\* Mutant: the account is locked one failure early.
CountFailureEarly(row) ==
  LET n == row.fails + 1 IN
  [row EXCEPT !.fails = n,
              !.lockUntil = IF n + 1 >= LockThreshold THEN now + LockTTL ELSE @]

\* Mutant: "> LockThreshold" for ">=".
CountFailureLate(row) ==
  LET n == row.fails + 1 IN
  [row EXCEPT !.fails = n,
              !.lockUntil = IF n > LockThreshold THEN now + LockTTL ELSE @]

CountFailure(row) ==
  LET n == row.fails + 1 IN
  [row EXCEPT !.fails = n,
              !.lockUntil = IF n >= LockThreshold THEN now + LockTTL ELSE @]

RecordRead(w) ==
  /\ At(w, "recordRead")
  /\ \E row \in GetUserByEmail(req[w].who) :
       row # None /\ Continue(w, "recordWrite", CountFailure(row))
  /\ UNCHANGED <<now, table, mail, history>>

RecordWrite(w) ==
  /\ At(w, "recordWrite")
  /\ UpdateUser(w)
  /\ Return(w)
  /\ recorded' = [recorded EXCEPT ![req[w].who] = @ + 1]
  /\ UNCHANGED <<now, mail, granted, authorised, forgiven, used>>

\* Mutant: the counter is cleared in the row read before, which is gone.
UnlockedWithoutRead(w) ==
  IF req[w].seen THEN Continue(w, "clearWrite", None) ELSE Return(w)

\* After the lock: a user whose first read was unverified is turned away.
Unlocked(w) ==
  IF req[w].seen THEN Continue(w, "clearRead", None) ELSE Return(w)

NoFailures(row) == [row EXCEPT !.fails = 0, !.lockUntil = 0]

\* Mutant: Verified is taken from the row read for the lock.
CheckAccountLockoutRefreshed(w) ==
  /\ At(w, "checkLockout")
  /\ \E row \in GetUserByEmail(req[w].who) :
       /\ row # None
       /\ \/ now < row.lockUntil /\ Return(w)
          \/ /\ row.lockUntil # 0
             /\ now > row.lockUntil
             /\ Continue(w, "unlock", NoFailures(row))
          \/ /\ row.lockUntil \in {0, now}
             /\ IF row.verified THEN Continue(w, "clearRead", None) ELSE Return(w)
  /\ UNCHANGED <<now, table, mail, history>>

CheckAccountLockout(w) ==
  /\ At(w, "checkLockout")
  /\ \E row \in GetUserByEmail(req[w].who) :
       /\ row # None
       /\ \/ now < row.lockUntil /\ Return(w)
          \/ /\ row.lockUntil # 0
             /\ now > row.lockUntil
             /\ Continue(w, "unlock", NoFailures(row))
          \/ row.lockUntil \in {0, now} /\ Unlocked(w)
  /\ UNCHANGED <<now, table, mail, history>>

\* A lock that has expired is removed from the row.
Unlock(w) ==
  /\ At(w, "unlock")
  /\ UpdateUser(w)
  /\ Unlocked(w) \/ Return(w)
  /\ forgiven' = [forgiven EXCEPT ![req[w].who] = recorded[req[w].who]]
  /\ UNCHANGED <<now, mail, granted, authorised, recorded, used>>

ClearRead(w) ==
  /\ At(w, "clearRead")
  /\ \E row \in GetUserByEmail(req[w].who) :
       row # None /\ Continue(w, "clearWrite", NoFailures(row))
  /\ UNCHANGED <<now, table, mail, history>>

ClearWrite(w) ==
  /\ At(w, "clearWrite")
  /\ UpdateUser(w)
  /\ Continue(w, "issue", None)
  /\ forgiven' = [forgiven EXCEPT ![req[w].who] = recorded[req[w].who]]
  /\ UNCHANGED <<now, mail, granted, authorised, recorded, used>>

\* clearFailedAttempts failed: the error is logged and the login goes on.
ClearFails(w) ==
  /\ At(w, "clearRead") \/ At(w, "clearWrite")
  /\ Continue(w, "issue", None)
  /\ UNCHANGED <<now, table, mail, history>>

\* The JWT and its cookie (what follows is in module Sessions).
IssueSession(w) ==
  /\ At(w, "issue")
  /\ Return(w)
  /\ granted' = granted \cup {<<req[w].who, req[w].pass>>}
  /\ UNCHANGED <<now, table, mail, authorised, recorded, forgiven, used>>

-----------------------------------------------------------------------------
(* Signup *)

NewUser(p, c) ==
  [pw |-> p, verified |-> FALSE, code |-> c, codeExp |-> now + CodeTTL,
   token |-> None, tokenExp |-> 0, fails |-> 0, lockUntil |-> 0]

\* Mutant: the row is stored and the code was not mailed before.
SignupExistingWriteFirst(w) ==
  \E e \in Emails, p \in Passwords, c \in Codes : \E row \in GetUserByEmail(e) :
    /\ row # None
    /\ ~row.verified
    /\ Begin(w, "resendWrite", e, p, None, FALSE,
             [row EXCEPT !.pw = p, !.code = c, !.codeExp = now + CodeTTL])
    /\ UNCHANGED <<now, table, mail, history>>

\* The account exists and is not verified: new password, new code.
SignupExisting(w) ==
  \E e \in Emails, p \in Passwords, c \in Codes : \E row \in GetUserByEmail(e) :
    /\ row # None
    /\ ~row.verified
    /\ Begin(w, "resendMail", e, p, None, FALSE,
             [row EXCEPT !.pw = p, !.code = c, !.codeExp = now + CodeTTL])
    /\ UNCHANGED <<now, table, mail, history>>

\* No row, or any error of the read: both continue with CreateUser.
SignupNew(w) ==
  \E e \in Emails, p \in Passwords, c \in Codes :
    /\ Begin(w, "create", e, p, None, FALSE, NewUser(p, c))
    /\ UNCHANGED <<now, table, mail, history>>

\* The code is mailed before it is stored.
ResendMail(w) ==
  /\ At(w, "resendMail")
  /\ Continue(w, "resendWrite", req[w].copy) \/ Return(w)
  /\ mailed' = [mailed EXCEPT ![req[w].who] = @ \cup {req[w].copy.code}]
  /\ UNCHANGED <<now, table, outbox, issued, history>>

ResendWrite(w) ==
  /\ At(w, "resendWrite")
  /\ UpdateUser(w)
  /\ Return(w)
  /\ UNCHANGED <<now, mail, history>>

\* Mutant: the insert replaces a row that exists.
CreateUpsert(w) ==
  LET e == req[w].who IN
  /\ At(w, "create")
  /\ \E c \in Codes :
       LET row == [req[w].copy EXCEPT !.code = c, !.codeExp = now + CodeTTL] IN
       /\ StoreRow(e, row)
       /\ \/ Continue(w, "createMail", row) /\ outbox' = outbox \cup {<<e, c>>}
          \/ Return(w) /\ UNCHANGED outbox
  /\ UNCHANGED <<now, mailed, issued, history>>

\* CreateUser draws its own code and expiry, inserts only if the key is new,
\* and leaves a goroutine behind that mails the code.
Create(w) ==
  LET e == req[w].who IN
  /\ At(w, "create")
  /\ users[e] = None
  /\ \E c \in Codes :
       LET row == [req[w].copy EXCEPT !.code = c, !.codeExp = now + CodeTTL] IN
       /\ StoreRow(e, row)
       /\ \/ Continue(w, "createMail", row) /\ outbox' = outbox \cup {<<e, c>>}
          \/ Return(w) /\ UNCHANGED outbox
  /\ UNCHANGED <<now, mailed, issued, history>>

\* Signup itself mails the same code once more.
CreateMail(w) ==
  /\ At(w, "createMail")
  /\ Return(w)
  /\ mailed' = [mailed EXCEPT ![req[w].who] = @ \cup {req[w].copy.code}]
  /\ UNCHANGED <<now, table, outbox, issued, history>>

-----------------------------------------------------------------------------
(* VerifyEmail *)

VerifyEmail(w) ==
  \E e \in Emails, p \in Passwords, c \in Codes : \E row \in GetUserByEmail(e) :
    /\ row # None
    /\ row.pw = p
    /\ ~row.verified
    /\ row.code = c
    /\ row.codeExp # 0
    /\ now <= row.codeExp
    /\ Begin(w, "verifyWrite", e, p, None, FALSE,
             [row EXCEPT !.verified = TRUE, !.code = None, !.codeExp = 0])
    /\ UNCHANGED <<now, table, mail, history>>

\* Mutant: only the columns that verification changes are written.
VerifyWriteColumns(w) ==
  LET e == req[w].who IN
  /\ At(w, "verifyWrite")
  /\ StoreRow(e, [users[e] EXCEPT !.verified = TRUE, !.code = None, !.codeExp = 0])
  /\ Return(w)
  /\ authorised' = [authorised EXCEPT ![e] = @ \cup {req[w].copy.pw}]
  /\ UNCHANGED <<now, mail, granted, recorded, forgiven, used>>

VerifyWrite(w) ==
  /\ At(w, "verifyWrite")
  /\ UpdateUser(w)
  /\ Return(w)
  /\ authorised' = [authorised EXCEPT ![req[w].who] = @ \cup {req[w].copy.pw}]
  /\ UNCHANGED <<now, mail, granted, recorded, forgiven, used>>

-----------------------------------------------------------------------------
(* ResetPassword and ConfirmResetPassword *)

ResetPassword(w) ==
  \E e \in Emails, t \in Tokens \ issued : \E row \in GetUserByEmail(e) :
    /\ row # None
    /\ Begin(w, "resetWrite", e, None, t, FALSE,
             [row EXCEPT !.token = t, !.tokenExp = now + ResetTTL])
    /\ issued' = issued \cup {t}
    /\ UNCHANGED <<now, table, outbox, mailed, history>>

\* The mail is left to a goroutine that starts after the write succeeded.
ResetWrite(w) ==
  /\ At(w, "resetWrite")
  /\ UpdateUser(w)
  /\ Return(w)
  /\ \/ outbox' = outbox \cup {<<req[w].who, req[w].tok>>}
     \/ UNCHANGED outbox
  /\ UNCHANGED <<now, mailed, issued, history>>

\* Mutant: the token stays in the row.
ConfirmResetPasswordKeeps(w) ==
  \E e, box \in Emails, p \in Passwords :
    \E t \in mailed[box] \cap Tokens : \E row \in GetUserByResetToken(e, t) :
      /\ row.tokenExp # 0
      /\ now <= row.tokenExp
      /\ Begin(w, "confirmWrite", e, p, t, FALSE, [row EXCEPT !.pw = p])
      /\ UNCHANGED <<now, table, mail, history>>

\* A client only knows a token that was mailed.
ConfirmResetPassword(w) ==
  \E e, box \in Emails, p \in Passwords :
    \E t \in mailed[box] \cap Tokens : \E row \in GetUserByResetToken(e, t) :
      /\ row.tokenExp # 0
      /\ now <= row.tokenExp
      /\ Begin(w, "confirmWrite", e, p, t, FALSE,
               [row EXCEPT !.pw = p, !.token = None, !.tokenExp = 0])
      /\ UNCHANGED <<now, table, mail, history>>

ConfirmWrite(w) ==
  /\ At(w, "confirmWrite")
  /\ UpdateUser(w)
  /\ Return(w)
  /\ authorised' = [authorised EXCEPT ![req[w].who] = @ \cup {req[w].pass}]
  /\ used' = [used EXCEPT ![req[w].tok] = @ + 1]
  /\ UNCHANGED <<now, mail, granted, recorded, forgiven>>

-----------------------------------------------------------------------------
(* Profile, PUT *)

\* The caller has a session of e and knows the current password; without a
\* new password only the alias (not modelled) changes.
Profile(w) ==
  \E e \in Emails, p \in Passwords \cup {None} : \E row \in GetUserByEmail(e) :
    /\ \E q \in Passwords : <<e, q>> \in granted
    /\ row # None
    /\ Begin(w, "profileWrite", e, p, None, FALSE,
             IF p = None THEN row ELSE [row EXCEPT !.pw = p])
    /\ UNCHANGED <<now, table, mail, history>>

ProfileWrite(w) ==
  /\ At(w, "profileWrite")
  /\ UpdateUser(w)
  /\ Return(w)
  /\ authorised' = [authorised EXCEPT ![req[w].who] = @ \cup ({req[w].pass} \ {None})]
  /\ UNCHANGED <<now, mail, granted, recorded, forgiven, used>>

-----------------------------------------------------------------------------
(* Failures and the environment *)

\* A repository call, a mail or the signing of the token fails without an
\* effect, or finds no row (an insert: finds one): the handler returns an error.
RequestFails(w) ==
  /\ req[w] # None
  /\ req[w].at \notin {"clearRead", "clearWrite"}
  /\ Return(w)
  /\ UNCHANGED <<now, table, mail, history>>

\* A detached goroutine delivers its mail, or loses it.
DeliverMail ==
  \E m \in outbox :
    /\ outbox' = outbox \ {m}
    /\ \/ mailed' = [mailed EXCEPT ![m[1]] = @ \cup {m[2]}]
       \/ UNCHANGED mailed
    /\ UNCHANGED <<now, table, req, started, issued, history>>

\* The replica a lagging read is served from catches up.
Replicate ==
  /\ StaleReads
  /\ \E e \in Emails : replica' = [replica EXCEPT ![e] = users[e]]
  /\ UNCHANGED <<now, users, req, started, mail, history>>

\* The process stops: requests and detached goroutines are gone, rows are not.
Crash ==
  /\ req' = [w \in Workers |-> None]
  /\ outbox' = {}
  /\ UNCHANGED <<now, table, started, mailed, issued, history>>

Tick ==
  /\ now < MaxTime
  /\ now' = now + 1
  /\ UNCHANGED <<table, req, started, mail, history>>

Login(w) ==
  \/ LoginMatch(w) \/ LoginMismatch(w) \/ RecordRead(w) \/ RecordWrite(w)
  \/ CheckAccountLockout(w) \/ Unlock(w)
  \/ ClearRead(w) \/ ClearWrite(w) \/ ClearFails(w) \/ IssueSession(w)

Signup(w) ==
  \/ SignupExisting(w) \/ ResendMail(w) \/ ResendWrite(w)
  \/ SignupNew(w) \/ Create(w) \/ CreateMail(w)

OtherRequests(w) ==
  \/ VerifyEmail(w) \/ VerifyWrite(w)
  \/ ResetPassword(w) \/ ResetWrite(w) \/ ConfirmResetPassword(w) \/ ConfirmWrite(w)
  \/ Profile(w) \/ ProfileWrite(w)

Next ==
  \/ \E w \in Workers :
       Login(w) \/ Signup(w) \/ OtherRequests(w) \/ RequestFails(w)
  \/ DeliverMail \/ Replicate \/ Crash \/ Tick

Spec == Init /\ [][Next]_vars
-----------------------------------------------------------------------------
(* Properties *)

\* What the step a request has reached tells of its fields.
WellFormed(r) ==
  r # None =>
    /\ r.at \in CopyPlaces => r.copy # None
    /\ r.at \in LoginPlaces \cup {"confirmWrite"} => r.pass # None
    /\ r.at \in {"resetWrite", "confirmWrite"} => r.tok # None
    /\ r.at \in {"resendMail", "createMail"} => r.copy.code # None

\* Every variable has its type, and a request that is about to write or mail
\* a row holds one.
TypeOK ==
  /\ now \in Nat
  /\ users \in [Emails -> User \cup {None}]
  /\ replica \in [Emails -> User \cup {None}]
  /\ req \in [Workers -> Request \cup {None}]
  /\ outbox \subseteq Emails \X (Codes \cup Tokens)
  /\ started \in Nat
  /\ mailed \in [Emails -> SUBSET (Codes \cup Tokens)]
  /\ issued \subseteq Tokens
  /\ granted \subseteq Emails \X Passwords
  /\ authorised \in [Emails -> SUBSET Passwords]
  /\ recorded \in [Emails -> Nat]
  /\ forgiven \in [Emails -> Nat]
  /\ used \in [Tokens -> Nat]
  /\ \A w \in Workers : WellFormed(req[w])

\* A verified account always carries a password whose owner proved control
\* of the mailbox or of the account, however requests interleave: VerifyEmail
\* writes back the row it checked, so a signup in between cannot slip its own
\* password under the verification.
VerifiedPasswordProven ==
  \A e \in Emails :
    users[e] # None /\ users[e].verified => users[e].pw \in authorised[e]

\* A login returns a session only for a password that was proven: Verified
\* is taken from the read that matched the password, not from a later one.
SessionsOnlyForProvenPasswords ==
  \A g \in granted : g[2] \in authorised[g[1]]

\* The inductive form of the two: every verified row that is stored, lagging
\* or in flight carries a proven password, or is just being proven.
RowProven(row, proven) == row # None /\ row.verified => row.pw \in proven

RequestProven(r) ==
  r # None =>
    /\ r.at \in {"clearRead", "clearWrite", "issue"} => r.seen
    /\ r.at \in LoginPlaces \ {"recordRead", "recordWrite"} /\ r.seen
         => r.pass \in authorised[r.who]
    /\ r.at = "confirmWrite" => r.copy.pw = r.pass
    /\ r.at = "profileWrite" /\ r.pass # None => r.copy.pw = r.pass
    /\ r.at \in {"create", "createMail"} => ~r.copy.verified
    /\ r.at \in CopyPlaces =>
         \/ r.at \in {"verifyWrite", "confirmWrite"}
         \/ r.at = "profileWrite" /\ r.pass # None
         \/ RowProven(r.copy, authorised[r.who])

ProvenInv ==
  /\ \A e \in Emails :
       RowProven(users[e], authorised[e]) /\ RowProven(replica[e], authorised[e])
  /\ \A w \in Workers : RequestProven(req[w])
  /\ SessionsOnlyForProvenPasswords

\* An account is locked only after LockThreshold failed logins were really
\* written to it: lost updates lose failures, they never invent one.
NoSpuriousLockout ==
  \A e \in Emails :
    users[e] # None /\ users[e].lockUntil # 0 => recorded[e] >= LockThreshold

\* Its inductive form: no row, stored, lagging or in flight, counts more
\* failures than were written, the one in the writer's hand included.
RowCounted(row, n) ==
  row # None => row.fails <= n /\ (row.lockUntil # 0 => row.fails >= LockThreshold)

RequestCounted(r) ==
  r # None /\ r.at \in CopyPlaces =>
    RowCounted(r.copy, recorded[r.who] + (IF r.at = "recordWrite" THEN 1 ELSE 0))

FailureInv ==
  /\ \A e \in Emails :
       RowCounted(users[e], recorded[e]) /\ RowCounted(replica[e], recorded[e])
  /\ \A w \in Workers : RequestCounted(req[w])

\* Every LockThreshold-th failed login since the counter was last cleared
\* locks the account (recordFailedAttempt).
LockoutEngages ==
  \A e \in Emails :
    users[e] # None /\ recorded[e] - forgiven[e] >= LockThreshold
      => users[e].lockUntil # 0

\* A lock that has not expired is never shortened (recordFailedAttempt,
\* "Lock account for 15 minutes").
LockoutHoldsUntilExpiry ==
  [][\A e \in Emails : users[e] # None /\ now < users[e].lockUntil
        => users'[e].lockUntil >= users[e].lockUntil]_vars

\* A reset token changes a password at most once (ConfirmResetPassword,
\* "Clear the reset token after use").
ResetTokenSingleUse == \A t \in Tokens : used[t] <= 1

\* No request, signup included, takes the verification of an account back.
VerifiedStable ==
  [][\A e \in Emails : users[e] # None /\ users[e].verified
        => users'[e].verified]_vars

\* The stored password changes only in the write of a request that was sent
\* the new password; in particular a confirmed reset is not undone.
PasswordChangesOnlyOnRequest ==
  [][\A e \in Emails : users[e] # None /\ users'[e].pw # users[e].pw =>
       \E w \in Workers :
         /\ req[w] # None
         /\ req[w].who = e
         /\ req[w].at \in {"resendWrite", "confirmWrite", "profileWrite"}
         /\ req[w].pass = users'[e].pw]_vars

\* A code that replaces the code of a row was mailed before it counts: the
\* user never ends up with a row whose new code nobody was told.
ReplacedCodeWasMailed ==
  [][\A e \in Emails :
       users[e] # None /\ users'[e].code \notin {users[e].code, None}
         => users'[e].code \in mailed[e]]_vars

\* The atomic account: where requests on one account do not overlap and reads
\* do not lag, every request takes effect at once, or not at all (read and
\* write-back of a row around mails, time, crashes and failing calls).  The
\* abstract table is the stored one; requests, mails and history are hidden.
Atomic == INSTANCE AccountsAtomic
            WITH now <- now, users <- users, granted <- granted

ImplementsAtomic == Atomic!Spec
=============================================================================
