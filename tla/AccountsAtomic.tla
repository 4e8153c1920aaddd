--------------------------- MODULE AccountsAtomic ---------------------------
(***************************************************************************)
(* What the account half of the service promises to clients that wait for  *)
(* the answer about an account before they ask about it again: each        *)
(* request takes effect on the user table at once or not at all.  Times    *)
(* are only bounded here: an expiry lies at most its duration ahead.       *)
(* Accounts implements this module where requests on one account do not    *)
(* overlap and reads do not lag; where they do overlap it does not.        *)
(***************************************************************************)
EXTENDS Integers

CONSTANTS
  Emails, Passwords, Codes, Tokens, None,     \* as in module Accounts
  LockThreshold, LockTTL, CodeTTL, ResetTTL

VARIABLES
  now,      \* the time
  users,    \* the user table
  granted   \* <<email, password>> of every login that returned a session

vars == <<now, users, granted>>

Init ==
  /\ now = 1
  /\ users = [e \in Emails |-> None]
  /\ granted = {}

\* What a request does to the row of an account.
Update(e, row) ==
  /\ users' = [users EXCEPT ![e] = row]
  /\ UNCHANGED <<now, granted>>

-----------------------------------------------------------------------------
(* The operations on an account *)

\* A new account is not verified and has a code.
Register(e) ==
  \E p \in Passwords, c \in Codes, exp \in 1..now + CodeTTL :
    /\ users[e] = None
    /\ Update(e, [pw |-> p, verified |-> FALSE, code |-> c, codeExp |-> exp,
                  token |-> None, tokenExp |-> 0, fails |-> 0, lockUntil |-> 0])

\* An account that is not verified may be signed up for again.
RegisterAgain(e) ==
  \E p \in Passwords, c \in Codes, exp \in 1..now + CodeTTL :
    /\ users[e] # None
    /\ ~users[e].verified
    /\ Update(e, [users[e] EXCEPT !.pw = p, !.code = c, !.codeExp = exp])

\* Verification needs the code; it leaves the password as it is.
Verify(e) ==
  /\ users[e] # None
  /\ ~users[e].verified
  /\ users[e].code # None
  /\ Update(e, [users[e] EXCEPT !.verified = TRUE, !.code = None, !.codeExp = 0])

\* A failed login counts; from the LockThreshold-th on it locks the account,
\* never for a shorter time than it is locked already.
FailLogin(e) ==
  /\ users[e] # None
  /\ \/ /\ users[e].fails + 1 < LockThreshold
        /\ Update(e, [users[e] EXCEPT !.fails = @ + 1])
     \/ /\ users[e].fails + 1 >= LockThreshold
        /\ \E until \in 1..now + LockTTL :
             /\ until >= users[e].lockUntil
             /\ Update(e, [users[e] EXCEPT !.fails = @ + 1, !.lockUntil = until])

\* Failures are forgiven only while the account is not locked.
Forgive(e) ==
  /\ users[e] # None
  /\ now >= users[e].lockUntil
  /\ Update(e, [users[e] EXCEPT !.fails = 0, !.lockUntil = 0])

\* A session is for the password of a verified account that is not locked.
OpenSession(e) ==
  /\ users[e] # None
  /\ users[e].verified
  /\ now >= users[e].lockUntil
  /\ granted' = granted \cup {<<e, users[e].pw>>}
  /\ UNCHANGED <<now, users>>

\* A reset token replaces the one the account had.
IssueResetToken(e) ==
  \E t \in Tokens, exp \in 1..now + ResetTTL :
    /\ users[e] # None
    /\ Update(e, [users[e] EXCEPT !.token = t, !.tokenExp = exp])

\* It is taken out of the row by the request that changes the password.
ConfirmReset(e) ==
  \E p \in Passwords :
    /\ users[e] # None
    /\ users[e].token # None
    /\ Update(e, [users[e] EXCEPT !.pw = p, !.token = None, !.tokenExp = 0])

\* Somebody with a session changes the password.
ChangePassword(e) ==
  \E p \in Passwords :
    /\ users[e] # None
    /\ \E q \in Passwords : <<e, q>> \in granted
    /\ Update(e, [users[e] EXCEPT !.pw = p])

Tick == now' = now + 1 /\ UNCHANGED <<users, granted>>

Next ==
  \/ \E e \in Emails :
       \/ Register(e) \/ RegisterAgain(e) \/ Verify(e)
       \/ FailLogin(e) \/ Forgive(e) \/ OpenSession(e)
       \/ IssueResetToken(e) \/ ConfirmReset(e) \/ ChangePassword(e)
  \/ Tick

Spec == Init /\ [][Next]_vars
=============================================================================
