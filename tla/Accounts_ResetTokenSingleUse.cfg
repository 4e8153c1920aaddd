SPECIFICATION Spec
CONSTANTS
  Emails = {e1}
  Passwords = {p1, p2}
  Codes = {c1}
  Tokens = {t1}
  Workers = {w1, w2}
  None = None
  LockThreshold = 2
  LockTTL = 1
  CodeTTL = 1
  ResetTTL = 1
  StaleReads = FALSE
  MaxTime = 3
  MaxRequests = 5
INVARIANT ResetTokenSingleUse
