SPECIFICATION Spec
CONSTANTS
  Emails = {e1}
  Passwords = {p1, p2}
  Codes = {c1, c2}
  Tokens = {t1}
  Workers = {w1}
  None = None
  LockThreshold = 2
  LockTTL = 1
  CodeTTL = 1
  ResetTTL = 1
  StaleReads = FALSE
  MaxTime = 3
  MaxRequests = 6
INVARIANTS
  ResetTokenSingleUse
  LockoutEngages
PROPERTIES
  ImplementsAtomic
  LockoutHoldsUntilExpiry
  VerifiedStable
  PasswordChangesOnlyOnRequest
  ReplacedCodeWasMailed
