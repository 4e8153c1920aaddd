SPECIFICATION FairSpec
CONSTANTS
  Jtis = {j1, j2}
  Browsers = {b1}
  Workers = {w1, w2}
  None = None
  JWTExpiry = 2
  RevocationTTL = 2
  CsrfCookieTTL = 2
  DynamoDB = FALSE
  Parallel = FALSE
  Faults = FALSE
  MaxTime = 3
  MaxRequests = 4
INVARIANT InSync
PROPERTY LogoutCompletes
\* All requests are answered and the clock has reached its bound.
CHECK_DEADLOCK FALSE
