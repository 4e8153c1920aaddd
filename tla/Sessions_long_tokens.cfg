SPECIFICATION Spec
CONSTANTS
  Jtis = {j1}
  Browsers = {b1}
  Workers = {w1, w2}
  None = None
  JWTExpiry = 3
  RevocationTTL = 1
  CsrfCookieTTL = 3
  DynamoDB = FALSE
  Parallel = FALSE
  Faults = FALSE
  MaxTime = 4
  MaxRequests = 3
INVARIANT RevocationOutlivesToken
\* All requests are answered and the clock has reached its bound.
CHECK_DEADLOCK FALSE
