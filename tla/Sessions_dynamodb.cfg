SPECIFICATION Spec
CONSTANTS
  Jtis = {j1}
  Browsers = {b1}
  Workers = {w1, w2}
  None = None
  JWTExpiry = 2
  RevocationTTL = 2
  CsrfCookieTTL = 2
  DynamoDB = TRUE
  Parallel = TRUE
  Faults = TRUE
  MaxTime = 4
  MaxRequests = 4
SYMMETRY Symmetry
INVARIANTS
  CsrfRowExpiresWithToken
  RevocationOutlivesToken
