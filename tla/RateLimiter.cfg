SPECIFICATION Spec
CONSTANTS
  Addresses = {a1, a2}
  Texts <- MCTexts
  ParseIP <- MCParseIP
  Malformed = Malformed
  Workers = {w1, w2}
  None = None
  RequestsPerMinute = 2
  TokenTime = 2
  MaxTime = 4
  MaxRequests = 5
SYMMETRY Symmetry
INVARIANTS
  TypeOK
  LimiterBound
  BucketByClaim
  MadeOnce
  AddressBound
PROPERTY SettlesOnOneBucket
