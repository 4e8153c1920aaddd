SPECIFICATION Spec
CONSTANTS
  Addresses = {a1}
  Texts <- MCTexts
  ParseIP <- MCParseIP
  Malformed = Malformed
  Workers = {w1, w2}
  None = None
  RequestsPerMinute = 2
  TokenTime = 2
  MaxTime = 3
  MaxRequests = 5
INVARIANT OneBucketPerAddress
