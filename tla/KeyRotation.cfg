SPECIFICATION Spec
CONSTANTS
  Keys = {k1, k2}
  Instances = {i1, i2}
  Consumers = {s1}
  None = None
  Blank = Blank
  Leftovers <- MCLeftovers
  PublishFirst = TRUE
SYMMETRY Symmetry
INVARIANTS
  TypeOK
  LiveTokensVerify
  OwnTokensVerify
