SPECIFICATION Spec
CONSTANTS
  Device = {d1}
  Nonce = {n1, n2, n3, n4, n5}
  Timestamp <- MCTimestamp
  Proc = {p1, p2}
  MaxSkew = 1
  MaxAge = 0
  TTL = 2
  Window = 3
  Limit = 2
  Half = 16
  MaxStall = 1
  MaxTime = 7
SYMMETRY MCSymmetry
INVARIANTS TypeOK NoReplay BurstBound CacheBounded
PROPERTIES ImplementsAdmission
