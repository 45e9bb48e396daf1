SPECIFICATION Spec
CONSTANTS
  c1 = c1
  c2 = c2
  c3 = c3
  d1 = d1
  d2 = d2
  k1 = k1
  k2 = k2
  old = old
  fresh1 = fresh1
  fresh2 = fresh2
  fresh3 = fresh3
  ToolKey = tk
  NoKey = none
  NoDevice = none
  Device = {d1, d2}
  Key = {k1, k2, old, fresh1, fresh2, fresh3, tk}
  Conn = {c1, c2, c3}
  PhoneKey <- MCPhoneKey
  FreshKey <- MCFreshKey
  PairedWith <- MCPairedWith
  Setups <- MCSetups
  MaxSealKeys = 2
  TTL = 1
  MaxTime = 3
  MaxStarts = 3
INVARIANT SealedStoreOpens
CHECK_DEADLOCK FALSE
