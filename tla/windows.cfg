SPECIFICATION Spec
CONSTANTS
  d1 = d1
  d2 = d2
  old = old
  ToolKey = tk
  NoKey = none
  Device = {d1, d2}
  Key = {k1, k2, old, tk}
  Setups <- MCSetups
  Old <- MCOld
  MaxStarts = 4
INVARIANTS TypeOK ServesSealed AckedIsSealed PlaintextReplaced
PROPERTY NothingForgotten
CHECK_DEADLOCK FALSE
