SPECIFICATION Spec
CONSTANTS
  Device = {d1, d2}
  Conn = {c1, c2, c3}
  Target = {browser, terminal}
  AllowedTarget = {browser}
  ArmMs = {0, 2}
  DefaultApprove = 1
  Configs <- MCConfigs
  NoConn = NoConn
  MaxTime = 3
SYMMETRY MCSymmetry
INVARIANT GrantsSpentBySuccess
