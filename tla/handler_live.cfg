SPECIFICATION ServiceSpec
CONSTANTS
  Device = {d1}
  Conn = {c1, c2}
  Target = {browser, terminal}
  AllowedTarget = {browser}
  ArmMs = {0}
  DefaultApprove = 1
  Configs <- MCConfigs
  NoConn = NoConn
  MaxTime = 2
  Setups <- MCSetups
  MaxLines = 2
  Keep = 2
  MaxFaults = 2
INVARIANTS ServiceTypeOK LogKeepsTail LogKeepsEnough
PROPERTIES EveryRequestAnswered EveryConnectionCloses
