SPECIFICATION DesktopSpec
CONSTANTS
  Device = {d1}
  Conn = {c1, c2, c3}
  Target = {browser, terminal}
  AllowedTarget = {browser, terminal}
  ArmMs = {0}
  DefaultApprove = 1
  Configs <- MCConfigs
  NoConn = NoConn
  MaxTime = 2
  Backends <- MCBackends
  UserText = UserText
  NoText = NoText
SYMMETRY MCSymmetry
INVARIANTS DesktopTypeOK EntersOwnText ClipboardReturned ToldWhatWorked
