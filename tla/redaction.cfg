SPECIFICATION Spec
CONSTANTS
  Writer = {w1, w2}
  Keys <- MCKeys
  MaxHints = 2
  NoWriter = NoWriter
PROPERTY HintsRedacted
CHECK_DEADLOCK FALSE
