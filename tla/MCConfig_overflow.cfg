CONSTANTS
  IntMax = 127
  SizeMax = 65535
  MaxBuffer = 19
  MinTimeout = 10
  MaxTimeout = 90
  Symbols <- MCSymbols
  Paths <- MCPaths
  Lines <- MCLines
  MaxLines = 1
  Unset = Unset
SPECIFICATION Spec
INVARIANTS LimitsHold
CHECK_DEADLOCK FALSE
