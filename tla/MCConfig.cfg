CONSTANTS
  IntMax = 127
  SizeMax = 65535
  MaxBuffer = 19
  MinTimeout = 10
  MaxTimeout = 90
  Symbols <- MCSymbols
  Paths <- MCPaths
  Lines <- MCLines
  MaxLines = 2
  Unset = Unset
SPECIFICATION Spec
INVARIANTS TypeOK MeansFile NamesFormed NameChecked
CHECK_DEADLOCK FALSE
