SPECIFICATION DataSpec
CONSTANTS
  W = 8
  Multipliers <- Values
  Operands <- Values
  Addends = {0, 93}
  Amounts = {0, 1, 2, 3, 4, 5, 6, 7, 8, 9, 15, 16, 17, 24, 25}
INVARIANTS DatapathsAgree ResultRight
CHECK_DEADLOCK FALSE
