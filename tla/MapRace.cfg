SPECIFICATION MapSpec
CONSTANTS
  c1 = c1
  c2 = c2
  c3 = c3
  c4 = c4
  c5 = c5
  a = a
  b = b
  c = c
  Maps = {m}
  Calls = {c1, c2, c3, c4, c5}
  AttrOf <- MCAttrOf
  Overflow = overflow
  Limit = 3
  None = none
PROPERTIES OverflowOnlyIfAbsent
