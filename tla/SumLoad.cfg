SPECIFICATION SeriesSpec
CONSTANTS
  w1 = w1
  w2 = w2
  w3 = w3
  w4 = w4
  a = a
  b = b
  c = c
  Writers = {w1, w2, w3, w4}
  Calls = {w1, w2, w3, w4}
  Maps = {0, 1}
  Kinds = {"Sum"}
  AttrOf <- MCAttrOf
  Amount <- MCAmount
  Overflow = overflow
  Limit = 2
  None = none
PROPERTIES LoadsHeldValue
