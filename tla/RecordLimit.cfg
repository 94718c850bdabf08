SPECIFICATION RecordSpec
CONSTANTS
  MCValueLimit = 2
  Norm <- MCNorm
  Canonical <- MCCanonical
  RecordLists <- MCRecordLists
  Inline = 2
  RecordLimits <- MCLimits
  MessageKey = 1
  TypeKey = 2
  Derived = "worse"
  MaxAdds = 3
INVARIANTS AttributesCanonical
