SPECIFICATION DataSpec
CONSTANTS
  w1 = w1
  w2 = w2
  w3 = w3
  w4 = w4
  a = a
  b = b
  c = c
  Writers = {w1, w2, w3, w4}
  Calls = {w1, w2, w3, w4}
  Maps = {0, 1}
  Kinds = {"Sum", "LastValue", "PrecomputedSum", "PrecomputedLastValue"}
  AttrOf <- MCAttrOf
  Amount <- MCAmount
  Value <- MCValue
  Bounds <- MCBounds
  Overflow = overflow
  Limit = 2
  None = none
  MaxBusy = 2
  Missing = missing
  MCValueLimit = 2
  Norm <- MCNorm
  Canonical <- MCCanonical
  Lists <- MCSpanLists
  Invalid <- MCInvalid
  CountLimits <- MCSpanLimits
  PerItemLimit = 1
  Enders = {e1, e2}
  MaxCalls = 3
  RecordLists <- MCRecordLists
  Inline = 2
  RecordLimits <- MCLimits
  MessageKey = 1
  TypeKey = 2
  Derived = "worse"
  MaxAdds = 3
  Records = {r1, r2, r3}
  NoRecord = zero
  Capacity = 3
  Inputs <- MCInputs
  Headers <- MCHeaders
  MemberKeys = {1, 2, 3}
  MemberValues = {"x", "y"}
  MaxMembers = 2
  Malformed <- MCInvalid
  MaxEdits = 5
  FirstCarriers <- MCFirstCarriers
  MaxHops = 3
  MaxSpans = 4
  Codes = {103, 200, 404, 500}
  MaxWrites = 3
  MaxReads = 2
  MaxTries = 2
  l1 = l1
  l2 = l2
  Logs = {l1, l2}
  GivenTo <- MCGivenTo
  OwnOf <- MCOwnOf
  GroupName <- MCGroupName
  MaxHandlers = 4
  Err = "err"
  Findings <- MCFindings
  Unrepeated <- MCUnrepeated
  IsUsable <- MCIsUsable
  MaxDetectors = 3
INVARIANTS
  SnapshotExact SpinsForSomeone WithinLimit ReportBetween
  SnapshotAsDefined RecordAsDefined SetAsDefined TraceStateAsDefined
  TraceContinues ExchangeReported LoggedAsGiven ResourceAsDetected
PROPERTIES OverflowOnlyWhenFull ImplementsQueue
