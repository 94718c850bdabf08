SPECIFICATION FairSpec
CONSTANTS
  Records = {r1, r2}
  Capacity = 2
  Flushers = {f1}
  Closers = {c1}
  Cancellable = {c1}
  BatchSize = 2
  Nobody = nobody
PROPERTIES RecordExported CallsReturn
