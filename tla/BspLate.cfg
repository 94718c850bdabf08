SPECIFICATION Spec
CONSTANTS
  Spans = {s1}
  Flushers = {f1}
  Closers = {c1}
  Cancellable = {f1}
  Worker = w
  QueueSize = 1
  MaxBatch = 1
INVARIANTS ShutdownLeavesNothing
