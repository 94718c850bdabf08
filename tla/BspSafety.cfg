SPECIFICATION Spec
CONSTANTS
  Spans = {s1, s2}
  Flushers = {f1, f2}
  Closers = {c1, c2}
  Cancellable = {f1, f2}
  Worker = w
  QueueSize = 2
  MaxBatch = 2
SYMMETRY CallSymmetry
INVARIANTS SpansInOrder FlushCovers ShutdownFlushes
PROPERTIES ImplementsPipeline
