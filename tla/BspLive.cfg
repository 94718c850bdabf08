SPECIFICATION FairSpec
CONSTANTS
  Spans = {s1, s2}
  Flushers = {f1}
  Closers = {c1}
  Cancellable = {f1}
  Worker = w
  QueueSize = 2
  MaxBatch = 2
PROPERTIES SpanExported CallsReturn
