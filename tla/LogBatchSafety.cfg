SPECIFICATION Spec
CONSTANTS
  Records = {r1, r2, r3}
  Capacity = 2
  Flushers = {f1}
  Closers = {c1}
  Cancellable = {f1, c1}
  BatchSize = 1
  Nobody = nobody
SYMMETRY Symmetry
INVARIANTS OnePlace CallCovers StoppedIsEmpty FullBatchWakes
PROPERTIES ImplementsPipeline
