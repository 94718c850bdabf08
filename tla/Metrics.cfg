SPECIFICATION MetricsSpec
CONSTANTS
  Run = run
  Tick = tick
  None = none
  Threads = {run, c1, c2}
  Closers = {c1, c2}
  Flushers = {f}
  Cancellable = {f, c1}
  k = k
  k2 = k2
  Callbacks = {j, k, k2}
  Registrable = {j}
  Measurements = {m}
  q1 = q1
  q2 = q2
  q3 = q3
  q4 = q4
  q5 = q5
  Creators = {q1, q2, q3, q4, q5}
  Id <- MCId
  Folded <- MCFolded
  CallbackOf <- MCCallbackOf
  CallerOf <- MCCallerOf
INVARIANTS UnregisteredIsQuiet NilMeansDelivered CreatedOnce
PROPERTIES CallsReturn CreationsReturn
