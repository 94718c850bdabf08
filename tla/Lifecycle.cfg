SPECIFICATION LifecycleSpec
CONSTANTS
  Ops = {o1, o2, o3}
  Closers = {c1, c2}
  Cancellable = {c1, c2}
  TracerCalls = {t1, t2, t3}
  Stops = {d1, d2}
  Names = {m1, m2}
  Inner = {t1, d1}
  Free = free
  Uploads = {u1, u2}
  Configs <- MCConfigs
  Backoffs = {1, 2}
  RetryAfters = {0, 2}
  Latencies = {1}
  MaxDuration = 15
  Signals = {"traces", "logs", "metrics"}
  Shutters = {s1, s2}
  Mortal = {u1}
  Nobody = nobody
INVARIANTS ShutdownAlone TracersSettled NilMeansAccepted QuietAfterShutdown RetriesBounded
PROPERTIES ShutdownReturns ReturnsUnlessCaught StoppedUploadsEnd
