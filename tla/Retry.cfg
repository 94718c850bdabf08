SPECIFICATION ExportSpec
CONSTANTS
  Uploads = {u1, u2}
  Configs <- MCConfigs
  Backoffs = {1, 2}
  RetryAfters = {0, 20}
  Latencies = {0, 1}
  MaxDuration = 15
  Signals = {"traces", "logs", "metrics"}
  Shutters = {s1, s2}
  Mortal = {u1}
  Nobody = nobody
INVARIANTS WaitsWithinLimit
