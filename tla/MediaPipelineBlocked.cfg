SPECIFICATION Spec
CONSTANTS
  Media = {m1}
  Keys = {k1, k2}
  NoKey = NoKey
  NoUpload = NoUpload
  Handlers = {h1}
  Workers = {w1}
  NoWorker = NoWorker
  MaxAttempts = 1
  MaxStalls = 0
  MaxJobs = 2
INVARIANTS
  BlockedIsNotPublic
