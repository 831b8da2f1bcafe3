SPECIFICATION Spec
CONSTANTS
  Media = {m1}
  Keys = {k1, k2}
  NoKey = NoKey
  NoUpload = NoUpload
  Handlers = {h1}
  Workers = {w1, w2}
  NoWorker = NoWorker
  MaxAttempts = 1
  MaxStalls = 1
  MaxJobs = 2
SYMMETRY symmetry
INVARIANTS
  TypeOK
  CompletedJobsAreCarriedOut
  OkWasCleared
  PendingIsOnItsWay
PROPERTIES
  ImplementsScanGate
