SPECIFICATION FairSpec
CONSTANTS
  Media = {m1}
  Keys = {k1}
  NoKey = NoKey
  NoUpload = NoUpload
  Handlers = {h1}
  Workers = {w1, w2}
  NoWorker = NoWorker
  MaxAttempts = 5
  MaxStalls = 1
  MaxJobs = 1
PROPERTIES
  JobsSettle
