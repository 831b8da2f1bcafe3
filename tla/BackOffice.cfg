SPECIFICATION Spec
CONSTANTS
  Creators = {c1, c2}
  NoCreator = NoCreator
  Targets = {t1, t2}
  Payouts = {p1}
  Handlers = {h1, h2}
  PageSize = 1
  HoldThreshold = 29
  Past <- mcPast
  MaxReports = 2
  MaxItems = 3
  MaxSecrets = 2
  MaxRequests = 5
  MaxFaults = 1
SYMMETRY mcSymmetry
CHECK_DEADLOCK FALSE
INVARIANTS
  TypeOK
  HoldIsBracketed
  EnabledSecretWasProved
PROPERTIES
  PageIsStable
  ReportsAreQueuedOnce
