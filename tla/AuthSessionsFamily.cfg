SPECIFICATION Spec
CONSTANTS
  Users = {alice}
  NoUser = NoUser
  Handlers = {h1, h2}
  NoHandler = NoHandler
  InitialStatus = "PENDING"
  MaxSessions = 3
INVARIANTS
  ReuseEndsFamily
