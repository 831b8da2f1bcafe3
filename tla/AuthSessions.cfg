SPECIFICATION Spec
CONSTANTS
  Users = {alice, bob}
  NoUser = NoUser
  Handlers = {h1, h2}
  NoHandler = NoHandler
  InitialStatus = "PENDING"
  MaxSessions = 3
SYMMETRY symmetry
INVARIANTS
  TypeOK
  RotationSpendsParent
  SpentOncePerHandler
  ReuseEndsEarlierSessions
PROPERTIES
  MassRevocationNeedsReuse
