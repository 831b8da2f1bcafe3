SPECIFICATION Spec
CONSTANTS
  Users = {creator}
  NoUser = NoUser
  Handlers = {h1, h2}
  Sessions = {s1}
  NoSession = NoSession
  MaxRows = 2
  MaxRequests = 6
  MaxFaults = 1
SYMMETRY HandlerSymmetry
CHECK_DEADLOCK FALSE
INVARIANTS
  TypeOK
  ApprovalsInTrailAreTrue
  TrailIsFaithful
PROPERTIES
  PublishesVerified
  PostsAreEvidencedOnce
