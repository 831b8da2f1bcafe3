SPECIFICATION FairSpec
CONSTANTS
  Users = {creator}
  NoUser = NoUser
  Handlers = {h1, h2}
  Sessions = {s1}
  NoSession = NoSession
  MaxRows = 2
  MaxRequests = 4
  MaxFaults = 1
CHECK_DEADLOCK FALSE
PROPERTIES
  DecisionsAreRecorded
