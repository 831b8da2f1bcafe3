SPECIFICATION Spec
CONSTANTS
  Handlers = {h1, h2}
  EventIds <- mcEventIds
  TxnKeys <- mcTxnKeys
  Fans <- mcFans
  NoFan = NoFan
  Events <- mcEvents
  Deliveries <- mcChargeOnly
  MaxInt = 1000
  MaxFaults = 0
  Enabled <- mcEnabled
  WithSecret <- mcWithSecret
  Refs <- mcRefs
  Absent = Absent
  Payloads <- mcPayloads
  fan = fan
  i1 = i1
  i2 = i2
  i3 = i3
  i4 = i4
  k1 = k1
  k2 = k2
  k3 = k3
PROPERTIES
  ProcessedStays
