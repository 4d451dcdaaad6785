CONSTANTS
  w1 = w1
  w2 = w2
  e1 = e1
  e2 = e2
  e3 = e3
  e4 = e4
  i1 = i1
  i2 = i2
  i3 = i3
  plc = plc
  rtu = rtu
  m1 = m1
  NoId = NoId
  NoMac = NoMac
  NoEvent = NoEvent
  Workers = {w1, w2}
  Events = {e1, e2, e3, e4}
  EventId <- MCEventId
  Address <- MCAddress
  ObservedAt <- MCObservedAt
  Protocol <- MCProtocol
  Mac <- MCMac
  MaxDeliveries = 4
SPECIFICATION FairSpec
INVARIANTS
  ConstraintsNeverFire
  AssetSummarisesObservations
  AuditMatchesInventory
PROPERTIES
  ImplementsInbox
  RequestsEnd
CHECK_DEADLOCK FALSE
