SPECIFICATION FairSpec
CONSTANTS
  Publishers = {p1, p2}
  Clients = {c1, c2}
  Buffer = 1
  MaxEvents = 2
  NoOne = NoOne
INVARIANTS
  TypeOK
  SendsOpen
  InOrder
  NoLossBelowBuffer
PROPERTIES
  PublishEnds
  GoneUnsubscribes
CHECK_DEADLOCK FALSE
