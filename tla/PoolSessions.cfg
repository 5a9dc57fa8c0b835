SPECIFICATION FairSpec
CONSTANTS
  w1 = w1
  w2 = w2
  w3 = w3
  boot = boot
  Clients = {w1, w2, w3}
  Boots = {}
  KeyOf <- OwnPorts
  N = 3
  AddressLost <- FirstLosesAddress
  None = None
ACTION_CONSTRAINT FewEvents
INVARIANTS TypeOK HealthyIsKept NoRefusalWithRoom
PROPERTIES ServesSessions NobodyWaits StationReleased CloseEnds DropClosesWebsocket
CHECK_DEADLOCK FALSE
