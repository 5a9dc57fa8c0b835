SPECIFICATION FairSpec
CONSTANTS
  w1 = w1
  w2 = w2
  w3 = w3
  boot = boot
  Clients = {w1, w2}
  Boots = {boot}
  KeyOf <- SamePort
  N = 1
  AddressLost = {w1, w2}
  None = None
ACTION_CONSTRAINT NoDrops
PROPERTIES RefusedIsClosed BootReleases
CHECK_DEADLOCK FALSE
