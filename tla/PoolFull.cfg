SPECIFICATION FairSpec
CONSTANTS
  w1 = w1
  w2 = w2
  w3 = w3
  boot = boot
  Clients = {w1, w2}
  Boots = {boot}
  KeyOf <- OwnPorts
  N = 1
  AddressLost = {}
  None = None
PROPERTIES TurnedAway
CHECK_DEADLOCK FALSE
