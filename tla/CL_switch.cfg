SPECIFICATION FairSpec
CONSTANTS
  laptop = laptop
  copy = copy
  gala = gala
  wedding = wedding
  None = None
  Bridge = {laptop}
  Event = {gala, wedding}
  Session = {1, 2, 3, 4}
  StartEvent <- SameEvent
  Shots <- OneShot
  MaxTakeovers = 2
  CloneThreshold = 3
  FaultMixes = {{"expiry", "reassign"}}
  MaxFaults = 2
PROPERTY StartingResumes
CHECK_DEADLOCK FALSE
