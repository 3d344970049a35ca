SPECIFICATION FairSpec
CONSTANTS
  laptop = laptop
  copy = copy
  gala = gala
  wedding = wedding
  None = None
  Bridge = {laptop, copy}
  Event = {gala, wedding}
  Session = {1, 2, 3, 4}
  StartEvent <- SameEvent
  Shots <- OneShot
  MaxTakeovers = 1
  CloneThreshold = 2
  FaultMixes <- Mixes
  MaxFaults = 2
INVARIANTS TypeOK OneLiveSession
PROPERTIES LeaseKept FinishesOrHalts
CHECK_DEADLOCK FALSE
