SPECIFICATION FairSpec
CONSTANTS
  g = g
  h = h
  a = a
  b = b
  c = c
  None = None
  Corrupt = Corrupt
  Row = {1, 2, 3}
  Group = {g, h}
  Content = {a, b, c}
  Oversize = {}
  MaxBounded = 5
  MaxAttempts = 5
  UsedSequences = {2}
  Cards <- SteadyCards
  Edits <- NoEdits
  Untransferable = {}
  FaultMixes = {{"crash", "network", "authority", "card"}, {"crash", "network", "corrupt"}}
  MaxFaults = 2
  s1 = s1
  s2 = s2
  Sweeper = {}
PROPERTIES EveryPhotographArrives
