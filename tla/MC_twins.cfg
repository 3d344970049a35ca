SPECIFICATION Spec
CONSTANTS
  g = g
  h = h
  a = a
  b = b
  c = c
  None = None
  Corrupt = Corrupt
  Row = {1, 2, 3, 4, 5, 6}
  Group = {g}
  Content = {a, b, c}
  Oversize = {c}
  MaxBounded = 2
  MaxAttempts = 2
  UsedSequences = {2}
  Cards <- TwinCard
  Edits <- TwinEdits
  Untransferable = {}
  FaultMixes = {{"crash", "network", "grace"}}
  MaxFaults = 1
  s1 = s1
  s2 = s2
  Sweeper = {s1, s2}
INVARIANTS NothingStoredTwice SweepHoldsAcknowledged
SYMMETRY SweepsAlike
