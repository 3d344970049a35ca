SPECIFICATION Spec
CONSTANTS
  g = g
  h = h
  a = a
  b = b
  c = c
  None = None
  Corrupt = Corrupt
  Row = {1, 2, 3}
  Group = {g}
  Content = {a, b, c}
  Oversize = {}
  MaxBounded = 2
  MaxAttempts = 3
  UsedSequences = {}
  Cards <- PairCard
  Edits <- NewJpegEdit
  Untransferable = {}
  FaultMixes = {{"network"}}
  MaxFaults = 0
  s1 = s1
  s2 = s2
  Sweeper = {}
INVARIANT DuplicateIsCovered
