SPECIFICATION Spec
CONSTANTS
  g = g
  h = h
  a = a
  b = b
  c = c
  None = None
  Corrupt = Corrupt
  Row = {1, 2}
  Group = {g}
  Content = {a, b}
  Oversize = {}
  MaxBounded = 2
  MaxAttempts = 3
  UsedSequences = {}
  Cards <- JpegCard
  Edits <- LateRawEdit
  Untransferable = {}
  FaultMixes = {{"network"}}
  MaxFaults = 1
  s1 = s1
  s2 = s2
  Sweeper = {}
INVARIANT AnnouncedDigestKept
