SPECIFICATION Spec
CONSTANTS
  g = g
  h = h
  a = a
  b = b
  c = c
  None = None
  Corrupt = Corrupt
  Row = {1, 2, 3, 4}
  Group = {g}
  Content = {a, b, c}
  Oversize = {}
  MaxBounded = 2
  MaxAttempts = 2
  UsedSequences = {2}
  Cards <- EmptyCard
  Edits <- PairEdits
  Untransferable = {}
  FaultMixes = {{"crash", "network", "authority", "refused", "corrupt", "io", "card", "grace"}}
  MaxFaults = 2
  s1 = s1
  s2 = s2
  Sweeper = {}
INVARIANTS TypeOK ConfirmedIsHeld UniqueIndexesHold SequenceAgreed
PROPERTIES MovesAlongEdges DigestsFrozen PromiseKept TableKept
