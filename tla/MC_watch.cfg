SPECIFICATION FairSpec
CONSTANTS
  g = g
  a = a
  b = b
  None = None
  Row = {1, 2, 3}
  Group = {g}
  Finished = {a, b}
  Content <- AllContent
  Oversize = {}
  MaxBounded = 1
  MaxAttempts = 1
  Rolls <- SmallRolls
  Pairs = {g}
  PairLag = 2
  Quiet = 2
  Grace = 1
  DiskCheck = 1
  Volumes <- RoomAndFull
  MaxFaults = 1
INVARIANTS TypeOK WholeFilesOnly OnePressOneCapture
PROPERTIES NothingSwallowed TableKept
