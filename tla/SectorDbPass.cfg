\* Passes over two discs of different size, with a reader that never fails.
SPECIFICATION PassSpec
CONSTANTS
  Data <- ThreeData
  Zeros = "zeros"
  Checks = {0, 1}
  NoCheck = 0
  CrcOf <- ThreeCrc
  IntMax = 100
  Readers <- TwoDiscs
  SizeInSectors <- ThreeSectorDiscs
  NoToc = "noToc"
  MinCounts = {2, 3}
  ProgressEvery = 2
  ReadMayFail = FALSE
  MayCrash = FALSE
  MaxVotes = 5
INVARIANTS
  IInv
  VotesAreReads
  OneReadPerPass
  CancelLatency
PROPERTIES
  ZeroMeansSettled
  RefineTerminates
