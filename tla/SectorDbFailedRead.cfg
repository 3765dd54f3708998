\* A drive whose reads may fail.
SPECIFICATION Spec
CONSTANTS
  Data <- TwoData
  Zeros = "zeros"
  Checks = {0, 1}
  NoCheck = 0
  CrcOf <- TwoCrc
  IntMax = 100
  Readers <- TwoDiscs
  SizeInSectors <- TwoSectorDiscs
  NoToc = "noToc"
  MinCounts = {2}
  ProgressEvery = 1
  ReadMayFail = TRUE
  MayCrash = FALSE
  MaxVotes = 3
INVARIANTS
  SettledIsConfirmed
