\* Jobs, cancels and ejects in any order on one device, discs swapped at any step.
SPECIFICATION FairSpec
CONSTANTS
  Data <- MCData
  Zeros = "zeros"
  Checks = {"none", "A", "B", "zeros"}
  NoCheck = "none"
  CrcOf <- MCCrc
  IntMax = 100
  Devices = {"sr0"}
  Discs = {"A", "B"}
  SizeInSectors <- BothDiscs
  Listed = {"A"}
  Noise = {}
  None = "none"
  Junk = "junk"
  Untagged = "untagged"
  Bases = {"A"}
  ProgressEvery = 2
  ChunkFrames = 2
  YieldEvery = 2
  MaxCalls = 5
  MaxSwaps = 1
  MaxDepth = 3
INVARIANTS
  IInv
  LockIsTheJobs
  CancelHonoured
  AtMostOnePassUnsaved
  EncodeIsWholeDb
PROPERTIES
  SuspendedJobKeepsDb
  CancelIsForThisJob
  GrabEndsSaved
  UndisturbedGrab
  TocIsCurrent
  JobEnds
