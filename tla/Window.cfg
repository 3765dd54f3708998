\* Clicks at any time, two devices, one disc of two sectors, the window closed at any step.
SPECIFICATION WindowSpec
CONSTANTS
  Data <- MCData
  Zeros = "zeros"
  Checks = {"none", "A", "zeros"}
  NoCheck = "none"
  CrcOf <- MCCrc
  IntMax = 100
  Devices = {"sr0", "sr1"}
  Discs = {"A"}
  SizeInSectors <- MCSizes
  Listed = {"A"}
  Noise = {}
  None = "none"
  Junk = "junk"
  Untagged = "untagged"
  Bases = {"A", "untagged"}
  FirstDevice = "sr0"
  NrTracks <- MCTracks
  ProgressEvery = 2
  ChunkFrames = 2
  YieldEvery = 2
  MaxCalls = 3
  MaxSwaps = 1
  MaxDepth = 2
INVARIANTS
  ShownIsWorkers
  AbortIsPrompt
PROPERTIES
  CloseEnds
\* The thread ends.
CHECK_DEADLOCK FALSE
