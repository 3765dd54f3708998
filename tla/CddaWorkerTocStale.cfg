\* Two devices: ChangeDevice does not invalidate m_toc.
SPECIFICATION Spec
CONSTANTS
  Data <- MCData
  Zeros = "zeros"
  Checks = {"none", "A", "B", "zeros"}
  NoCheck = "none"
  CrcOf <- MCCrc
  IntMax = 100
  Devices = {"sr0", "sr1"}
  Discs = {"A", "B"}
  SizeInSectors <- BothDiscs
  Listed = {"A"}
  Noise = {}
  None = "none"
  Junk = "junk"
  Untagged = "untagged"
  Bases = {"A"}
  ProgressEvery = 1
  ChunkFrames = 2
  YieldEvery = 2
  MaxCalls = 4
  MaxSwaps = 1
  MaxDepth = 3
PROPERTIES
  TocIsCurrent
