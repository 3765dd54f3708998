\* Processes that grab two nameless discs into one file and may die at any step,
\* with a drive whose reads may fail.
SPECIFICATION GrabSpec
CONSTANTS
  Data <- MCData
  Zeros = "zeros"
  Checks = {0, 1}
  NoCheck = 0
  CrcOf <- MCCrc
  IntMax = 100
  Readers <- MCDiscs
  SizeInSectors <- MCSizes
  NoToc = "noToc"
  MinCounts = {2}
  ProgressEvery = 1
  ReadMayFail = TRUE
  MayCrash = TRUE
  MaxVotes = 7
INVARIANTS
  WhatDeathCosts
  KeepsMostCommon
  GrabEndsSettled
PROPERTIES
  IsVoteStore
  GrabEnds
