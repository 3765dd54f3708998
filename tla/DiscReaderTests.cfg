\* The discs of the tests, all short texts, packs of two characters.
SPECIFICATION MCSpec
CONSTANTS
  Discs <- MCDiscs
  Chars = {"a", "b"}
  Isrcs <- MCIsrcs
  NoIsrc = "none"
  Nul = "nul"
  PackSize = 2
  Leftover = {"none", "1"}
  MaxRefused = 2
  Drives <- MCDrives
  Channels = {"SCSI", "MMC", "Windows"}
  Fills = {0, 1}
  ReadLbas <- MCReadLbas
INVARIANTS
  IInv
  TocIsDisc
  TextIsDisc
  IdsAsTested
  AnswersAreTheDrives
  RefusedIsNoDisc
\* A table of contents is read once.
CHECK_DEADLOCK FALSE
