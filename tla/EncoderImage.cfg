\* CddaWorker::Encode, and nrg2dts.
SPECIFICATION MCSpec
CONSTANTS
  Sizes <- MCSizes
  ChunkFrames = 4
  YieldEvery = 8
  Cancellable = TRUE
  Versions = {"NER5", "NERO", "none"}
  Layouts <- MCLayouts
  Packs = {0, 1, 3}
INVARIANTS
  IInv
  ImageInOrder
  DoneIsWhole
  ExtractedIsAudio
PROPERTIES
  NothingAfterCancel
\* The thread is done after one image.
CHECK_DEADLOCK FALSE
