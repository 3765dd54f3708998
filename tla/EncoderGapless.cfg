\* Grabber::Encode: what follows the last sector.
SPECIFICATION Spec
CONSTANTS
  Sizes <- MCSizes
  ChunkFrames = 4
  YieldEvery = 8
  Cancellable = FALSE
INVARIANTS
  GaplessImage
\* The thread is done after one image.
CHECK_DEADLOCK FALSE
