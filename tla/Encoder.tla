-------------------------------- MODULE Encoder --------------------------------
(***************************************************************************)
(* The loop that copies a SectorDb into a FLAC stream: the second half of  *)
(* CddaWorker::Encode, which Grabber::Encode has line by line without the  *)
(* cancellation.  The db is read in chunks of ChunkFrames sectors and the  *)
(* rest in a run-out; FlacStreamEncoder::Append always gets the whole      *)
(* buffer.  The content of sector lba is the number lba: all that matters  *)
(* is which sector lands where.                                            *)
(***************************************************************************)
EXTENDS Integers, Sequences

CONSTANTS
  Sizes,        \* numbers of sectors a db can have
  ChunkFrames,  \* maxNrFrames (64)
  YieldEvery,   \* the event loop runs when lba is a multiple of it (1024)
  Cancellable   \* CddaWorker (TRUE) or Grabber (FALSE)

ASSUME EncoderAssumption ==
  /\ Sizes \subseteq Nat \ {0}
  /\ ChunkFrames \in Nat \ {0}
  /\ YieldEvery \in Nat \ {0}
  /\ Cancellable \in BOOLEAN

VARIABLES
  lbasize,      \* sectors of the db
  lba,          \* the loop variable
  buf,          \* the chunk buffer, not initialised at first
  image,        \* what the encoder was given, in sectors
  pc,           \* where the thread is; "loop", "done", or in a yield
  m_cancelled   \* set by Cancel during a yield

vars == <<lbasize, lba, buf, image, pc, m_cancelled>>

Junk == -1      \* what is in the buffer before it is written

TypeOK ==
  /\ lbasize \in Sizes
  /\ lba \in Nat
  /\ buf \in [1..ChunkFrames -> Nat \cup {Junk}]
  /\ image \in Seq(Nat \cup {Junk})
  /\ pc \in {"loop", "yield", "lastYield", "done", "cancelled"}
  /\ m_cancelled \in BOOLEAN

-----------------------------------------------------------------------------
\* Mutated forms, used only to show that the properties depend on the code.

\* The chunk is read one sector late.
ReadAudio_Shifted(from, n, b) ==
  [k \in DOMAIN b |-> IF k <= n THEN from + k ELSE b[k]]

\* The loop runs on while anything is left: the run-out comes too late.
HasFullChunk_Late(at, n) == at < n + 1

\* The loop does not look at the flag.
GoesOn_Deaf == TRUE

-----------------------------------------------------------------------------
Init ==
  /\ lbasize \in Sizes
  /\ lba = 0
  /\ buf = [k \in 1..ChunkFrames |-> Junk]
  /\ image = << >>
  /\ pc = "loop"
  /\ m_cancelled = FALSE

\* SectorDb::ReadAudio(from, buffer, n): the rest of the buffer stays.
ReadAudio(from, n, b) ==
  [k \in DOMAIN b |-> IF k <= n THEN from + k - 1 ELSE b[k]]

\* FlacStreamEncoder::Append of the whole buffer view.
Appended(img, b) == img \o b

YieldDue(at) == Cancellable /\ at % YieldEvery = 0

\* The lambda process(lba, nrFrames), up to its yield.
Process(nrFrames) ==
  /\ buf' = ReadAudio(lba, nrFrames, buf)
  /\ image' = Appended(image, buf')

HasFullChunk(at, n) == at < n - ChunkFrames
GoesOn              == ~m_cancelled
Advanced(at)        == at + ChunkFrames

Chunk ==
  /\ pc = "loop"
  /\ GoesOn
  /\ HasFullChunk(lba, lbasize)
  /\ Process(ChunkFrames)
  /\ lba' = Advanced(lba)
  /\ pc' = IF YieldDue(lba) THEN "yield" ELSE "loop"
  /\ UNCHANGED <<lbasize, m_cancelled>>

RunOut ==
  /\ pc = "loop"
  /\ GoesOn
  /\ ~HasFullChunk(lba, lbasize)
  /\ Process(lbasize - lba)
  /\ pc' = IF YieldDue(lba) THEN "lastYield" ELSE "done"
  /\ UNCHANGED <<lbasize, lba, m_cancelled>>

\* "Encoding cancelled".
Stop ==
  /\ pc = "loop"
  /\ ~GoesOn
  /\ pc' = "cancelled"
  /\ UNCHANGED <<lbasize, lba, buf, image, m_cancelled>>

Cancel ==
  /\ pc \in {"yield", "lastYield"}
  /\ m_cancelled' = TRUE
  /\ UNCHANGED <<lbasize, lba, buf, image, pc>>

Resume ==
  /\ pc \in {"yield", "lastYield"}
  /\ pc' = IF pc = "yield" THEN "loop" ELSE "done"
  /\ UNCHANGED <<lbasize, lba, buf, image, m_cancelled>>

Step == Chunk \/ RunOut \/ Stop \/ Resume
Next == Step \/ Cancel

Spec == Init /\ [][Next]_vars

-----------------------------------------------------------------------------
(***************************************************************************)
(* Properties.                                                             *)
(***************************************************************************)

\* Every sector of the db that the image has reached is at its own place:
\* nothing is skipped, doubled or out of order at a chunk's edge.
ImageInOrder ==
  \A k \in DOMAIN image : k <= lbasize => image[k] = k - 1

\* A finished image has the whole db, and at most a buffer more.
DoneIsWhole ==
  pc \in {"lastYield", "done"} =>
    /\ lbasize <= Len(image)
    /\ Len(image) < lbasize + ChunkFrames

\* After Cancel nothing more is encoded.
NothingAfterCancel == [][m_cancelled => image' = image]_vars

\* "Gapless: Output into a single flac+cue image" (README.md:30): the image
\* has the sectors of the disc and nothing else.  Violated: Append is given
\* the whole buffer, so a run-out shorter than the buffer is followed by the
\* sectors of the chunk before it (or by what was never written).
GaplessImage == pc = "done" => Len(image) = lbasize

\* The inductive form of ImageInOrder: between two chunks the image ends
\* exactly where the next read begins.
IInv ==
  /\ TypeOK
  /\ ImageInOrder
  /\ DoneIsWhole
  /\ pc \in {"loop", "yield"} => Len(image) = lba /\ lba < lbasize
=============================================================================
