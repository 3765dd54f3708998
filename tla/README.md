# A TLA+ model of CD-Grab

CD-Grab copies audio CDs.  It reads every sector until two reads agree, keeps
one copy of each sector and all CRCs ever seen in a *sector database* (`.sdb`
file), and encodes that database into one FLAC image.  These modules model how
the program does it, from the C++ sources under `src/`; TLC checks them on small
instances and TLAPS proves the main invariants for all instances.

Line numbers refer to `src/`; `PROJECT.json` maps every definition to its lines.

## 1. The system

| Part | State | Operations | Talks to |
|---|---|---|---|
| `OccurenceList`, `MostCommonOccurence` (sectorDb.h, .cc) | votes per CRC, in the order first seen | `push_back`, `sum`, `compute` | `SectorDb` |
| `SectorDb` | toc, hardware info, per sector audio, kept CRC and votes | constructors, `AddAudio`, `Refine`, `Save`, `GetStatistics`, `ReadAudio` | an `AudioReader`, a progress callback, its file |
| `CddaWorker` (gui) | open device, disc status, toc, tags, database, lock, cancel flag | slots `Poll`, `ChangeDevice`, `Cancel`, `Grab`, `Encode`, `Eject` | window (queued signals), drive, `SectorDb`, `DiscInfoDatabase`, encoder |
| `MainWindow`, track table | device box, tags shown, rows | buttons, `BaseName`, `OnTocChange`, `SetTracks`, destructor | the worker's thread through queued signals |
| `Grabber` | toc, tags, database, base name | `GetInfo`, `Grab`, `Encode` | like the worker, without a window |
| `DiscInfoDatabase`, `Cddb` | cached disc infos, their file, local xmcd archive | `Has`, `Get`, `Store`, `Query` | remote CDDB |
| `GenericPacket`, collectors, addresses | none between calls | `GetToc`, `GetCdText`, ... | `GpcTransport` |
| `CDDA` (linux, windows, macos) | device handle | packet calls, `ReadAudio`, `Eject`, status | the operating system |
| `FlacStreamEncoder` | libFLAC stream | `Append` | libFLAC |
| `Nrg`, nrg2dts | cue points, tracks, texts of an image | `ParseHeader`, `ParseChunk`, `main` | an image file |
| Cue writer, Opus encoder, shell, xbuild | | | not modelled, see section 5 |

### What is hard here

* **Nested slots.**  The worker has one thread.  A grab lasts half an hour and
  still has to see the Cancel button, so its progress callback calls
  `QCoreApplication::processEvents()` (CddaWorker.cc:269, :234): any slot of the
  same object may run in the middle of a pass.  `CoopMutex` keeps a second job
  out, and nothing else.
* **The drive.**  A disc can be removed or changed between any two commands.
  Packet commands throw when the ioctl fails (linux/cdda.cc:247-261), but a
  packet the drive *refuses* leaves its buffer as it was and goes unnoticed
  (linux/cdda.cc:48); `ReadAudio` returns an error nobody looks at
  (sectorDb.cc:306).
* **The vote.**  `AddAudio` copies the bytes it was just given when the most
  common CRC is not the kept one.  That is right only if the winner can change
  to the CRC of this very read and to no other, in every history.
* **Two threads.**  The window and the worker share nothing but two queues of
  signals; a base name is made of what the window has seen so far, and closing
  the window waits for the other thread (MainWindow.cc:105-111).
* **Files.**  `Save` truncates the only copy of the database before it writes.
* **Chunks.**  Encode's loop and run-out at sizes around a multiple of 64.
* **The cache.**  Disc infos are stored under one hash and looked up by another.

### What makes each part correct

* Vote and database: kept audio has the most common CRC; a vote is a read of
  that sector; a pass reads each unsettled sector once; 0 means settled.
* Worker: the lock is held exactly during a job, on every way out; a job's
  database is its own; a cancelled job reads nothing more; what was read is in
  the file at the end, and an exception or a kill costs one pass at most unless
  it hits `Save`; the toc belongs to the disc; every job ends.
* Window: it shows the worker's tags; Abort is heard within one progress interval;
  closing it ends.
* Grab of the console program: a kill inside a pass costs one read of each sector at
  most (inside `Save` it costs everything); a grab that returns has settled every
  sector of its database, and it returns although its loop has no limit.
* Encoder: the image begins with the database, in order, once; what follows is less
  than a chunk of old buffer.
* Table of contents: whole or not returned; entries, ISRCs, texts and disc id are
  those of the disc.
* Packets: what a call returns is what the drive answered, and of what a refused
  packet left `GetDiscStatus`, `GetDriveStatus` and `SizeInSectors` make no disc
  (`GetToc` does, see `Junk` below).
* Tags: what is stored for a disc is found for that disc, and for no other.
* nrg2dts: the files are the tracks.

## 2. Modules

`OccurenceList.tla` and `SectorStore.tla` hold the pure part: a vote list is a
sequence of `[first, second]` in the order of the C++ vector, because
`std::max_element` returns the first maximum; `AddAudio`, `IsSettled` (the test
in `Refine`) and `Resized` are operators on one sector or the list of sectors.
A sector's bytes are one value of `Data`, the CRC an arbitrary function of it, so
contents may collide.

`SectorDb.tla` is the state machine of one database: `m` (the C++ `m`), `file`
(absent, torn or whole), `pc` and `frame` (the locals of `Refine`).  `Refine` is
cut where somebody else decides what happens: each iteration, the progress
callback, the read.  `heard` and `before` are history variables; `heard` are the
delivered reads that the db in memory is made of: it is saved, loaded and, when the
process dies, forgotten with the db, so it says what a vote is and not what a death
costs.  Actions: `New`, `Load`, `SaveBegin`/`SaveEnd` (the file is torn in between,
and stays so if `SaveThrows` or the process is killed), `RefineStart`,
`RefineThrows`, `RefineSkip`, `RefineVisit`, `ProgressContinue`/`ProgressCancel`,
`RefineRead`, `RefineReadFails`, `RefineEnd`, `Crash`.

`VoteStore.tla` is what a `SectorDb` promises, without lists, files and loops: a
tally of votes per sector and CRC, one kept content per sector that has won its
vote, and a copy on disk that is a copy of both or is nothing.  `SectorDb`
implements it under the mapping `TallyOf`, `KeptOf` (`SectorDb!IsVoteStore`).

`Grabber.tla` is `Grabber::Grab` of the console program: it runs `SectorDb`'s
actions, a process at a time, with a file that may be absent, whole or torn by the
death of an earlier process.  Discs without artist, title and UPC share one file;
the readers here are such discs.  `main.cc` has its call compiled out; the class
is built and is modelled as it stands.

`CddaWorker.tla` is the worker thread: `stack` is its call stack of slots, the
innermost last.  A slot that calls `processEvents()` is at `"yield"`; there, and
only there and on the empty stack, `Poll`, `ChangeDevice`, `Cancel`, `Eject`,
`Grab`, `Encode` can be called (`CanCall`).  Each call of the drive is a step of its
own and `Swap` may come between any two; the packets of one `GetToc` are one step
here and apart in `DiscReader.tla`.  `Throw` and `RefreshOffline` are the exceptions,
which leave the slot and release the lock: any call made of packets may throw,
with a disc or without, and so do the load of a torn file (CddaWorker.cc:162), a
file that cannot be opened or written and the encoder.  What a refused packet leaves
is the toc `Junk` and the size 0.  `PassEnd` truncates the file and `SaveEnd` has
written it: in between, and for good if the slot throws there or the process dies
(`Kill`), the file is in `torn`; `files` still has what it held, as the history the
properties compare with.  `EncodeChunk` appends a chunk of `ChunkFrames` sectors from
the buffer it reuses, all of it in the run-out too.  Votes are added by the same
`AddAudio` as in `SectorDb`.

`Window.tla` composes it with `MainWindow`: `toWorker` is the thread's event queue
(the clicks, each with its base name), `toWindow` the tags on their way back.
`Deliver` calls the next slot when the thread is idle or in `processEvents()`,
`Resumes` is the return of `processEvents()` when the queue is empty, `Close` and
`Finish` are the destructor's `quit()` and the end of the thread's event loop.
The worker's own actions are used as they are, but for `Kill`: the death of the
process is in `CddaWorker.tla` alone.

`DiscInfoDatabase.tla` is the tags' cache: `m_cache` (a function of hashes, a hash
being the sequence of positions that goes into it), its file, and of `Cddb` the
remembered answers, the local archive and what the server may say.  A query has
two steps, `Query` and `ReadLocal`/`ReadRemote`, and a save two, because the
process may die between them (`Restart`).  `known` and `saved` are history
variables: the discs something was stored for with the right number of tracks.

`DiscReader.tla` is `GenericPacket::GetToc`, one step per packet, each of which may
throw (`Throw`) or be refused (`HeaderRefused`, `EntryRefused`, ...): `GetToc` (the header), `UniversalProductCode`, `Entry` (a track's
descriptor), `GetISRC`, `GetCdText`.  `cdb` holds the bytes of the command block
that are reused from packet to packet; the drive (`Descriptor`, `IsrcOf`, `CdText`)
answers what it is asked for, a sector number if the MSF bit is missing.  The
CD-TEXT collector and the disc id (`CddbQuery`) are operators.

`GenericPacket.tla` has the calls of one or two packets (`GetHardwareInfo`,
`GetCapabilities`, `GetPerformance`, `GetDiscStatus`, `SizeInSectors`, `ReadCd`, ...):
the bytes of the command block, the buffer as it was before, the drive's answer,
refusal or failure on each of three transports, and the bytes the result is made
of.  The drive (`Answer`) has the layouts of the Mt. Fuji tables and is external.

`Nrg.tla` is nrg2dts: the footer, the walk over the chunks of a Nero image by byte
positions, one chunk a step, and the tracks written to files.  `Burnt` is the image
Nero writes.

`Encoder.tla` is the chunk loop that `CddaWorker::Encode` and `Grabber::Encode`
share, with the buffer it reuses; the content of sector *n* is the number *n*.

`MCSectorDb`, `MCGrabber`, `MCCddaWorker`, `MCWindow`, `MCDiscInfoDatabase`,
`MCDiscReader`, `MCEncoder` and `MCImages` (Encoder and Nrg, one program or the
other) give the constants values.  `SectorStoreProofs`, `SectorDbProofs` (with
`Grabber`), `CddaWorkerProofs`, `WindowProofs`, `DiscInfoDatabaseProofs`,
`DiscReaderProofs` (with `GenericPacket`) and `ImageProofs` (`Encoder` and `Nrg`) hold
the theorems, `SequenceFolds` the lemmas on folds that the last two share.

Definitions named `X_Something` are mutated forms of `X`: plausible bugs, used
to show that each property depends on the code.

## 3. Runs

| Run | What it shows | Bounds |
|---|---|---|
| `sectordb_pass` | the vote and a pass, with a reader that never fails | 1 and 3 sectors, 3 contents, 2 CRCs, 5 votes |
| `grabber` | Grab's loop, killed and started again, with reads that fail and a `Save` that throws; every step is one of `VoteStore` | 2 discs of 2 sectors and 1, one file, 7 votes |
| `sectordb_failed_read` (violation) | a sector is settled by reads that failed | 2 sectors |
| `worker_jobs` | the worker's slots in any order and nesting, killed at any step | 1 device, discs of 3 and 1 sectors, chunks of 2, 5 calls, 1 swap by hand and those of Eject, depth 3 |
| `worker_toc_stale` (violation) | a new database gets another disc's toc | 2 devices |
| `worker_reader` (violation) | the device of a running pass is destroyed | 2 devices |
| `window` | both threads and their queues, closed at any step | 2 devices, 1 disc of 2 sectors, 3 clicks, 1 swap, depth 2 |
| `discinfo` | what is found for a disc is the disc's, what was stored is found | 2 discs, 2 entries, 2 restarts |
| `discinfo_lookup` (violation) | an entry is stored where it is not found | the same |
| `disc_reader` | the table of contents, its texts and its disc id are the disc's, and so is the answer of each packet call | the discs of testCddb.cc, 64 with all short texts, packs of 2, 2 refusals, 3 transports |
| `encoder_image` | the flac image is in order and whole, the files of nrg2dts are the tracks | 1 to 25 sectors, chunk 4; images of 1 and 2 sessions, up to 4 tracks |
| `encoder_gapless` (violation) | what follows the last sector | 1 to 25 sectors, chunk 4 |

Why the bounds are enough: sectors do not influence each other except through
position and the shared buffer, so two neighbours and one database shorter than
the disc show every case; a vote needs five reads until a late read can overtake
an early winner (A, B, A, B, B), and seven leave room for two more passes after a
restart; the worker's call stack is never more than two deep, which is proved
(`AtMostTwoDeep`), so depth 2 and 3 cut nothing off; five calls are one
`ChangeDevice` and four more, enough for a grab, an Abort or a refused job in it, and
an encoding with the same, and, as `Kill` may come at any step, for a second
device and grab after it; a disc of three sectors has a whole chunk of two and a
run-out, one of one sector only a run-out; in `window` three clicks are the first `ChangeDevice`, a grab and an Abort, a
second grab or the other device; two discs whose hashes share a beginning and whose
CDDB ids collide can be taken for each other in every way more could; texts of no,
one, two and three characters in packs of two begin and end at every place of a
pack; sizes up to 25 pass six chunk edges; two sessions are what it takes for a cue
point of one to be read as one of the other.

### Fairness

`SectorDb`: `WF(RefineStep)`: a pass is a synchronous loop, its calls return.
`CddaWorker`: `WF(SlotStep)`, a running slot runs on, and `SF(Resume)`:
`processEvents()` comes back to the job although `Poll`'s timer (2 s) may
interrupt it again and again, each time for a bounded time.  Safety runs do not
need it.
`Window`: `WF(SlotRuns)`, and `SF` of `Deliver`, `Resumes` and `Finish`: the thread takes
posted calls, the suspended job and its exit flag in turn, although `Poll`'s timer
comes again and again in between.  Nothing is assumed of the window: it may never
look at its queue while it waits.
`Grabber`: `WF(GrabStep)`: a process runs until it ends or is killed.  `GrabEnds` is
stated for behaviours in which the killing stops.

### What the violations say

* A failed read is recorded as if it had been heard: `Refine` ignores
  `ReadAudio`'s result (sectorDb.cc:306).
* `ChangeDevice` leaves `m_toc` and sets `m_di`, so `Poll` sees no change and the
  next new database gets the old toc (CddaWorker.cc:98).
* `ChangeDevice` is not guarded by the lock and destroys the device `Refine`
  is reading from (CddaWorker.cc:96).
* `DiscInfoDatabase::Query` stores an entry that could not be read, or has another
  number of tracks, under a hash nobody asks for (DiscInfoDatabase.cc:258).
* The run-out hands the encoder a whole buffer, so the image ends with sectors
  of the chunk before (CddaWorker.cc:227, grabber.cc:336).

## 4. Proofs

Every theorem holds for all constants that satisfy the stated assumptions: any
number of sectors, contents, colliding CRCs, readers, calls, devices, discs.  The
inductive invariants of the state machines are properties of the runs, so TLC has
checked them on small instances (`GrabInv`, `AbortInv`, `Walked`, and `RefusedInv` and
`AnswersInv` by the runs `grabber`, `window`, `encoder_image` and `disc_reader` with
that invariant more).

`SectorStoreProofs` proves what `SectorDb` and `CddaWorker` share.  Of the folds of the
vote list: `push_back` adds one to `sum`, `mostCommon` is the first maximum, `minMC` is
the smallest of the sectors' most common counts; of a sector: what `AddAudio` does to
its promise.  The library's induction takes an operator as
a parameter, which the provers cannot instantiate; these lemmas reason about the
set of lengths at which a claim fails, which has a least element.

`SectorDbProofs`: `IInv` has three parts.  `StoreInv` is types and `SectorInv`:
`KeepsMostCommon` alone is not inductive, because that the bytes copied by
`AddAudio` are the winner's needs to know what the kept check was before.
`SectorInv` says it: one entry per CRC, and the kept check is the first maximum or
all votes are 1 (then every read is copied).  The key lemma `AddAudioSectorInv`
goes through the cases: first vote, new CRC, a CRC that draws level (the first
maximum stays), a CRC that overtakes (it is the one just read).  `HeardInv` bounds
the delivered reads a db is made of by its votes, in memory and in files, torn ones
too, since the save that tore one may still be completed.  `PassInv` says where a pass is: behind it the sectors that were due
have one vote more and all else is as it was, and it asked last at a multiple of the
interval.  `MostCommonKept`, `EachSectorOnce`, `CancelIsTimely` and the
action property `ZeroIsSettled` follow; `VotesAreTheReads` adds that a vote is a
read if no read fails, which is its only hypothesis.

`SectorDbProofs!Implements`: `SectorDb` implements `VoteStore`, by one lemma for
each of its steps (`VoteStep`, `GrowStep`, `SaveStep`, `LoadStep`, `StoreStutters`).
`AddAudioIsVote` and `AddAudioKeepsWinner` carry it: one call adds one vote for one
CRC, and the content that is kept afterwards has won.  They need `SectorInv`.

`SectorDbProofs`, Grab: Grab of the console program implements `SectorDb`'s specification
(`GrabIsSectorDb`), so all of the above holds of it.  `GrabLeavesSettled` needs more:
that a pass which read nothing found what the file has.  `GrabInv` follows it through
the stages; the file during a pass is the db the pass began with, as far as that
was not new, and a db of new sectors only is never settled, because the minimum
is not 0 (`GrabberAssumption`).  It speaks of the sectors of the db Grab has opened or
made; that they are as many as the disc has follows unless the file was settled
to begin with, as another disc's dump.sdb may be.  `CostOfDeath` is from `GrabInv` and
`PassInv` together: in a pass the file is whole and each sector of the db has at most
one vote it has not; only `Save` tears it.

Why passes and grabs end is proved as far as it is safety.  `PassesEnd`: each step of
a pass returns or lowers `PassRank`, three steps for each sector that is left.
`ReadingPassesVote`: a pass that read leaves a sector with one vote more, so Grab's
loop goes on only while votes are added.  `GrabReadsNoMore`: with finitely many CRCs a
sector gets at most one vote for each, and one more.  Behind it is `OneRepeat`: as all
passes of all processes ask for two equal reads, a sector has one vote per entry until
it is settled, and is not read afterwards.  So in `grabber` no db has more than 2 * (2 +
1) = 6 votes, and the bound of 7 is never met: it cuts nothing off.

`CddaWorkerProofs`: `IInv` has four parts.  `CallInv` says of the call stack that it
has at most two slots, that a slot under another one has yielded and the one above is
outside the lock (`CallStack`), and of each frame what belongs to its slot
(`GrabInv`, `EncodeInv`): `asked` is the flag, a pass goes on to a read only if it was
not asked to stop, the image is the db up to `lba`, and the last chunk the part of
it that the buffer has and what was there before (`ImageGrows`).  A slot yields only inside the
lock, and of the slots the event loop may then call none gets in, so the frame
below is undisturbed: that is why it is inductive for any number of calls.  Steps
are cut by what they do to the stack: `LockedStep`, `FreeStep`, `ReturnStep`,
`CallStep`.  `AtMostTwoDeep`, `LockIsOneJobs`, `CancelIsHonoured`, `EncodedIsWholeDb`,
`SuspendedDbIsKept` and `CancelledIsAsked` follow from it alone.

`SavedInv` relates memory and file: between passes nothing is unsaved, in a pass at
most one vote per sector, and none from the place on it has reached.  `TornInv` says
that a grab past its load has a whole file but for its own `Save`, for a torn one
does not load.  `AtMostOneLost` and `EndedIsSaved` follow.  `CleanInv`, for a disc without read errors,
counts: a grab nobody disturbed has read sector *i* exactly `Reads(f, i)` times, always
the same audio.  Two passes settle it, the third reads nothing, so four are enough
(`UndisturbedIsTheDisc`).  `TocInv` is what `m_toc`, `m_di` and the running slot
know of the disc when there is one device: `Poll` forgets the toc of a disc that is
gone before another can come unseen.  `TocOfTheDisc` has `OneDevice` as its hypothesis
because with two devices it is false: `worker_toc_stale` is the counterexample.

`WorkerKeepsMostCommon` is `MostCommonKept` for the worker, where `SuspendedJobKeepsDb` is
not enough: a file may be loaded, grown to another disc's size and saved again, and
Encode may put a file into memory.  `SectorsInv` of memory and of all files is
inductive, from the lemmas of `SectorStoreProofs`.

`JobsComeToAnEnd` is `JobEnds` without its fairness.  A frame has a rank of two numbers:
`Rounds`, the passes it has left, and `Steps`, the steps left in this one (in an
encoding, in a refresh).  A step of the running slot, or the return of
`processEvents` to it, ends it or lowers its rank (`TopNearer`); a swap, a click, Poll or a
slot inside leave the rank and the db as they are (`AroundStays`, `BelowStays`).  It
needs `Within`: a pass is never past the end of the db, whatever ran while it was
suspended.  From `Within` follows too that no read goes to a sector that is not there
(`ReadsWithinDb`), so `at()` in `AddAudio` never throws.

`WindowProofs`: every step of the composition is one of the worker or leaves it
alone (`WorkerInWindow`), for which the posted arguments must be devices and base
names; so the worker's theorems hold with the window.  `ShownIsWorkers` follows from:
the newest message, or what is shown if there is none, is the worker's tags.
`AbortIsInTime` from: what is posted before the Abort delays it by no read, since
the queue is emptied before `processEvents()` returns, and the reads since it was
posted are at most those since the last progress call (`AbortInv`).

`ImageProofs`, Encoder: `IInv` adds to order and wholeness that between two chunks the
image ends exactly where the next read begins; `ImageIsInOrder`,
`DoneIsWholeDb`, `CancelStops`.

`ImageProofs`, nrg2dts: `Walked` says of the walk which chunk of which session `pChunk`
is at (`At`) and that what has been read is what the chunks before it hold (`Read`).  That
is inductive because each chunk is where the one before ends and no two are at one
place (`Walking`), so `TheChunk` is that chunk, and because the loops that end 8 bytes
early lose one cell if it has 8 bytes (`CuesRead`) and none otherwise (`CellsRead`).
`AudioPlaced` is that what is cut out of the image at a track's two addresses is the
track, wherever the tracks before it end.  `AudioExtracted` follows for any number of
sessions, of tracks in each, blocks in each and packs; assumed is that an image has
a session.

`DiscInfoDatabaseProofs`: `IInv` adds that every info, in memory and in the file,
is filed under its own hash.  `HashOfInfoInjective` and `HashIsToc` turn equal
hashes into equal tracks, so `TagsAreForDisc` follows for any entry the server may
offer, and storing can replace an info only by itself, which keeps
`FileIsInMemory`.  The assumption behind it is that `boost::hash` has no
collisions (see the module's head): it is 32 bits wide here.

`DiscReaderProofs`: `TocIsDisc` says what a table of contents is so far; `IInv` adds
which packet is next after it (`trk` against the number of entries), from which
the lead-out's place follows.  `DescriptorIsEntry` is what the drive answers for
the track asked for.  `TextIsOfTheDisc` is an induction over the packs and, within a
pack, over its characters: `Right` says what the collector has after the first *m* of the
joined characters, wherever a pack ended, `RightStep` that one more keeps it so, and
`CompleteStays` that what follows does no harm.  The folds of the community modules are
chosen functions: in `SequenceFolds`, `Recursion`, `FoldExists` and `Flattened` show that
they exist and what their steps are, by `CountUp`, which is induction over a set of
numbers instead of a predicate; `FlattenedParts` is where in the whole each part is.  `TocAmongCalls` is that the other packet calls leave all of it
alone.  `RefusedInv` says that the buffer of a call that decides about the disc is
still cleared while no drive has written to it; `RefusedStatusIsNoDisc` follows for
`GetDiscStatus`, `GetDriveStatus` and `SizeInSectors`, every drive, transport and content
of uninitialised buffers.  `AnswersOfTheDrive`
needs to know which command blocks are sent (`Blocks`) and that the bytes a block asks
for are the drive's once it has answered (`AnswersInv`); a lemma for each block
evaluates its bits (`InquiryBlock` to `ReadCdBlock`), one for each call says that what is
parsed is what the drive has (`HardwareInfoIsTrue` to `ErrorsAreTrue`).  `FourBytes` is the
arithmetic behind it: a number is what its four bytes make.

`IdsOfTheTests` is of what `GetToc` has read, so it needs the whole way from the disc to
the number: `FinishedTable` that a table that is done has the disc's tracks, in order
(`IdIsOfTheDisc`), then the id of the three tables.  `DigitSum` is that the recursive
`sum` exists and what its steps are, `FourDigits` that it adds the digits of a number
below 10000, `ChecksumSteps` unrolls the checksum track by track, and `IdOfOffsets` puts
checksum, length and number of tracks together.
This is the only theorem about given discs, those of `MCDiscReader`, which the module
extends for it.

Only model-checked:

* Liveness: `RefineTerminates`, `GrabEnds`, `JobEnds`, `CloseEnds`.  Neither fairness
  nor `ENABLED` is within TLAPS's reach.  The ranks of `PassesEnd` and `JobsComeToAnEnd`
  and the bound of `GrabReadsNoMore` are proved; that an enabled step is taken, and
  the conclusion from a rank to an end, are TLC's.

## 5. Not modelled

* The operating system's calls and libFLAC: I/O, seen only by what the code makes
  of their results.
* The cue writer, and the decoding of single fields of packets (`parse.cc`, `MtFuji`):
  stateless formatting.
* The Opus encoder (its only use, grabber.cc:302, is a comment), `MostCommon<T>`,
  `CdTextPacketCollector` and `Cddb::Get`: not called.
* The application shell: what Qt does with the message box that shows a slot's
  exception from the worker's thread (QExceptionApplication.cc:21) is not in this
  source.
* macOS: the files enumerate drives; there is no packet call to model.
* xbuild wraps the compiler of a cross build and is no part of the program.
* An error of the last flush, which `ofstream`'s destructor swallows: `Save` then returns
  with a torn file.
* The assertion at grabber.cc:347, which aborts a debug build when the size is a multiple
  of 64.
* An ejection that fails at the end of a worker's grab, and the death of the process
  while the window is closed or has messages on their way.
* Progress percentages, drive status labels, messages.
