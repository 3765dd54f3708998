------------------------------ MODULE CddaWorker ------------------------------
(***************************************************************************)
(* The worker thread of the window: one QObject whose slots are called by  *)
(* the thread's event loop, with a drive whose disc anybody can change.    *)
(*                                                                         *)
(* A grab takes half an hour and yet has to see the Cancel button, so its  *)
(* progress callback (and Encode's loop) calls processEvents(): while the  *)
(* job is suspended there, any slot may be called on the same thread.      *)
(* stack is the thread's call stack of slots, the innermost last; only the *)
(* innermost runs.  CoopMutex keeps a second job from starting inside one. *)
(*                                                                         *)
(* A call of the drive is a step: the disc can be removed between any two. *)
(* (The packets of one GetToc are apart in DiscReader.)  Any call that is  *)
(* made of packets may throw, with or without a disc; without one a packet *)
(* may also be refused without notice: then the toc is junk and the size   *)
(* is 0.  A slot that throws is left by its exception; the lock is         *)
(* released by TryLocker's destructor.                                     *)
(*                                                                         *)
(* Save truncates the only copy of a file and writes it again.  torn are   *)
(* the files in which a Save is, or in which one threw or was killed; of   *)
(* such a file, files keeps what the last whole Save had written.          *)
(*                                                                         *)
(* Abstractions: a Toc and its hash identify the disc they were read from; *)
(* disc states are told apart by "is it Audio"; signals, m_dr (it only     *)
(* feeds a label) and the hardware info are left out.  No file system      *)
(* loses what it has reported as written.                                  *)
(***************************************************************************)
EXTENDS SectorStore, FiniteSets, FiniteSetsExt

CONSTANTS
  Devices,        \* what the device box of the window offers
  Discs,          \* the audio discs
  SizeInSectors,  \* their lengths
  Listed,         \* the discs the CDDB knows
  Noise,          \* what a misread sector may deliver, besides an error
  None,           \* no device, disc, toc or file; a buffer never written
  Junk,           \* the toc that is made of refused packets
  Untagged,       \* the tags (and the file name) of a disc nobody knows
  Bases,          \* base names the window asks for
  ProgressEvery,  \* reads between two progress calls of Refine (256)
  ChunkFrames,    \* sectors of a chunk of Encode (64)
  YieldEvery,     \* sectors between two yields of Encode (1024)
  MaxCalls,       \* bound: calls of ChangeDevice, Cancel, Grab, Encode, Eject
  MaxSwaps,       \* bound: insertions and removals by hand
  MaxDepth        \* bound: slots on the call stack

ASSUME WorkerAssumption ==
  /\ Discs \subseteq Data /\ Noise \subseteq Data /\ Listed \subseteq Discs
  /\ SizeInSectors \in [Discs -> Nat \ {0}]
  /\ None \notin Discs \cup Devices \cup {Junk} /\ {Untagged, Junk} \cap Discs = {}
  /\ Bases \subseteq Discs \cup {Untagged}
  /\ {ProgressEvery, ChunkFrames, YieldEvery} \subseteq Nat \ {0}
  /\ MaxCalls \in Nat /\ MaxSwaps \in Nat /\ MaxDepth \in Nat

minimumCommonCrcCount == 2
MaxPasses == minimumCommonCrcCount + 2

VARIABLES
  drive,        \* per device the disc in it (None: no disc)
  noticed,      \* history: the last Poll came after the last change of disc
  missed,       \* history: a disc was changed again before Poll saw it
  stack,        \* the slots in execution, innermost last
  m_cdda,       \* the open device: [dev, serial], dev None at first
  m_toc, m_tags, m_di, m_cancelled, m_sdb,
  cache,        \* m_discDb: the discs whose tags are cached
  mtx,          \* m_NonReentrantMutex.mtx
  files, torn,  \* the .sdb files, and which of them are not whole
  calls, swaps  \* counters of the bounds

worker == <<m_cdda, m_toc, m_tags, m_di, m_cancelled, m_sdb, cache, mtx>>
world  == <<drive, torn, noticed, missed, calls, swaps>>
vars   == <<worker, world, stack, files>>

Tags   == Discs \cup {Untagged}
Tocs   == Discs \cup {None, Junk}
Db     == [toc : Tocs, sectors : Seq(Sector)]
NoDb   == [toc |-> None, sectors |-> << >>]

\* A slot in execution.  next is where it goes on after a yield; di is Poll's
\* local; base to buf are the locals of Grab, Refine and Encode.  History:
\* asked (Cancel was called during this job), disturbed (a disc or
\* the device was changed),
\* fresh (Grab made a new db), image (what Encode wrote).
Frame == [slot : {"Poll", "ChangeDevice", "Grab", "Encode"},
          pc : {"di", "lock", "status", "toc", "query", "open", "size", "pass",
                "loop", "yield", "read", "passed", "save", "done", "encode",
                "encoded"},
          next : {"di", "asked", "passed", "encode", "encoded"},
          di : {"Audio", "NoDisc"}, base : Tags, reader : Nat, lba : Nat,
          nRead : Nat, retry : 0..MaxPasses, buf : Data,
          asked : BOOLEAN, disturbed : BOOLEAN, fresh : BOOLEAN,
          image : Seq(Data \cup {None})]

TypeOK ==
  /\ drive \in [Devices -> Discs \cup {None}] /\ noticed \in BOOLEAN /\ missed \in BOOLEAN
  /\ stack \in Seq(Frame) /\ Len(stack) <= MaxDepth
  /\ m_cdda \in [dev : Devices \cup {None}, serial : Nat]
  /\ m_toc \in Tocs /\ m_tags \in Tags /\ cache \subseteq Discs
  /\ m_di \in {"Audio", "NoDisc"} /\ m_cancelled \in BOOLEAN /\ mtx \in BOOLEAN
  /\ m_sdb \in Db
  /\ files \in [Bases -> Db] /\ torn \subseteq Bases
  /\ calls \in 0..MaxCalls /\ swaps \in 0..MaxSwaps

-----------------------------------------------------------------------------
\* Mutated forms, used only to show that the properties depend on the code.

\* The lock is never seen as taken.
Locked_Never == FALSE

\* Refine's caller goes by the flag of the job that was there before.
StartJob_KeepsCancel(cancelled) == cancelled

\* The flag is reset before the lock is tried.
BusyCancel_Reset(cancelled) == FALSE

\* Only the whole grab is saved, not each pass.
Saved_AtEndOnly(f) == f.retry + 1 = MaxPasses

\* A cancelled pass is not saved.
Saved_NotCancelled(f) == f.nRead > 0 /\ ~m_cancelled

\* After the event loop ran, the position is asked for once more.
Resumed_AsksAgain(f) == [f EXCEPT !.pc = IF f.next = "asked" THEN "loop" ELSE f.next]

\* The read goes on whatever the flag says.
Resumed_Deaf(f) == [f EXCEPT !.pc = IF f.next = "asked" THEN "read" ELSE f.next]

\* Poll leaves m_toc alone.
TocAfterPoll_Kept(di) == m_toc

\* The loop ends a chunk early.
HasFullChunk_Early(lba, n) == lba + ChunkFrames < n - ChunkFrames

-----------------------------------------------------------------------------
Top       == stack[Len(stack)]
Below     == SubSeq(stack, 1, Len(stack) - 1)
At(pc)    == stack # << >> /\ Top.pc = pc
Become(f) == stack' = Append(Below, f)
Goto(pc)  == Become([Top EXCEPT !.pc = pc])
Return    == stack' = Below

Idle(slot, pc) ==
  [slot |-> slot, pc |-> pc, next |-> "di", di |-> "NoDisc", base |-> Untagged,
   reader |-> 0, lba |-> 0, nRead |-> 0, retry |-> 0, buf |-> Zeros,
   asked |-> FALSE, disturbed |-> FALSE, fresh |-> FALSE, image |-> << >>]

\* What the open drive holds, and CDDA::GetDiscStatus.
Disc == IF m_cdda.dev = None THEN None ELSE drive[m_cdda.dev]
GetDiscStatus == IF Disc = None THEN "NoDisc" ELSE "Audio"

\* What GetToc and SizeInSectors return; without a disc they may also throw.
TocRead  == IF Disc = None THEN Junk ELSE Disc
SizeRead == IF Disc = None THEN 0 ELSE SizeInSectors[Disc]

Init ==
  /\ drive \in [Devices -> Discs \cup {None}]
  /\ noticed = TRUE /\ missed = FALSE
  /\ stack = << >>
  /\ m_cdda = [dev |-> None, serial |-> 0]
  /\ m_toc = None /\ m_tags = Untagged /\ cache = {}
  /\ m_di = "NoDisc" /\ m_cancelled = FALSE /\ mtx = FALSE
  /\ m_sdb = NoDb
  /\ files = [b \in Bases |-> NoDb] /\ torn = {}
  /\ calls = 0 /\ swaps = 0

-----------------------------------------------------------------------------
\* Around the worker.

\* A disc comes or goes while every slot in execution has its own idea of it.
Change(dev, disc) ==
  /\ drive' = [drive EXCEPT ![dev] = disc]
  /\ noticed' = FALSE
  /\ missed' = (missed \/ ~noticed)

Witnessed == [i \in DOMAIN stack |-> [stack[i] EXCEPT !.disturbed = TRUE]]

Swap(dev, disc) ==
  /\ swaps < MaxSwaps
  /\ disc # drive[dev] /\ None \in {disc, drive[dev]}
  /\ Change(dev, disc)
  /\ swaps' = swaps + 1
  /\ stack' = Witnessed
  /\ UNCHANGED <<worker, files, torn, calls>>

-----------------------------------------------------------------------------
\* The event loop calls a slot: the outer one between two slots, the nested
\* one while the innermost slot has yielded.  The window queues ChangeDevice
\* before anything else, and then only when its device box changes.
CanCall == /\ Len(stack) < MaxDepth
           /\ stack = << >> \/ At("yield")

ByWindow == /\ CanCall
            /\ calls < MaxCalls
            /\ calls' = calls + 1

Call(f) == stack' = Append(stack, f)

Locked == mtx
StartJob(cancelled)   == FALSE
BusyCancel(cancelled) == cancelled

Poll ==
  /\ CanCall
  /\ m_cdda.dev # None
  /\ Call(Idle("Poll", "di"))
  /\ UNCHANGED <<worker, world, files>>

ChangeDevice(dev) ==
  /\ ByWindow
  /\ dev # m_cdda.dev
  /\ m_cdda' = [dev |-> dev, serial |-> m_cdda.serial + 1]
  /\ stack' = Append(Witnessed, Idle("ChangeDevice", "di"))
  /\ UNCHANGED <<m_toc, m_tags, m_di, m_cancelled, m_sdb, cache, mtx,
                 drive, torn, noticed, missed, swaps, files>>

Cancel ==
  /\ ByWindow
  /\ m_cdda.dev # None
  /\ m_cancelled' = TRUE
  /\ stack' = [i \in DOMAIN stack |-> [stack[i] EXCEPT !.asked = TRUE]]
  /\ UNCHANGED <<m_cdda, m_toc, m_tags, m_di, m_sdb, cache, mtx,
                 drive, torn, noticed, missed, swaps, files>>

\* A drive without a disc opens its tray.
Eject ==
  /\ ByWindow
  /\ m_cdda.dev # None
  /\ IF Disc # None
     THEN Change(m_cdda.dev, None) /\ stack' = Witnessed
     ELSE UNCHANGED <<drive, noticed, missed, stack>>
  /\ UNCHANGED <<worker, swaps, files, torn>>

\* "Device busy" / "Sector Database busy".
JobRefused ==
  /\ ByWindow
  /\ m_cdda.dev # None
  /\ Locked
  /\ m_cancelled' = BusyCancel(m_cancelled)
  /\ UNCHANGED <<m_cdda, m_toc, m_tags, m_di, m_sdb, cache, mtx,
                 drive, torn, noticed, missed, swaps, stack, files>>

Grab(base) ==
  /\ ByWindow
  /\ m_cdda.dev # None
  /\ ~Locked
  /\ m_cancelled' = StartJob(m_cancelled)
  /\ IF m_di = "Audio"
     THEN /\ mtx' = TRUE
          /\ Call([Idle("Grab", "open") EXCEPT !.base = base])
     ELSE UNCHANGED <<mtx, stack>>
  /\ UNCHANGED <<m_cdda, m_toc, m_tags, m_di, m_sdb, cache,
                 drive, torn, noticed, missed, swaps, files>>

\* A db in memory is used, whatever disc and file it is of.  Without one the
\* file is loaded; a torn file throws.
Encode(base) ==
  /\ ByWindow
  /\ m_cdda.dev # None
  /\ ~Locked
  /\ m_cancelled' = StartJob(m_cancelled)
  /\ LET load == m_sdb.sectors = << >> /\ files[base] # NoDb /\ base \notin torn
         db   == IF load THEN files[base] ELSE m_sdb
     IN  /\ m_sdb' = db
         /\ IF db.sectors = << >>
            THEN UNCHANGED <<mtx, stack>>
            ELSE /\ mtx' = TRUE
                 /\ Call([Idle("Encode", "encode") EXCEPT !.base = base])
  /\ UNCHANGED <<m_cdda, m_toc, m_tags, m_di, cache,
                 drive, torn, noticed, missed, swaps, files>>

-----------------------------------------------------------------------------
\* Poll and ChangeDevice, and RefreshToc which both call.

TocAfterPoll(di) == IF di # "Audio" THEN None ELSE m_toc

PollDisc ==
  /\ At("di") /\ Top.slot = "Poll"
  /\ noticed' = TRUE
  /\ LET di == GetDiscStatus
     IN  /\ m_toc' = IF di = m_di THEN m_toc ELSE TocAfterPoll(di)
         /\ IF di # m_di /\ di = "Audio"
            THEN /\ Become([Top EXCEPT !.pc = "lock", !.di = di])
                 /\ UNCHANGED m_di
            ELSE Return /\ m_di' = di
  /\ UNCHANGED <<m_cdda, m_tags, m_cancelled, m_sdb, cache, mtx,
                 drive, torn, missed, calls, swaps, files>>

OpenedDisc ==
  /\ At("di") /\ Top.slot = "ChangeDevice"
  /\ m_di' = GetDiscStatus
  /\ Goto("lock")
  /\ UNCHANGED <<m_cdda, m_toc, m_tags, m_cancelled, m_sdb, cache, mtx,
                 world, files>>

\* RefreshToc is back: Poll goes on with m_di = di.
Refreshed(di) ==
  /\ m_di' = IF Top.slot = "Poll" THEN Top.di ELSE di
  /\ Return

RefreshLock ==
  /\ At("lock")
  /\ IF Locked THEN Refreshed(m_di) /\ UNCHANGED mtx
               ELSE mtx' = TRUE /\ Goto("status") /\ UNCHANGED m_di
  /\ UNCHANGED <<m_cdda, m_toc, m_tags, m_cancelled, m_sdb, cache, world, files>>

RefreshStatus ==
  /\ At("status")
  /\ IF GetDiscStatus = "Audio"
     THEN m_di' = "Audio" /\ Goto("toc") /\ UNCHANGED mtx
     ELSE Refreshed(GetDiscStatus) /\ mtx' = FALSE
  /\ UNCHANGED <<m_cdda, m_toc, m_tags, m_cancelled, m_sdb, cache, world, files>>

\* GetToc(false, false): the tags are cached or have to be asked for.
RefreshToc ==
  /\ At("toc")
  /\ IF TocRead \in cache
     THEN m_tags' = TocRead /\ Refreshed(m_di) /\ mtx' = FALSE
     ELSE Goto("query") /\ UNCHANGED <<m_tags, m_di, mtx>>
  /\ UNCHANGED <<m_cdda, m_toc, m_cancelled, m_sdb, cache, world, files>>

\* GetToc(true, true) and DiscInfoDatabase::Query.
RefreshQuery ==
  /\ At("query")
  /\ m_toc' = TocRead
  /\ m_tags' = IF TocRead \in Listed THEN TocRead ELSE Untagged
  /\ cache' = cache \cup ({TocRead} \cap Listed)
  /\ Refreshed(m_di)
  /\ mtx' = FALSE
  /\ UNCHANGED <<m_cdda, m_cancelled, m_sdb, world, files>>

\* No network: Query throws after m_toc was assigned.
RefreshOffline ==
  /\ At("query")
  /\ m_toc' = TocRead
  /\ Return
  /\ mtx' = FALSE
  /\ UNCHANGED <<m_cdda, m_tags, m_di, m_cancelled, m_sdb, cache, world, files>>

\* A slot is in its locked part.
InLock(f) == f.pc \notin {"di", "lock"}

Saved(f) == f.nRead > 0

\* An exception leaves the slot and the lock: of a packet, of the load of a torn
\* file, of a file that cannot be opened for writing or, once truncated, not be
\* written, of the flac encoder.
Throw ==
  /\ \/ \E pc \in {"di", "status", "toc", "query", "size", "pass", "save", "encode"} :
          At(pc)
     \/ At("open") /\ Top.base \in torn
     \/ At("open") /\ files[Top.base] = NoDb /\ m_toc = None
     \/ At("passed") /\ Saved(Top)
  /\ Return
  /\ mtx' = (mtx /\ ~InLock(Top))
  /\ UNCHANGED <<m_cdda, m_toc, m_tags, m_di, m_cancelled, m_sdb, cache,
                 world, files>>

-----------------------------------------------------------------------------
\* Grab and SectorDb::Refine.

Pass == [Top EXCEPT !.pc = "pass"]

GrabLoad ==
  /\ At("open")
  /\ files[Top.base] # NoDb /\ Top.base \notin torn
  /\ m_sdb' = files[Top.base]
  /\ Become(Pass)
  /\ UNCHANGED <<m_cdda, m_toc, m_tags, m_di, m_cancelled, cache, mtx,
                 world, files>>

\* No file: m_toc is used if it is there, else read.
GrabToc ==
  /\ At("open")
  /\ files[Top.base] = NoDb /\ Top.base \notin torn
  /\ Goto("size")
  /\ m_toc' = IF m_toc = None THEN TocRead ELSE m_toc
  /\ UNCHANGED <<m_cdda, m_tags, m_di, m_cancelled, m_sdb, cache, mtx, world, files>>

GrabNew ==
  /\ At("size")
  /\ m_sdb' = [toc |-> m_toc, sectors |-> [i \in 1..SizeRead |-> NewSector]]
  /\ Become([Pass EXCEPT !.fresh = TRUE])
  /\ UNCHANGED <<m_cdda, m_toc, m_tags, m_di, m_cancelled, cache, mtx,
                 world, files>>

\* A toc without tracks, which junk may be, is read again.
TocOfPass(toc) == IF toc = Junk THEN {Junk, TocRead} ELSE {toc}

\* Refine(*m_cdda, ...): its prologue.
PassBegin ==
  /\ At("pass")
  /\ LET n == Max({Len(m_sdb.sectors), SizeRead})
     IN  \E toc \in TocOfPass(m_sdb.toc) :
           m_sdb' = [toc |-> toc, sectors |-> Resized(m_sdb.sectors, n, NewSector)]
  /\ Become([Top EXCEPT !.pc = "loop", !.reader = m_cdda.serial,
                        !.lba = 0, !.nRead = 0, !.buf = Zeros])
  /\ UNCHANGED <<m_cdda, m_toc, m_tags, m_di, m_cancelled, cache, mtx,
                 world, files>>

\* The sectors Refine still has to visit.
Due == {lba \in Top.lba..(Len(m_sdb.sectors) - 1) :
          ~IsSettled(m_sdb.sectors[lba + 1], minimumCommonCrcCount)}

\* On to the next sector; progress is asked before some of the reads and told
\* at the end, and both times the event loop runs.
PassLoop ==
  /\ At("loop")
  /\ Become(IF Due = {}
            THEN [Top EXCEPT !.pc = "yield", !.next = "passed"]
            ELSE IF Top.nRead % ProgressEvery = 0
            THEN [Top EXCEPT !.pc = "yield", !.next = "asked", !.lba = Min(Due)]
            ELSE [Top EXCEPT !.pc = "read", !.lba = Min(Due)])
  /\ UNCHANGED <<worker, world, files>>

\* processEvents() returns.
Resumed(f) ==
  [f EXCEPT !.pc = IF f.next # "asked" THEN f.next
                   ELSE IF m_cancelled THEN "passed" ELSE "read"]

Resume ==
  /\ At("yield")
  /\ Become(Resumed(Top))
  /\ UNCHANGED <<worker, world, files>>

\* What ReadAudio can leave in buf.  The reader of this pass may be gone: then
\* a destroyed object is called, and anything may be in buf.
Heard == IF Top.reader # m_cdda.serial THEN Data
         ELSE IF Top.lba < SizeRead
         THEN {Disc} \cup Noise
         ELSE {Top.buf}

ReadAudio(audio) ==
  /\ At("read")
  /\ audio \in Heard
  /\ m_sdb' = [m_sdb EXCEPT !.sectors[Top.lba + 1] = AddAudio(@, audio)]
  /\ Become([Top EXCEPT !.pc = "loop", !.lba = @ + 1, !.nRead = @ + 1,
                        !.buf = audio])
  /\ UNCHANGED <<m_cdda, m_toc, m_tags, m_di, m_cancelled, cache, mtx,
                 world, files>>

\* The next pass begins, if there was anything to read and one is left.
NextPass(f) ==
  [f EXCEPT !.retry = @ + 1,
            !.pc = IF f.nRead > 0 /\ f.retry + 1 < MaxPasses THEN "pass" ELSE "done"]

\* Refine is back: nothing read ends the grab, else Save truncates the file.
PassEnd ==
  /\ At("passed")
  /\ IF Saved(Top) THEN torn' = torn \cup {Top.base} /\ Goto("save")
                   ELSE UNCHANGED torn /\ Become(NextPass(Top))
  /\ UNCHANGED <<worker, drive, noticed, missed, calls, swaps, files>>

\* All of it is written.
SaveEnd ==
  /\ At("save")
  /\ files' = [files EXCEPT ![Top.base] = m_sdb]
  /\ torn' = torn \ {Top.base}
  /\ Become(NextPass(Top))
  /\ UNCHANGED <<worker, drive, noticed, missed, calls, swaps>>

\* "Grabbing cancelled" / "Grabbing complete".
GrabEnd ==
  /\ At("done")
  /\ Return
  /\ mtx' = FALSE
  /\ UNCHANGED <<m_cdda, m_toc, m_tags, m_di, m_cancelled, m_sdb, cache,
                 world, files>>

-----------------------------------------------------------------------------
\* Encode's loop and run-out.

HasFullChunk(lba, n) == lba < n - ChunkFrames

\* The chunk buffer.  It is not initialised, and from then on it holds what was
\* appended last, because Append always gets all of it.
Buffer(image) ==
  [k \in 1..ChunkFrames |-> IF image = << >> THEN None
                            ELSE image[Len(image) - ChunkFrames + k]]

\* m_sdb.ReadAudio of the first n sectors of a chunk.
ReadChunk(buffer, sectors, lba, n) ==
  [k \in DOMAIN buffer |-> IF k <= n THEN sectors[lba + k].data ELSE buffer[k]]

\* The lambda process(lba, nrFrames), for a chunk or for the run-out.
EncodeChunk ==
  LET n        == Len(m_sdb.sectors)
      full     == HasFullChunk(Top.lba, n)
      nrFrames == IF full THEN ChunkFrames ELSE n - Top.lba
      goto     == IF full THEN "encode" ELSE "encoded"
  IN  /\ At("encode")
      /\ ~m_cancelled
      /\ Become([Top EXCEPT
                    !.image = @ \o ReadChunk(Buffer(@), m_sdb.sectors, Top.lba, nrFrames),
                    !.lba   = IF full THEN @ + ChunkFrames ELSE @,
                    !.pc    = IF Top.lba % YieldEvery = 0 THEN "yield" ELSE goto,
                    !.next  = goto])
      /\ UNCHANGED <<worker, world, files>>

\* "Encoding cancelled" / "Encoding complete".
EncodeEnd ==
  /\ (At("encode") /\ m_cancelled) \/ At("encoded")
  /\ Return
  /\ mtx' = FALSE
  /\ UNCHANGED <<m_cdda, m_toc, m_tags, m_di, m_cancelled, m_sdb, cache,
                 world, files>>

-----------------------------------------------------------------------------
\* The process is killed, or ends, and is started again.  The cached tags come
\* from a file of their own, or are lost with it (see DiscInfoDatabase).
Kill ==
  /\ m_cdda' = [dev |-> None, serial |-> 0]
  /\ m_toc' = None /\ m_tags' = Untagged /\ cache' \in {{}, cache}
  /\ m_di' = "NoDisc" /\ m_cancelled' = FALSE /\ mtx' = FALSE
  /\ m_sdb' = NoDb
  /\ stack' = << >>
  /\ noticed' = TRUE /\ missed' = FALSE
  /\ UNCHANGED <<drive, torn, calls, swaps, files>>

-----------------------------------------------------------------------------
\* The steps of the running slot, the return of processEvents among them.
SlotStep ==
  \/ PollDisc \/ OpenedDisc
  \/ RefreshLock \/ RefreshStatus \/ RefreshToc \/ RefreshQuery
  \/ RefreshOffline \/ Throw
  \/ GrabLoad \/ GrabToc \/ GrabNew
  \/ PassBegin \/ PassLoop \/ (\E audio \in Data : ReadAudio(audio))
  \/ PassEnd \/ SaveEnd \/ GrabEnd
  \/ EncodeChunk \/ EncodeEnd

Next ==
  \/ \E dev \in Devices : \/ \E disc \in Discs \cup {None} : Swap(dev, disc)
                          \/ ChangeDevice(dev)
  \/ Poll \/ Cancel \/ Eject \/ JobRefused
  \/ \E base \in Bases : Grab(base) \/ Encode(base)
  \/ SlotStep
  \/ Resume
  \/ Kill

Spec == Init /\ [][Next]_vars

\* A running slot runs on; the event loop comes back to the job it suspended
\* (strongly fair: Poll may be called again and again, each time briefly).
FairSpec == Spec /\ WF_vars(SlotStep) /\ SF_vars(Resume)

-----------------------------------------------------------------------------
(***************************************************************************)
(* Properties.                                                             *)
(***************************************************************************)

Holders   == {i \in DOMAIN stack : InLock(stack[i])}

\* The lock is held exactly while one slot of the call stack is in its locked
\* part, on every way out of it, exceptions included: a lock left behind would
\* refuse every later job, a lock lost would let two jobs share m_sdb.
LockIsTheJobs == /\ mtx <=> Holders # {}
                 /\ Cardinality(Holders) <= 1

\* While a job is suspended in processEvents no slot touches its db or lets
\* it come back to another frame.
SuspendedJobKeepsDb ==
  [][Len(stack) > 1 /\ Len(stack') > 1 => m_sdb' = m_sdb]_vars

\* Once Cancel was called during a grab no sector is read any more, whatever
\* slots are called after it: a refused job must not reset the flag.
CancelHonoured == At("read") => ~Top.asked

\* A new job is not cancelled by what was said before it began.
CancelIsForThisJob ==
  [][GrabEnd /\ m_cancelled => Top.asked]_vars

\* The reads of sector i-1 that are in the db but not in the file.
NotSaved(sectors, saved, i) ==
  sum(sectors[i].checks) - (IF i \in DOMAIN saved THEN sum(saved[i].checks) ELSE 0)

Unsaved(base, i) == NotSaved(m_sdb.sectors, files[base].sectors, i)

\* At the end of a grab, a cancelled one too, the file is whole and every read
\* is in it.
GrabEndsSaved ==
  [][GrabEnd => /\ Top.base \notin torn
                /\ \A i \in DOMAIN m_sdb.sectors : Unsaved(Top.base, i) = 0]_vars

\* What an exception or the death of the process costs a grab: inside a pass
\* one read of each sector, because the file is whole and lacks no more; inside
\* Save everything that was ever read, because it leaves the file torn, and a
\* torn file lets no later grab begin.
AtMostOnePassUnsaved ==
  \A k \in DOMAIN stack : stack[k].slot = "Grab" =>
    /\ stack[k].base \in torn => stack[k].pc \in {"open", "save"}
    /\ stack[k].pc \in {"loop", "yield", "read", "passed", "save"} =>
         \A i \in DOMAIN m_sdb.sectors : Unsaved(stack[k].base, i) \in {0, 1}

\* A grab into a new file that was neither cancelled nor disturbed, of a disc
\* that reads without errors, ends with every sector seen twice, and with the
\* disc's audio in every sector.
UndisturbedGrab ==
  [][GrabEnd /\ Top.fresh /\ ~Top.disturbed /\ ~m_cancelled /\ Noise = {} =>
     \A i \in DOMAIN m_sdb.sectors :
        /\ m_sdb.sectors[i].data = Disc
        /\ MostCommonCount(m_sdb.sectors[i].checks) = minimumCommonCrcCount]_vars

\* An image that was not cancelled begins with every sector of the db once, in
\* order, whatever was called in its yields; what follows is less than a chunk.
\* (That anything follows is Encoder's finding GaplessImage.)
EncodeIsWholeDb ==
  At("encoded") =>
    /\ Len(Top.image) - Len(m_sdb.sectors) \in 0..(ChunkFrames - 1)
    /\ \A i \in DOMAIN m_sdb.sectors : Top.image[i] = m_sdb.sectors[i].data

\* "Poll() invalidates this: if it's there, we can use it" (CddaWorker.cc:166):
\* the toc of a new db is that of the disc its sectors are for, as long as Poll
\* saw each change of disc before the next.
TocIsCurrent == [][GrabNew /\ Disc # None /\ ~missed => m_toc = Disc]_vars

\* "Protect from being called on OnSectorProgress(), which handles the event
\* loop" (CddaWorker.h:59): the device a running pass reads from is there.
ReaderIsAlive == At("read") => Top.reader = m_cdda.serial

\* What every step preserves.  However many calls the event loop may nest, the
\* stack is at most two deep: a slot yields only inside the lock, and of the
\* others only those run to their end there that never take it.
CallStack(slots, locked) ==
  /\ Len(slots) <= 2
  /\ Len(slots) = 2 => slots[1].pc = "yield" /\ ~InLock(slots[2])
  /\ locked <=> \E i \in DOMAIN slots : InLock(slots[i])

\* Where f goes on, and the audio of a db.
Phase(f)   == IF f.pc = "yield" THEN f.next ELSE f.pc
Audio(sdb) == [i \in DOMAIN sdb.sectors |-> sdb.sectors[i].data]

GrabInv(f, cancelled) ==
  /\ Phase(f) \in {"open", "size", "pass", "loop", "asked", "read", "passed", "save", "done"}
  /\ f.base \in Bases
  /\ f.pc # "done" => f.retry < MaxPasses
  /\ f.asked <=> cancelled
  /\ f.pc = "read" => ~f.asked
  /\ f.pc = "loop" /\ f.asked => f.nRead = 0
  /\ f.pc = "save" => f.nRead > 0

EncodeInv(f, cancelled, sdb) ==
  /\ Phase(f) \in {"encode", "encoded"}
  /\ f.asked <=> cancelled
  /\ Phase(f) = "encoded" =>
       /\ Len(f.image) - Len(sdb.sectors) \in 0..(ChunkFrames - 1)
       /\ \A i \in DOMAIN sdb.sectors : f.image[i] = sdb.sectors[i].data
  /\ Phase(f) = "encode"  => /\ f.lba < Len(sdb.sectors)
                             /\ f.lba = 0 \/ f.lba >= ChunkFrames
                             /\ f.image = SubSeq(Audio(sdb), 1, f.lba)

FrameInv(f, cancelled, sdb) ==
  /\ f.slot = "Grab"   => GrabInv(f, cancelled)
  /\ f.slot = "Encode" => EncodeInv(f, cancelled, sdb)
  /\ f.slot \in {"Poll", "ChangeDevice"} =>
       f.pc \in {"di", "lock", "status", "toc", "query"}

Slots(slots, locked, cancelled, sdb) ==
  /\ slots \in Seq(Frame)
  /\ CallStack(slots, locked)
  /\ \A i \in DOMAIN slots : FrameInv(slots[i], cancelled, sdb)

CallInv == TypeOK /\ Slots(stack, mtx, m_cancelled, m_sdb)

\* A grab that is past its load has a whole file, but for its own Save.
TornInv(f) == f.base \in torn => f.pc \in {"open", "save"}

\* What a grab has read and not saved: nothing between two passes; in a pass
\* one read per sector at most, and none from the place on it has reached.
FileInv(f, sectors, file) ==
  /\ Phase(f) = "size" => file = NoDb
  /\ Phase(f) \notin {"open", "size"} => Len(file.sectors) <= Len(sectors)
  /\ Phase(f) \in {"pass", "done"} =>
       \A i \in DOMAIN sectors : NotSaved(sectors, file.sectors, i) = 0
  /\ Phase(f) \in {"loop", "asked", "read", "passed", "save"} =>
       \A i \in DOMAIN sectors :
         /\ NotSaved(sectors, file.sectors, i) \in {0, 1}
         /\ f.lba < i \/ f.nRead = 0 => NotSaved(sectors, file.sectors, i) = 0

SavedInv ==
  \A k \in DOMAIN stack : stack[k].slot = "Grab" =>
    /\ TornInv(stack[k])
    /\ FileInv(stack[k], m_sdb.sectors, files[stack[k].base])

\* A sector that was read n times and always gave the same audio.
HeardOnly(s, audio, n) ==
  s = IF n = 0 THEN NewSector
      ELSE [data   |-> audio, check |-> CrcOf[audio],
            checks |-> <<[first |-> n, second |-> CrcOf[audio]]>>]

\* How often an undisturbed grab has read sector i-1: each pass reads every
\* sector until all of them are settled, in the same pass.
Reads(f, i) ==
  LET passes == IF \/ Phase(f) \in {"passed", "save"}
                   \/ Phase(f) \in {"loop", "asked", "read"} /\ i <= f.lba
                THEN f.retry + 1 ELSE f.retry
  IN  IF passes < minimumCommonCrcCount THEN passes ELSE minimumCommonCrcCount

\* A grab of a disc that is still there and gives its audio with every read.
StraightInv(f, sectors, disc, size, serial) ==
  /\ Len(sectors) = size
  /\ \A i \in 1..size : HeardOnly(sectors[i], disc, Reads(f, i))
  /\ Phase(f) \in {"loop", "asked", "read", "passed", "save"} =>
       /\ f.reader = serial
       /\ f.retry < minimumCommonCrcCount => f.nRead = f.lba
  /\ Phase(f) \in {"asked", "read"} => f.lba < size /\ f.retry < minimumCommonCrcCount
  /\ Phase(f) \in {"passed", "save"} => size <= f.lba \/ f.retry >= minimumCommonCrcCount
  /\ Phase(f) = "done"   => size = 0 \/ f.retry >= minimumCommonCrcCount

Straight(f) == f.fresh /\ ~f.disturbed /\ ~f.asked

CleanFrame(f, sectors, disc, size, serial) ==
  /\ Phase(f) \in {"open", "size"} => f.retry = 0 /\ ~f.fresh
  /\ Straight(f) => StraightInv(f, sectors, disc, size, serial)

CleanInv ==
  \A k \in DOMAIN stack : stack[k].slot = "Grab" =>
    CleanFrame(stack[k], m_sdb.sectors, Disc, SizeRead, m_cdda.serial)

\* With one device: what m_toc, m_di and the slot that runs know of the disc.
\* Poll forgets the toc of a disc that is gone before another can come unseen.
OneDevice == \E dev \in Devices : Devices = {dev}

TocFrame(f) ==
  /\ f.slot = "Poll" /\ f.pc # "di" =>
       f.di = "Audio" /\ (Disc # None \/ ~noticed)
  /\ f.slot = "ChangeDevice" => m_toc = None
  /\ f.pc \in {"toc", "query"} => m_di = "Audio" /\ (Disc # None \/ ~noticed)
  /\ f.pc = "open" => m_di = "Audio"
  /\ f.pc = "size" => m_toc # None

TocInv ==
  /\ m_cdda.dev = None => m_toc = None /\ m_di = "NoDisc" /\ stack = << >>
  /\ m_toc # None => m_di = "Audio"
  /\ m_di = "Audio" => Disc # None \/ ~noticed
  /\ m_toc # None /\ Disc # None /\ ~missed => m_toc = Disc
  /\ stack # << >> => TocFrame(Top)

IInv == /\ CallInv /\ SavedInv
        /\ Noise = {} => CleanInv
        /\ OneDevice => TocInv

\* Every job comes to its end, whatever the drive and the window do.
JobEnds == (Holders # {}) ~> (Holders = {})
=============================================================================
