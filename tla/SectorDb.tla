------------------------------- MODULE SectorDb -------------------------------
(***************************************************************************)
(* One SectorDb: the audio of a disc, with per sector the votes of all     *)
(* reads so far, its file, and Refine, the pass that reads again what has  *)
(* too few equal reads.  Refine is split where its caller's or the drive's *)
(* part can change what happens next: at every iteration of its loop and   *)
(* around the progress callback.  The process may die at any step.         *)
(*                                                                         *)
(* heard and before are history variables: heard[i][c] counts those reads  *)
(* that the db in memory is made of in which the reader really delivered   *)
(* audio with CRC c for sector i-1 (it is saved, loaded and forgotten with *)
(* the db), and before is the content of the db when the running pass      *)
(* began.                                                                  *)
(***************************************************************************)
EXTENDS SectorStore, FiniteSets

CONSTANTS
  Readers,        \* the discs, images or other dbs that can be read from
  SizeInSectors,  \* how many sectors each of them has
  NoToc,          \* a Toc without tracks
  MinCounts,      \* the values passed for minimumCommonCrcCount
  ProgressEvery,  \* reads between two progress calls (256)
  ReadMayFail,    \* ReadAudio can return an error (a scratched disc)
  MayCrash,       \* the process can die, and files are saved and loaded
  MaxVotes        \* bound: no pass begins once the db has so many votes

ASSUME SectorDbAssumption ==
  /\ Readers # {}
  /\ SizeInSectors \in [Readers -> Nat]
  /\ NoToc \notin Readers
  /\ MinCounts \subseteq Nat
  /\ ProgressEvery \in Nat \ {0}
  /\ ReadMayFail \in BOOLEAN
  /\ MayCrash \in BOOLEAN
  /\ MaxVotes \in Nat

VARIABLES
  m,       \* SectorDb::Data (the hardware info is left out)
  heard,   \* history: the delivered reads that m is made of
  file,    \* the .sdb file
  pc,      \* where the thread is
  frame,   \* the locals of Refine
  before   \* history: m.sectors at the start of the running pass

vars == <<m, heard, file, pc, frame, before>>

Tocs    == Readers \cup {NoToc}
Db      == [toc : Tocs, sectors : Seq(Sector)]
Tally   == [Checks -> Nat]
NoReads == [c \in Checks |-> 0]
InPass  == pc \in {"loop", "progress", "read"}

TypeOK ==
  /\ m \in Db
  /\ heard \in Seq(Tally)
  /\ Len(heard) = Len(m.sectors)
  /\ file \in [state : {"absent", "torn", "whole"}, m : Db, heard : Seq(Tally)]
  /\ Len(file.heard) = Len(file.m.sectors)
  /\ pc \in {"idle", "loop", "progress", "read", "save"}
  /\ frame \in [reader : Readers, minimumCommonCrcCount : Nat, lba : Nat,
                nrRead : Nat, asked : Nat, buf : Data, progress : BOOLEAN]
  /\ before \in Seq(Sector)
  /\ InPass => Len(before) = Len(m.sectors)
  /\ pc \in {"progress", "read"} => frame.lba < Len(m.sectors)

-----------------------------------------------------------------------------
\* Mutated forms, used only to show that the properties depend on the code.

\* The audio lands in the sector after the one it was read from.
Recorded_WrongSector(sectors, lba, audio) ==
  LET i == IF lba + 2 <= Len(sectors) THEN lba + 2 ELSE 1
  IN  [sectors EXCEPT ![i] = AddAudio(@, audio)]

\* The reads since the last call are compared with > instead of >=.
ProgressDue_OneLate(fr) == fr.progress /\ fr.nrRead % (ProgressEvery + 1) = 0

\* The loop runs to size()-1.
AtEnd_OneEarly(fr, sectors) == fr.lba + 1 >= Len(sectors)

\* The vote list is left out of the archive.
Archive_NoVotes(db) ==
  [db EXCEPT !.sectors = [i \in DOMAIN @ |-> [@[i] EXCEPT !.checks = << >>]]]

\* The winner's check is left out of the archive.
Archive_NoCheck(db) ==
  [db EXCEPT !.sectors = [i \in DOMAIN @ |-> [@[i] EXCEPT !.check = NoCheck]]]

-----------------------------------------------------------------------------
\* The locals of a Refine that has not been called.
NoFrame == [reader |-> CHOOSE r \in Readers : TRUE, minimumCommonCrcCount |-> 0,
            lba |-> 0, nrRead |-> 0, asked |-> 0, buf |-> Zeros,
            progress |-> FALSE]

EmptyDb(n, toc) == [toc |-> toc, sectors |-> [i \in 1..n |-> NewSector]]

\* What boost::serialization writes and reads back.
Archive(db) ==
  [toc     |-> db.toc,
   sectors |-> [i \in DOMAIN db.sectors |->
                  [data   |-> db.sectors[i].data,
                   check  |-> db.sectors[i].check,
                   checks |-> db.sectors[i].checks]]]

Init ==
  /\ m = EmptyDb(0, NoToc)
  /\ heard = << >>
  /\ file = [state |-> "absent", m |-> EmptyDb(0, NoToc), heard |-> << >>]
  /\ pc = "idle"
  /\ frame = NoFrame
  /\ before = << >>

-----------------------------------------------------------------------------
\* The API outside Refine.

\* SectorDb(nrSectors, pToc): a new db takes the place of the old one.
New(n, toc) ==
  /\ pc = "idle"
  /\ m' = EmptyDb(n, toc)
  /\ heard' = [i \in 1..n |-> NoReads]
  /\ UNCHANGED <<file, pc, frame, before>>

\* SectorDb(fname).  An absent or torn file makes the archive throw before
\* anything is replaced, so only a whole one changes a state.
Load ==
  /\ MayCrash
  /\ pc = "idle"
  /\ file.state = "whole"
  /\ m' = file.m
  /\ heard' = file.heard
  /\ UNCHANGED <<file, pc, frame, before>>

\* Opening the stream truncates the file; it is whole again when the
\* stream is closed at the end of Save.
SaveBegin ==
  /\ MayCrash
  /\ pc = "idle"
  /\ file' = [file EXCEPT !.state = "torn"]
  /\ pc' = "save"
  /\ UNCHANGED <<m, heard, frame, before>>

SaveEnd ==
  /\ pc = "save"
  /\ file' = [state |-> "whole", m |-> Archive(m), heard |-> heard]
  /\ pc' = "idle"
  /\ UNCHANGED <<m, heard, frame, before>>

\* The stream reports an error: the archive throws, the file stays as it is.
SaveThrows ==
  /\ pc = "save"
  /\ pc' = "idle"
  /\ UNCHANGED <<m, heard, file, frame, before>>

-----------------------------------------------------------------------------
\* Refine.

Recorded(sectors, lba, audio) ==
  [sectors EXCEPT ![lba + 1] = AddAudio(@, audio)]

\* One more read of sector lba in the history.
Heard(lba, audio) ==
  [heard EXCEPT ![lba + 1][CrcOf[audio]] = @ + 1]

Within(bound) ==
  FoldFunction(LAMBDA s, acc : sum(s.checks) + acc, 0, m.sectors) < bound

\* m.toc after the prologue: it is read only when there is none.
TocAfter(reader) == IF m.toc = NoToc THEN reader ELSE m.toc

\* The prologue.  buf is not initialised: it holds anything.
RefineStart(reader, min, progress, buf) ==
  /\ pc = "idle"
  /\ Within(MaxVotes)
  /\ LET nrSectors == IF Len(m.sectors) < SizeInSectors[reader]
                      THEN SizeInSectors[reader] ELSE Len(m.sectors)
         resized   == Resized(m.sectors, nrSectors, NewSector)
     IN  /\ m' = [toc |-> TocAfter(reader), sectors |-> resized]
         /\ heard' = [i \in 1..nrSectors |->
                        IF i <= Len(heard) THEN heard[i] ELSE NoReads]
         /\ before' = resized
  /\ frame' = [NoFrame EXCEPT !.reader = reader, !.minimumCommonCrcCount = min,
                              !.progress = progress, !.buf = buf]
  /\ pc' = "loop"
  /\ UNCHANGED file

\* GetToc or, with the toc already assigned, GetHardwareInfo throws.
RefineThrows(reader) ==
  /\ pc = "idle"
  /\ ReadMayFail
  /\ m' = [m EXCEPT !.toc = TocAfter(reader)]
  /\ UNCHANGED <<heard, file, pc, frame, before>>

AtEnd(fr, sectors) == fr.lba >= Len(sectors)

Settled(fr, sectors) ==
  IsSettled(sectors[fr.lba + 1], fr.minimumCommonCrcCount)

ProgressDue(fr) == fr.progress /\ fr.nrRead % ProgressEvery = 0

\* Mutated form of RefineSkip: continue without the loop's increment.
RefineSkip_Stays ==
  /\ pc = "loop"
  /\ ~AtEnd(frame, m.sectors)
  /\ Settled(frame, m.sectors)
  /\ UNCHANGED vars

RefineSkip ==
  /\ pc = "loop"
  /\ ~AtEnd(frame, m.sectors)
  /\ Settled(frame, m.sectors)
  /\ frame' = [frame EXCEPT !.lba = @ + 1]
  /\ UNCHANGED <<m, heard, file, pc, before>>

\* The sector has to be read: with or without asking progress first.
RefineVisit ==
  /\ pc = "loop"
  /\ ~AtEnd(frame, m.sectors)
  /\ ~Settled(frame, m.sectors)
  /\ pc' = IF ProgressDue(frame) THEN "progress" ELSE "read"
  /\ UNCHANGED <<m, heard, file, frame, before>>

ProgressContinue ==
  /\ pc = "progress"
  /\ frame' = [frame EXCEPT !.asked = frame.nrRead]
  /\ pc' = "read"
  /\ UNCHANGED <<m, heard, file, before>>

\* OnSectorProgress returned false: the loop breaks, nrRead is returned.
ProgressCancel ==
  /\ pc = "progress"
  /\ frame' = NoFrame
  /\ before' = << >>
  /\ pc' = "idle"
  /\ UNCHANGED <<m, heard, file>>

AfterRead(fr, audio) ==
  [fr EXCEPT !.lba = @ + 1, !.nrRead = @ + 1, !.buf = audio]

\* ReadAudio fills buf and AddAudio votes for it.
RefineRead(audio) ==
  /\ pc = "read"
  /\ m' = [m EXCEPT !.sectors = Recorded(@, frame.lba, audio)]
  /\ heard' = Heard(frame.lba, audio)
  /\ frame' = AfterRead(frame, audio)
  /\ pc' = "loop"
  /\ UNCHANGED <<file, before>>

\* ReadAudio returns an error.  Refine does not look at the result: what buf
\* held before is recorded for this sector.
RefineReadFails ==
  /\ pc = "read"
  /\ ReadMayFail
  /\ m' = [m EXCEPT !.sectors = Recorded(@, frame.lba, frame.buf)]
  /\ frame' = AfterRead(frame, frame.buf)
  /\ pc' = "loop"
  /\ UNCHANGED <<heard, file, before>>

\* The last progress call's answer is ignored.
RefineEnd ==
  /\ pc = "loop"
  /\ AtEnd(frame, m.sectors)
  /\ frame' = NoFrame
  /\ before' = << >>
  /\ pc' = "idle"
  /\ UNCHANGED <<m, heard, file>>

-----------------------------------------------------------------------------
\* The process dies; the next one starts with a default constructed SectorDb.
Crash ==
  /\ MayCrash
  /\ m' = EmptyDb(0, NoToc)
  /\ heard' = << >>
  /\ pc' = "idle"
  /\ frame' = NoFrame
  /\ before' = << >>
  /\ UNCHANGED file

RefineStep ==
  \/ RefineSkip
  \/ RefineVisit
  \/ ProgressContinue
  \/ ProgressCancel
  \/ \E audio \in Data : RefineRead(audio)
  \/ RefineReadFails
  \/ RefineEnd

Next ==
  \/ \E reader \in Readers :
        \/ \E toc \in Tocs : New(SizeInSectors[reader], toc)
        \/ \E min \in MinCounts, progress \in BOOLEAN, buf \in Data :
              RefineStart(reader, min, progress, buf)
        \/ RefineThrows(reader)
  \/ Load
  \/ SaveBegin
  \/ SaveEnd
  \/ SaveThrows
  \/ RefineStep
  \/ Crash

Spec == Init /\ [][Next]_vars

\* A pass that has begun is executed to its end by its thread; the reader
\* and the progress callback return (the calls are synchronous).
FairSpec == Spec /\ WF_vars(RefineStep)

-----------------------------------------------------------------------------
(***************************************************************************)
(* Properties.                                                             *)
(***************************************************************************)

\* SectorInv everywhere, torn files included.
StoreInv ==
  /\ TypeOK
  /\ \A i \in DOMAIN m.sectors : SectorInv(m.sectors[i])
  /\ \A i \in DOMAIN file.m.sectors : SectorInv(file.m.sectors[i])

\* No sector has fewer votes than reads; a torn file is included, because the
\* save that tore it may still be completed.
AllHeard(reads, sectors) ==
  \A i \in DOMAIN sectors : \A c \in Checks : reads[i][c] <= Votes(sectors[i], c)

HeardInv == AllHeard(heard, m.sectors) /\ AllHeard(file.heard, file.m.sectors)

\* The sectors the running pass has to read, and those it has read.
Due(i) == MostCommonCount(before[i].checks) < frame.minimumCommonCrcCount
Done   == {i \in 1..frame.lba : Due(i)}

\* Where a pass is: behind it the sectors that were due have one vote more,
\* everything else is as it was; it reads, or asks before it reads, a sector
\* that is due; it asked at a multiple of ProgressEvery.
PassInv ==
  InPass =>
    /\ frame.lba <= Len(m.sectors)
    /\ frame.nrRead = Cardinality(Done)
    /\ \A i \in DOMAIN m.sectors :
         IF i \in Done THEN sum(m.sectors[i].checks) = sum(before[i].checks) + 1
         ELSE m.sectors[i] = before[i]
    /\ pc # "loop" => Due(frame.lba + 1)
    /\ pc = "progress" => frame.nrRead % ProgressEvery = 0
    /\ frame.asked % ProgressEvery = 0
    /\ frame.asked <= frame.nrRead
    /\ frame.progress =>
         /\ frame.nrRead <= frame.asked + ProgressEvery
         /\ pc = "read" => frame.nrRead < frame.asked + ProgressEvery

\* The inductive invariant.
IInv == StoreInv /\ HeardInv /\ PassInv

\* In memory as well as in a whole file the kept audio of every sector that
\* was ever read is audio of its most common CRC, at every step of a pass.
\* (AddAudio copies the audio it was just given: it must be the winner's.)
KeepsMostCommon ==
  /\ \A i \in DOMAIN m.sectors : Plurality(m.sectors[i])
  /\ file.state = "whole" =>
        \A i \in DOMAIN file.m.sectors : Plurality(file.m.sectors[i])

\* The abstract store this one implements: votes and kept contents, in memory
\* and, as long as the file is whole, on disk.
TallyOf(sectors) == [i \in DOMAIN sectors |-> [c \in Checks |-> Votes(sectors[i], c)]]
KeptOf(sectors)  == [i \in DOMAIN sectors |-> sectors[i].data]

Store == INSTANCE VoteStore WITH
  tally <- TallyOf(m.sectors),
  kept  <- KeptOf(m.sectors),
  disk  <- IF file.state # "whole" THEN [whole |-> FALSE, tally |-> << >>, kept |-> << >>]
           ELSE [whole |-> TRUE, tally |-> TallyOf(file.m.sectors),
                 kept |-> KeptOf(file.m.sectors)]

\* Lists searched from the front, a maximum that may be shared, bytes copied on
\* a test of the state before, reads that fail, files that tear: every step is
\* one vote for one sector whose winner is kept, a new or a larger store, or a
\* copy of all of it to or from the file.
IsVoteStore == Store!Spec

\* The votes of a sector are exactly the reads of that sector: none lost,
\* none counted twice, none for a neighbour.  The code breaks it when
\* ReadAudio fails, see RefineReadFails.
VotesAreReads ==
  \A i \in DOMAIN m.sectors : \A c \in Checks :
     Votes(m.sectors[i], c) = heard[i][c]

\* "re-reads sectors [until] the same data has been seen twice" (README.md:10):
\* a sector that passes for settled was delivered twice with the kept CRC.
\* Violated: the content of buf after a failed read counts as a read.
SettledIsConfirmed ==
  \A i \in DOMAIN m.sectors :
     IsSettled(m.sectors[i], 2) => heard[i][m.sectors[i].check] >= 2

\* Up to the loop's position a pass has read each sector that was not
\* settled when it began once, and no other; nrRead counts these reads.
OneReadPerPass ==
  InPass =>
    /\ \A i \in DOMAIN m.sectors :
         sum(m.sectors[i].checks)
           = sum(before[i].checks) + (IF i \in Done THEN 1 ELSE 0)
    /\ frame.nrRead = Cardinality(Done)

\* Between two questions whether to go on at most ProgressEvery sectors are
\* read, however many settled sectors lie between them.
CancelLatency ==
  InPass /\ frame.progress =>
    /\ frame.nrRead - frame.asked <= ProgressEvery
    /\ pc = "read" => frame.nrRead - frame.asked < ProgressEvery

\* A pass that ends by itself and returns 0 leaves no sector below the
\* minimum: callers loop until they see 0.
ZeroMeansSettled ==
  [][RefineEnd /\ frame.nrRead = 0 =>
       \A i \in DOMAIN m'.sectors :
          MostCommonCount(m'.sectors[i].checks) >= frame.minimumCommonCrcCount]_vars

\* A pass always comes back to its caller.
RefineTerminates == (pc \in {"loop", "progress", "read"}) ~> (pc = "idle")
=============================================================================
