---------------------------- MODULE SectorDbProofs ----------------------------
(***************************************************************************)
(* Proofs about SectorDb for any number of sectors, contents, CRCs, passes *)
(* and votes: one sector and its votes; StoreInv; HeardInv; PassInv; the   *)
(* theorems; that SectorDb implements VoteStore; of Grabber::Grab, that it *)
(* uses SectorDb so, and settles its disc; and why its passes, and the     *)
(* reads of its processes, come to an end.                                 *)
(***************************************************************************)
EXTENDS Grabber, SectorStoreProofs

-----------------------------------------------------------------------------
(***************************************************************************)
(* Whole dbs.                                                              *)
(***************************************************************************)

DbInv(db) == db \in Db /\ SectorsInv(db.sectors)

LEMMA DbType ==
  ASSUME NEW db \in Db
  PROVE  db.toc \in Tocs /\ db.sectors \in Seq(Sector)
BY DEF Db

LEMMA EmptyDbInv ==
  ASSUME NEW n \in Nat, NEW toc \in Tocs
  PROVE  DbInv(EmptyDb(n, toc)) /\ Len(EmptyDb(n, toc).sectors) = n
<1> DEFINE sectors == [i \in 1..n |-> NewSector]
<1>1. EmptyDb(n, toc) = [toc |-> toc, sectors |-> sectors]
  BY DEF EmptyDb
<1>2. sectors \in Seq(Sector) /\ Len(sectors) = n /\ DOMAIN sectors = 1..n
  BY NewSectorInv
<1>3. SectorsInv(sectors)
  BY <1>2, NewSectorInv DEF SectorsInv
<1> QED BY <1>1, <1>2, <1>3 DEF DbInv, Db

LEMMA RecordedInv ==
  ASSUME NEW sectors, SectorsInv(sectors), NEW lba \in Nat, lba < Len(sectors),
         NEW audio \in Data
  PROVE  /\ SectorsInv(Recorded(sectors, lba, audio))
         /\ Len(Recorded(sectors, lba, audio)) = Len(sectors)
<1> DEFINE new == Recorded(sectors, lba, audio)
<1>1. /\ sectors \in Seq(Sector)
      /\ \A i \in DOMAIN sectors : SectorInv(sectors[i])
  BY DEF SectorsInv
<1>2. lba + 1 \in DOMAIN sectors /\ sectors[lba + 1] \in Sector
  BY <1>1
<1>3. /\ AddAudio(sectors[lba + 1], audio) \in Sector
      /\ SectorInv(AddAudio(sectors[lba + 1], audio))
  BY <1>1, <1>2, AddAudioSectorInv
<1>4. new = [sectors EXCEPT ![lba + 1] = AddAudio(sectors[lba + 1], audio)]
  BY DEF Recorded
<1>5. new \in Seq(Sector) /\ Len(new) = Len(sectors) /\ DOMAIN new = DOMAIN sectors
  BY <1>1, <1>2, <1>3, <1>4
<1>6. \A i \in DOMAIN new : SectorInv(new[i])
  BY <1>1, <1>3, <1>4, <1>5
<1> QED BY <1>5, <1>6 DEF SectorsInv

\* What is written to the file is what is read back.
LEMMA ArchiveIsDb ==
  ASSUME NEW db \in Db
  PROVE  Archive(db) = db
<1>1. db = [toc |-> db.toc, sectors |-> db.sectors]
  BY DEF Db
<1>2. ASSUME NEW i \in DOMAIN db.sectors
      PROVE  [data   |-> db.sectors[i].data,
              check  |-> db.sectors[i].check,
              checks |-> db.sectors[i].checks] = db.sectors[i]
  <2>1. db.sectors[i] \in Sector
    BY DbType
  <2> QED BY <2>1 DEF Sector
<1>3. db.sectors = [i \in DOMAIN db.sectors |-> db.sectors[i]]
  BY DbType
<1> QED BY <1>1, <1>2, <1>3 DEF Archive

-----------------------------------------------------------------------------
(***************************************************************************)
(* The inductive invariant, cut into the parts an action can disturb.      *)
(***************************************************************************)

Frames == [reader : Readers, minimumCommonCrcCount : Nat, lba : Nat,
           nrRead : Nat, asked : Nat, buf : Data, progress : BOOLEAN]
Files  == [state : {"absent", "torn", "whole"}, m : Db, heard : Seq(Tally)]

MemInv   == DbInv(m) /\ heard \in Seq(Tally) /\ Len(heard) = Len(m.sectors)
FileInv  == /\ file \in Files
            /\ Len(file.heard) = Len(file.m.sectors)
            /\ SectorsInv(file.m.sectors)
FrameInv == /\ pc \in {"idle", "loop", "progress", "read", "save"}
            /\ frame \in Frames
            /\ before \in Seq(Sector)
            /\ InPass => Len(before) = Len(m.sectors)
            /\ pc \in {"progress", "read"} => frame.lba < Len(m.sectors)

LEMMA StoreParts == StoreInv => MemInv /\ FileInv /\ FrameInv
<1>1. m \in Db => m.sectors \in Seq(Sector)
  BY DbType
<1>2. file \in Files => file.m \in Db /\ file.m.sectors \in Seq(Sector)
  BY DbType DEF Files
<1> QED BY <1>1, <1>2
        DEF StoreInv, TypeOK, MemInv, FileInv, FrameInv, DbInv, SectorsInv, Frames, Files

LEMMA PartsStore == ASSUME MemInv, FileInv, FrameInv PROVE StoreInv
BY DEF StoreInv, TypeOK, MemInv, FileInv, FrameInv, DbInv, SectorsInv, Frames, Files

LEMMA NoFrameType == NoFrame \in Frames
<1>1. (CHOOSE r \in Readers : TRUE) \in Readers
  BY SectorDbAssumption
<1> QED BY <1>1, StoreAssumption DEF NoFrame, Frames

LEMMA NoReadsType == NoReads \in Tally
BY DEF NoReads, Tally

LEMMA HeardType ==
  ASSUME MemInv, NEW lba \in Nat, lba < Len(m.sectors), NEW audio \in Data
  PROVE  Heard(lba, audio) \in Seq(Tally) /\ Len(Heard(lba, audio)) = Len(heard)
<1>1. heard \in Seq(Tally) /\ lba + 1 \in DOMAIN heard
  BY DEF MemInv
<1>2. heard[lba + 1] \in [Checks -> Nat] /\ CrcOf[audio] \in Checks
  BY <1>1, StoreAssumption DEF Tally
<1> DEFINE more == [heard[lba + 1] EXCEPT ![CrcOf[audio]] = @ + 1]
<1>3. more \in Tally
  BY <1>2 DEF Tally
<1>4. Heard(lba, audio) = [heard EXCEPT ![lba + 1] = more]
  BY DEF Heard
<1> HIDE DEF more
<1> QED BY <1>1, <1>3, <1>4

LEMMA AfterReadType ==
  ASSUME NEW fr \in Frames, NEW audio \in Data
  PROVE  AfterRead(fr, audio) \in Frames
<1>1. fr.lba + 1 \in Nat /\ fr.nrRead + 1 \in Nat
  BY DEF Frames
<1> QED BY <1>1 DEF AfterRead, Frames

LEMMA TocAfterType ==
  ASSUME NEW reader \in Readers, m \in Db
  PROVE  TocAfter(reader) \in Tocs
BY DbType DEF TocAfter, Tocs

LEMMA InitStoreInv == Init => StoreInv
<1> SUFFICES ASSUME Init PROVE MemInv /\ FileInv /\ FrameInv
  BY PartsStore
<1>1. DbInv(EmptyDb(0, NoToc)) /\ Len(EmptyDb(0, NoToc).sectors) = 0
  BY EmptyDbInv DEF Tocs
<1>2. << >> \in Seq(Tally) /\ Len(<< >>) = 0 /\ << >> \in Seq(Sector)
  OBVIOUS
<1>3. MemInv
  BY <1>1, <1>2 DEF Init, MemInv
<1>4. FileInv
  BY <1>1, <1>2 DEF Init, FileInv, Files, DbInv
<1>5. FrameInv
  BY <1>2, NoFrameType DEF Init, FrameInv, InPass
<1> QED BY <1>3, <1>4, <1>5

\* A read, delivered or failed: audio is what buf holds when it is recorded.
LEMMA RecordedStep ==
  ASSUME MemInv, FrameInv, pc = "read", NEW audio \in Data,
         m' = [m EXCEPT !.sectors = Recorded(@, frame.lba, audio)],
         heard' \in {heard, Heard(frame.lba, audio)},
         frame' = AfterRead(frame, audio), pc' = "loop", before' = before
  PROVE  MemInv' /\ FrameInv'
<1>1. /\ frame \in Frames
      /\ frame.lba \in Nat
      /\ frame.lba < Len(m.sectors)
      /\ before \in Seq(Sector)
      /\ Len(before) = Len(m.sectors)
  BY DEF FrameInv, Frames, InPass
<1>2. /\ SectorsInv(m.sectors)
      /\ m \in Db
      /\ heard \in Seq(Tally)
      /\ Len(heard) = Len(m.sectors)
  BY DEF MemInv, DbInv
<1>3. /\ SectorsInv(Recorded(m.sectors, frame.lba, audio))
      /\ Len(Recorded(m.sectors, frame.lba, audio)) = Len(m.sectors)
  BY <1>1, <1>2, RecordedInv
<1>4. /\ m'.sectors = Recorded(m.sectors, frame.lba, audio)
      /\ m'.toc = m.toc
      /\ m' \in Db
  BY <1>2, <1>3 DEF Db, SectorsInv
<1>5. heard' \in Seq(Tally) /\ Len(heard') = Len(heard)
  BY <1>1, <1>2, HeardType
<1>6. AfterRead(frame, audio) \in Frames
  BY <1>1, AfterReadType
<1>7. MemInv'
  BY <1>2, <1>3, <1>4, <1>5 DEF MemInv, DbInv
<1>8. FrameInv'
  BY <1>1, <1>3, <1>4, <1>6 DEF FrameInv, InPass
<1> QED BY <1>7, <1>8

LEMMA NextParts ==
  ASSUME MemInv, FileInv, FrameInv, [Next]_vars
  PROVE  MemInv' /\ FileInv' /\ FrameInv'
<1>a. /\ m \in Db /\ SectorsInv(m.sectors) /\ m.sectors \in Seq(Sector)
      /\ heard \in Seq(Tally)
      /\ Len(heard) = Len(m.sectors)
  BY DEF MemInv, DbInv, SectorsInv
<1>b. /\ frame \in Frames
      /\ frame.lba \in Nat
      /\ before \in Seq(Sector)
      /\ InPass => Len(before) = Len(m.sectors)
  BY DEF FrameInv, Frames
<1>c. /\ file \in Files
      /\ file.m \in Db /\ SectorsInv(file.m.sectors)
      /\ file.heard \in Seq(Tally)
      /\ Len(file.heard) = Len(file.m.sectors)
  BY DEF FileInv, Files
<1>d. << >> \in Seq(Tally) /\ Len(<< >>) = 0 /\ << >> \in Seq(Sector)
  OBVIOUS
<1>1. ASSUME NEW n \in Nat, NEW toc \in Tocs, New(n, toc)
      PROVE  MemInv' /\ FileInv' /\ FrameInv'
  <2>1. DbInv(EmptyDb(n, toc)) /\ Len(EmptyDb(n, toc).sectors) = n
    BY EmptyDbInv
  <2>2. /\ [i \in 1..n |-> NoReads] \in Seq(Tally)
        /\ Len([i \in 1..n |-> NoReads]) = n
    BY NoReadsType
  <2>3. MemInv'
    BY <1>1, <2>1, <2>2 DEF New, MemInv
  <2>4. FileInv'
    BY <1>1 DEF New, FileInv
  <2>5. FrameInv'
    BY <1>1 DEF New, FrameInv, InPass
  <2> QED BY <2>3, <2>4, <2>5
<1>2. CASE Load
  <2>1. MemInv'
    BY <1>2, <1>c DEF Load, MemInv, DbInv
  <2>2. FileInv' /\ FrameInv'
    BY <1>2 DEF Load, FileInv, FrameInv, InPass
  <2> QED BY <2>1, <2>2
<1>3. CASE SaveBegin
  <2>1. FileInv'
    BY <1>3, <1>c DEF SaveBegin, FileInv, Files
  <2>2. MemInv' /\ FrameInv'
    BY <1>3 DEF SaveBegin, MemInv, FrameInv, InPass
  <2> QED BY <2>1, <2>2
<1>4. CASE SaveEnd
  <2>1. file' = [state |-> "whole", m |-> m, heard |-> heard]
    BY <1>4, <1>a, ArchiveIsDb DEF SaveEnd
  <2>2. FileInv'
    BY <1>a, <2>1 DEF FileInv, Files
  <2>3. MemInv' /\ FrameInv'
    BY <1>4 DEF SaveEnd, MemInv, FrameInv, InPass
  <2> QED BY <2>2, <2>3
<1>5. ASSUME NEW reader \in Readers, NEW min \in MinCounts,
             NEW progress \in BOOLEAN, NEW buf \in Data,
             RefineStart(reader, min, progress, buf)
      PROVE  MemInv' /\ FileInv' /\ FrameInv'
  <2> DEFINE n == IF Len(m.sectors) < SizeInSectors[reader]
                  THEN SizeInSectors[reader] ELSE Len(m.sectors)
             resized == Resized(m.sectors, n, NewSector)
             kept == [i \in 1..n |-> IF i <= Len(heard) THEN heard[i] ELSE NoReads]
  <2>1. n \in Nat
    BY <1>a, SectorDbAssumption
  <2>2. /\ m' = [toc |-> TocAfter(reader), sectors |-> resized]
        /\ heard' = kept
        /\ before' = resized
        /\ frame' = [NoFrame EXCEPT !.reader = reader,
                        !.minimumCommonCrcCount = min,
                        !.progress = progress, !.buf = buf]
        /\ pc' = "loop"
        /\ file' = file
    BY <1>5 DEF RefineStart
  <2> HIDE DEF n
  <2>3. SectorsInv(resized) /\ Len(resized) = n
    BY <1>a, <2>1, ResizedInv
  <2>4. kept \in Seq(Tally) /\ Len(kept) = n
    BY <1>a, <2>1, NoReadsType
  <2>5. TocAfter(reader) \in Tocs
    BY <1>a, TocAfterType
  <2>6. MemInv'
    BY <2>2, <2>3, <2>4, <2>5 DEF MemInv, DbInv, Db, SectorsInv
  <2>7. frame' \in Frames
    BY <2>2, NoFrameType, SectorDbAssumption DEF Frames
  <2>8. FrameInv'
    BY <2>2, <2>3, <2>7 DEF FrameInv, InPass, SectorsInv
  <2> QED BY <2>2, <2>6, <2>8 DEF FileInv
<1>6. ASSUME NEW reader \in Readers, RefineThrows(reader)
      PROVE  MemInv' /\ FileInv' /\ FrameInv'
  <2>1. m' \in Db /\ m'.sectors = m.sectors
    BY <1>6, <1>a, TocAfterType DEF RefineThrows, Db
  <2>2. MemInv'
    BY <1>6, <1>a, <2>1 DEF RefineThrows, MemInv, DbInv
  <2>3. FileInv' /\ FrameInv'
    BY <1>6, <2>1 DEF RefineThrows, FileInv, FrameInv, InPass
  <2> QED BY <2>2, <2>3
<1>7. CASE RefineSkip
  <2>1. frame' \in Frames
    BY <1>7, <1>b DEF RefineSkip, Frames
  <2>2. FrameInv'
    BY <1>7, <2>1, <1>b DEF RefineSkip, FrameInv, InPass
  <2> QED BY <1>7, <2>2 DEF RefineSkip, MemInv, FileInv
<1>8. CASE RefineVisit
  <2>1. frame.lba < Len(m.sectors)
    BY <1>8, <1>a, <1>b DEF RefineVisit, AtEnd
  <2>2. FrameInv'
    BY <1>8, <2>1, <1>b DEF RefineVisit, FrameInv, InPass
  <2> QED BY <1>8, <2>2 DEF RefineVisit, MemInv, FileInv
<1>9. CASE ProgressContinue
  <2>1. frame' \in Frames /\ frame'.lba = frame.lba
    BY <1>9, <1>b DEF ProgressContinue, Frames
  <2>2. FrameInv'
    BY <1>9, <2>1 DEF ProgressContinue, FrameInv, InPass
  <2> QED BY <1>9, <2>2 DEF ProgressContinue, MemInv, FileInv
<1>10. CASE ProgressCancel
  <2>1. FrameInv'
    BY <1>10, <1>d, NoFrameType DEF ProgressCancel, FrameInv, InPass
  <2> QED BY <1>10, <2>1 DEF ProgressCancel, MemInv, FileInv
<1>11. ASSUME NEW audio \in Data, RefineRead(audio)
       PROVE  MemInv' /\ FileInv' /\ FrameInv'
  <2>1. FileInv'
    BY <1>11 DEF RefineRead, FileInv
  <2> QED BY <1>11, <2>1, RecordedStep DEF RefineRead
<1>12. CASE RefineReadFails
  <2>1. FileInv'
    BY <1>12 DEF RefineReadFails, FileInv
  <2>2. frame.buf \in Data
    BY <1>b DEF Frames
  <2> QED BY <1>12, <2>1, <2>2, RecordedStep DEF RefineReadFails
<1>13. CASE RefineEnd
  <2>1. FrameInv'
    BY <1>13, <1>d, NoFrameType DEF RefineEnd, FrameInv, InPass
  <2> QED BY <1>13, <2>1 DEF RefineEnd, MemInv, FileInv
<1>14. CASE Crash
  <2>1. DbInv(EmptyDb(0, NoToc)) /\ Len(EmptyDb(0, NoToc).sectors) = 0
    BY EmptyDbInv DEF Tocs
  <2>2. MemInv'
    BY <1>14, <1>d, <2>1 DEF Crash, MemInv
  <2>3. FrameInv'
    BY <1>14, <1>d, NoFrameType DEF Crash, FrameInv, InPass
  <2> QED BY <1>14, <2>2, <2>3 DEF Crash, FileInv
<1>15. CASE UNCHANGED vars
  BY <1>15 DEF vars, MemInv, FileInv, FrameInv, InPass
<1>16. CASE SaveThrows
  BY <1>16 DEF SaveThrows, MemInv, FileInv, FrameInv, InPass
<1>17. \A reader \in Readers : SizeInSectors[reader] \in Nat
  BY SectorDbAssumption
<1> QED
  BY <1>1, <1>2, <1>3, <1>4, <1>5, <1>6, <1>7, <1>8, <1>9, <1>10, <1>11, <1>12,
     <1>13, <1>14, <1>15, <1>16, <1>17 DEF Next, RefineStep

LEMMA NextStoreInv == StoreInv /\ [Next]_vars => StoreInv'
<1> SUFFICES ASSUME StoreInv, [Next]_vars PROVE StoreInv'
  OBVIOUS
<1>1. MemInv' /\ FileInv' /\ FrameInv'
  BY StoreParts, NextParts
<1> QED
  BY <1>1 DEF StoreInv, TypeOK, MemInv, FileInv, FrameInv, DbInv, SectorsInv, Frames, Files
-----------------------------------------------------------------------------
(***************************************************************************)
(* Votes and reads.  Extra(.., E) says that the votes of every sector      *)
(* exceed its reads by an element of E: any number where reads may fail,   *)
(* zero where they may not.                                                *)
(***************************************************************************)

Extra(reads, sectors, E) ==
  \A i \in DOMAIN sectors : \A c \in Checks : Votes(sectors[i], c) - reads[i][c] \in E

LEMMA ExtraNew ==
  ASSUME NEW n \in Nat, NEW E, 0 \in E
  PROVE  Extra([i \in 1..n |-> NoReads], [i \in 1..n |-> NewSector], E)
<1>1. \A c \in Checks : Votes(NewSector, c) = 0 /\ NoReads[c] = 0
  BY NewSectorInv, VotesOfNone DEF NewSector, NoReads
<1> QED BY <1>1 DEF Extra

LEMMA ExtraResized ==
  ASSUME NEW reads, NEW sectors \in Seq(Sector), Len(reads) = Len(sectors),
         NEW E, 0 \in E, Extra(reads, sectors, E), NEW n \in Nat
  PROVE  Extra([i \in 1..n |-> IF i <= Len(reads) THEN reads[i] ELSE NoReads],
               Resized(sectors, n, NewSector), E)
<1>1. \A c \in Checks : Votes(NewSector, c) = 0 /\ NoReads[c] = 0
  BY NewSectorInv, VotesOfNone DEF NewSector, NoReads
<1>2. ASSUME NEW i \in 1..n, NEW c \in Checks
      PROVE  Votes(IF i <= Len(sectors) THEN sectors[i] ELSE NewSector, c)
               - (IF i <= Len(reads) THEN reads[i] ELSE NoReads)[c] \in E
  <2>1. CASE i <= Len(sectors)
    <3>1. i \in DOMAIN sectors
      BY <2>1
    <3> QED BY <2>1, <3>1 DEF Extra
  <2>2. CASE ~(i <= Len(sectors))
    BY <1>1, <2>2
  <2> QED BY <2>1, <2>2
<1> QED BY <1>2 DEF Extra, Resized

\* A recorded read.  Delivered, it is one read and one vote; failed, it is a
\* vote only.
LEMMA ExtraRecorded ==
  ASSUME MemInv, NEW lba \in Nat, lba < Len(m.sectors), NEW audio \in Data,
         NEW E \in SUBSET Nat, Extra(heard, m.sectors, E)
  PROVE  /\ Extra(Heard(lba, audio), Recorded(m.sectors, lba, audio), E)
         /\ (\A k \in E : k + 1 \in E) =>
              Extra(heard, Recorded(m.sectors, lba, audio), E)
<1> DEFINE ss == m.sectors
           v == CrcOf[audio]
           new == Recorded(ss, lba, audio)
           more == Heard(lba, audio)
<1>1. /\ ss \in Seq(Sector) /\ DOMAIN ss = 1..Len(ss)
      /\ \A i \in DOMAIN ss : ss[i] \in Sector /\ SectorInv(ss[i])
      /\ lba + 1 \in DOMAIN ss
      /\ heard \in Seq(Tally) /\ DOMAIN heard = DOMAIN ss
      /\ v \in Checks
  BY StoreAssumption DEF MemInv, DbInv, SectorsInv
<1>2. DOMAIN new = DOMAIN ss /\ \A i \in DOMAIN ss :
        new[i] = IF i = lba + 1 THEN AddAudio(ss[i], audio) ELSE ss[i]
  BY <1>1 DEF Recorded
<1>3. \A i \in DOMAIN heard : heard[i] \in [Checks -> Nat]
  BY <1>1 DEF Tally
<1>4. \A i \in DOMAIN ss : \A c \in Checks :
        more[i][c] = heard[i][c] + (IF i = lba + 1 /\ c = v THEN 1 ELSE 0)
  BY <1>1, <1>3 DEF Heard
<1> HIDE DEF ss, v, new, more
<1>5. ASSUME NEW i \in DOMAIN ss, NEW c \in Checks
      PROVE  /\ Votes(ss[i], c) \in Nat /\ heard[i][c] \in Nat
             /\ Votes(ss[i], c) - heard[i][c] \in E
             /\ Votes(new[i], c)
                  = Votes(ss[i], c) + (IF i = lba + 1 /\ c = v THEN 1 ELSE 0)
  <2>1. Votes(ss[i], c) \in Nat /\ heard[i][c] \in Nat
    BY <1>1, <1>3, VotesType
  <2>2. Votes(ss[i], c) - heard[i][c] \in E
    BY DEF Extra, ss
  <2>3. Votes(new[i], c)
          = Votes(ss[i], c) + (IF i = lba + 1 /\ c = v THEN 1 ELSE 0)
    <3>1. CASE i = lba + 1
      BY <1>1, <1>2, <3>1, AddAudioIsVote DEF v
    <3>2. CASE i # lba + 1
      BY <1>2, <2>1, <3>2
    <3> QED BY <3>1, <3>2
  <2> QED BY <2>1, <2>2, <2>3
<1>6. Extra(more, new, E)
  <2>1. ASSUME NEW i \in DOMAIN new, NEW c \in Checks
        PROVE  Votes(new[i], c) - more[i][c] \in E
    <3>1. Votes(new[i], c) - more[i][c] = Votes(ss[i], c) - heard[i][c]
      <4>1. CASE i = lba + 1 /\ c = v
        BY <1>2, <1>4, <1>5, <4>1
      <4>2. CASE ~(i = lba + 1 /\ c = v)
        BY <1>2, <1>4, <1>5, <4>2
      <4> QED BY <4>1, <4>2
    <3> QED BY <1>2, <1>5, <3>1
  <2> QED BY <2>1 DEF Extra
<1>7. ASSUME \A k \in E : k + 1 \in E
      PROVE  Extra(heard, new, E)
  <2>1. ASSUME NEW i \in DOMAIN new, NEW c \in Checks
        PROVE  Votes(new[i], c) - heard[i][c] \in E
    <3> DEFINE k == Votes(ss[i], c) - heard[i][c]
    <3>1. k \in E /\ k + 1 \in E
      BY <1>2, <1>5, <1>7
    <3>2. Votes(new[i], c) - heard[i][c] \in {k, k + 1}
      BY <1>2, <1>5
    <3> QED BY <3>1, <3>2
  <2> QED BY <2>1 DEF Extra
<1> QED BY <1>6, <1>7 DEF new, more, ss

LEMMA InitExtra ==
  ASSUME Init, NEW E, 0 \in E
  PROVE  Extra(heard, m.sectors, E) /\ Extra(file.heard, file.m.sectors, E)
<1>1. m.sectors = << >> /\ file.m.sectors = << >>
  BY DEF Init, EmptyDb
<1> QED BY <1>1 DEF Extra

LEMMA NextExtra ==
  ASSUME StoreInv, [Next]_vars, NEW E \in SUBSET Nat, 0 \in E,
         ReadMayFail => \A k \in E : k + 1 \in E,
         Extra(heard, m.sectors, E), Extra(file.heard, file.m.sectors, E)
  PROVE  /\ Extra(heard', m'.sectors, E)
         /\ Extra(file'.heard, file'.m.sectors, E)
<1>a. MemInv /\ FileInv /\ FrameInv
  BY StoreParts
<1>b. /\ m \in Db /\ m.sectors \in Seq(Sector) /\ Len(m.sectors) \in Nat
      /\ Len(heard) = Len(m.sectors)
      /\ frame \in Frames /\ frame.lba \in Nat /\ frame.buf \in Data
      /\ pc = "read" => frame.lba < Len(m.sectors)
  BY <1>a DEF MemInv, DbInv, SectorsInv, FrameInv, Frames
<1>1. ASSUME NEW n \in Nat, NEW toc \in Tocs, New(n, toc)
      PROVE  Extra(heard', m'.sectors, E)
  BY <1>1, ExtraNew DEF New, EmptyDb
<1>2. ASSUME NEW reader \in Readers, NEW min \in MinCounts,
             NEW progress \in BOOLEAN, NEW buf \in Data,
             RefineStart(reader, min, progress, buf)
      PROVE  Extra(heard', m'.sectors, E)
  <2> DEFINE n == IF Len(m.sectors) < SizeInSectors[reader]
                  THEN SizeInSectors[reader] ELSE Len(m.sectors)
  <2>1. n \in Nat
    BY <1>b, SectorDbAssumption
  <2>2. /\ m'.sectors = Resized(m.sectors, n, NewSector)
        /\ heard' = [i \in 1..n |-> IF i <= Len(heard) THEN heard[i] ELSE NoReads]
    BY <1>2 DEF RefineStart
  <2> HIDE DEF n
  <2> QED BY <1>b, <2>1, <2>2, ExtraResized
<1>3. ASSUME NEW reader \in Readers, RefineThrows(reader)
      PROVE  Extra(heard', m'.sectors, E)
  <2>1. m'.sectors = m.sectors /\ heard' = heard
    BY <1>3, <1>b DEF RefineThrows, Db
  <2> QED BY <2>1
<1>4. CASE Load
  BY <1>4 DEF Load
<1>5. ASSUME NEW audio \in Data, RefineRead(audio)
      PROVE  Extra(heard', m'.sectors, E)
  <2>1. m'.sectors = Recorded(m.sectors, frame.lba, audio)
    BY <1>5, <1>b DEF RefineRead, Db
  <2>2. heard' = Heard(frame.lba, audio) /\ frame.lba < Len(m.sectors)
    BY <1>5, <1>b DEF RefineRead
  <2> QED BY <1>a, <1>b, <2>1, <2>2, ExtraRecorded
<1>6. CASE RefineReadFails
  <2>1. m'.sectors = Recorded(m.sectors, frame.lba, frame.buf)
    BY <1>6, <1>b DEF RefineReadFails, Db
  <2>2. /\ heard' = heard /\ frame.lba < Len(m.sectors) /\ \A k \in E : k + 1 \in E
        /\ file' = file
    BY <1>6, <1>b DEF RefineReadFails
  <2>3. Extra(heard, Recorded(m.sectors, frame.lba, frame.buf), E)
    BY <1>a, <1>b, <2>2, ExtraRecorded
  <2> QED BY <2>1, <2>2, <2>3
<1>7. CASE Crash
  <2>1. DOMAIN m'.sectors = {}
    BY <1>7 DEF Crash, EmptyDb
  <2>2. file' = file
    BY <1>7 DEF Crash
  <2> QED BY <2>1, <2>2 DEF Extra
<1>8. CASE SaveEnd
  <2>1. file' = [state |-> "whole", m |-> m, heard |-> heard]
    BY <1>8, <1>b, ArchiveIsDb DEF SaveEnd
  <2>2. m' = m /\ heard' = heard
    BY <1>8 DEF SaveEnd
  <2> QED BY <2>1, <2>2
<1>9. CASE SaveBegin
  <2>1. file'.m = file.m /\ file'.heard = file.heard
    BY <1>9, <1>a DEF SaveBegin, FileInv, Files
  <2>2. m' = m /\ heard' = heard
    BY <1>9 DEF SaveBegin
  <2> QED BY <2>1, <2>2
<1>10. CASE \/ RefineSkip \/ RefineVisit \/ ProgressContinue \/ ProgressCancel
            \/ RefineEnd \/ SaveThrows \/ UNCHANGED vars
  BY <1>10 DEF RefineSkip, RefineVisit, ProgressContinue, ProgressCancel,
     RefineEnd, SaveThrows, vars
<1>11. \/ file' = file
       \/ SaveBegin \/ SaveEnd
  BY DEF Next, New, SaveThrows, RefineStart, RefineThrows, Load, RefineStep, RefineSkip,
     RefineVisit, ProgressContinue, ProgressCancel, RefineRead,
     RefineReadFails, RefineEnd, Crash, vars
<1>12. \A reader \in Readers : SizeInSectors[reader] \in Nat
  BY SectorDbAssumption
<1>13. CASE Next
  <2>1. Extra(heard', m'.sectors, E)
    BY <1>1, <1>2, <1>3, <1>4, <1>5, <1>6, <1>7, <1>8, <1>9, <1>10, <1>12, <1>13
       DEF Next, RefineStep
  <2>2. file' = file => Extra(file'.heard, file'.m.sectors, E)
    OBVIOUS
  <2> QED BY <2>1, <2>2, <1>8, <1>9, <1>11
<1> QED BY <1>10, <1>13

\* AllHeard, and its sharper form, are two cases of Extra.
LEMMA ExtraIsHeard ==
  ASSUME NEW reads \in Seq(Tally), NEW sectors, SectorsInv(sectors),
         Len(reads) = Len(sectors)
  PROVE  /\ AllHeard(reads, sectors) <=> Extra(reads, sectors, Nat)
         /\ (\A i \in DOMAIN sectors : \A c \in Checks :
               Votes(sectors[i], c) = reads[i][c]) <=> Extra(reads, sectors, {0})
<1>1. ASSUME NEW i \in DOMAIN sectors, NEW c \in Checks
      PROVE  Votes(sectors[i], c) \in Nat /\ reads[i][c] \in Nat
  <2>1. sectors[i] \in Sector /\ SectorInv(sectors[i])
    BY DEF SectorsInv
  <2>2. reads[i] \in [Checks -> Nat]
    BY DEF SectorsInv, Tally
  <2> QED BY <2>1, <2>2, VotesType
<1>2. AllHeard(reads, sectors) <=> Extra(reads, sectors, Nat)
  BY <1>1 DEF AllHeard, Extra
<1> QED BY <1>1, <1>2 DEF Extra

LEMMA InitHeardInv == Init => HeardInv
<1> SUFFICES ASSUME Init PROVE HeardInv
  OBVIOUS
<1>1. m.sectors = << >> /\ file.m.sectors = << >>
  BY DEF Init, EmptyDb
<1> QED BY <1>1 DEF HeardInv, AllHeard

LEMMA HeardIsExtra ==
  ASSUME StoreInv
  PROVE  HeardInv <=> /\ Extra(heard, m.sectors, Nat)
                      /\ Extra(file.heard, file.m.sectors, Nat)
<1>1. /\ heard \in Seq(Tally) /\ SectorsInv(m.sectors) /\ Len(heard) = Len(m.sectors)
      /\ file.heard \in Seq(Tally) /\ SectorsInv(file.m.sectors)
      /\ Len(file.heard) = Len(file.m.sectors)
  BY StoreParts DEF MemInv, DbInv, FileInv, Files
<1> QED BY <1>1, ExtraIsHeard DEF HeardInv

LEMMA NextHeardInv == StoreInv /\ HeardInv /\ [Next]_vars => HeardInv'
<1> SUFFICES ASSUME StoreInv, HeardInv, [Next]_vars PROVE HeardInv'
  OBVIOUS
<1>1. /\ Extra(heard', m'.sectors, Nat)
      /\ Extra(file'.heard, file'.m.sectors, Nat)
  BY HeardIsExtra, NextExtra
<1>2. StoreInv'
  BY NextStoreInv
<1>3. MemInv' /\ FileInv'
  BY StoreParts, NextParts
<1>4. /\ heard' \in Seq(Tally) /\ SectorsInv(m'.sectors) /\ Len(heard') = Len(m'.sectors)
      /\ file'.heard \in Seq(Tally) /\ SectorsInv(file'.m.sectors)
      /\ Len(file'.heard) = Len(file'.m.sectors)
  BY <1>3 DEF MemInv, DbInv, FileInv, Files
<1>5. AllHeard(heard', m'.sectors) /\ AllHeard(file'.heard, file'.m.sectors)
  BY <1>1, <1>4, ExtraIsHeard
<1> QED BY <1>5 DEF HeardInv, AllHeard

-----------------------------------------------------------------------------
(***************************************************************************)
(* The pass: each action of Refine keeps PassInv.                          *)
(***************************************************************************)

\* The multiples of p are p apart.
LEMMA NextMultiple ==
  ASSUME NEW p \in Nat \ {0}, NEW a \in Nat, a % p = 0
  PROVE  (a + p) % p = 0
<1>1. a = p * (a \div p) + (a % p) /\ a \div p \in Nat
  OBVIOUS
<1>2. \A k \in Nat : (p * k) % p = 0
  OBVIOUS
<1> DEFINE k == (a \div p) + 1
<1>3. k \in Nat /\ a + p = p * k
  BY <1>1
<1> QED BY <1>2, <1>3

LEMMA DoneFinite ==
  ASSUME FrameInv
  PROVE  IsFiniteSet(Done) /\ Done \subseteq 1..frame.lba
<1>1. frame.lba \in Nat
  BY DEF FrameInv, Frames
<1>2. IsFiniteSet(1..frame.lba)
  BY <1>1, UpTo
<1>3. Done \in SUBSET (1..frame.lba)
  BY DEF Done
<1> QED BY <1>2, <1>3, FS_Subset

\* What the test of a sector says of the sector as it was before the pass.
LEMMA SettledIsNotDue ==
  ASSUME MemInv, FrameInv, PassInv, pc = "loop", ~AtEnd(frame, m.sectors)
  PROVE  /\ frame.lba \in Nat /\ frame.lba + 1 \in DOMAIN m.sectors
         /\ frame.lba + 1 \notin Done
         /\ Settled(frame, m.sectors) <=> ~Due(frame.lba + 1)
<1> DEFINE i == frame.lba + 1
<1>1. frame.lba \in Nat /\ frame.minimumCommonCrcCount \in Nat
  BY DEF FrameInv, Frames
<1>2. i \in DOMAIN m.sectors
  BY <1>1 DEF AtEnd, MemInv, DbInv, SectorsInv
<1>3. i \notin Done
  BY <1>1 DEF Done
<1>4. m.sectors[i] = before[i]
  BY <1>2, <1>3 DEF PassInv, InPass
<1>5. MostCommonCount(m.sectors[i].checks) \in Nat
  BY <1>2, CountType DEF MemInv, DbInv, SectorsInv
<1> HIDE DEF i
<1>6. Settled(frame, m.sectors) <=> ~Due(i)
  BY <1>1, <1>4, <1>5 DEF Settled, IsSettled, Due, i
<1> QED BY <1>1, <1>2, <1>3, <1>6 DEF i

LEMMA PassStarts ==
  ASSUME NEW reader \in Readers, NEW min \in MinCounts, NEW progress \in BOOLEAN,
         NEW buf \in Data, RefineStart(reader, min, progress, buf), MemInv'
  PROVE  PassInv'
<1>1. /\ pc' = "loop" /\ before' = m'.sectors
      /\ frame' = [NoFrame EXCEPT !.reader = reader, !.minimumCommonCrcCount = min,
                                  !.progress = progress, !.buf = buf]
  BY DEF RefineStart
<1>2. frame'.lba = 0 /\ frame'.nrRead = 0 /\ frame'.asked = 0
  BY <1>1 DEF NoFrame
<1>3. Done' = {}
  BY <1>2 DEF Done
<1>4. Cardinality(Done') = 0
  BY <1>3, FS_EmptySet
<1>5. 0 % ProgressEvery = 0 /\ ProgressEvery \in Nat \ {0}
  BY SectorDbAssumption
<1>6. Len(m'.sectors) \in Nat
  BY DEF MemInv, DbInv, SectorsInv
<1>7. frame'.lba <= Len(m'.sectors)
  BY <1>2, <1>6
<1>8. \A i \in DOMAIN m'.sectors : i \notin Done' /\ m'.sectors[i] = before'[i]
  BY <1>1, <1>3
<1> QED BY <1>1, <1>2, <1>4, <1>5, <1>7, <1>8 DEF PassInv

LEMMA PassSkips ==
  ASSUME MemInv, FrameInv, PassInv, RefineSkip
  PROVE  PassInv'
<1>1. /\ pc = "loop" /\ pc' = "loop" /\ m' = m /\ before' = before
      /\ frame' = [frame EXCEPT !.lba = @ + 1]
      /\ frame \in Frames
      /\ Len(m.sectors) \in Nat
  BY DEF RefineSkip, FrameInv, MemInv, DbInv, SectorsInv
<1>2. /\ frame.lba \in Nat /\ frame.lba + 1 \in DOMAIN m.sectors
      /\ ~Due(frame.lba + 1)
  BY SettledIsNotDue DEF RefineSkip
<1>3. /\ frame'.lba = frame.lba + 1 /\ frame'.nrRead = frame.nrRead
      /\ frame'.asked = frame.asked /\ frame'.progress = frame.progress
      /\ frame'.minimumCommonCrcCount = frame.minimumCommonCrcCount
  BY <1>1 DEF Frames
<1>4. \A i : Due(i)' <=> Due(i)
  BY <1>1, <1>3 DEF Due
<1>5. Done' = Done
  <2>1. 1..(frame.lba + 1) = (1..frame.lba) \cup {frame.lba + 1}
    BY <1>2
  <2>2. Done' = {i \in 1..(frame.lba + 1) : Due(i)}
    BY <1>3, <1>4 DEF Done
  <2> QED BY <1>2, <2>1, <2>2 DEF Done
<1>6. frame.lba + 1 <= Len(m.sectors)
  BY <1>1, <1>2 DEF MemInv, DbInv, SectorsInv
<1> HIDE DEF Done, Due
<1>7. PassInv => /\ frame.nrRead = Cardinality(Done)
                 /\ \A i \in DOMAIN m.sectors :
                      IF i \in Done THEN sum(m.sectors[i].checks) = sum(before[i].checks) + 1
                      ELSE m.sectors[i] = before[i]
                 /\ frame.asked % ProgressEvery = 0
                 /\ frame.asked <= frame.nrRead
                 /\ frame.progress => frame.nrRead <= frame.asked + ProgressEvery
  BY <1>1 DEF PassInv, InPass
<1> QED BY <1>1, <1>3, <1>5, <1>6, <1>7 DEF PassInv

LEMMA PassVisits ==
  ASSUME MemInv, FrameInv, PassInv, RefineVisit
  PROVE  PassInv'
<1>1. /\ pc = "loop" /\ m' = m /\ before' = before /\ frame' = frame
      /\ pc' = IF ProgressDue(frame) THEN "progress" ELSE "read"
      /\ frame.nrRead \in Nat /\ frame.asked \in Nat /\ frame.progress \in BOOLEAN
      /\ ProgressEvery \in Nat \ {0}
  BY SectorDbAssumption DEF RefineVisit, FrameInv, Frames
<1>2. Due(frame.lba + 1)
  BY SettledIsNotDue DEF RefineVisit
<1>3. Done' = Done /\ Due(frame.lba + 1)'
  BY <1>1, <1>2 DEF Done, Due
<1>4. /\ frame.lba <= Len(m.sectors)
      /\ frame.nrRead = Cardinality(Done)
      /\ \A i \in DOMAIN m.sectors :
           IF i \in Done THEN sum(m.sectors[i].checks) = sum(before[i].checks) + 1
           ELSE m.sectors[i] = before[i]
      /\ frame.asked % ProgressEvery = 0
      /\ frame.asked <= frame.nrRead
      /\ frame.progress => frame.nrRead <= frame.asked + ProgressEvery
  BY <1>1 DEF PassInv, InPass
<1>5. ASSUME frame.progress, pc' = "read"
      PROVE  frame.nrRead < frame.asked + ProgressEvery
  <2>1. frame.nrRead % ProgressEvery # 0
    BY <1>1, <1>5 DEF ProgressDue
  <2>2. (frame.asked + ProgressEvery) % ProgressEvery = 0
    BY <1>1, <1>4, NextMultiple
  <2>3. frame.nrRead # frame.asked + ProgressEvery
    BY <2>1, <2>2
  <2> QED BY <1>1, <1>4, <1>5, <2>3
<1>6. pc' = "progress" => frame.nrRead % ProgressEvery = 0
  BY <1>1 DEF ProgressDue
<1> QED BY <1>1, <1>3, <1>4, <1>5, <1>6 DEF PassInv

LEMMA PassGoesOn ==
  ASSUME FrameInv, PassInv, ProgressContinue
  PROVE  PassInv'
<1>1. /\ pc = "progress" /\ pc' = "read" /\ m' = m /\ before' = before
      /\ frame \in Frames
      /\ frame' = [frame EXCEPT !.asked = frame.nrRead]
      /\ frame.nrRead \in Nat
      /\ ProgressEvery \in Nat \ {0}
  BY SectorDbAssumption DEF ProgressContinue, FrameInv, Frames
<1>2. /\ frame'.lba = frame.lba /\ frame'.nrRead = frame.nrRead
      /\ frame'.asked = frame.nrRead
      /\ frame'.minimumCommonCrcCount = frame.minimumCommonCrcCount
  BY <1>1 DEF Frames
<1>3. Done' = Done /\ (Due(frame.lba + 1)' <=> Due(frame.lba + 1))
  BY <1>1, <1>2 DEF Done, Due
<1>4. /\ frame.lba <= Len(m.sectors)
      /\ frame.nrRead = Cardinality(Done)
      /\ \A i \in DOMAIN m.sectors :
           IF i \in Done THEN sum(m.sectors[i].checks) = sum(before[i].checks) + 1
           ELSE m.sectors[i] = before[i]
      /\ Due(frame.lba + 1)
      /\ frame.nrRead % ProgressEvery = 0
  BY <1>1 DEF PassInv, InPass
<1> QED BY <1>1, <1>2, <1>3, <1>4 DEF PassInv

LEMMA OneMore ==
  ASSUME NEW S, NEW x, IsFiniteSet(S), x \notin S
  PROVE  Cardinality(S \cup {x}) = Cardinality(S) + 1
BY FS_AddElement

\* A read, delivered or failed.
LEMMA PassReads ==
  ASSUME MemInv, FrameInv, PassInv, pc = "read", NEW audio \in Data,
         m' = [m EXCEPT !.sectors = Recorded(@, frame.lba, audio)],
         frame' = AfterRead(frame, audio), pc' = "loop", before' = before
  PROVE  PassInv'
<1> DEFINE n == frame.lba + 1
           ss == m.sectors
<1>1. /\ frame \in Frames /\ frame.lba \in Nat /\ frame.lba < Len(ss)
      /\ frame.nrRead \in Nat /\ frame.asked \in Nat
      /\ m \in Db /\ ss \in Seq(Sector) /\ DOMAIN ss = 1..Len(ss) /\ Len(ss) \in Nat
      /\ \A i \in DOMAIN ss : ss[i] \in Sector /\ SectorInv(ss[i])
      /\ ProgressEvery \in Nat \ {0}
  BY SectorDbAssumption DEF FrameInv, Frames, MemInv, DbInv, SectorsInv
<1>2. /\ frame'.lba = n /\ frame'.nrRead = frame.nrRead + 1
      /\ frame'.asked = frame.asked /\ frame'.progress = frame.progress
      /\ frame'.minimumCommonCrcCount = frame.minimumCommonCrcCount
  BY <1>1 DEF AfterRead, Frames
<1>3. /\ frame.nrRead = Cardinality(Done)
      /\ \A i \in DOMAIN ss :
           IF i \in Done THEN sum(ss[i].checks) = sum(before[i].checks) + 1
           ELSE ss[i] = before[i]
      /\ Due(n)
      /\ frame.asked % ProgressEvery = 0
      /\ frame.asked <= frame.nrRead
      /\ frame.progress => frame.nrRead < frame.asked + ProgressEvery
  BY DEF PassInv, InPass
<1>4. m'.sectors = Recorded(ss, frame.lba, audio)
  BY <1>1 DEF Db
<1>5. n \in DOMAIN ss
  BY <1>1
<1>6. DOMAIN m'.sectors = DOMAIN ss /\ Len(m'.sectors) = Len(ss)
      /\ \A i \in DOMAIN ss :
           m'.sectors[i] = IF i = n THEN AddAudio(ss[i], audio) ELSE ss[i]
  BY <1>1, <1>4, <1>5 DEF Recorded
<1>7. IsFiniteSet(Done) /\ n \notin Done
  BY <1>1, DoneFinite
<1>8. Done' = Done \cup {n}
  <2>1. \A i : Due(i)' <=> Due(i)
    BY <1>2 DEF Due
  <2>2. 1..n = (1..frame.lba) \cup {n}
    BY <1>1
  <2>3. Done' = {i \in 1..n : Due(i)}
    BY <1>2, <2>1 DEF Done
  <2> QED BY <1>3, <2>2, <2>3 DEF Done
<1>9. Cardinality(Done') = frame.nrRead + 1
  <2>1. frame.nrRead = Cardinality(Done)
    BY <1>3
  <2>2. Cardinality(Done \cup {n}) = Cardinality(Done) + 1
    BY <1>7, OneMore
  <2> QED BY <1>8, <2>1, <2>2
<1>10. ASSUME NEW i \in DOMAIN ss
       PROVE  IF i \in Done' THEN sum(m'.sectors[i].checks) = sum(before[i].checks) + 1
              ELSE m'.sectors[i] = before[i]
  <2>1. CASE i = n
    <3>1. sum(m'.sectors[i].checks) = sum(ss[i].checks) + 1
      BY <1>1, <1>6, <2>1, AddAudioSum
    <3>2. ss[i] = before[i] /\ i \in Done'
      BY <1>3, <1>7, <1>8, <2>1
    <3> QED BY <3>1, <3>2
  <2>2. CASE i # n
    <3>1. m'.sectors[i] = ss[i] /\ (i \in Done' <=> i \in Done)
      BY <1>6, <1>8, <2>2
    <3> QED BY <1>3, <3>1
  <2> QED BY <2>1, <2>2
<1>11. n <= Len(m'.sectors)
  BY <1>1, <1>6
<1>12. /\ frame.asked <= frame.nrRead + 1
       /\ frame.progress => frame.nrRead + 1 <= frame.asked + ProgressEvery
  BY <1>1, <1>3
<1> HIDE DEF n, ss
<1>13. \A i \in DOMAIN m'.sectors :
         IF i \in Done' THEN sum(m'.sectors[i].checks) = sum(before'[i].checks) + 1
         ELSE m'.sectors[i] = before'[i]
  BY <1>6, <1>10
<1> QED BY <1>2, <1>3, <1>9, <1>11, <1>12, <1>13 DEF PassInv

LEMMA NextPassInv ==
  ASSUME MemInv, FileInv, FrameInv, PassInv, [Next]_vars
  PROVE  PassInv'
<1>a. MemInv'
  BY NextParts
<1>1. ASSUME NEW reader \in Readers, NEW min \in MinCounts,
             NEW progress \in BOOLEAN, NEW buf \in Data,
             RefineStart(reader, min, progress, buf)
      PROVE  PassInv'
  BY <1>1, <1>a, PassStarts
<1>2. ASSUME pc' \in {"idle", "save"} PROVE PassInv'
  BY <1>2 DEF PassInv, InPass
<1>3. ASSUME NEW audio \in Data, RefineRead(audio)
      PROVE  PassInv'
  BY <1>3, PassReads DEF RefineRead
<1>4. CASE RefineReadFails
  <2>1. frame.buf \in Data
    BY DEF FrameInv, Frames
  <2> QED BY <1>4, <2>1, PassReads DEF RefineReadFails
<1>5. CASE RefineSkip
  BY <1>5, PassSkips
<1>6. CASE RefineVisit
  BY <1>6, PassVisits
<1>7. CASE ProgressContinue
  BY <1>7, PassGoesOn
<1>8. CASE UNCHANGED vars
  BY <1>8 DEF vars, PassInv, InPass, Done, Due
<1>9. CASE \/ ProgressCancel \/ RefineEnd \/ Crash
           \/ Load \/ SaveBegin \/ SaveEnd \/ SaveThrows
           \/ \E reader \in Readers : \/ \E toc \in Tocs : New(SizeInSectors[reader], toc)
                                      \/ RefineThrows(reader)
  <2>1. pc' \in {"idle", "save"}
    BY <1>9 DEF ProgressCancel, RefineEnd, Crash, Load, SaveBegin, SaveEnd,
       SaveThrows, New, RefineThrows
  <2> QED BY <1>2, <2>1
<1> QED BY <1>1, <1>3, <1>4, <1>5, <1>6, <1>7, <1>8, <1>9 DEF Next, RefineStep

-----------------------------------------------------------------------------
(***************************************************************************)
(* The theorems.                                                           *)
(***************************************************************************)

\* The invariant holds in every reachable state, whatever the readers
\* deliver, whichever reads fail and wherever the process dies.
THEOREM InductiveInvariant == Spec => []IInv
<1>1. Init => IInv
  <2> SUFFICES ASSUME Init PROVE IInv
    OBVIOUS
  <2>1. PassInv
    BY DEF Init, PassInv, InPass
  <2> QED BY <2>1, InitStoreInv, InitHeardInv DEF IInv
<1>2. IInv /\ [Next]_vars => IInv'
  <2> SUFFICES ASSUME IInv, [Next]_vars PROVE IInv'
    OBVIOUS
  <2>1. StoreInv /\ HeardInv /\ PassInv
    BY DEF IInv
  <2>2. MemInv /\ FileInv /\ FrameInv
    BY <2>1, StoreParts
  <2>3. PassInv'
    BY <2>1, <2>2, NextPassInv
  <2> QED BY <2>1, <2>3, NextStoreInv, NextHeardInv DEF IInv
<1> QED BY <1>1, <1>2, PTL DEF Spec

\* Type correctness of m, its file and the locals of Refine: no sector is
\* addressed outside the db and no vote is counted zero times.
THEOREM TypeCorrect == Spec => []TypeOK
<1>1. IInv => TypeOK
  BY DEF IInv, StoreInv
<1> QED BY <1>1, InductiveInvariant, PTL

\* For any number of sectors and votes, the audio kept of each recorded
\* sector is audio of its most common CRC, in memory and in the file.
THEOREM MostCommonKept == Spec => []KeepsMostCommon
<1>1. IInv => KeepsMostCommon
  <2> SUFFICES ASSUME IInv PROVE KeepsMostCommon
    OBVIOUS
  <2>1. SectorsInv(m.sectors) /\ SectorsInv(file.m.sectors)
    BY StoreParts DEF IInv, MemInv, FileInv, DbInv
  <2>2. ASSUME NEW sectors, SectorsInv(sectors), NEW i \in DOMAIN sectors
        PROVE  Plurality(sectors[i])
    <3>1. sectors[i] \in Sector /\ SectorInv(sectors[i])
      BY <2>2 DEF SectorsInv
    <3> QED BY <3>1, SectorInvPlurality
  <2> QED BY <2>1, <2>2 DEF KeepsMostCommon
<1> QED BY <1>1, InductiveInvariant, PTL

\* With a reader that never fails the votes of a sector are its reads and
\* nothing else: none for a neighbour, none counted twice by a save and a load.
THEOREM VotesAreTheReads ==
  ASSUME ReadMayFail = FALSE
  PROVE  Spec => []VotesAreReads
<1> DEFINE Exact == /\ Extra(heard, m.sectors, {0})
                    /\ Extra(file.heard, file.m.sectors, {0})
<1>1. Init => Exact
  BY InitExtra
<1>2. IInv /\ Exact /\ [Next]_vars => Exact'
  <2> SUFFICES ASSUME IInv, Exact, [Next]_vars PROVE Exact'
    OBVIOUS
  <2>1. StoreInv
    BY DEF IInv
  <2>2. /\ Extra(heard', m'.sectors, {0})
        /\ Extra(file'.heard, file'.m.sectors, {0})
    BY <2>1, NextExtra
  <2> QED BY <2>2 DEF Extra
<1>3. IInv /\ Exact => VotesAreReads
  <2> SUFFICES ASSUME IInv, Exact PROVE VotesAreReads
    OBVIOUS
  <2>1. heard \in Seq(Tally) /\ SectorsInv(m.sectors) /\ Len(heard) = Len(m.sectors)
    BY StoreParts DEF IInv, MemInv, DbInv
  <2> QED BY <2>1, ExtraIsHeard DEF VotesAreReads
<1> HIDE DEF Exact
<1> QED BY <1>1, <1>2, <1>3, InductiveInvariant, PTL DEF Spec

\* A pass reads each sector that is below the minimum once and no other, in
\* a db of any size with any votes.
THEOREM EachSectorOnce == Spec => []OneReadPerPass
<1>1. IInv => OneReadPerPass
  <2> SUFFICES ASSUME IInv, InPass
               PROVE  /\ \A i \in DOMAIN m.sectors :
                           sum(m.sectors[i].checks)
                             = sum(before[i].checks) + (IF i \in Done THEN 1 ELSE 0)
                      /\ frame.nrRead = Cardinality(Done)
    BY DEF OneReadPerPass
  <2>1. PassInv /\ SectorsInv(m.sectors)
    BY StoreParts DEF IInv, MemInv, DbInv
  <2>2. ASSUME NEW i \in DOMAIN m.sectors
        PROVE  sum(m.sectors[i].checks)
                 = sum(before[i].checks) + (IF i \in Done THEN 1 ELSE 0)
    <3>1. CASE i \in Done
      BY <2>1, <3>1 DEF PassInv
    <3>2. CASE i \notin Done
      <4>1. m.sectors[i] = before[i]
        BY <2>1, <3>2 DEF PassInv
      <4>2. m.sectors[i] \in Sector
        BY <2>1 DEF SectorsInv
      <4>3. sum(m.sectors[i].checks) \in Nat
        BY <4>2, SectorType, SumType
      <4> QED BY <3>2, <4>1, <4>3
    <3> QED BY <3>1, <3>2
  <2> QED BY <2>1, <2>2 DEF PassInv
<1> QED BY <1>1, InductiveInvariant, PTL

\* The caller is asked whether to go on at least once in every ProgressEvery
\* reads, in passes of any length over any mixture of settled sectors.
THEOREM CancelIsTimely == Spec => []CancelLatency
<1>1. IInv => CancelLatency
  <2> SUFFICES ASSUME IInv, InPass, frame.progress
               PROVE  /\ frame.nrRead - frame.asked <= ProgressEvery
                      /\ pc = "read" => frame.nrRead - frame.asked < ProgressEvery
    BY DEF CancelLatency
  <2>1. PassInv /\ frame.nrRead \in Nat /\ frame.asked \in Nat
    BY StoreParts DEF IInv, FrameInv, Frames
  <2>2. ProgressEvery \in Nat
    BY SectorDbAssumption
  <2> QED BY <2>1, <2>2 DEF PassInv
<1> QED BY <1>1, InductiveInvariant, PTL

\* What a finished pass without a read found: every sector settled, and the
\* db as it was.
LEMMA NothingToRead ==
  ASSUME StoreInv, PassInv, RefineEnd, frame.nrRead = 0
  PROVE  /\ Len(before) = Len(m.sectors)
         /\ \A i \in DOMAIN m.sectors :
              /\ m.sectors[i] = before[i]
              /\ MostCommonCount(m.sectors[i].checks) >= frame.minimumCommonCrcCount
<1>1. /\ SectorsInv(m.sectors) /\ Len(before) = Len(m.sectors)
      /\ FrameInv /\ frame.lba \in Nat /\ frame.minimumCommonCrcCount \in Nat
      /\ frame.lba >= Len(m.sectors)
  BY StoreParts DEF MemInv, DbInv, FrameInv, Frames, InPass, RefineEnd, AtEnd
<1>2. Done = {}
  BY <1>1, DoneFinite, FS_EmptySet DEF PassInv, InPass, RefineEnd
<1>3. ASSUME NEW i \in DOMAIN m.sectors
      PROVE  /\ m.sectors[i] = before[i]
             /\ MostCommonCount(m.sectors[i].checks) >= frame.minimumCommonCrcCount
  <2>1. m.sectors[i] = before[i]
    BY <1>2 DEF PassInv, InPass, RefineEnd
  <2>2. ~Due(i)
    <3>1. i \in 1..frame.lba
      BY <1>1 DEF SectorsInv
    <3> QED BY <1>2, <3>1 DEF Done
  <2>3. MostCommonCount(m.sectors[i].checks) \in Nat
    BY <1>1, CountType DEF SectorsInv
  <2> QED BY <1>1, <2>1, <2>2, <2>3 DEF Due
<1> QED BY <1>1, <1>3

\* Callers loop until Refine returns 0: it then leaves no sector below the
\* minimum, unless the callback ended it.
THEOREM ZeroIsSettled == Spec => ZeroMeansSettled
<1>1. IInv /\ [Next]_vars =>
        [RefineEnd /\ frame.nrRead = 0 =>
           \A i \in DOMAIN m'.sectors :
             MostCommonCount(m'.sectors[i].checks) >= frame.minimumCommonCrcCount]_vars
  <2> SUFFICES ASSUME IInv, RefineEnd, frame.nrRead = 0, NEW i \in DOMAIN m'.sectors
               PROVE  MostCommonCount(m'.sectors[i].checks)
                        >= frame.minimumCommonCrcCount
    OBVIOUS
  <2>1. m' = m
    BY DEF RefineEnd
  <2>2. i \in DOMAIN m.sectors /\ MostCommonCount(m.sectors[i].checks)
                                    >= frame.minimumCommonCrcCount
    BY <2>1, NothingToRead DEF IInv
  <2> QED BY <2>1, <2>2
<1> QED BY <1>1, InductiveInvariant, PTL DEF Spec, ZeroMeansSettled

-----------------------------------------------------------------------------
(***************************************************************************)
(* The refinement of VoteStore: what the operations do to the votes and    *)
(* the kept contents of whole dbs.                                         *)
(***************************************************************************)

LEMMA TallyIs ==
  ASSUME NEW sectors, SectorsInv(sectors)
  PROVE  /\ DOMAIN TallyOf(sectors) = 1..Len(sectors)
         /\ DOMAIN KeptOf(sectors) = 1..Len(sectors)
         /\ TallyOf(sectors) \in Seq([Checks -> Nat])
         /\ KeptOf(sectors) \in Seq(Data)
         /\ Len(TallyOf(sectors)) = Len(sectors)
         /\ Len(KeptOf(sectors)) = Len(sectors)
         /\ \A i \in 1..Len(sectors) :
              /\ TallyOf(sectors)[i] \in [Checks -> Nat]
              /\ \A c \in Checks : TallyOf(sectors)[i][c] = Votes(sectors[i], c)
              /\ KeptOf(sectors)[i] = sectors[i].data
<1>1. /\ sectors \in Seq(Sector)
      /\ DOMAIN sectors = 1..Len(sectors)
      /\ Len(sectors) \in Nat
      /\ \A i \in 1..Len(sectors) : sectors[i] \in Sector /\ SectorInv(sectors[i])
  BY DEF SectorsInv
<1>2. \A i \in 1..Len(sectors) :
         /\ [c \in Checks |-> Votes(sectors[i], c)] \in [Checks -> Nat]
         /\ sectors[i].data \in Data
  BY <1>1, VotesType, SectorType
<1>3. TallyOf(sectors) = [i \in 1..Len(sectors) |-> [c \in Checks |-> Votes(sectors[i], c)]]
  BY <1>1 DEF TallyOf
<1>4. KeptOf(sectors) = [i \in 1..Len(sectors) |-> sectors[i].data]
  BY <1>1 DEF KeptOf
<1>5. TallyOf(sectors) \in Seq([Checks -> Nat]) /\ Len(TallyOf(sectors)) = Len(sectors)
  BY <1>1, <1>2, <1>3
<1>6. KeptOf(sectors) \in Seq(Data) /\ Len(KeptOf(sectors)) = Len(sectors)
  BY <1>1, <1>2, <1>4
<1> QED BY <1>1, <1>2, <1>3, <1>4, <1>5, <1>6

\* One recorded read is one vote for its sector, and no other vote.
LEMMA RecordedIsVote ==
  ASSUME NEW old, SectorsInv(old), NEW lba \in Nat, lba < Len(old),
         NEW audio \in Data,
         NEW new, new = Recorded(old, lba, audio)
  PROVE  /\ lba + 1 \in DOMAIN TallyOf(old)
         /\ TallyOf(new) = [TallyOf(old) EXCEPT ![lba + 1][CrcOf[audio]] = @ + 1]
         /\ KeptOf(new) \in {KeptOf(old), [KeptOf(old) EXCEPT ![lba + 1] = audio]}
         /\ Store!Wins(CrcOf[KeptOf(new)[lba + 1]], TallyOf(new)[lba + 1])
<1> DEFINE i == lba + 1
           s == old[i]
           t == AddAudio(s, audio)
<1>1. /\ old \in Seq(Sector)
      /\ DOMAIN old = 1..Len(old)
      /\ i \in 1..Len(old)
      /\ s \in Sector /\ SectorInv(s)
  BY DEF SectorsInv
<1>2. SectorsInv(new) /\ Len(new) = Len(old)
  BY RecordedInv
<1>3. new[i] = t /\ \A j \in 1..Len(old) : j # i => new[j] = old[j]
  BY <1>1 DEF Recorded
<1>4. \A c \in Checks : Votes(t, c) = Votes(s, c) + (IF c = CrcOf[audio] THEN 1 ELSE 0)
  BY <1>1, AddAudioIsVote
<1>5. /\ t.data \in {s.data, audio}
      /\ CrcOf[t.data] \in Checks
      /\ Votes(t, CrcOf[t.data]) > 0
      /\ \A c \in Checks : Votes(t, c) <= Votes(t, CrcOf[t.data])
  BY <1>1, AddAudioKeepsWinner
<1>6. CrcOf[audio] \in Checks
  BY StoreAssumption
<1> HIDE DEF t, s
<1>7. /\ TallyOf(new)[i] \in [Checks -> Nat]
      /\ TallyOf(old)[i] \in [Checks -> Nat]
      /\ \A c \in Checks : /\ TallyOf(new)[i][c] = Votes(t, c)
                           /\ TallyOf(old)[i][c] = Votes(s, c)
      /\ KeptOf(new)[i] = t.data
      /\ KeptOf(old)[i] = s.data
  BY <1>1, <1>2, <1>3, TallyIs DEF s
<1>8. ASSUME NEW j \in 1..Len(old), j # i
      PROVE  /\ TallyOf(new)[j] = TallyOf(old)[j]
             /\ KeptOf(new)[j] = KeptOf(old)[j]
  <2>1. new[j] = old[j]
    BY <1>3, <1>8
  <2>2. /\ TallyOf(new)[j] \in [Checks -> Nat]
        /\ \A c \in Checks : TallyOf(new)[j][c] = Votes(new[j], c)
        /\ KeptOf(new)[j] = new[j].data
    BY <1>2, TallyIs
  <2>3. /\ TallyOf(old)[j] \in [Checks -> Nat]
        /\ \A c \in Checks : TallyOf(old)[j][c] = Votes(old[j], c)
        /\ KeptOf(old)[j] = old[j].data
    BY TallyIs
  <2> QED BY <2>1, <2>2, <2>3
<1>9. \A c \in Checks : Votes(s, c) \in Nat
  BY <1>1, VotesType
<1>10. TallyOf(new)[i] = [TallyOf(old)[i] EXCEPT ![CrcOf[audio]] = @ + 1]
  <2> DEFINE a == TallyOf(old)[i]
             b == TallyOf(new)[i]
  <2>1. /\ a \in [Checks -> Nat] /\ b \in [Checks -> Nat]
        /\ \A c \in Checks : b[c] = a[c] + (IF c = CrcOf[audio] THEN 1 ELSE 0)
    BY <1>4, <1>7
  <2> HIDE DEF a, b
  <2>2. b = [a EXCEPT ![CrcOf[audio]] = @ + 1]
    BY <1>6, <2>1
  <2> QED BY <2>2 DEF a, b
<1> DEFINE OldT == TallyOf(old)
           NewT == TallyOf(new)
           OldK == KeptOf(old)
           NewK == KeptOf(new)
           n == Len(old)
<1>11. /\ OldT \in Seq([Checks -> Nat]) /\ Len(OldT) = n /\ DOMAIN OldT = 1..n
       /\ NewT \in Seq([Checks -> Nat]) /\ Len(NewT) = n /\ DOMAIN NewT = 1..n
       /\ OldK \in Seq(Data) /\ Len(OldK) = n /\ DOMAIN OldK = 1..n
       /\ NewK \in Seq(Data) /\ Len(NewK) = n /\ DOMAIN NewK = 1..n
       /\ n \in Nat
  BY <1>1, <1>2, TallyIs
<1> HIDE DEF OldT, NewT, OldK, NewK, n
<1>12. NewT = [OldT EXCEPT ![i][CrcOf[audio]] = @ + 1]
  BY <1>1, <1>8, <1>10, <1>11 DEF OldT, NewT, n
<1>13. CASE t.data = s.data
  <2>1. \A j \in 1..n : NewK[j] = OldK[j]
    BY <1>7, <1>8, <1>13 DEF OldK, NewK, n
  <2>2. NewK = OldK
    BY <1>11, <2>1
  <2> QED BY <1>1, <1>5, <1>7, <1>11, <1>12, <2>2
          DEF OldT, NewT, OldK, NewK, n, Store!Wins
<1>14. CASE t.data = audio
  <2>1. \A j \in 1..n : NewK[j] = IF j = i THEN audio ELSE OldK[j]
    BY <1>7, <1>8, <1>14 DEF OldK, NewK, n
  <2>2. NewK = [OldK EXCEPT ![i] = audio]
    BY <1>11, <2>1
  <2> QED BY <1>1, <1>5, <1>7, <1>11, <1>12, <2>2
          DEF OldT, NewT, OldK, NewK, n, Store!Wins
<1> QED BY <1>5, <1>13, <1>14

\* A store that stays as long or grows, its new sectors without a vote.
LEMMA ResizedGrows ==
  ASSUME NEW old, SectorsInv(old), NEW n \in Nat, NEW k \in Nat,
         k <= Len(old), k <= n,
         NEW new, SectorsInv(new), Len(new) = n,
         \A i \in 1..n : new[i] = IF i <= k THEN old[i] ELSE NewSector
  PROVE  /\ k <= Len(TallyOf(old))
         /\ Len(KeptOf(new)) = Len(TallyOf(new)) /\ Len(TallyOf(new)) >= k
         /\ \A i \in 1..Len(TallyOf(new)) :
              IF i <= k THEN /\ TallyOf(new)[i] = TallyOf(old)[i]
                             /\ KeptOf(new)[i] = KeptOf(old)[i]
                        ELSE /\ TallyOf(new)[i] = Store!NoVotes
                             /\ KeptOf(new)[i] = Zeros
<1>1. /\ Len(TallyOf(old)) = Len(old) /\ Len(old) \in Nat
      /\ Len(TallyOf(new)) = n /\ Len(KeptOf(new)) = n
  <2>1. old \in Seq(Sector)
    BY DEF SectorsInv
  <2>2. Len(TallyOf(old)) = Len(old)
    BY TallyIs
  <2>3. Len(TallyOf(new)) = Len(new) /\ Len(KeptOf(new)) = Len(new)
    BY TallyIs
  <2> QED BY <2>1, <2>2, <2>3
<1>2. ASSUME NEW i \in 1..n
      PROVE  IF i <= k THEN /\ TallyOf(new)[i] = TallyOf(old)[i]
                            /\ KeptOf(new)[i] = KeptOf(old)[i]
                       ELSE /\ TallyOf(new)[i] = Store!NoVotes
                            /\ KeptOf(new)[i] = Zeros
  <2>1. /\ TallyOf(new)[i] \in [Checks -> Nat]
        /\ \A c \in Checks : TallyOf(new)[i][c] = Votes(new[i], c)
        /\ KeptOf(new)[i] = new[i].data
    BY TallyIs
  <2>2. CASE i <= k
    <3>1. i \in 1..Len(old) /\ new[i] = old[i]
      BY <1>1, <2>2
    <3>2. /\ TallyOf(old)[i] \in [Checks -> Nat]
          /\ \A c \in Checks : TallyOf(old)[i][c] = Votes(old[i], c)
          /\ KeptOf(old)[i] = old[i].data
      BY <3>1, TallyIs
    <3> QED BY <2>1, <2>2, <3>1, <3>2
  <2>3. CASE ~(i <= k)
    <3>1. new[i] = NewSector
      BY <2>3
    <3>2. /\ Store!NoVotes \in [Checks -> Nat]
          /\ \A c \in Checks : Store!NoVotes[c] = 0
      BY DEF Store!NoVotes
    <3>3. \A c \in Checks : Votes(NewSector, c) = 0
      BY NewSectorInv, VotesOfNone DEF NewSector
    <3> QED BY <2>1, <2>3, <3>1, <3>2, <3>3 DEF NewSector
  <2> QED BY <2>2, <2>3
<1> QED BY <1>1, <1>2

-----------------------------------------------------------------------------
(***************************************************************************)
(* Every step of SectorDb is a step of the store or leaves it alone.       *)
(***************************************************************************)

storeVars == <<TallyOf(m.sectors), KeptOf(m.sectors),
               IF file.state # "whole" THEN [whole |-> FALSE, tally |-> << >>, kept |-> << >>]
               ELSE [whole |-> TRUE, tally |-> TallyOf(file.m.sectors),
                     kept |-> KeptOf(file.m.sectors)]>>

LEMMA StoreInit == Init => Store!Init
<1> SUFFICES ASSUME Init PROVE Store!Init
  OBVIOUS
<1>1. m.sectors = [i \in 1..0 |-> NewSector] /\ file.state = "absent"
  BY DEF Init, EmptyDb
<1>2. TallyOf(m.sectors) = << >> /\ KeptOf(m.sectors) = << >>
  BY <1>1 DEF TallyOf, KeptOf
<1> QED BY <1>1, <1>2 DEF Store!Init, Store!Lost

\* Primes move into the mapping.
LEMMA PrimedMapping ==
  /\ TallyOf(m.sectors)' = TallyOf(m'.sectors)
  /\ KeptOf(m.sectors)' = KeptOf(m'.sectors)
  /\ TallyOf(file.m.sectors)' = TallyOf(file'.m.sectors)
  /\ KeptOf(file.m.sectors)' = KeptOf(file'.m.sectors)
BY DEF TallyOf, KeptOf

\* Nothing of the store moves when neither the sectors nor the file do.
LEMMA StoreStutters ==
  ASSUME m'.sectors = m.sectors, file' = file
  PROVE  UNCHANGED storeVars
BY PrimedMapping DEF storeVars

LEMMA DiskStays ==
  ASSUME file' = file
  PROVE  UNCHANGED (IF file.state # "whole"
                    THEN [whole |-> FALSE, tally |-> << >>, kept |-> << >>]
                    ELSE [whole |-> TRUE, tally |-> TallyOf(file.m.sectors),
                          kept |-> KeptOf(file.m.sectors)])
BY PrimedMapping

\* A new db, a default constructed one after a crash, and Refine's resize.
LEMMA GrowStep ==
  ASSUME SectorsInv(m.sectors), SectorsInv(m'.sectors), file' = file,
         NEW k \in {0, Len(m.sectors)}, k <= Len(m'.sectors),
         \A i \in 1..Len(m'.sectors) :
            m'.sectors[i] = IF i <= k THEN m.sectors[i] ELSE NewSector
  PROVE  Store!Next
<1>1. /\ Len(m.sectors) \in Nat
      /\ Len(m'.sectors) \in Nat
      /\ Len(TallyOf(m.sectors)) = Len(m.sectors)
  BY TallyIs DEF SectorsInv
<1>2. k \in Nat /\ k <= Len(m.sectors)
  BY <1>1
<1> DEFINE old == m.sectors
           new == m'.sectors
<1>3. /\ k <= Len(TallyOf(old))
      /\ Len(KeptOf(new)) = Len(TallyOf(new)) /\ Len(TallyOf(new)) >= k
      /\ \A i \in 1..Len(TallyOf(new)) :
           IF i <= k THEN /\ TallyOf(new)[i] = TallyOf(old)[i]
                          /\ KeptOf(new)[i] = KeptOf(old)[i]
                     ELSE /\ TallyOf(new)[i] = Store!NoVotes
                          /\ KeptOf(new)[i] = Zeros
  <2>1. /\ SectorsInv(old) /\ SectorsInv(new)
        /\ k <= Len(old) /\ k <= Len(new) /\ Len(new) \in Nat
        /\ \A i \in 1..Len(new) : new[i] = IF i <= k THEN old[i] ELSE NewSector
    BY <1>1, <1>2
  <2> HIDE DEF old, new
  <2> QED BY <1>2, <2>1, ResizedGrows
<1>4. Store!Grow(k)
  BY <1>3, PrimedMapping, DiskStays DEF Store!Grow
<1> QED BY <1>1, <1>4 DEF Store!Next

\* A read, delivered or failed, that is recorded.
LEMMA VoteStep ==
  ASSUME MemInv, FrameInv, pc = "read", NEW audio \in Data, file' = file,
         m' = [m EXCEPT !.sectors = Recorded(@, frame.lba, audio)]
  PROVE  Store!Next
<1>1. SectorsInv(m.sectors) /\ m \in Db
  BY DEF MemInv, DbInv
<1>2. frame.lba \in Nat /\ frame.lba < Len(m.sectors)
  BY DEF FrameInv, Frames
<1>3. m'.sectors = Recorded(m.sectors, frame.lba, audio)
  BY <1>1 DEF Db
<1> DEFINE i == frame.lba + 1
<1>4. /\ i \in DOMAIN TallyOf(m.sectors)
      /\ TallyOf(m'.sectors) = [TallyOf(m.sectors) EXCEPT ![i][CrcOf[audio]] = @ + 1]
      /\ KeptOf(m'.sectors) \in {KeptOf(m.sectors), [KeptOf(m.sectors) EXCEPT ![i] = audio]}
      /\ Store!Wins(CrcOf[KeptOf(m'.sectors)[i]], TallyOf(m'.sectors)[i])
  <2> DEFINE old == m.sectors
             new == m'.sectors
             lba == frame.lba
  <2>1. /\ SectorsInv(old) /\ lba \in Nat /\ lba < Len(old)
        /\ new = Recorded(old, lba, audio)
    BY <1>1, <1>2, <1>3
  <2> HIDE DEF old, new, lba
  <2>2. /\ lba + 1 \in DOMAIN TallyOf(old)
        /\ TallyOf(new) = [TallyOf(old) EXCEPT ![lba + 1][CrcOf[audio]] = @ + 1]
        /\ KeptOf(new) \in {KeptOf(old), [KeptOf(old) EXCEPT ![lba + 1] = audio]}
        /\ Store!Wins(CrcOf[KeptOf(new)[lba + 1]], TallyOf(new)[lba + 1])
    BY <2>1, RecordedIsVote
  <2> QED BY <2>2 DEF old, new, lba
<1>5. Store!Vote(i, audio)
  BY <1>4, PrimedMapping, DiskStays DEF Store!Vote, Store!Wins
<1> QED BY <1>4, <1>5 DEF Store!Next

\* The file, written whole or torn.
LEMMA SaveStep ==
  ASSUME m' = m, \/ file'.state = "torn"
                 \/ file'.state = "whole" /\ file'.m.sectors = m.sectors
  PROVE  Store!Next
<1>1. Store!Save
  BY PrimedMapping DEF Store!Save, Store!Lost
<1> QED BY <1>1 DEF Store!Next

LEMMA LoadStep ==
  ASSUME m' = file.m, file.state = "whole", file' = file
  PROVE  Store!Next
<1>1. Store!Load
  BY PrimedMapping, DiskStays DEF Store!Load
<1> QED BY <1>1 DEF Store!Next

LEMMA NextStore ==
  ASSUME StoreInv, [Next]_vars
  PROVE  Store!Next \/ UNCHANGED storeVars
<1>a. MemInv /\ FileInv /\ FrameInv
  BY StoreParts
<1>b. /\ m \in Db /\ SectorsInv(m.sectors) /\ Len(m.sectors) \in Nat
      /\ file \in Files
      /\ frame \in Frames /\ frame.buf \in Data
  BY <1>a DEF MemInv, DbInv, SectorsInv, FileInv, FrameInv, Frames
<1>1. ASSUME NEW n \in Nat, NEW toc \in Tocs, m' = EmptyDb(n, toc), file' = file
      PROVE  Store!Next
  <2>1. m'.sectors = [i \in 1..n |-> NewSector]
    BY <1>1 DEF EmptyDb
  <2>2. SectorsInv(m'.sectors) /\ Len(m'.sectors) = n
    BY <1>1, EmptyDbInv DEF DbInv
  <2> QED BY <1>1, <1>b, <2>1, <2>2, GrowStep
<1>2. ASSUME NEW reader \in Readers, NEW min \in MinCounts,
             NEW progress \in BOOLEAN, NEW buf \in Data,
             RefineStart(reader, min, progress, buf)
      PROVE  Store!Next
  <2> DEFINE n == IF Len(m.sectors) < SizeInSectors[reader]
                  THEN SizeInSectors[reader] ELSE Len(m.sectors)
  <2>1. n \in Nat /\ n >= Len(m.sectors)
    BY <1>b, SectorDbAssumption
  <2>2. m'.sectors = Resized(m.sectors, n, NewSector) /\ file' = file
    BY <1>2 DEF RefineStart
  <2> HIDE DEF n
  <2>3. SectorsInv(m'.sectors) /\ Len(m'.sectors) = n
    BY <1>b, <2>1, <2>2, ResizedInv
  <2>4. \A i \in 1..n : m'.sectors[i] = IF i <= Len(m.sectors) THEN m.sectors[i]
                                                               ELSE NewSector
    BY <2>2 DEF Resized
  <2> QED BY <1>b, <2>1, <2>2, <2>3, <2>4, GrowStep
<1>3. ASSUME NEW reader \in Readers, RefineThrows(reader)
      PROVE  UNCHANGED storeVars
  <2>1. m'.sectors = m.sectors /\ file' = file
    BY <1>3, <1>b DEF RefineThrows, Db
  <2> QED BY <2>1, StoreStutters
<1>4. CASE Load
  BY <1>4, LoadStep DEF Load
<1>5. CASE SaveBegin
  <2>1. m' = m /\ file'.state = "torn"
    BY <1>5, <1>b DEF SaveBegin, Files
  <2> QED BY <2>1, SaveStep
<1>6. CASE SaveEnd
  <2>1. m' = m /\ file'.state = "whole" /\ file'.m.sectors = m.sectors
    BY <1>6, <1>b, ArchiveIsDb DEF SaveEnd
  <2> QED BY <2>1, SaveStep
<1>7. ASSUME NEW audio \in Data, RefineRead(audio)
      PROVE  Store!Next
  BY <1>7, <1>a, VoteStep DEF RefineRead
<1>8. CASE RefineReadFails
  BY <1>8, <1>a, <1>b, VoteStep DEF RefineReadFails
<1>9. CASE Crash
  <2>1. NoToc \in Tocs
    BY DEF Tocs
  <2> QED BY <1>1, <1>9, <2>1 DEF Crash
<1>10. ASSUME m' = m, file' = file PROVE UNCHANGED storeVars
  BY <1>10, StoreStutters
<1>11. CASE \/ RefineSkip \/ RefineVisit \/ ProgressContinue \/ ProgressCancel
            \/ RefineEnd \/ SaveThrows \/ UNCHANGED vars
  BY <1>10, <1>11 DEF RefineSkip, RefineVisit, ProgressContinue, ProgressCancel,
     RefineEnd, SaveThrows, vars
<1>12. \A reader \in Readers : SizeInSectors[reader] \in Nat
  BY SectorDbAssumption
<1>13. ASSUME NEW n \in Nat, NEW toc \in Tocs, New(n, toc)
       PROVE  Store!Next
  BY <1>1, <1>13 DEF New
<1> QED
  BY <1>2, <1>3, <1>4, <1>5, <1>6, <1>7, <1>8, <1>9, <1>11, <1>12, <1>13
     DEF Next, RefineStep

\* SectorDb keeps the promise of VoteStore: every step of the lists, loops
\* and files of sectorDb.cc is one vote whose winner is kept, a new or larger
\* store, or a copy of all of it to or from the disk.
THEOREM Implements == Spec => IsVoteStore
<1>1. Init => Store!Init
  BY StoreInit
<1>2. IInv /\ [Next]_vars => [Store!Next]_storeVars
  BY NextStore DEF IInv
<1> QED BY <1>1, <1>2, InductiveInvariant, PTL DEF Spec, IsVoteStore, Store!Spec, storeVars

-----------------------------------------------------------------------------
(***************************************************************************)
(* Grabber::Grab is a use of SectorDb, so what is proved of SectorDb holds *)
(* of it, and a grab that returns has settled its disc.                    *)
(***************************************************************************)

(***************************************************************************)
(* The statistics.  minMC is a fold like sum; a least element of the       *)
(* counts is what it finds.                                                *)
(***************************************************************************)

IsLeast(n, N) == n \in N /\ \A k \in N : n <= k

\* The counts of some sectors, and the value GetStatistics begins with.
CountsOf(sectors, some) == {IntMax} \cup {MostCommonCount(sectors[i].checks) : i \in some}

\* GetStatistics' minimum is IntMax or the count of a sector, and none is less.
LEMMA MinIsLeast ==
  ASSUME NEW sectors, SectorsInv(sectors)
  PROVE  IsLeast(minMC(sectors), CountsOf(sectors, DOMAIN sectors))
<1> DEFINE D == DOMAIN sectors
           n(i) == MostCommonCount(sectors[i].checks)
           g == [s \in SUBSET D |-> CHOOSE k : IsLeast(k, CountsOf(sectors, s))]
           Rec(it) == it = [s \in SUBSET D |->
                              IF s = {} THEN IntMax
                              ELSE IF n(Pick(s)) < it[s \ {Pick(s)}]
                                   THEN n(Pick(s)) ELSE it[s \ {Pick(s)}]]
           iter == CHOOSE it : Rec(it)
<1>1. minMC(sectors) = iter[D]
  BY DEF minMC, FoldFunction, FoldFunctionOnSet, MapThenFoldSet, Pick
<1>2. IsFiniteSet(D) /\ \A i \in D : n(i) \in Nat
  <2>1. D = 1..Len(sectors) /\ Len(sectors) \in Nat
    BY DEF SectorsInv
  <2>2. \A i \in D : sectors[i] \in Sector /\ SectorInv(sectors[i])
    BY DEF SectorsInv
  <2> QED BY <2>1, <2>2, FS_Interval, CountType
<1> HIDE DEF n
<1>3. ASSUME NEW s \in SUBSET D, s # {}
      PROVE  Pick(s) \in s
  BY <1>3 DEF Pick
<1>4. ASSUME NEW s \in SUBSET D, NEW x \in s, NEW k,
             IsLeast(k, CountsOf(sectors, s \ {x}))
      PROVE  IsLeast(IF n(x) < k THEN n(x) ELSE k, CountsOf(sectors, s))
  <2>1. CountsOf(sectors, s) = CountsOf(sectors, s \ {x}) \cup {n(x)}
    BY DEF CountsOf, n
  <2>2. CountsOf(sectors, s) \subseteq Nat /\ n(x) \in Nat
    BY <1>2, StoreAssumption DEF CountsOf, n
  <2> QED BY <1>4, <2>1, <2>2 DEF IsLeast
<1>5. IsLeast(IntMax, CountsOf(sectors, {}))
  BY StoreAssumption DEF IsLeast, CountsOf
<1>6. \A s \in SUBSET D : \A k, l : IsLeast(k, CountsOf(sectors, s))
          /\ IsLeast(l, CountsOf(sectors, s)) => k = l
  <2>1. \A s \in SUBSET D : CountsOf(sectors, s) \subseteq Nat
    BY <1>2, StoreAssumption DEF CountsOf, n
  <2> QED BY <2>1 DEF IsLeast
<1>7. ASSUME NEW it, Rec(it)
      PROVE  \A s \in SUBSET D : IsLeast(it[s], CountsOf(sectors, s))
  <2> DEFINE F == {s \in SUBSET D : IsLeast(it[s], CountsOf(sectors, s))}
  <2>1. ASSUME NEW s \in SUBSET D, \A x \in s : s \ {x} \in F
        PROVE  s \in F
    <3>1. it[s] = IF s = {} THEN IntMax
                  ELSE IF n(Pick(s)) < it[s \ {Pick(s)}]
                       THEN n(Pick(s)) ELSE it[s \ {Pick(s)}]
      BY <1>7
    <3>2. CASE s = {}
      BY <1>5, <3>1, <3>2
    <3>3. CASE s # {}
      <4>1. Pick(s) \in s /\ IsLeast(it[s \ {Pick(s)}], CountsOf(sectors, s \ {Pick(s)}))
        BY <1>3, <2>1, <3>3
      <4> QED BY <1>4, <3>1, <3>3, <4>1
    <3> QED BY <3>2, <3>3
  <2> HIDE DEF F
  <2>2. \A s \in SUBSET D : s \in F
    BY <1>2, <2>1, SetInduction
  <2> QED BY <2>2 DEF F
<1>8. \A s \in SUBSET D : IsLeast(g[s], CountsOf(sectors, s))
  <2> DEFINE F == {s \in SUBSET D : \E k : IsLeast(k, CountsOf(sectors, s))}
  <2>1. ASSUME NEW s \in SUBSET D, \A x \in s : s \ {x} \in F
        PROVE  s \in F
    <3>1. CASE s = {}
      BY <1>5, <3>1
    <3>2. CASE s # {}
      <4>1. PICK x \in s : s \ {x} \in F
        BY <2>1, <3>2
      <4>2. PICK k : IsLeast(k, CountsOf(sectors, s \ {x}))
        BY <4>1
      <4> QED BY <1>4, <4>2
    <3> QED BY <3>1, <3>2
  <2> HIDE DEF F
  <2>2. \A s \in SUBSET D : s \in F
    BY <1>2, <2>1, SetInduction
  <2> QED BY <2>2 DEF F
<1> HIDE DEF g
<1>9. Rec(g)
  <2>1. ASSUME NEW s \in SUBSET D
        PROVE  g[s] = IF s = {} THEN IntMax
                      ELSE IF n(Pick(s)) < g[s \ {Pick(s)}]
                           THEN n(Pick(s)) ELSE g[s \ {Pick(s)}]
    <3>1. CASE s = {}
      BY <1>5, <1>6, <1>8, <3>1
    <3>2. CASE s # {}
      <4>1. Pick(s) \in s /\ IsLeast(g[s \ {Pick(s)}], CountsOf(sectors, s \ {Pick(s)}))
        BY <1>3, <1>8, <3>2
      <4> QED BY <1>4, <1>6, <1>8, <3>2, <4>1
    <3> QED BY <3>1, <3>2
  <2> QED BY <2>1 DEF g
<1>10. Rec(iter)
  BY <1>9
<1> HIDE DEF iter
<1>11. IsLeast(iter[D], CountsOf(sectors, D))
  BY <1>7, <1>10
<1> QED BY <1>1, <1>11

\* Enough votes in the statistics are enough votes in every sector.
LEMMA EnoughSettles ==
  ASSUME NEW sectors, SectorsInv(sectors), NEW min \in Nat, minMC(sectors) >= min
  PROVE  \A i \in DOMAIN sectors : IsSettled(sectors[i], min)
<1>1. IsLeast(minMC(sectors), CountsOf(sectors, DOMAIN sectors))
  BY MinIsLeast
<1>2. ASSUME NEW i \in DOMAIN sectors
      PROVE  MostCommonCount(sectors[i].checks) >= min
  <2>1. sectors[i] \in Sector /\ SectorInv(sectors[i])
    BY DEF SectorsInv
  <2>2. MostCommonCount(sectors[i].checks) \in Nat
    BY <2>1, CountType
  <2>3. minMC(sectors) <= MostCommonCount(sectors[i].checks)
    BY <1>1 DEF IsLeast, CountsOf
  <2>4. minMC(sectors) \in Nat
    <3>1. CountsOf(sectors, DOMAIN sectors) \subseteq Nat
      BY CountType, StoreAssumption DEF CountsOf, SectorsInv
    <3> QED BY <1>1, <3>1 DEF IsLeast
  <2> QED BY <2>2, <2>3, <2>4
<1> QED BY <1>2 DEF IsSettled

-----------------------------------------------------------------------------
(***************************************************************************)
(* Grab's steps are SectorDb's.                                            *)
(***************************************************************************)

LEMMA GrabStepIsNext ==
  ASSUME m_cdda \in Readers, GrabNext
  PROVE  [Next]_vars
<1>1. CASE OpenFile
  BY <1>1 DEF OpenFile, Next
<1>2. CASE OpenNew
  <2>1. m_cdda \in Tocs
    BY DEF Tocs
  <2> QED BY <1>2, <2>1 DEF OpenNew, Next
<1>3. CASE BeginPass
  <2>1. PICK buf \in Data : RefineStart(m_cdda, minimumCommonCrcCount, TRUE, buf)
    BY <1>3 DEF BeginPass
  <2> QED BY <2>1, GrabberAssumption DEF Next
<1>4. CASE Throws
  BY <1>4 DEF Throws, Next
<1>5. CASE InsidePass
  BY <1>5 DEF InsidePass, Next
<1>6. CASE BeginSave \/ EndSave
  BY <1>6 DEF BeginSave, EndSave, Next
<1>7. CASE OpenTorn \/ Return
  BY <1>7 DEF OpenTorn, Return
<1>8. CASE NewProcess
  BY <1>8 DEF NewProcess, Next
<1> QED BY <1>1, <1>2, <1>3, <1>4, <1>5, <1>6, <1>7, <1>8 DEF GrabNext, GrabStep

LEMMA CddaStays ==
  ASSUME m_cdda \in Readers, [GrabNext]_<<vars, grab>>
  PROVE  m_cdda' \in Readers /\ [Next]_vars
<1>1. CASE GrabNext
  <2>1. m_cdda' = m_cdda \/ m_cdda' \in Readers
    BY <1>1 DEF GrabNext, GrabStep, OpenFile, OpenTorn, OpenNew, BeginPass, Throws,
       InsidePass, BeginSave, EndSave, Return, NewProcess
  <2> QED BY <1>1, <2>1, GrabStepIsNext
<1>2. CASE UNCHANGED <<vars, grab>>
  BY <1>2 DEF grab
<1> QED BY <1>1, <1>2

\* What is proved of SectorDb holds for the processes that grab: the kept audio
\* is the most common one, and a pass reads each unsettled sector once.
THEOREM GrabIsSectorDb == GrabSpec => Spec
<1>1. GrabInit => Init /\ m_cdda \in Readers
  BY DEF GrabInit
<1>2. m_cdda \in Readers /\ [GrabNext]_<<vars, grab>>
        => (m_cdda \in Readers)' /\ [Next]_vars
  BY CddaStays
<1> QED BY <1>1, <1>2, PTL DEF GrabSpec, Spec

-----------------------------------------------------------------------------
(***************************************************************************)
(* The stages.                                                             *)
(***************************************************************************)

LEMMA NewIsUnsettled ==
  ~IsSettled(NewSector, minimumCommonCrcCount)
BY DEF IsSettled, NewSector, MostCommonCount, minimumCommonCrcCount

LEMMA InitGrabInv == GrabInit => GrabInv
<1> SUFFICES ASSUME GrabInit PROVE GrabInv
  OBVIOUS
<1>1. IInv
  <2>1. PassInv
    BY DEF GrabInit, Init, PassInv, InPass
  <2> QED BY <2>1, InitStoreInv, InitHeardInv DEF GrabInit, IInv
<1>2. ~Enough
  BY DEF GrabInit, Enough, minimumCommonCrcCount
<1> QED BY <1>1, <1>2 DEF GrabInv, GrabInit, Init, InPass

LEMMA IInvStep ==
  ASSUME IInv, [Next]_vars
  PROVE  IInv'
BY StoreParts, NextPassInv, NextStoreInv, NextHeardInv DEF IInv

LEMMA PassEnds ==
  ASSUME GrabInv, stage = "pass", RefineEnd, frame.nrRead = 0
  PROVE  AllSettled' /\ ((m.sectors # << >> => SameAsFile)')
<1>1. /\ Len(before) = Len(m.sectors) /\ Len(m.sectors) \in Nat
      /\ m.sectors \in Seq(Sector) /\ before \in Seq(Sector)
      /\ m \in Db /\ file.m \in Db /\ file.m.sectors \in Seq(Sector)
      /\ \A i \in DOMAIN m.sectors :
           /\ m.sectors[i] = before[i]
           /\ IsSettled(m.sectors[i], minimumCommonCrcCount)
  <2>1. StoreInv /\ PassInv /\ frame.minimumCommonCrcCount = minimumCommonCrcCount
    BY DEF GrabInv, IInv
  <2>2. /\ m \in Db /\ m.sectors \in Seq(Sector)
        /\ file.m \in Db /\ file.m.sectors \in Seq(Sector)
        /\ before \in Seq(Sector)
    BY <2>1, StoreParts DEF MemInv, DbInv, SectorsInv, FileInv, Files, FrameInv
  <2> QED BY <2>1, <2>2, NothingToRead DEF IsSettled
<1>2. m' = m /\ file' = file
  BY DEF RefineEnd
<1>3. AllSettled
  BY <1>1 DEF AllSettled
<1>4. ASSUME m.sectors # << >> PROVE SameAsFile
  <2>1. 1 \in DOMAIN m.sectors
    BY <1>1, <1>4
  <2>2. \A i \in DOMAIN before : before[i] # NewSector
    BY <1>1, NewIsUnsettled
  <2>3. ~Fresh(before)
    BY <1>1, <2>1, <2>2 DEF Fresh, AllNew
  <2>4. /\ file.state = "whole" /\ file.m.toc = m.toc
        /\ Len(file.m.sectors) <= Len(before)
        /\ before = Resized(file.m.sectors, Len(before), NewSector)
    BY <2>3 DEF GrabInv
  <2>5. Len(file.m.sectors) = Len(before)
    <3>1. SUFFICES ASSUME Len(file.m.sectors) < Len(before) PROVE FALSE
      BY <1>1, <2>4
    <3>2. Len(before) \in DOMAIN before /\ Len(file.m.sectors) \in Nat
      BY <1>1, <3>1
    <3>3. before[Len(before)] = NewSector
      BY <1>1, <2>4, <3>1, <3>2 DEF Resized
    <3> QED BY <2>2, <3>2, <3>3
  <2>6. \A i \in 1..Len(m.sectors) : m.sectors[i] = file.m.sectors[i]
    BY <1>1, <2>4, <2>5 DEF Resized
  <2>7. m.sectors = file.m.sectors
    BY <1>1, <2>5, <2>6
  <2>8. m = [toc |-> m.toc, sectors |-> m.sectors]
        /\ file.m = [toc |-> file.m.toc, sectors |-> file.m.sectors]
    BY <1>1 DEF Db
  <2> QED BY <2>4, <2>7, <2>8 DEF SameAsFile
<1> QED BY <1>2, <1>3, <1>4 DEF AllSettled, SameAsFile

\* What a pass, at any of its steps, has added to the whole file, if any.
LEMMA PassUnsaved ==
  ASSUME GrabInv, stage = "pass"
  PROVE  /\ file.state # "torn"
         /\ \A i \in DOMAIN m.sectors : Unsaved(i) \in {0, 1}
<1>1. /\ InPass /\ PassInv /\ MemInv /\ FileInv /\ FrameInv
      /\ \/ Fresh(before)
         \/ /\ file.state = "whole"
            /\ Len(file.m.sectors) <= Len(before)
            /\ before = Resized(file.m.sectors, Len(before), NewSector)
  BY StoreParts DEF GrabInv, IInv
<1>2. ASSUME NEW i \in DOMAIN m.sectors PROVE Unsaved(i) \in {0, 1}
  <2> DEFINE saved == IF file.state = "whole" /\ i \in DOMAIN file.m.sectors
                      THEN sum(file.m.sectors[i].checks) ELSE 0
  <2>1. /\ before \in Seq(Sector) /\ Len(before) = Len(m.sectors)
        /\ m.sectors \in Seq(Sector) /\ file.m.sectors \in Seq(Sector)
        /\ i \in 1..Len(before) /\ DOMAIN before = 1..Len(before)
        /\ DOMAIN file.m.sectors = 1..Len(file.m.sectors)
        /\ Len(file.m.sectors) \in Nat
    BY <1>1 DEF MemInv, DbInv, SectorsInv, FileInv, Files, FrameInv
  <2>2. before[i] \in Sector
    BY <2>1
  <2>3. sum(before[i].checks) \in Nat
    BY <2>2, SumType DEF Sector
  <2>4. \/ sum(m.sectors[i].checks) = sum(before[i].checks) + 1
        \/ sum(m.sectors[i].checks) = sum(before[i].checks)
    BY <1>1 DEF PassInv
  <2>5. sum(before[i].checks) = saved
    <3>1. CASE Fresh(before)
      BY <2>1, <3>1, SumOfNone DEF Fresh, AllNew, NewSector
    <3>2. CASE before = Resized(file.m.sectors, Len(before), NewSector)
               /\ file.state = "whole" /\ Len(file.m.sectors) <= Len(before)
      BY <2>1, <3>2, SumOfNone DEF Resized, NewSector
    <3> QED BY <1>1, <3>1, <3>2
  <2>6. Unsaved(i) = sum(m.sectors[i].checks) - saved
    BY DEF Unsaved
  <2> HIDE DEF saved
  <2> QED BY <2>3, <2>4, <2>5, <2>6
<1> QED BY <1>1, <1>2 DEF Fresh

LEMMA InsidePassKeeps ==
  ASSUME GrabInv, InsidePass, IInv'
  PROVE  GrabInv'
<1>a. /\ stage = "pass" /\ m_cdda' = m_cdda /\ stat' = stat
      /\ stage' = (IF pc' = "idle" THEN "passed" ELSE "pass")
      /\ nRead' = (IF pc' = "idle" THEN frame.nrRead ELSE nRead)
      /\ stopped' = (pc = "progress" /\ pc' = "idle")
      /\ RefineStep
  BY DEF InsidePass
<1>b. /\ frame \in Frames /\ frame.nrRead \in Nat /\ m \in Db
  BY StoreParts DEF GrabInv, IInv, FrameInv, Frames, MemInv, DbInv
<1>c. ~Enough /\ InPass /\ pc # "save"
  BY <1>a DEF GrabInv, InPass
<1>d. /\ m_cdda \in Readers /\ nRead \in Nat /\ m.toc # NoToc
      /\ file.state = "whole" => file.m.toc # NoToc
  BY <1>a DEF GrabInv
<1>1. ASSUME pc' \in {"loop", "progress", "read"}, before' = before, file' = file,
             m'.toc = m.toc, Len(m'.sectors) = Len(m.sectors),
             frame'.minimumCommonCrcCount = frame.minimumCommonCrcCount
      PROVE  GrabInv'
  <2>1. /\ stage' = "pass" /\ InPass' /\ pc' # "save" /\ nRead' = nRead
    BY <1>1, <1>a DEF InPass
  <2>2. /\ frame.minimumCommonCrcCount = minimumCommonCrcCount
        /\ CoversDisc
        /\ \/ Fresh(before)
           \/ /\ file.state = "whole" /\ file.m.toc = m.toc
              /\ Len(file.m.sectors) <= Len(before)
              /\ before = Resized(file.m.sectors, Len(before), NewSector)
    BY <1>a DEF GrabInv
  <2>3. ~Enough'
    BY <1>a, <1>c DEF Enough
  <2>4. CoversDisc' /\ (Fresh(before)' <=> Fresh(before))
    BY <1>1, <1>a, <2>2 DEF CoversDisc, Fresh, AllNew
  <2> QED BY <1>1, <1>a, <1>d, <2>1, <2>2, <2>3, <2>4 DEF GrabInv
<1>2. CASE RefineSkip \/ RefineVisit \/ ProgressContinue
  <2>1. /\ pc' \in {"loop", "progress", "read"} /\ before' = before /\ file' = file
        /\ m' = m
    BY <1>2 DEF RefineSkip, RefineVisit, ProgressContinue
  <2>2. frame'.minimumCommonCrcCount = frame.minimumCommonCrcCount
    BY <1>2, <1>b DEF RefineSkip, RefineVisit, ProgressContinue, Frames
  <2> QED BY <1>1, <2>1, <2>2
<1>3. ASSUME NEW audio, before' = before, file' = file, pc' = "loop",
             m' = [m EXCEPT !.sectors = Recorded(@, frame.lba, audio)],
             frame' = AfterRead(frame, audio)
      PROVE  GrabInv'
  <2>1. m'.toc = m.toc
    BY <1>3, <1>b DEF Db
  <2>2. frame'.minimumCommonCrcCount = frame.minimumCommonCrcCount
    BY <1>3, <1>b DEF AfterRead, Frames
  <2>3. m'.sectors = Recorded(m.sectors, frame.lba, audio)
    BY <1>3, <1>b DEF Db
  <2>4. Len(m'.sectors) = Len(m.sectors)
    BY <1>b, <2>3 DEF Recorded, Db
  <2> QED BY <1>1, <1>3, <2>1, <2>2, <2>4
<1>4. CASE (\E audio \in Data : RefineRead(audio)) \/ RefineReadFails
  BY <1>3, <1>4 DEF RefineRead, RefineReadFails
<1>5. CASE ProgressCancel \/ RefineEnd
  <2>1. /\ pc' = "idle" /\ m' = m /\ file' = file
        /\ stage' = "passed" /\ nRead' = frame.nrRead
        /\ stopped' = (pc = "progress")
    BY <1>5, <1>a DEF ProgressCancel, RefineEnd
  <2>2. ~Enough' /\ ~InPass'
    BY <1>a, <1>c, <2>1 DEF Enough, InPass
  <2>3. (stage = "passed" /\ NothingRead /\ ~stopped =>
           AllSettled /\ (m.sectors # << >> => SameAsFile))'
    <3>1. SUFFICES ASSUME frame.nrRead = 0, pc # "progress"
                   PROVE  AllSettled' /\ ((m.sectors # << >> => SameAsFile)')
      BY <2>1 DEF NothingRead
    <3>2. RefineEnd
      BY <1>5, <3>1 DEF ProgressCancel
    <3> QED BY <1>a, <3>1, <3>2, PassEnds
  <2>4. /\ CoversDisc /\ file.state # "torn"
        /\ \A i \in DOMAIN m.sectors : Unsaved(i) \in {0, 1}
    BY <1>a, PassUnsaved DEF GrabInv
  <2>5. /\ CoversDisc' /\ file'.state # "torn"
        /\ (\A i \in DOMAIN m.sectors : Unsaved(i) \in {0, 1})'
    BY <1>a, <2>1, <2>4 DEF CoversDisc, Unsaved
  <2> QED BY <1>a, <1>b, <1>d, <2>1, <2>2, <2>3, <2>5 DEF GrabInv
<1> QED BY <1>a, <1>2, <1>4, <1>5 DEF RefineStep

LEMMA BeginPassKeeps ==
  ASSUME GrabInv, BeginPass, IInv'
  PROVE  GrabInv'
<1>1. PICK buf \in Data : RefineStart(m_cdda, minimumCommonCrcCount, TRUE, buf)
  BY DEF BeginPass
<1> DEFINE n == IF Len(m.sectors) < SizeInSectors[m_cdda]
                THEN SizeInSectors[m_cdda] ELSE Len(m.sectors)
<1>2. /\ m' = [toc |-> TocAfter(m_cdda), sectors |-> Resized(m.sectors, n, NewSector)]
      /\ before' = Resized(m.sectors, n, NewSector)
      /\ frame' = [NoFrame EXCEPT !.reader = m_cdda,
                      !.minimumCommonCrcCount = minimumCommonCrcCount,
                      !.progress = TRUE, !.buf = buf]
      /\ pc' = "loop" /\ file' = file
  BY <1>1 DEF RefineStart
<1>3. /\ stage = "loop" /\ stage' = "pass" /\ ~Enough
      /\ m_cdda' = m_cdda /\ stat' = stat /\ nRead' = nRead
  BY DEF BeginPass, Goes
<1>4. /\ m_cdda \in Readers /\ nRead \in Nat /\ m.toc # NoToc
      /\ file.state = "whole" => file.m.toc # NoToc
      /\ SameAsFile \/ Fresh(m.sectors)
      /\ m.sectors \in Seq(Sector) /\ Len(m.sectors) \in Nat
  BY <1>3, StoreParts DEF GrabInv, IInv, MemInv, DbInv, SectorsInv
<1>5. n \in Nat /\ Len(m.sectors) <= n /\ SizeInSectors[m_cdda] <= n
  BY <1>4, SectorDbAssumption
<1> HIDE DEF n
<1>6. m'.toc = m.toc
  BY <1>2, <1>4 DEF TocAfter
<1>7. frame'.minimumCommonCrcCount = minimumCommonCrcCount
  BY <1>2 DEF NoFrame
<1>8. Len(before') = n /\ DOMAIN before' = 1..n
  BY <1>2, <1>5 DEF Resized
<1>9. \/ Fresh(before)'
      \/ /\ file'.state = "whole" /\ file'.m.toc = m'.toc
         /\ Len(file'.m.sectors) <= Len(before')
         /\ before' = Resized(file'.m.sectors, Len(before'), NewSector)
  <2>1. CASE Fresh(m.sectors)
    BY <1>2, <1>4, <2>1 DEF Fresh, AllNew, Resized
  <2>2. CASE SameAsFile
    BY <1>2, <1>5, <1>6, <1>8, <2>2 DEF SameAsFile
  <2> QED BY <1>4, <2>1, <2>2
<1>10. InPass' /\ pc' # "save" /\ ~Enough'
  BY <1>2, <1>3 DEF InPass, Enough
<1>11. CoversDisc'
  <2>1. Len(m'.sectors) = n
    BY <1>2, <1>5 DEF Resized
  <2> QED BY <1>3, <1>5, <2>1 DEF CoversDisc
<1> QED BY <1>2, <1>3, <1>4, <1>6, <1>7, <1>9, <1>10, <1>11 DEF GrabInv

LEMMA OpenKeeps ==
  ASSUME GrabInv, OpenFile \/ OpenNew, IInv'
  PROVE  GrabInv'
<1>1. /\ stage = "begin" /\ stage' = "loop" /\ file' = file /\ pc' = pc
      /\ m_cdda' = m_cdda /\ nRead' = nRead /\ pc = "idle"
  BY DEF OpenFile, OpenNew, Goes, Load, New
<1>2. /\ m_cdda \in Readers /\ nRead \in Nat /\ ~Enough
      /\ file.state = "whole" => file.m.toc # NoToc
  BY <1>1 DEF GrabInv
<1>3. ~InPass' /\ pc' # "save"
  BY <1>1 DEF InPass
<1>4. CASE OpenFile
  <2>1. m' = file.m /\ file.state = "whole" /\ stat' = minMC(m'.sectors)
    BY <1>4 DEF OpenFile, Load
  <2>2. SameAsFile' /\ m'.toc # NoToc
    BY <1>1, <1>2, <2>1 DEF SameAsFile
  <2> QED BY <1>1, <1>2, <1>3, <2>1, <2>2 DEF GrabInv
<1>5. CASE OpenNew
  <2>1. m' = EmptyDb(SizeInSectors[m_cdda], m_cdda) /\ stat' = stat
    BY <1>5 DEF OpenNew, New
  <2>2. m'.toc # NoToc /\ Fresh(m.sectors)'
    BY <1>1, <1>2, <1>5, <2>1, SectorDbAssumption DEF OpenNew, EmptyDb, Fresh, AllNew
  <2>3. ~Enough'
    BY <1>2, <2>1 DEF Enough
  <2> QED BY <1>1, <1>2, <1>3, <2>2, <2>3 DEF GrabInv
<1> QED BY <1>4, <1>5

LEMMA SaveKeeps ==
  ASSUME GrabInv, BeginSave \/ EndSave, IInv'
  PROVE  GrabInv'
<1>1. /\ m_cdda' = m_cdda /\ nRead' = nRead /\ stat' = stat /\ m' = m
      /\ stage \in {"passed", "save"}
  BY DEF BeginSave, EndSave, Goes, SaveBegin, SaveEnd
<1>2. /\ m_cdda \in Readers /\ nRead \in Nat /\ ~Enough /\ m.toc # NoToc
      /\ m \in Db /\ file \in Files
  BY <1>1, StoreParts DEF GrabInv, IInv, MemInv, DbInv, FileInv
<1>3. ~Enough'
  BY <1>1, <1>2 DEF Enough
<1>4. CASE BeginSave
  <2>1. /\ stage' = "save" /\ pc' = "save" /\ ~InPass'
        /\ file' = [file EXCEPT !.state = "torn"]
    BY <1>4 DEF BeginSave, Goes, SaveBegin, InPass
  <2>2. file'.state # "whole"
    BY <1>2, <2>1 DEF Files
  <2> QED BY <1>1, <1>2, <1>3, <2>1, <2>2 DEF GrabInv
<1>5. CASE EndSave
  <2>1. /\ stage' = "loop" /\ pc' = "idle" /\ ~InPass'
        /\ file' = [state |-> "whole", m |-> Archive(m), heard |-> heard]
    BY <1>5 DEF EndSave, Goes, SaveEnd, InPass
  <2>2. SameAsFile' /\ file'.m.toc # NoToc
    BY <1>1, <1>2, <2>1, ArchiveIsDb DEF SameAsFile
  <2> QED BY <1>1, <1>2, <1>3, <2>1, <2>2 DEF GrabInv
<1> QED BY <1>4, <1>5

LEMMA ReturnKeeps ==
  ASSUME GrabInv, Return, IInv'
  PROVE  GrabInv'
<1>1. /\ stage' = "returned" /\ stage \in {"loop", "passed"}
      /\ UNCHANGED <<vars, m_cdda, stat, nRead, stopped>>
      /\ \/ stage = "loop" /\ Enough
         \/ stage = "passed" /\ NothingRead
  BY DEF Return, Goes
<1>2. /\ m' = m /\ file' = file /\ pc' = pc /\ m_cdda' = m_cdda /\ nRead' = nRead
      /\ stopped' = stopped /\ stat' = stat
  BY <1>1 DEF vars
<1>3. /\ m_cdda \in Readers /\ nRead \in Nat /\ ~InPass /\ pc # "save"
      /\ file.state = "whole" => file.m.toc # NoToc
      /\ Enough \/ CoversDisc
      /\ ~Enough => file.state # "torn"
  BY <1>1 DEF GrabInv
<1>4. Enough => SameAsFile /\ AllSettled /\ stat = minMC(m.sectors)
  <2>1. SUFFICES ASSUME Enough PROVE SameAsFile /\ AllSettled /\ stat = minMC(m.sectors)
    OBVIOUS
  <2>2. SameAsFile /\ stat = minMC(m.sectors)
    BY <2>1 DEF GrabInv
  <2>3. SectorsInv(m.sectors) /\ minimumCommonCrcCount \in Nat
    BY StoreParts DEF GrabInv, IInv, MemInv, DbInv, minimumCommonCrcCount
  <2>4. minMC(m.sectors) >= minimumCommonCrcCount
    BY <2>1, <2>2 DEF Enough
  <2> QED BY <2>2, <2>3, <2>4, EnoughSettles DEF AllSettled
<1>5. ~stopped => AllSettled /\ (m.sectors # << >> => SameAsFile)
  BY <1>1, <1>4 DEF GrabInv
<1>6. /\ AllSettled' <=> AllSettled
      /\ SameAsFile' <=> SameAsFile
      /\ Enough' <=> Enough
      /\ CoversDisc' <=> CoversDisc
      /\ ~InPass'
  BY <1>2, <1>3 DEF AllSettled, SameAsFile, Enough, CoversDisc, InPass
<1>7. file'.state # "torn"
  BY <1>2, <1>3, <1>4 DEF SameAsFile
<1> QED BY <1>1, <1>2, <1>3, <1>4, <1>5, <1>6, <1>7 DEF GrabInv

LEMMA LeaveKeeps ==
  ASSUME GrabInv, OpenTorn \/ Throws \/ NewProcess, IInv', m_cdda' \in Readers
  PROVE  GrabInv'
<1>1. /\ stage' \in {"threw", "begin"} /\ file' = file
      /\ stage \in {"begin", "loop", "passed", "save"} \/ NewProcess
      /\ nRead' \in {0, nRead}
  BY DEF OpenTorn, Throws, NewProcess, Goes, Crash, vars, RefineThrows, SaveThrows
<1>2. /\ nRead \in Nat
      /\ file.state = "whole" => file.m.toc # NoToc
  BY DEF GrabInv
<1>3. pc' \notin {"loop", "progress", "read", "save"}
  <2>1. CASE NewProcess
    BY <2>1 DEF NewProcess, Crash
  <2>2. CASE ~NewProcess
    <3>1. CASE stage = "save"
      BY <2>2, <3>1 DEF OpenTorn, Throws, Goes, SaveThrows
    <3>2. CASE stage # "save"
      <4>1. pc \notin {"loop", "progress", "read", "save"}
        BY <1>1, <2>2, <3>2 DEF GrabInv, InPass
      <4> QED BY <2>2, <3>2, <4>1 DEF OpenTorn, Throws, Goes, vars, RefineThrows
    <3> QED BY <3>1, <3>2
  <2> QED BY <2>1, <2>2
<1>4. ~Enough'
  <2>1. CASE NewProcess
    BY <2>1 DEF NewProcess, Enough, minimumCommonCrcCount
  <2>2. CASE OpenTorn \/ Throws
    <3>1. ~Enough /\ stat' = stat
      BY <2>2 DEF GrabInv, OpenTorn, Throws, Goes
    <3> QED BY <3>1 DEF Enough
  <2> QED BY <2>1, <2>2
<1> QED BY <1>1, <1>2, <1>3, <1>4 DEF GrabInv, InPass

LEMMA NextGrabInv ==
  ASSUME GrabInv, [GrabNext]_<<vars, grab>>
  PROVE  GrabInv'
<1>1. m_cdda' \in Readers /\ IInv'
  BY CddaStays, IInvStep DEF GrabInv
<1>2. CASE UNCHANGED <<vars, grab>>
  <2>1. m' = m /\ file' = file /\ pc' = pc /\ frame' = frame /\ before' = before
        /\ stage' = stage /\ m_cdda' = m_cdda /\ stat' = stat /\ nRead' = nRead
        /\ stopped' = stopped
    BY <1>2 DEF vars, grab
  <2>2. \A i : Unsaved(i)' = Unsaved(i)
    BY <2>1 DEF Unsaved
  <2> QED BY <1>1, <2>1, <2>2 DEF GrabInv, InPass, Enough, SameAsFile, AllSettled,
             NothingRead, CoversDisc, Fresh, AllNew
<1> QED BY <1>1, <1>2, InsidePassKeeps, BeginPassKeeps, OpenKeeps, SaveKeeps,
           ReturnKeeps, LeaveKeeps DEF GrabNext, GrabStep

-----------------------------------------------------------------------------
(***************************************************************************)
(* The theorems.                                                           *)
(***************************************************************************)

\* db, file, stage and statistics agree at every step of every process.
THEOREM GrabInvariant == GrabSpec => []GrabInv
<1>1. GrabInit => GrabInv
  BY InitGrabInv
<1>2. GrabInv /\ [GrabNext]_<<vars, grab>> => GrabInv'
  BY NextGrabInv
<1> QED BY <1>1, <1>2, PTL DEF GrabSpec

\* A grab that returns without being told to stop leaves every sector of its
\* db with two equal reads and, unless the db is empty, all of it in the file;
\* and unless it did nothing, because the file it opened had enough votes, its
\* db covers the disc.  For discs of any size and however often earlier grabs
\* were killed, stopped, left by an exception or failed to read.
THEOREM GrabLeavesSettled == GrabSpec => []GrabEndsSettled
<1>1. GrabInv => GrabEndsSettled
  BY DEF GrabInv, GrabEndsSettled, AllSettled, SameAsFile, CoversDisc
<1> QED BY <1>1, GrabInvariant, PTL

\* What a kill or an exception costs a grab of any disc: in and between passes
\* the file is not torn and lacks one read of each sector at most: that much is
\* lost; only inside Save, and from then on, the file is torn.
THEOREM CostOfDeath == GrabSpec => []WhatDeathCosts
<1>1. GrabInv => WhatDeathCosts
  <2> SUFFICES ASSUME GrabInv PROVE WhatDeathCosts
    OBVIOUS
  <2>1. CASE stage = "loop"
    <3>1. m.sectors \in Seq(Sector)
      BY StoreParts DEF GrabInv, IInv, MemInv, DbInv, SectorsInv
    <3>2. SameAsFile \/ Fresh(m.sectors)
      BY <2>1 DEF GrabInv
    <3>3. ASSUME NEW i \in DOMAIN m.sectors PROVE Unsaved(i) \in {0, 1}
      <4>1. m.sectors[i] \in Sector
        BY <3>1, <3>3
      <4>2. sum(m.sectors[i].checks) \in Nat
        BY <4>1, SumType DEF Sector
      <4>3. Unsaved(i) = 0
        BY <3>2, <3>3, <4>2, SumOfNone DEF Unsaved, SameAsFile, Fresh, AllNew, NewSector
      <4> QED BY <4>3
    <3>4. file.state # "torn"
      BY <3>2 DEF SameAsFile, Fresh
    <3> QED BY <2>1, <3>3, <3>4 DEF WhatDeathCosts
  <2>2. CASE stage = "pass"
    BY <2>2, PassUnsaved DEF WhatDeathCosts
  <2>3. CASE stage \in {"begin", "save", "threw", "passed", "returned"}
    BY <2>3 DEF GrabInv, WhatDeathCosts
  <2>4. stage \in {"begin", "loop", "pass", "passed", "save", "returned", "threw"}
    BY DEF GrabInv
  <2> QED BY <2>1, <2>2, <2>3, <2>4
<1> QED BY <1>1, GrabInvariant, PTL

-----------------------------------------------------------------------------
(***************************************************************************)
(* Why a grab ends: every step of a pass brings its end nearer, a pass     *)
(* that reads adds votes, and a sector has no use for many of them.        *)
(***************************************************************************)

\* How far a pass is from its end: the sectors left, and the steps left for the
\* one the loop is at.
PassRank ==
  3 * (Len(m.sectors) - frame.lba)
    + (IF pc = "loop" THEN 2 ELSE IF pc = "progress" THEN 1 ELSE 0)

\* A pass over any number of sectors ends: each step of it returns to the caller
\* or lowers a natural number, whatever the reader and the callback answer.
THEOREM PassesEnd ==
  Spec => /\ [](InPass => PassRank \in Nat)
          /\ [][InPass /\ RefineStep => pc' = "idle" \/ PassRank' < PassRank]_vars
<1>1. IInv /\ InPass => PassRank \in Nat
  <2> SUFFICES ASSUME IInv, InPass PROVE PassRank \in Nat
    OBVIOUS
  <2>1. /\ frame.lba \in Nat /\ Len(m.sectors) \in Nat
        /\ frame.lba <= Len(m.sectors)
    BY StoreParts DEF IInv, MemInv, DbInv, SectorsInv, FrameInv, Frames, PassInv
  <2> QED BY <2>1 DEF PassRank
<1>2. ASSUME IInv, InPass, RefineStep PROVE pc' = "idle" \/ PassRank' < PassRank
  <2>1. /\ MemInv /\ FrameInv /\ frame \in Frames /\ frame.lba \in Nat
        /\ Len(m.sectors) \in Nat /\ m \in Db /\ m.sectors \in Seq(Sector)
    BY <1>2, StoreParts DEF IInv, MemInv, DbInv, SectorsInv, FrameInv, Frames
  <2>2. CASE RefineSkip
    <3>1. /\ m' = m /\ pc = "loop" /\ pc' = "loop" /\ frame'.lba = frame.lba + 1
      BY <2>1, <2>2 DEF RefineSkip, Frames
    <3> QED BY <2>1, <3>1 DEF PassRank
  <2>3. CASE RefineVisit
    <3>1. m' = m /\ pc = "loop" /\ pc' \in {"progress", "read"} /\ frame' = frame
      BY <2>3 DEF RefineVisit
    <3> QED BY <2>1, <3>1 DEF PassRank
  <2>4. CASE ProgressContinue
    <3>1. m' = m /\ pc = "progress" /\ pc' = "read" /\ frame'.lba = frame.lba
      BY <2>1, <2>4 DEF ProgressContinue, Frames
    <3> QED BY <2>1, <3>1 DEF PassRank
  <2>5. ASSUME NEW audio, pc = "read", pc' = "loop", frame' = AfterRead(frame, audio),
               m' = [m EXCEPT !.sectors = Recorded(@, frame.lba, audio)]
        PROVE  PassRank' < PassRank
    <3>1. frame'.lba = frame.lba + 1
      BY <2>1, <2>5 DEF AfterRead, Frames
    <3>2. m'.sectors = Recorded(m.sectors, frame.lba, audio)
      BY <2>1, <2>5 DEF Db
    <3>3. Len(m'.sectors) = Len(m.sectors)
      BY <2>1, <3>2 DEF Recorded
    <3> QED BY <2>1, <2>5, <3>1, <3>3 DEF PassRank
  <2>6. CASE (\E audio \in Data : RefineRead(audio)) \/ RefineReadFails
    BY <2>5, <2>6 DEF RefineRead, RefineReadFails
  <2>7. CASE ProgressCancel \/ RefineEnd
    BY <2>7 DEF ProgressCancel, RefineEnd
  <2> QED BY <1>2, <2>2, <2>3, <2>4, <2>6, <2>7 DEF RefineStep
<1>3. IInv /\ [Next]_vars =>
        [InPass /\ RefineStep => pc' = "idle" \/ PassRank' < PassRank]_vars
  BY <1>2
<1> QED BY <1>1, <1>3, InductiveInvariant, PTL DEF Spec

\* A pass that reads adds a vote to the sectors it reads: however it ends, it
\* leaves one with more votes than it found.
THEOREM ReadingPassesVote ==
  Spec => [][InPass /\ RefineStep /\ pc' = "idle" /\ frame.nrRead > 0 =>
               \E i \in DOMAIN m'.sectors :
                  sum(m'.sectors[i].checks) = sum(before[i].checks) + 1]_vars
<1>1. ASSUME IInv, InPass, RefineStep, pc' = "idle", frame.nrRead > 0
      PROVE  \E i \in DOMAIN m'.sectors :
               sum(m'.sectors[i].checks) = sum(before[i].checks) + 1
  <2>1. m' = m
    BY <1>1 DEF RefineStep, RefineSkip, RefineVisit, ProgressContinue, ProgressCancel,
       RefineRead, RefineReadFails, RefineEnd
  <2>2. /\ FrameInv /\ SectorsInv(m.sectors) /\ frame.lba \in Nat /\ frame.nrRead \in Nat
        /\ frame.lba <= Len(m.sectors) /\ frame.nrRead = Cardinality(Done)
    BY <1>1, StoreParts DEF IInv, MemInv, DbInv, FrameInv, Frames, PassInv
  <2>3. Done # {}
    <3>1. Cardinality({}) = 0
      BY FS_EmptySet
    <3>2. Cardinality(Done) # 0
      BY <1>1, <2>2
    <3> QED BY <3>1, <3>2, Zenon
  <2>4. PICK i \in 1..frame.lba : i \in Done
    BY <2>2, <2>3, DoneFinite
  <2>5. i \in DOMAIN m.sectors
    BY <2>2 DEF SectorsInv
  <2>6. sum(m.sectors[i].checks) = sum(before[i].checks) + 1
    BY <1>1, <2>4, <2>5 DEF IInv, PassInv
  <2> QED BY <2>1, <2>5, <2>6
<1>2. IInv /\ [Next]_vars =>
        [InPass /\ RefineStep /\ pc' = "idle" /\ frame.nrRead > 0 =>
           \E i \in DOMAIN m'.sectors :
              sum(m'.sectors[i].checks) = sum(before[i].checks) + 1]_vars
  BY <1>1
<1> QED BY <1>2, InductiveInvariant, PTL DEF Spec

\* At most one read of a sector was a repetition, and then of the CRC that
\* settled it.
OneRepeat(s) ==
  sum(s.checks)
    = Len(s.checks) + (IF IsSettled(s, minimumCommonCrcCount) THEN 1 ELSE 0)

\* A read of a sector that is not settled keeps that so.
LEMMA AddAudioRepeats ==
  ASSUME NEW s \in Sector, SectorInv(s), NEW audio \in Data,
         OneRepeat(s), ~IsSettled(s, minimumCommonCrcCount)
  PROVE  OneRepeat(AddAudio(s, audio))
<1> DEFINE v == CrcOf[audio]
           t == AddAudio(s, audio)
           occ == s.checks
           new == push_back(occ, v)
<1>1. /\ v \in Checks
      /\ occ \in occurences_t(Checks)
      /\ Distinct(occ)
      /\ t \in Sector /\ SectorInv(t)
      /\ t.checks = new
  BY SectorType, AddAudioSectorInv, StoreAssumption DEF SectorInv, Distinct, AddAudio
<1>2. /\ DOMAIN occ = 1..Len(occ) /\ Len(occ) \in Nat
      /\ \A i \in DOMAIN occ : occ[i].first \in Nat \ {0}
  BY <1>1, ListType
<1>3. new # << >> /\ new \in occurences_t(Checks)
  BY <1>1, PushBackDistinct
<1>4. sum(new) = sum(occ) + 1 /\ sum(occ) \in Nat
  BY <1>1, PushBackSum, SumType
<1>5. sum(occ) = Len(occ)
  BY <1>2 DEF OneRepeat
<1>6. \A i \in DOMAIN occ : occ[i].first = 1
  <2>1. MostCommonCount(occ) \in Nat /\ ~(MostCommonCount(occ) >= 2)
    BY CountType DEF IsSettled, minimumCommonCrcCount
  <2>2. SUFFICES ASSUME occ # << >> PROVE \A i \in DOMAIN occ : occ[i].first = 1
    BY <1>2
  <2>3. PICK i \in DOMAIN occ :
          /\ MostCommonCount(occ) = occ[i].first
          /\ \A j \in DOMAIN occ : occ[j].first <= occ[i].first
    BY <2>2, CountIsMost
  <2> QED BY <1>2, <2>1, <2>3
<1>7. PICK w \in DOMAIN new :
        /\ MostCommonCount(new) = new[w].first
        /\ \A j \in DOMAIN new : new[j].first <= new[w].first
  BY <1>1, <1>3, CountIsMost
<1>8. IsSettled(t, minimumCommonCrcCount) <=> new[w].first >= 2
  BY <1>1, <1>7 DEF IsSettled, minimumCommonCrcCount
<1>9. DOMAIN new = 1..Len(new) /\ Len(new) \in Nat
      /\ \A i \in DOMAIN new : new[i].first \in Nat \ {0}
  BY <1>3, ListType
<1> HIDE DEF v, t, occ, new
<1>10. CASE Entries(occ, v) = {}
  <2>1. /\ DOMAIN new = 1..(Len(occ) + 1)
        /\ \A i \in DOMAIN occ : new[i] = occ[i]
        /\ new[Len(occ) + 1] = [first |-> 1, second |-> v]
    BY <1>1, <1>10, PushBackNew DEF new
  <2>2. Len(new) = Len(occ) + 1
    <3>1. Cardinality(1..Len(new)) = Len(new) /\ Cardinality(1..(Len(occ) + 1)) = Len(occ) + 1
      BY <1>2, <1>9, UpTo
    <3> QED BY <1>9, <2>1, <3>1, Zenon
  <2>3. new[w].first = 1
    <3>1. CASE w = Len(occ) + 1
      BY <2>1, <3>1
    <3>2. CASE w # Len(occ) + 1
      <4>1. w \in DOMAIN occ
        BY <1>2, <1>7, <2>1, <3>2
      <4> QED BY <1>6, <2>1, <4>1
    <3> QED BY <3>1, <3>2
  <2>4. ~IsSettled(t, minimumCommonCrcCount)
    BY <1>8, <2>3
  <2> QED BY <1>1, <1>4, <1>5, <2>2, <2>4 DEF OneRepeat, t
<1>11. CASE Entries(occ, v) # {}
  <2>1. PICK e \in DOMAIN occ : occ[e].second = v
    BY <1>11 DEF Entries
  <2>2. DOMAIN new = DOMAIN occ /\ new[e].first = occ[e].first + 1
    BY <1>1, <2>1, PushBackOld DEF new
  <2>3. Len(new) = Len(occ)
    <3>1. Cardinality(1..Len(new)) = Len(new) /\ Cardinality(1..Len(occ)) = Len(occ)
      BY <1>2, <1>9, UpTo
    <3> QED BY <1>2, <1>9, <2>2, <3>1, Zenon
  <2>4. new[e].first = 2 /\ new[e].first <= new[w].first
    BY <1>6, <1>7, <2>1, <2>2
  <2>5. IsSettled(t, minimumCommonCrcCount)
    BY <1>7, <1>8, <1>9, <2>4
  <2> QED BY <1>1, <1>4, <1>5, <2>3, <2>5 DEF OneRepeat, t
<1> QED BY <1>10, <1>11

\* Every sector, in memory and in the file, torn or whole.
Repeats == /\ \A i \in DOMAIN m.sectors : OneRepeat(m.sectors[i])
           /\ \A i \in DOMAIN file.m.sectors : OneRepeat(file.m.sectors[i])

\* A sector nobody has read has no votes.
LEMMA NewRepeats == OneRepeat(NewSector)
<1>1. NewSector.checks = << >>
  BY DEF NewSector
<1> QED BY <1>1, NewIsUnsettled, SumOfNone DEF OneRepeat

\* Every step keeps that, if the passes ask for the two equal reads Grab asks for:
\* only a sector that is not settled is read, and all else moves sectors as they are.
LEMMA NextRepeats ==
  ASSUME IInv, Repeats, [Next]_vars,
         InPass => frame.minimumCommonCrcCount = minimumCommonCrcCount
  PROVE  Repeats'
<1>a. /\ MemInv /\ FileInv /\ FrameInv /\ m \in Db
      /\ SectorsInv(m.sectors) /\ Len(m.sectors) \in Nat
      /\ DOMAIN m.sectors = 1..Len(m.sectors)
  BY StoreParts DEF IInv, MemInv, DbInv, SectorsInv
<1>1. ASSUME NEW n \in Nat, NEW toc \in Tocs, New(n, toc) PROVE Repeats'
  <2>1. m' = EmptyDb(n, toc) /\ file' = file
    BY <1>1 DEF New
  <2> QED BY <2>1, NewRepeats DEF EmptyDb, Repeats
<1>2. CASE Load
  BY <1>2 DEF Load, Repeats
<1>3. CASE SaveBegin
  <2>1. m' = m /\ file'.m = file.m
    BY <1>3, <1>a DEF SaveBegin, FileInv, Files
  <2> QED BY <2>1 DEF Repeats
<1>4. CASE SaveEnd
  <2>1. m' = m /\ file'.m = m
    BY <1>4, <1>a, ArchiveIsDb DEF SaveEnd
  <2> QED BY <2>1 DEF Repeats
<1>5. ASSUME NEW reader \in Readers, NEW min \in MinCounts,
             NEW progress \in BOOLEAN, NEW buf \in Data,
             RefineStart(reader, min, progress, buf)
      PROVE  Repeats'
  <2>1. PICK n : m'.sectors = Resized(m.sectors, n, NewSector) /\ file' = file /\ n \in Nat
    BY <1>5, <1>a, SectorDbAssumption DEF RefineStart
  <2>2. \A i \in DOMAIN m'.sectors :
          m'.sectors[i] = NewSector \/ (i \in DOMAIN m.sectors /\ m'.sectors[i] = m.sectors[i])
    BY <1>a, <2>1 DEF Resized
  <2> QED BY <2>1, <2>2, NewRepeats DEF Repeats
<1>6. ASSUME NEW audio \in Data, pc = "read", file' = file,
             m' = [m EXCEPT !.sectors = Recorded(@, frame.lba, audio)]
      PROVE  Repeats'
  <2> DEFINE n == frame.lba + 1
  <2>1. /\ frame.lba \in Nat /\ frame.lba < Len(m.sectors)
        /\ frame.minimumCommonCrcCount = minimumCommonCrcCount
    BY <1>6, <1>a DEF FrameInv, Frames, InPass
  <2>2. n \in DOMAIN m.sectors /\ n \notin Done /\ Due(n)
    BY <1>6, <1>a, <2>1 DEF Done, IInv, PassInv, InPass
  <2>3. m.sectors[n] = before[n]
    BY <1>6, <2>2 DEF IInv, PassInv, InPass
  <2>4. m.sectors[n] \in Sector /\ SectorInv(m.sectors[n])
    BY <1>a, <2>2 DEF SectorsInv
  <2>5. MostCommonCount(m.sectors[n].checks) \in Nat
    BY <2>4, CountType
  <2> HIDE DEF n
  <2>6. ~IsSettled(m.sectors[n], minimumCommonCrcCount)
    BY <2>1, <2>2, <2>3, <2>5 DEF Due, IsSettled, minimumCommonCrcCount
  <2>7. OneRepeat(AddAudio(m.sectors[n], audio))
    BY <2>2, <2>4, <2>6, AddAudioRepeats DEF Repeats
  <2>8. m'.sectors = [m.sectors EXCEPT ![n] = AddAudio(@, audio)]
    BY <1>6, <1>a DEF Db, Recorded, n
  <2>9. \A i \in DOMAIN m'.sectors :
          /\ i \in DOMAIN m.sectors
          /\ m'.sectors[i] = IF i = n THEN AddAudio(m.sectors[n], audio) ELSE m.sectors[i]
    BY <2>2, <2>8
  <2> QED BY <1>6, <2>7, <2>9 DEF Repeats
<1>7. CASE RefineReadFails
  <2>1. frame.buf \in Data
    BY <1>a DEF FrameInv, Frames
  <2> QED BY <1>6, <1>7, <2>1 DEF RefineReadFails
<1>8. CASE Crash
  <2>1. m'.sectors = [i \in 1..0 |-> NewSector] /\ file' = file
    BY <1>8 DEF Crash, EmptyDb
  <2> QED BY <2>1 DEF Repeats
<1>9. CASE \/ RefineSkip \/ RefineVisit \/ ProgressContinue \/ ProgressCancel \/ RefineEnd
           \/ SaveThrows \/ UNCHANGED vars
  <2>1. m' = m /\ file' = file
    BY <1>9 DEF RefineSkip, RefineVisit, ProgressContinue, ProgressCancel, RefineEnd,
       SaveThrows, vars
  <2> QED BY <2>1 DEF Repeats
<1>10. ASSUME NEW reader \in Readers, RefineThrows(reader) PROVE Repeats'
  <2>1. m'.sectors = m.sectors /\ file' = file
    BY <1>10, <1>a DEF RefineThrows, Db
  <2> QED BY <2>1 DEF Repeats
<1>11. \A reader \in Readers : SizeInSectors[reader] \in Nat
  BY SectorDbAssumption
<1>12. ASSUME NEW audio \in Data, RefineRead(audio) PROVE Repeats'
  BY <1>6, <1>12 DEF RefineRead
<1> QED
  BY <1>1, <1>2, <1>3, <1>4, <1>5, <1>7, <1>8, <1>9, <1>10, <1>11, <1>12 DEF Next, RefineStep

\* A sector has at most as many entries as there are CRCs.
LEMMA OneEntryPerCheck ==
  ASSUME NEW s \in Sector, SectorInv(s), IsFiniteSet(Checks)
  PROVE  Len(s.checks) <= Cardinality(Checks) /\ Len(s.checks) \in Nat
<1> DEFINE f == [i \in DOMAIN s.checks |-> s.checks[i].second]
<1>1. /\ DOMAIN s.checks = 1..Len(s.checks) /\ Len(s.checks) \in Nat
      /\ \A i \in DOMAIN s.checks : s.checks[i].second \in Checks
  BY SectorType, ListType DEF occurence_t
<1>2. f \in Injection(DOMAIN s.checks, Checks)
  BY <1>1 DEF SectorInv, Injection, IsInjective
<1>3. Cardinality(DOMAIN s.checks) = Len(s.checks)
  BY <1>1, UpTo
<1>4. Cardinality(DOMAIN s.checks) <= Cardinality(Checks)
  BY <1>2, FS_Injection
<1> QED BY <1>1, <1>3, <1>4

\* The processes of the grabber read no sector more often than once for every
\* CRC it can have, and once more: however often they are killed and started
\* again, and whatever the drive delivers.
THEOREM GrabReadsNoMore ==
  ASSUME IsFiniteSet(Checks)
  PROVE  GrabSpec => [](\A i \in DOMAIN m.sectors :
                          sum(m.sectors[i].checks) <= Cardinality(Checks) + 1)
<1>1. GrabInit => Repeats
  BY DEF GrabInit, Init, EmptyDb, Repeats
<1>2. GrabInv /\ m_cdda \in Readers /\ Repeats /\ [GrabNext]_<<vars, grab>> => Repeats'
  <2> SUFFICES ASSUME GrabInv, Repeats, [GrabNext]_<<vars, grab>> PROVE Repeats'
    OBVIOUS
  <2>1. IInv /\ (InPass => frame.minimumCommonCrcCount = minimumCommonCrcCount)
    BY DEF GrabInv
  <2>2. [Next]_vars
    BY CddaStays DEF GrabInv
  <2> QED BY <2>1, <2>2, NextRepeats
<1>3. GrabInv /\ Repeats => \A i \in DOMAIN m.sectors :
                              sum(m.sectors[i].checks) <= Cardinality(Checks) + 1
  <2> SUFFICES ASSUME GrabInv, Repeats, NEW i \in DOMAIN m.sectors
               PROVE  sum(m.sectors[i].checks) <= Cardinality(Checks) + 1
    OBVIOUS
  <2> DEFINE s == m.sectors[i]
  <2>1. s \in Sector /\ SectorInv(s) /\ OneRepeat(s)
    BY StoreParts DEF GrabInv, IInv, MemInv, DbInv, SectorsInv, Repeats
  <2> HIDE DEF s
  <2>2. Len(s.checks) <= Cardinality(Checks) /\ Len(s.checks) \in Nat
    BY <2>1, OneEntryPerCheck
  <2>3. Cardinality(Checks) \in Nat
    BY FS_CardinalityType
  <2>4. sum(s.checks) <= Cardinality(Checks) + 1
    <3> DEFINE b == IsSettled(s, minimumCommonCrcCount)
               k == Cardinality(Checks)
               n == Len(s.checks)
    <3>1. sum(s.checks) = n + (IF b THEN 1 ELSE 0)
      BY <2>1 DEF OneRepeat
    <3>2. n <= k /\ n \in Nat /\ k \in Nat
      BY <2>2, <2>3
    <3> HIDE DEF b, k, n
    <3>3. sum(s.checks) <= k + 1
      BY <3>1, <3>2
    <3> QED BY <3>3 DEF k
  <2> QED BY <2>4 DEF s
<1>4. GrabInv => m_cdda \in Readers
  BY DEF GrabInv
<1> QED BY <1>1, <1>2, <1>3, <1>4, GrabInvariant, PTL DEF GrabSpec
=============================================================================
