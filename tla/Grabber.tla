------------------------------- MODULE Grabber -------------------------------
(***************************************************************************)
(* Grabber::Grab, the loop of the console program: a process begins with   *)
(* an empty SectorDb, opens the file of the disc or makes a new db, and    *)
(* refines and saves until a pass reads nothing.  Each process grabs one   *)
(* disc, and may die at any step.                                          *)
(*                                                                         *)
(* SectorDb's actions are what Grab calls.  All discs without artist,      *)
(* title and UPC have the same file name, "dump"; the readers here are     *)
(* such discs, so the one file of SectorDb is theirs.  A disc with a name  *)
(* is the case of one reader.                                              *)
(***************************************************************************)
EXTENDS SectorDb

VARIABLES
  stage,   \* where Grab is
  m_cdda,  \* the disc it was called for
  stat,    \* stat.minMC
  nRead,   \* what the last pass returned
  stopped  \* history: the callback ended that pass

grab == <<stage, m_cdda, stat, nRead, stopped>>

minimumCommonCrcCount == 2

\* Grab is one of the callers MinCounts stands for.
ASSUME GrabberAssumption == minimumCommonCrcCount \in MinCounts

GrabInit ==
  /\ Init
  /\ stage = "begin"
  /\ m_cdda \in Readers
  /\ stat = 0 /\ nRead = 0 /\ stopped = FALSE

Goes(from, to) == stage = from /\ stage' = to

-----------------------------------------------------------------------------
\* Mutated forms, used only to show that the properties depend on the code.

\* A file all of whose sectors were read once is left as it is.
Enough_Once == stat >= 1

\* The pass counts as one with something to do, whatever it read.
NothingRead_Never == FALSE

-----------------------------------------------------------------------------
\* The file is there: its votes decide whether there is anything to do.
OpenFile ==
  /\ Goes("begin", "loop")
  /\ Load
  /\ stat' = minMC(file.m.sectors)
  /\ UNCHANGED <<m_cdda, nRead, stopped>>

\* It is a regular file, but the archive throws: neither this process nor a
\* later one gets beyond it.
OpenTorn ==
  /\ Goes("begin", "threw")
  /\ file.state = "torn"
  /\ UNCHANGED <<vars, m_cdda, stat, nRead, stopped>>

OpenNew ==
  /\ Goes("begin", "loop")
  /\ file.state = "absent"
  /\ New(SizeInSectors[m_cdda], m_cdda)
  /\ UNCHANGED <<m_cdda, stat, nRead, stopped>>

\* The loop's condition; nothing in the loop changes stat.
Enough == stat >= minimumCommonCrcCount

BeginPass ==
  /\ Goes("loop", "pass")
  /\ ~Enough
  /\ \E buf \in Data : RefineStart(m_cdda, minimumCommonCrcCount, TRUE, buf)
  /\ stopped' = FALSE
  /\ UNCHANGED <<m_cdda, stat, nRead>>

NothingRead == nRead = 0

\* GetInfo before the file is opened, Refine's prologue, or Save: the file
\* cannot be opened for writing or, once truncated, not be written.
Throws ==
  /\ \/ Goes("begin", "threw") /\ UNCHANGED vars
     \/ Goes("loop", "threw") /\ ~Enough /\ RefineThrows(m_cdda)
     \/ Goes("passed", "threw") /\ ~NothingRead /\ UNCHANGED vars
     \/ Goes("save", "threw") /\ SaveThrows
  /\ UNCHANGED <<m_cdda, stat, nRead, stopped>>

InsidePass ==
  /\ stage = "pass"
  /\ RefineStep
  /\ stage' = IF pc' = "idle" THEN "passed" ELSE "pass"
  /\ nRead' = IF pc' = "idle" THEN frame.nrRead ELSE nRead
  /\ stopped' = (pc = "progress" /\ pc' = "idle")
  /\ UNCHANGED <<m_cdda, stat>>

BeginSave ==
  /\ Goes("passed", "save")
  /\ ~NothingRead
  /\ SaveBegin
  /\ UNCHANGED <<m_cdda, stat, nRead, stopped>>

EndSave ==
  /\ Goes("save", "loop")
  /\ SaveEnd
  /\ UNCHANGED <<m_cdda, stat, nRead, stopped>>

Return ==
  /\ \/ Goes("loop", "returned") /\ Enough
     \/ Goes("passed", "returned") /\ NothingRead
  /\ UNCHANGED <<vars, m_cdda, stat, nRead, stopped>>

\* The process ends, or is killed, and the next one is started for a disc.
NewProcess ==
  /\ Crash
  /\ stage' = "begin"
  /\ m_cdda' \in Readers
  /\ stat' = 0 /\ nRead' = 0 /\ stopped' = FALSE

GrabStep ==
  \/ OpenFile \/ OpenTorn \/ OpenNew \/ BeginPass \/ Throws \/ InsidePass
  \/ BeginSave \/ EndSave \/ Return

GrabNext == GrabStep \/ NewProcess

\* The process runs until it ends: its thread waits for nobody.
GrabSpec == GrabInit /\ [][GrabNext]_<<vars, grab>> /\ WF_<<vars, grab>>(GrabStep)

-----------------------------------------------------------------------------
(***************************************************************************)
(* Properties.                                                             *)
(***************************************************************************)

\* What holds at every stage: a whole file belongs to a disc; stat is of use
\* only while db and file are the ones it was computed from; between passes the
\* db is new or is the file's; during a pass the file is the db the pass began
\* with, as far as that was not new, and after it lacks what the pass has read;
\* a db that was refined covers the disc; and a pass that read nothing found
\* that same db.
SameAsFile == file.state = "whole" /\ file.m = m

AllNew(sectors) == \A i \in DOMAIN sectors : sectors[i] = NewSector

\* The db is new, and so is its file.
Fresh(sectors) == AllNew(sectors) /\ file.state = "absent"

\* The votes for sector i-1 that are in memory and not in a whole file.
Unsaved(i) ==
  sum(m.sectors[i].checks)
    - (IF file.state = "whole" /\ i \in DOMAIN file.m.sectors
       THEN sum(file.m.sectors[i].checks) ELSE 0)

CoversDisc == SizeInSectors[m_cdda] <= Len(m.sectors)

AllSettled ==
  \A i \in DOMAIN m.sectors : IsSettled(m.sectors[i], minimumCommonCrcCount)

GrabInv ==
  /\ IInv
  /\ stage \in {"begin", "loop", "pass", "passed", "save", "returned", "threw"}
  /\ m_cdda \in Readers /\ nRead \in Nat
  /\ InPass <=> stage = "pass"
  /\ pc = "save" <=> stage = "save"
  /\ file.state = "whole" => file.m.toc # NoToc
  /\ stage \in {"loop", "pass", "passed", "save"} => m.toc # NoToc
  /\ Enough => /\ stage \in {"loop", "returned"} /\ SameAsFile
               /\ stat = minMC(m.sectors)
  /\ stage = "loop" => SameAsFile \/ Fresh(m.sectors)
  /\ stage = "pass" =>
       /\ frame.minimumCommonCrcCount = minimumCommonCrcCount
       /\ CoversDisc
       /\ \/ Fresh(before)
          \/ /\ file.state = "whole" /\ file.m.toc = m.toc
             /\ Len(file.m.sectors) <= Len(before)
             /\ before = Resized(file.m.sectors, Len(before), NewSector)
  /\ stage = "passed" =>
       /\ CoversDisc
       /\ file.state # "torn"
       /\ \A i \in DOMAIN m.sectors : Unsaved(i) \in {0, 1}
       /\ NothingRead /\ ~stopped =>
            AllSettled /\ (m.sectors # << >> => SameAsFile)
  /\ stage = "returned" /\ ~stopped =>
       /\ AllSettled /\ (m.sectors # << >> => SameAsFile)
       /\ Enough \/ CoversDisc
  /\ stage = "returned" => file.state # "torn"

\* A grab that returns, and was not told to stop, leaves every sector of its
\* db with two equal reads, and all of it in the file: however often it was
\* killed or stopped before, and whatever the file held.  The db covers the
\* disc, unless Grab found nothing to do in the file it opened: that may be
\* the file of a shorter disc.
GrabEndsSettled ==
  stage = "returned" /\ ~stopped =>
    /\ \A i \in DOMAIN m.sectors : IsSettled(m.sectors[i], minimumCommonCrcCount)
    /\ m.sectors # << >> => file.state = "whole" /\ file.m = m
    /\ Enough \/ SizeInSectors[m_cdda] <= Len(m.sectors)

\* What the death of the process, or an exception, costs: inside a pass one
\* read of each sector, because the file lacks no more than that of the db;
\* inside Save everything that was ever read, because it leaves the file torn,
\* and a torn file lets no later grab get beyond opening it.
WhatDeathCosts ==
  /\ file.state = "torn" => stage \in {"begin", "save", "threw"}
  /\ stage \in {"loop", "pass", "passed"} =>
       \A i \in DOMAIN m.sectors : Unsaved(i) \in {0, 1}

\* The loop has no limit and its condition never changes: it ends because
\* there are only so many CRCs a sector can have, unless it is killed again and
\* again.  A callback that always says stop ends it too.
GrabEnds ==
  \/ []<><<NewProcess>>_<<vars, grab>>
  \/ (stage = "begin") ~> (stage \in {"returned", "threw"})
=============================================================================
