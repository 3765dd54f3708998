----------------------------- MODULE MCSectorDb -----------------------------
(***************************************************************************)
(* Small instances of SectorDb for TLC: a disc of two or three sectors and *)
(* one of one sector.  One content has the CRC of a default constructed    *)
(* Checksums; in ThreeData two contents collide in their CRC.              *)
(***************************************************************************)
EXTENDS SectorDb

TwoData   == {"zeros", "music"}
TwoCrc    == [d \in TwoData |-> IF d = "zeros" THEN 0 ELSE 1]

ThreeData == {"zeros", "music", "twin"}
ThreeCrc  == [d \in ThreeData |-> IF d = "zeros" THEN 0 ELSE 1]

OneDisc   == {"disc"}
TwoDiscs  == {"disc", "single"}
SizeOf(n) == [r \in TwoDiscs |-> IF r = "disc" THEN n ELSE 1]
TwoSectorDisc    == [r \in OneDisc |-> 2]
TwoSectorDiscs   == SizeOf(2)
ThreeSectorDiscs == SizeOf(3)

\* A reader that never fails and a process that neither saves nor dies: the
\* other actions are in the runs of Grabber.
PassNext ==
  \/ \E reader \in Readers :
        \/ \E toc \in Tocs : New(SizeInSectors[reader], toc)
        \/ \E min \in MinCounts, progress \in BOOLEAN, buf \in Data :
              RefineStart(reader, min, progress, buf)
  \/ RefineSkip \/ RefineVisit \/ ProgressContinue \/ ProgressCancel
  \/ \E audio \in Data : RefineRead(audio)
  \/ RefineEnd

PassSpec == Init /\ [][PassNext]_vars /\ WF_vars(RefineStep)
=============================================================================
