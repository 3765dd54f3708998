----------------------------- MODULE SectorStore -----------------------------
(***************************************************************************)
(* The data of a SectorDb and the operations on it, as values: what        *)
(* SectorDb::AddAudio, the constructors, Refine's test of a sector and     *)
(* GetStatistics compute.  The modules that run a SectorDb (SectorDb,      *)
(* CddaWorker) share these definitions.                                    *)
(*                                                                         *)
(* Abstractions: the 2352 bytes of a sector are one value of Data; the CRC *)
(* is an arbitrary function of it, so two contents may collide;            *)
(* blockErrorMask is always 0 (AddAudio has no C2 information), so a       *)
(* Checksums value is its crc.  Sector lba is entry lba+1 of a sequence.   *)
(***************************************************************************)
EXTENDS OccurenceList, Integers

CONSTANTS
  Data,     \* the audio contents a sector can have
  Zeros,    \* the content of a sector that was never recorded
  Checks,   \* the CRC values
  NoCheck,  \* the crc of a default constructed Checksums (zero)
  CrcOf,    \* boost::crc_32_type over a content
  IntMax    \* std::numeric_limits<int>::max()

ASSUME StoreAssumption ==
  /\ Zeros \in Data
  /\ NoCheck \in Checks
  /\ CrcOf \in [Data -> Checks]
  /\ IntMax \in Nat

Sector == [data : Data, check : Checks, checks : occurences_t(Checks)]

-----------------------------------------------------------------------------
\* Mutated forms, used only to show that the properties depend on the code.

\* The data follows the votes one read too late.
AddAudio_StaleTest(s, audio) ==
  LET check    == CrcOf[audio]
      mc       == MostCommonCount(s.checks)
      copyData == mc <= 1
  IN  [data   |-> IF copyData THEN audio ELSE s.data,
       check  |-> IF copyData THEN check ELSE s.check,
       checks |-> push_back(s.checks, check)]

\* The kept check is set to the winner, but the copied bytes are forgotten.
AddAudio_KeepsOldBytes(s, audio) ==
  LET check == CrcOf[audio]
      seen  == push_back(s.checks, check)
  IN  [data |-> s.data, check |-> check, checks |-> seen]

\* Refine compares with > where the code has >=.
IsSettled_OffByOne(s, minimumCommonCrcCount) ==
  MostCommonCount(s.checks) > minimumCommonCrcCount

\* resize drops the recorded sectors.
Resized_Forgets(sectors, n, fresh) == [i \in 1..n |-> fresh]

-----------------------------------------------------------------------------
\* A value initialised Sector.
NewSector == [data |-> Zeros, check |-> NoCheck, checks |-> << >>]

\* std::vector<Sector>::resize(n) when n is not less than the size.
Resized(sectors, n, fresh) ==
  [i \in 1..n |-> IF i <= Len(sectors) THEN sectors[i] ELSE fresh]

\* SectorDb::AddAudio on the sector it addresses.  The copied bytes are the
\* ones just read, whatever the winner of the vote is.
AddAudio(s, audio) ==
  LET check    == CrcOf[audio]
      seen     == push_back(s.checks, check)
      copyData == \/ MostCommonCount(seen) <= 1
                  \/ MostCommonValue(seen, NoCheck) # s.check
  IN  [data   |-> IF copyData THEN audio ELSE s.data,
       check  |-> IF copyData THEN check ELSE s.check,
       checks |-> seen]

\* Refine's reason not to read a sector again.
IsSettled(s, minimumCommonCrcCount) ==
  MostCommonCount(s.checks) >= minimumCommonCrcCount

\* SectorDb::GetStatistics, the number the grabber acts on.
minMC(sectors) ==
  FoldFunction(LAMBDA s, acc : IF MostCommonCount(s.checks) < acc
                               THEN MostCommonCount(s.checks) ELSE acc,
               IntMax, sectors)

-----------------------------------------------------------------------------
(***************************************************************************)
(* What a sector promises, wherever it is kept.                            *)
(***************************************************************************)

\* How often CRC c was seen by a sector.
Votes(s, c) ==
  IF Entries(s.checks, c) = {} THEN 0
  ELSE s.checks[CHOOSE i \in Entries(s.checks, c) : TRUE].first

\* One sector keeps what sectorDb.h promises: the data has the kept CRC, and
\* no other CRC was seen more often.
Plurality(s) ==
  s.checks # << >> => /\ CrcOf[s.data] = s.check
                      /\ \A c \in Checks : Votes(s, c) <= Votes(s, s.check)
                      /\ Votes(s, s.check) > 0

\* What AddAudio needs of a sector to keep its promise: one entry per CRC, a
\* first maximum, and the kept check either the winner or one of a list in
\* which nothing was seen twice.
SectorInv(s) ==
  LET occ == s.checks
  IN  /\ \A i, j \in DOMAIN occ : occ[i].second = occ[j].second => i = j
      /\ occ # << >> =>
           /\ \E i \in DOMAIN occ : IsMaxElement(occ, i)
           /\ CrcOf[s.data] = s.check
           /\ \E i \in DOMAIN occ :
                /\ occ[i].second = s.check
                /\ \/ IsMaxElement(occ, i)
                   \/ \A j \in DOMAIN occ : occ[j].first = 1
=============================================================================
