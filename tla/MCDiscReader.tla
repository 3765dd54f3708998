---------------------------- MODULE MCDiscReader ----------------------------
(***************************************************************************)
(* DiscReader for TLC: the three discs of src/test/testCddb.cc, whose disc *)
(* ids are known; all texts of up to three characters for the album and    *)
(* two tracks, as titles and, in another order, as performers and as a     *)
(* second language; and a disc that begins with track 3.                   *)
(***************************************************************************)
EXTENDS GenericPacket

MCIsrc(n) == [i \in 1..n |-> ToString(i)]

MCIsrcs == {"none"} \cup {ToString(i) : i \in 1..11}

\* A disc with these frame offsets, the last of them the lead-out.
DiscAt(first, offsets, blocks) ==
  [first |-> first, starts |-> [i \in 1..Len(offsets) - 1 |-> ToMSF(offsets[i])],
   leadout |-> ToMSF(Last(offsets)), isrc |-> MCIsrc(Len(offsets) - 1), blocks |-> blocks]

Arise == DiscAt(1, <<183, 15258, 36715, 50118>>, << >>)
Paranoid ==
  DiscAt(1, <<182, 16997, 33812, 49782, 68322, 83477,
              104247, 123227, 139110, 162512, 180587, 199232>>, << >>)
MakingMovies ==
  DiscAt(1, <<183, 36835, 63420, 91830, 114588, 136275, 151233, 169690>>, << >>)

Texts == {<< >>, <<"a">>, <<"b", "a">>, <<"b", "b", "a">>}

MCDiscs ==
  {Arise, Paranoid, MakingMovies, DiscAt(3, <<150, 400, 900>>, << >>)}
  \cup {DiscAt(1, <<150, 400, 900>>,
               <<[titles |-> <<s, t, u>>, performers |-> <<u, s, t>>],
                 [titles |-> <<t, u, s>>, performers |-> <<s, u, t>>]>>) :
          s, t, u \in Texts}

\* Two drives that differ in everything a call returns, a sector whose number
\* takes three bytes, and a sector with errors in the drive that finds them.
MCReadLbas == {3, 70000}

MCDrives ==
  {[vendor |-> 65, model |-> 66, revision |-> 67,
    caps |-> [UPC |-> TRUE, ISRC |-> FALSE, C2pointers |-> TRUE, streamAccurate |-> FALSE,
              nrVolumeLevels |-> 256],
    read |-> 70560, write |-> 300, minRead |-> 352800, minWrite |-> 705600,
    discType |-> 0, c2 |-> 3 :> 0 @@ 70000 :> 5],
   [vendor |-> 70, model |-> 71, revision |-> 72,
    caps |-> [UPC |-> FALSE, ISRC |-> TRUE, C2pointers |-> FALSE, streamAccurate |-> TRUE,
              nrVolumeLevels |-> 255],
    read |-> 176, write |-> 70561, minRead |-> 999, minWrite |-> 1000,
    discType |-> 32, c2 |-> 3 :> 8 @@ 70000 :> 0],
   [vendor |-> 73, model |-> 74, revision |-> 75,
    caps |-> [UPC |-> TRUE, ISRC |-> TRUE, C2pointers |-> TRUE, streamAccurate |-> TRUE,
              nrVolumeLevels |-> 65535],
    read |-> 8468, write |-> 0, minRead |-> 0, minWrite |-> 1411200,
    discType |-> 16, c2 |-> 3 :> 1 @@ 70000 :> 1]}

\* One drive reads the tables of all discs, on the channel that lets refused
\* packets pass.  The others are asked for everything else, and for the tables
\* of the discs of the tests.
MCInit ==
  /\ GpInit
  /\ \/ drive.vendor = 65 /\ channel = "SCSI"
     \/ disc.blocks = << >> /\ ~isrc /\ ~cdtext

MCSpec == MCInit /\ [][GpNext]_<<vars, packet>>

\* "CDDB ID" (src/test/testCddb.cc:23-51): 0x1c029a03, 0x850a5e0b, 0x5308d407.
IdsAsTested ==
  pc = "done" /\ Noticed =>
    /\ disc = Arise        => CddbQuery(toc.tracks) = <<28, 666, 3>>
    /\ disc = Paranoid     => CddbQuery(toc.tracks) = <<133, 2654, 11>>
    /\ disc = MakingMovies => CddbQuery(toc.tracks) = <<83, 2260, 7>>
=============================================================================
