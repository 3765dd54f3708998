---------------------------------- MODULE Nrg ----------------------------------
(***************************************************************************)
(* nrg2dts: Nrg opens a Nero image, finds the chunk list behind the audio  *)
(* by the footer, walks over it, and every track it found is copied to a   *)
(* file of its own.  Positions in the chunk list are bytes from its begin, *)
(* because the loops compare positions and not counts; the cells of a      *)
(* chunk (cue points, tracks, packs) are values.  The audio is counted in  *)
(* blocks: <<t, b>> is block b of track t, block 0 its pregap.             *)
(***************************************************************************)
EXTENDS Integers, Sequences, SequencesExt

CONSTANTS
  Versions, \* footers: "NER5", "NERO" (other chunk names) or none of them
  Layouts,  \* per session (there is one), the number of blocks of each track
  Packs     \* the numbers of CD-TEXT packs, 0 for no chunk

ASSUME NrgAssumption ==
  /\ Versions \subseteq {"NER5", "NERO", "none"}
  /\ Layouts \subseteq Seq(Seq(Nat)) \ {<< >>}
  /\ Packs \subseteq Nat

VARIABLES
  disc,    \* the image file
  at,      \* where the program is: "open", "chunks", "tracks", "end"
  pChunk,  \* bytes from the begin of the chunk list
  m_cues, m_dao, m_cdText,
  dts      \* the files written so far

nrgVars == <<disc, at, pChunk, m_cues, m_dao, m_cdText, dts>>

-----------------------------------------------------------------------------
(***************************************************************************)
(* The image Nero writes.                                                  *)
(***************************************************************************)

\* How much is before the k-th of several sequences.
Before(seqs, k) == Len(FlattenSeq(SubSeq(seqs, 1, k - 1)))

\* The tracks of all sessions, numbered through.
AllTracks(d) == FlattenSeq(d.layout)
Audio(d, t)  == [b \in 1..AllTracks(d)[t] |-> <<t, b>>]
FirstOf(d, session) == Before(d.layout, session) + 1

\* Each track has a block of pregap.
TrackBlocks(d) == [t \in DOMAIN AllTracks(d) |-> << <<t, 0>> >> \o Audio(d, t)]
Blocks(d) == FlattenSeq(TrackBlocks(d))
Begin(d, t) == Before(TrackBlocks(d), t)
DaoTrack(d, t) == [index0 |-> Begin(d, t), index1 |-> Begin(d, t) + 1,
                   indexEnd |-> Begin(d, t) + 1 + AllTracks(d)[t]]

\* A lead-in, two points for every track and a lead-out.
CuePoints(d, session) ==
  LET first == FirstOf(d, session)
      n     == Len(d.layout[session])
  IN  <<"lead-in">>
      \o [i \in 1..(2 * n) |-> <<first + (i - 1) \div 2, (i - 1) % 2>>]
      \o <<"lead-out">>

Cell(id) == CASE id = "CUEX" -> 8 [] id = "DAOX" -> 42 [] id = "CDTX" -> 18

\* A chunk of head bytes and its cells; the size does not count id and size.
Chunk5(id, head, cells) ==
  [id |-> id, size |-> head + Cell(id) * Len(cells), cells |-> cells]
Other(id, size) == [id |-> id, size |-> size, cells |-> << >>]

SessionChunks(d, session) ==
  LET first  == FirstOf(d, session)
      tracks == [i \in DOMAIN d.layout[session] |-> DaoTrack(d, first + i - 1)]
  IN  IF d.version # "NER5"
      THEN <<Other("CUES", 8 * Len(tracks)), Other("DAOI", 22 + 30 * Len(tracks)),
             Other("SINF", 4)>>
      ELSE <<Chunk5("CUEX", 0, CuePoints(d, session)), Chunk5("DAOX", 22, tracks)>>
           \o (IF d.packs = 0 THEN << >>
               ELSE <<Chunk5("CDTX", 0, [p \in 1..d.packs |-> <<session, p>>])>>)
           \o <<Other("SINF", 4)>>

Chunks(d) ==
  FlattenSeq(Append([s \in DOMAIN d.layout |-> SessionChunks(d, s)],
                    <<Other("MTYP", 4), Other("END!", 0)>>))

Bytes(chunks) == FoldLeft(LAMBDA acc, c : acc + 8 + c.size, 0, chunks)

\* The file: the blocks, the chunks with the position of each, and its end
\* behind the footer (the offset, 8 bytes wide in version 5, and its id).
Burnt(d) ==
  LET chunks == Chunks(d)
  IN  [version |-> d.version, layout |-> d.layout, packs |-> d.packs,
       blocks  |-> Blocks(d),
       chunks  |-> {[begin |-> Bytes(SubSeq(chunks, 1, j - 1)), chunk |-> chunks[j]] :
                      j \in DOMAIN chunks},
       end     |-> Bytes(chunks) + (IF d.version = "NER5" THEN 12 ELSE 8)]

-----------------------------------------------------------------------------
\* Mutated forms, used only to show that the properties depend on the code.

\* The file begins with the pregap.
Extract_FromIndex0(d, track) == SubSeq(d.blocks, track.index0 + 1, track.indexEnd)

-----------------------------------------------------------------------------
NrgInit ==
  /\ \E d \in [version : Versions, layout : Layouts, packs : Packs] : disc = Burnt(d)
  /\ at = "open"
  /\ pChunk = 0
  /\ m_cues = << >> /\ m_dao = << >> /\ m_cdText = << >>
  /\ dts = << >>

\* Nrg::ParseHeader.  Its result is not looked at: a file without one of the
\* two footers is an image without tracks.
ParseHeader ==
  /\ at = "open"
  /\ at' = IF disc.version \in {"NERO", "NER5"} THEN "chunks" ELSE "tracks"
  /\ UNCHANGED <<disc, pChunk, m_cues, m_dao, m_cdText, dts>>

\* The chunk pChunk points at.
TheChunk == (CHOOSE c \in disc.chunks : c.begin = pChunk).chunk

AtChunk(id) ==
  /\ at = "chunks"
  /\ pChunk < disc.end - 8
  /\ TheChunk.id = id

\* pChunk + 8 + size.
NextChunk == pChunk' = pChunk + 8 + TheChunk.size

\* The cells a loop reads that runs from begin, in steps of a cell, as long
\* as it is before end (both counted from the chunk's begin).
Cells(begin, end) ==
  LET step  == Cell(TheChunk.id)
      count == IF end <= begin THEN 0 ELSE (end - begin + step - 1) \div step
  IN  SubSeq(TheChunk.cells, 1, count)

\* All three loops end at pChunk + size, 8 bytes before the chunk does.
LoopEnd == TheChunk.size

\* Cue::Parse: the points of the last chunk stay.
ParseCue ==
  /\ AtChunk("CUEX")
  /\ m_cues' = Cells(8, LoopEnd)
  /\ NextChunk
  /\ UNCHANGED <<disc, at, m_dao, m_cdText, dts>>

\* Dao::Parse appends to the tracks of the chunks before.
ParseDao ==
  /\ AtChunk("DAOX")
  /\ m_dao' = m_dao \o Cells(30, LoopEnd)
  /\ NextChunk
  /\ UNCHANGED <<disc, at, m_cues, m_cdText, dts>>

ParseCdText ==
  /\ AtChunk("CDTX")
  /\ m_cdText' = Cells(8, LoopEnd)
  /\ NextChunk
  /\ UNCHANGED <<disc, at, m_cues, m_dao, dts>>

\* SessionInfo::Parse, and a chunk whose id is not known.
SkipChunk ==
  /\ at = "chunks"
  /\ pChunk < disc.end - 8
  /\ TheChunk.id \notin {"CUEX", "DAOX", "CDTX", "END!"}
  /\ NextChunk
  /\ UNCHANGED <<disc, at, m_cues, m_dao, m_cdText, dts>>

\* "END!" breaks the loop; a list without it ends before the footer.
EndChunks ==
  /\ at = "chunks"
  /\ pChunk >= disc.end - 8 \/ TheChunk.id = "END!"
  /\ at' = "tracks"
  /\ UNCHANGED <<disc, pChunk, m_cues, m_dao, m_cdText, dts>>

\* What main writes of a track: from index1 to indexEnd.
Extract(d, track) == SubSeq(d.blocks, track.index1 + 1, track.indexEnd)

\* The loop of main: the next track goes to NN.dts.
WriteTrack ==
  /\ at = "tracks"
  /\ Len(dts) < Len(m_dao)
  /\ dts' = Append(dts, Extract(disc, m_dao[Len(dts) + 1]))
  /\ UNCHANGED <<disc, at, pChunk, m_cues, m_dao, m_cdText>>

Finish ==
  /\ at = "tracks"
  /\ Len(dts) = Len(m_dao)
  /\ at' = "end"
  /\ UNCHANGED <<disc, pChunk, m_cues, m_dao, m_cdText, dts>>

NrgNext ==
  \/ ParseHeader
  \/ ParseCue \/ ParseDao \/ ParseCdText \/ SkipChunk \/ EndChunks
  \/ WriteTrack \/ Finish

NrgSpec == NrgInit /\ [][NrgNext]_nrgVars

-----------------------------------------------------------------------------
\* A version 5 image becomes one file per track, numbered through the
\* sessions, with exactly the track's audio; of the last session all CD-TEXT
\* and all cue points but the lead-out have been read.  Loops that end 8 bytes
\* early lose the last cell of 8 bytes and no larger one.  Other images become
\* no file at all.
ExtractedIsAudio ==
  LET last == Len(disc.layout)
  IN  at = "end" =>
        IF disc.version = "NER5"
        THEN /\ dts = [t \in DOMAIN AllTracks(disc) |-> Audio(disc, t)]
             /\ m_cues = Front(CuePoints(disc, last))
             /\ m_cdText = [p \in 1..disc.packs |-> <<last, p>>]
        ELSE dts = << >>
=============================================================================
