------------------------------ MODULE DiscReader ------------------------------
(***************************************************************************)
(* GenericPacket::GetToc: the table of contents, one packet per track, the *)
(* ISRCs in between, and CD-TEXT, which comes cut into packs of a fixed    *)
(* size; and the CDDB disc id that CddbQuery computes from it.             *)
(*                                                                         *)
(* Every packet is a step.  A packet can fail in two ways: the call throws *)
(* (Throw), or the drive refuses the command and nobody notices, because   *)
(* ScsiCommand returns what ioctl does and not the status of the command:  *)
(* then the buffer holds what it held before.  The command block is one    *)
(* variable, because GetToc sets only some bytes of it for each call.      *)
(* Texts are sequences of characters.  Of a CD-TEXT pack its type and text *)
(* are kept: the collector in use looks at neither the track nor the       *)
(* position.  A disc id is the triple of its fields.                       *)
(***************************************************************************)
EXTENDS Integers, FiniteSets, Sequences, SequencesExt

CONSTANTS
  Discs,    \* records: first, starts, leadout, isrc, blocks, see DiscRecord
  Chars,    \* the characters of a text
  Isrcs,    \* ISRCs, and
  NoIsrc,   \* what a track without one has
  Nul,      \* ends a text
  PackSize, \* characters in a pack (12)
  Leftover, \* ISRCs that a buffer nobody wrote may seem to hold
  MaxRefused \* bound: packets refused without notice

MSF     == [minute : Nat, second : 0..59, frame : 0..74]
Address == [minute : Int, second : Int, frame : Int]

\* A disc: the number of its first track, the starts of its tracks, the start
\* of the lead-out, per track an ISRC, and per language (block) of its CD-TEXT
\* the titles and performers, those of the album first.
DiscRecord ==
  [first : 1..99, starts : Seq(MSF), leadout : MSF, isrc : Seq(Isrcs),
   blocks : Seq([titles : Seq(Seq(Chars)), performers : Seq(Seq(Chars))])]

ASSUME DiscReaderAssumption ==
  /\ \A d \in Discs : /\ d \in DiscRecord
                      /\ d.starts # << >> /\ Len(d.isrc) = Len(d.starts)
                      /\ d.first + Len(d.starts) <= 100
                      /\ \A b \in DOMAIN d.blocks :
                           /\ Len(d.blocks[b].titles) = Len(d.starts) + 1
                           /\ Len(d.blocks[b].performers) = Len(d.starts) + 1
  /\ NoIsrc \in Isrcs /\ Nul \notin Chars /\ PackSize \in Nat \ {0}
  /\ Leftover \subseteq Isrcs /\ MaxRefused \in Nat

VARIABLES
  pc,     \* "idle", then the next packet of GetToc; "done", "threw" or "junk"
  disc,   \* the disc in the drive
  isrc,   \* the arguments of GetToc
  cdtext,
  cdb,    \* bytes 1 (MSF) and 6 (track) of the command block
  trk0,   \* locals of GetToc
  trk1,
  trk,
  toc,
  refused \* history: the packets refused without notice, and for which track

vars == <<pc, disc, isrc, cdtext, cdb, trk0, trk1, trk, toc, refused>>

-----------------------------------------------------------------------------
\* Mutated forms, used only to show that the properties depend on the code.

\* The lead-out is asked for instead of the last track.
Requested_Next(t, last) == IF t >= last THEN 170 ELSE t

\* The loop stops at the last track.
After_Early(t) ==
  /\ trk' = t + 1
  /\ pc' = IF t < trk1 THEN "entry" ELSE IF cdtext THEN "cdtext" ELSE "done"

\* The lead-out counts.
Checksummed_All(frames) == frames

\* MSF is not asked for.
Command_Lba(t) == [msf |-> FALSE, track |-> t]

-----------------------------------------------------------------------------
\* Addresses (frames_sec = 75, sec_minute = 60).
ToFrame(msf) == (msf.minute * 60 + msf.second) * 75 + msf.frame

ToMSF(lba) ==
  [minute |-> lba \div (60 * 75), second |-> (lba \div 75) % 60, frame |-> lba % 75]

\* What a sector number reads like where MSF is expected.  Two seconds of
\* lead-in are before sector 0.
SectorBytes(msf) ==
  LET sector == ToFrame(msf) - 150
  IN  [minute |-> sector \div 65536, second |-> (sector \div 256) % 256,
       frame |-> sector % 256]

-----------------------------------------------------------------------------
\* The drive.

LeadOut == 170

FirstTrack == disc.first
TrackCount == Len(disc.starts)
LastTrack  == FirstTrack + TrackCount - 1

\* READ TOC for a track: its descriptor, MSF or a sector number as asked for.
\* Track 0 stands for the first.
Descriptor(command) ==
  LET track == IF command.track = 0 THEN FirstTrack ELSE command.track
      start == IF track = LeadOut THEN disc.leadout
               ELSE disc.starts[track - FirstTrack + 1]
  IN  [track |-> track,
       start |-> IF command.msf THEN start ELSE SectorBytes(start)]

\* The ISRC of a track; the lead-out has none.
IsrcOf(t) ==
  IF FirstTrack <= t /\ t <= LastTrack THEN disc.isrc[t - FirstTrack + 1] ELSE NoIsrc

\* Texts, each ended by Nul, cut into packs, the last filled up with Nul.
Joined(texts) == FlattenSeq([i \in DOMAIN texts |-> Append(texts[i], Nul)])

Packs(type, texts) ==
  LET chars == Joined(texts)
      n     == (Len(chars) + PackSize - 1) \div PackSize
  IN  [i \in 1..n |->
        [packType |-> type,
         text |-> [j \in 1..PackSize |->
                     LET k == (i - 1) * PackSize + j
                     IN  IF k <= Len(chars) THEN chars[k] ELSE Nul]]]

CdText ==
  FlattenSeq([b \in DOMAIN disc.blocks |->
                Packs("Title", disc.blocks[b].titles)
                  \o Packs("Performer", disc.blocks[b].performers)])

-----------------------------------------------------------------------------
\* CdTextPacketCollectorSimple.
NewCollector == [m_track |-> 0, perTrack |-> << >>]

AddChar(c, char) ==
  IF char = Nul THEN [c EXCEPT !.m_track = @ + 1]
  ELSE [c EXCEPT !.perTrack =
          [t \in DOMAIN @ \cup {c.m_track} |->
             IF t # c.m_track THEN @[t]
             ELSE IF t \in DOMAIN @ THEN Append(@[t], char) ELSE <<char>>]]

\* Mutated: a new pack starts a new track.
Add_PerPack(c, text) == [FoldLeft(AddChar, c, text) EXCEPT !.m_track = @ + 1]

Add(c, text) == FoldLeft(AddChar, c, text)

Flush(packs, type) ==
  FoldLeft(LAMBDA c, p : IF p.packType = type THEN Add(c, p.text) ELSE c,
           NewCollector, packs).perTrack

\* What GetToc makes of a text that was not collected: the empty string.
TextAt(collected, t) == IF t \in DOMAIN collected THEN collected[t] ELSE << >>

-----------------------------------------------------------------------------
NewToc == [title |-> << >>, performer |-> << >>, tracks |-> << >>]

\* cdb.data()[6]: the lead-out after the last track.
Requested(t, last) == IF t > last THEN LeadOut ELSE t

\* cdb.data()[1] = 2; cdb.data()[6] = track.
Command(t) == [msf |-> TRUE, track |-> t]

Init ==
  /\ pc = "idle"
  /\ disc \in Discs
  /\ isrc \in BOOLEAN /\ cdtext \in BOOLEAN
  /\ cdb = [msf |-> FALSE, track |-> 0]
  /\ trk0 = 0 /\ trk1 = 0 /\ trk = 0
  /\ toc = NewToc
  /\ refused = {}

\* The drive answers "check condition" to a packet for track t: ioctl succeeds.
Refuse(packet, t) ==
  /\ Cardinality(refused) < MaxRefused
  /\ refused' = refused \cup {<<packet, t>>}

\* The header: first and last track.
GetToc ==
  /\ pc = "idle"
  /\ trk0' = FirstTrack /\ trk1' = LastTrack
  /\ pc' = "upc"
  /\ UNCHANGED <<disc, isrc, cdtext, cdb, trk, toc, refused>>

\* buf was never written: the loop runs between two bytes of the stack.  What
\* it makes of them is followed no further.
HeaderRefused ==
  /\ pc = "idle"
  /\ Refuse("header", 0)
  /\ pc' = "junk"
  /\ UNCHANGED <<disc, isrc, cdtext, cdb, trk0, trk1, trk, toc>>

\* The product code; the tracks do not depend on whether it was refused.
UniversalProductCode ==
  /\ pc = "upc"
  /\ trk' = trk0
  /\ pc' = "entry"
  /\ UNCHANGED <<disc, isrc, cdtext, cdb, trk0, trk1, toc, refused>>

\* Where the loop goes after track t.
After(t) ==
  /\ trk' = t + 1
  /\ pc' = IF t <= trk1 THEN "entry" ELSE IF cdtext THEN "cdtext" ELSE "done"

\* The packet for track trk, after which buf holds d.
Parsed(d) ==
  /\ pc = "entry"
  /\ cdb' = Command(Requested(trk, trk1))
  /\ toc' = [toc EXCEPT !.tracks =
               Append(@, [track |-> d.track, start |-> d.start, isrc |-> NoIsrc,
                          title |-> << >>, performer |-> << >>])]
  /\ IF isrc THEN pc' = "isrc" /\ UNCHANGED trk ELSE After(trk)
  /\ UNCHANGED <<disc, isrc, cdtext, trk0, trk1>>

Entry ==
  /\ Parsed(Descriptor(Command(Requested(trk, trk1))))
  /\ UNCHANGED refused

\* buf still holds the descriptor of the packet before: that of the track
\* before, or the one that came with the header, not asked for in MSF.
Held ==
  IF toc.tracks = << >> THEN Descriptor([msf |-> FALSE, track |-> 0])
  ELSE LET e == toc.tracks[Len(toc.tracks)] IN [track |-> e.track, start |-> e.start]

EntryRefused ==
  /\ Parsed(Held)
  /\ Refuse("entry", trk)

\* toc.tracks.back().isrc = GetISRC(trk)
Filed(code) ==
  /\ pc = "isrc"
  /\ toc' = [toc EXCEPT !.tracks[Len(toc.tracks)].isrc = code]
  /\ After(trk)
  /\ UNCHANGED <<disc, isrc, cdtext, cdb, trk0, trk1>>

GetISRC ==
  /\ Filed(IsrcOf(trk))
  /\ UNCHANGED refused

\* GetISRC's buffer was never written.  The lead-out's is always refused by a
\* drive that knows it has none.
GetISRCRefused ==
  /\ \E code \in Leftover : Filed(code)
  /\ Refuse("isrc", trk)

GetCdText ==
  /\ pc = "cdtext"
  /\ LET titles     == Flush(CdText, "Title")
         performers == Flush(CdText, "Performer")
     IN  toc' = [title     |-> TextAt(titles, 0),
                 performer |-> TextAt(performers, 0),
                 tracks    |-> [i \in DOMAIN toc.tracks |->
                   [toc.tracks[i] EXCEPT
                      !.title     = TextAt(titles, toc.tracks[i].track),
                      !.performer = TextAt(performers, toc.tracks[i].track)]]]
  /\ pc' = "done"
  /\ UNCHANGED <<disc, isrc, cdtext, cdb, trk0, trk1, trk, refused>>

\* GetCdText's buffer is zero: no text.
GetCdTextRefused ==
  /\ pc = "cdtext"
  /\ Refuse("cdtext", 0)
  /\ pc' = "done"
  /\ UNCHANGED <<disc, isrc, cdtext, cdb, trk0, trk1, trk, toc>>

Throw ==
  /\ pc \notin {"done", "threw", "junk"}
  /\ pc' = "threw"
  /\ UNCHANGED <<disc, isrc, cdtext, cdb, trk0, trk1, trk, toc, refused>>

Next ==
  \/ GetToc \/ HeaderRefused \/ UniversalProductCode
  \/ Entry \/ EntryRefused \/ GetISRC \/ GetISRCRefused
  \/ GetCdText \/ GetCdTextRefused \/ Throw

Spec == Init /\ [][Next]_vars

-----------------------------------------------------------------------------
\* CddbQuery.

\* The sum of the decimal digits.
sum[n \in Nat] == IF n = 0 THEN 0 ELSE (n % 10) + sum[n \div 10]

\* All frame offsets but that of the lead-out go into the checksum.
Checksummed(frames) == Front(frames)

CddbQuery(tracks) ==
  LET frames   == [i \in DOMAIN tracks |-> ToFrame(tracks[i].start)]
      checksum == FoldLeft(LAMBDA c, f : c + sum[f \div 75], 0, Checksummed(frames))
  IN  <<checksum % 255, Last(frames) \div 75 - Head(frames) \div 75, Len(tracks) - 1>>

-----------------------------------------------------------------------------
(***************************************************************************)
(* Properties.                                                             *)
(***************************************************************************)

TypeOK ==
  /\ pc \in {"idle", "upc", "entry", "isrc", "cdtext", "done", "threw", "junk"}
  /\ disc \in Discs /\ isrc \in BOOLEAN /\ cdtext \in BOOLEAN
  /\ cdb.msf \in BOOLEAN /\ cdb.track \in Nat
  /\ trk0 \in Nat /\ trk1 \in Nat /\ trk \in Nat
  /\ \A i \in DOMAIN toc.tracks : /\ toc.tracks[i].track \in 0..255
                                  /\ toc.tracks[i].start \in Address

\* The entries read so far are those of the disc, in its order, with the ISRCs
\* asked for; a finished table ends with the lead-out, which is what every
\* caller takes tracks.back() for.  A packet refused without notice spoils the
\* one entry it was for, and no other.
TrackAt(i) == FirstTrack + i - 1

EntryOf(i) ==
  LET t == TrackAt(i)
  IN  [track |-> IF t > LastTrack THEN LeadOut ELSE t,
       start |-> IF t > LastTrack THEN disc.leadout ELSE disc.starts[i]]

EntryIsDisc(i) ==
  <<"entry", TrackAt(i)>> \notin refused =>
    /\ toc.tracks[i].track = EntryOf(i).track
    /\ toc.tracks[i].start = EntryOf(i).start

IsrcIsDisc(i) ==
  isrc /\ TrackAt(i) <= LastTrack /\ <<"isrc", TrackAt(i)>> \notin refused =>
    toc.tracks[i].isrc = IsrcOf(TrackAt(i))

TocIsDisc ==
  /\ \A i \in DOMAIN toc.tracks :
       /\ EntryIsDisc(i)
       /\ pc \notin {"isrc", "threw"} \/ i < Len(toc.tracks) => IsrcIsDisc(i)
  /\ pc \in {"cdtext", "done"} => Len(toc.tracks) = TrackCount + 1

\* The inductive invariant: while it reads, GetToc is at the track after the
\* entries it has.
TocEntry == [track : 0..255, start : Address, isrc : Isrcs, title : {<< >>},
             performer : {<< >>}]

IInv ==
  /\ TypeOK /\ TocIsDisc
  /\ pc # "done" => toc \in [title : {<< >>}, performer : {<< >>}, tracks : Seq(TocEntry)]
  /\ pc \in {"upc", "entry", "isrc"} => trk0 = FirstTrack /\ trk1 = LastTrack
  /\ pc \in {"idle", "upc"} => toc.tracks = << >>
  /\ pc \in {"entry", "isrc"} => FirstTrack <= trk /\ trk <= LastTrack + 1
  /\ pc = "entry" => Len(toc.tracks) = trk - FirstTrack
  /\ pc = "isrc" => Len(toc.tracks) = trk - FirstTrack + 1

\* However the texts are cut into packs, and whatever other languages follow,
\* each track has its title and performer in the first language.  Only for
\* discs that begin with track 1: the collector counts from there.
Noticed == \A packet \in refused : packet[1] = "isrc"

TextIsDisc ==
  pc = "done" /\ cdtext /\ Noticed /\ disc.blocks # << >> /\ FirstTrack = 1 =>
    LET text == disc.blocks[1]
    IN  /\ toc.title = text.titles[1] /\ toc.performer = text.performers[1]
        /\ \A i \in DOMAIN disc.starts :
             /\ toc.tracks[i].title = text.titles[i + 1]
             /\ toc.tracks[i].performer = text.performers[i + 1]
=============================================================================
