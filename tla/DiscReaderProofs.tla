-------------------------- MODULE DiscReaderProofs --------------------------
(***************************************************************************)
(* GetToc reads the table of contents of any disc in the disc's order,     *)
(* wherever a packet fails, and a packet that was refused without notice   *)
(* spoils no entry but its own.  The texts of a disc reach its tracks,     *)
(* however they are cut into packs.                                        *)
(* The other calls of GenericPacket leave all of that alone, and make no   *)
(* disc of a buffer that a refused packet left as it was.  What they       *)
(* return of packets that were answered is what the drive has.             *)
(* The CDDB id is computed of the disc's own table, and is the tests' id   *)
(* of the discs the tests know.                                            *)
(***************************************************************************)
EXTENDS MCDiscReader, SequenceFolds

LEMMA DiscType ==
  ASSUME disc \in Discs
  PROVE  /\ FirstTrack \in Int /\ 1 <= FirstTrack /\ FirstTrack <= 99
         /\ TrackCount \in Int /\ 1 <= TrackCount
         /\ LastTrack = FirstTrack + TrackCount - 1
         /\ LastTrack \in Int /\ FirstTrack <= LastTrack /\ LastTrack <= 99
<1>1. /\ disc \in DiscRecord /\ disc.starts # << >>
      /\ FirstTrack + TrackCount <= 100
  BY DiscReaderAssumption DEF FirstTrack, TrackCount
<1>2. FirstTrack \in 1..99 /\ disc.starts \in Seq(MSF)
  BY <1>1 DEF DiscRecord, FirstTrack
<1>3. TrackCount \in Nat \ {0}
  BY <1>1, <1>2, EmptySeq, Zenon DEF TrackCount
<1>4. LastTrack = FirstTrack + TrackCount - 1
  BY DEF LastTrack
<1> QED BY <1>1, <1>2, <1>3, <1>4

LEMMA DiscContents ==
  ASSUME disc \in Discs
  PROVE  /\ disc.leadout \in MSF
         /\ \A i \in 1..TrackCount : disc.starts[i] \in MSF /\ disc.isrc[i] \in Isrcs
<1>1. disc \in DiscRecord /\ Len(disc.isrc) = TrackCount
  BY DiscReaderAssumption DEF TrackCount
<1>2. disc.leadout \in MSF /\ disc.starts \in Seq(MSF) /\ disc.isrc \in Seq(Isrcs)
  BY <1>1 DEF DiscRecord
<1> QED BY <1>1, <1>2, ElementOfSeq DEF TrackCount

LEMMA IsrcType ==
  ASSUME disc \in Discs, NEW t \in Int
  PROVE  IsrcOf(t) \in Isrcs
<1> DEFINE i == t - FirstTrack + 1
<1>1. CASE FirstTrack <= t /\ t <= LastTrack
  <2>1. i \in 1..TrackCount
    BY <1>1, DiscType
  <2>2. disc.isrc[i] \in Isrcs
    BY <2>1, DiscContents
  <2> QED BY <1>1, <2>2 DEF IsrcOf
<1>2. CASE ~(FirstTrack <= t /\ t <= LastTrack)
  BY <1>2, DiscReaderAssumption DEF IsrcOf
<1> QED BY <1>1, <1>2

\* What the drive answers for the track GetToc is at.
LEMMA DescriptorIsEntry ==
  ASSUME disc \in Discs, NEW t \in Int, FirstTrack <= t, t <= LastTrack + 1
  PROVE  LET d == Descriptor(Command(Requested(t, LastTrack)))
         IN  /\ d.track = EntryOf(t - FirstTrack + 1).track /\ d.track \in 0..255
             /\ d.start = EntryOf(t - FirstTrack + 1).start /\ d.start \in Address
<1> DEFINE c == Command(Requested(t, LastTrack))
           i == t - FirstTrack + 1
<1>1. c.msf = TRUE /\ c.track = IF t > LastTrack THEN 170 ELSE t
  BY DEF Command, Requested, LeadOut
<1>2. t \in 1..100 /\ FirstTrack + i - 1 = t /\ (t <= LastTrack => i \in 1..TrackCount)
  BY DiscType
<1>3. EntryOf(i) = [track |-> IF t > LastTrack THEN 170 ELSE t,
                    start |-> IF t > LastTrack THEN disc.leadout ELSE disc.starts[i]]
  BY <1>2 DEF EntryOf, TrackAt, LeadOut
<1>6. \A start \in MSF : start \in Address
  BY DEF MSF, Address
<1> HIDE DEF c
<1>4. CASE t > LastTrack
  <2>1. Descriptor(c) = [track |-> 170, start |-> disc.leadout]
    BY <1>1, <1>4 DEF Descriptor, LeadOut
  <2> QED BY <1>3, <1>4, <1>6, <2>1, DiscContents DEF c
<1>5. CASE ~(t > LastTrack)
  <2>1. c.track = t /\ c.msf /\ t # 0 /\ t # 170
    BY <1>1, <1>2, <1>5
  <2>2. Descriptor(c) = [track |-> t, start |-> disc.starts[i]]
    BY <2>1 DEF Descriptor, LeadOut
  <2>3. i \in 1..TrackCount
    BY <1>2, <1>5, DiscType
  <2> QED BY <1>2, <1>3, <1>5, <1>6, <2>2, <2>3, DiscContents DEF c
<1> QED BY <1>4, <1>5, DiscType

\* What the drive answers for the header, in its other format.
LEMMA HeaderDescriptorType ==
  ASSUME disc \in Discs
  PROVE  LET d == Descriptor([msf |-> FALSE, track |-> 0])
         IN  d.track \in 0..255 /\ d.start \in Address
<1> DEFINE start == disc.starts[1]
           c     == [msf |-> FALSE, track |-> 0]
<1>1. FirstTrack \in 1..99 /\ 1 \in 1..TrackCount
  BY DiscType
<1>2. start \in MSF
  BY <1>1, DiscContents
<1>3. Descriptor(c) = [track |-> FirstTrack, start |-> SectorBytes(start)]
  BY <1>1 DEF Descriptor, LeadOut
<1> HIDE DEF start, c
<1>4. ToFrame(start) \in Int
  <2>1. start.minute \in Int /\ start.second \in Int /\ start.frame \in Int
    BY <1>2 DEF MSF
  <2> QED BY <2>1 DEF ToFrame
<1>5. SectorBytes(start) \in Address
  BY <1>4 DEF SectorBytes, Address
<1> QED BY <1>1, <1>3, <1>5 DEF c

LEMMA InitIInv == Init => IInv
BY DEF Init, IInv, TypeOK, TocIsDisc, NewToc, TocEntry

\* A disc that stays in the drive stays the same.
LEMMA SameDisc ==
  ASSUME disc' = disc
  PROVE  /\ FirstTrack' = FirstTrack /\ TrackCount' = TrackCount /\ LastTrack' = LastTrack
         /\ \A i : /\ EntryOf(i)' = EntryOf(i) /\ IsrcOf(i)' = IsrcOf(i)
                   /\ TrackAt(i)' = TrackAt(i)
BY DEF FirstTrack, TrackCount, LastTrack, EntryOf, IsrcOf, TrackAt

\* What was read stays right when nothing but pc, trk, trk0 and trk1 changes
\* and the packets refused become more.
LEMMA SameToc ==
  ASSUME IInv, UNCHANGED <<disc, isrc, cdtext, cdb, toc>>, refused \subseteq refused',
         pc \notin {"isrc", "threw"} \/ pc' \in {"isrc", "threw"},
         pc' \in {"cdtext", "done"} => pc \in {"cdtext", "done"}
  PROVE  TocIsDisc'
<1>1. \A i \in DOMAIN toc.tracks : EntryIsDisc(i) => EntryIsDisc(i)'
  BY SameDisc DEF EntryIsDisc
<1>2. \A i \in DOMAIN toc.tracks : IsrcIsDisc(i) => IsrcIsDisc(i)'
  BY SameDisc DEF IsrcIsDisc
<1> QED BY <1>1, <1>2, SameDisc DEF IInv, TocIsDisc

LEMMA GetTocIInv == IInv /\ GetToc => IInv'
<1> SUFFICES ASSUME IInv, GetToc PROVE IInv'
  OBVIOUS
<1>1. /\ trk0' = FirstTrack /\ trk1' = LastTrack /\ pc = "idle" /\ pc' = "upc"
      /\ UNCHANGED <<disc, isrc, cdtext, cdb, trk, toc, refused>>
  BY DEF GetToc
<1>2. FirstTrack \in Nat /\ LastTrack \in Nat
  BY DiscType DEF IInv, TypeOK
<1>3. TypeOK'
  BY <1>1, <1>2 DEF IInv, TypeOK
<1>4. TocIsDisc'
  BY <1>1, SameToc
<1> QED BY <1>1, <1>3, <1>4, SameDisc DEF IInv

LEMMA UpcIInv == IInv /\ UniversalProductCode => IInv'
<1> SUFFICES ASSUME IInv, UniversalProductCode PROVE IInv'
  OBVIOUS
<1>1. /\ trk' = FirstTrack /\ pc = "upc" /\ pc' = "entry" /\ toc.tracks = << >>
      /\ UNCHANGED <<disc, isrc, cdtext, cdb, trk0, trk1, toc, refused>>
  BY DEF UniversalProductCode, IInv
<1>2. /\ trk' \in Nat /\ Len(toc.tracks) = trk' - FirstTrack
      /\ FirstTrack <= trk' /\ trk' <= LastTrack + 1
  BY <1>1, DiscType DEF IInv, TypeOK
<1>3. TypeOK'
  BY <1>1, <1>2 DEF IInv, TypeOK
<1>4. TocIsDisc'
  BY <1>1, SameToc
<1> QED BY <1>1, <1>2, <1>3, <1>4, SameDisc DEF IInv

\* One more entry, which is that of the disc unless its packet was refused.
LEMMA ParsedIInv ==
  ASSUME IInv, NEW d, Parsed(d), d.track \in 0..255, d.start \in Address,
         refused \subseteq refused',
         <<"entry", trk>> \notin refused' =>
            /\ d.track = EntryOf(trk - FirstTrack + 1).track
            /\ d.start = EntryOf(trk - FirstTrack + 1).start
  PROVE  IInv'
<1> DEFINE e   == [track |-> d.track, start |-> d.start, isrc |-> NoIsrc,
                   title |-> << >>, performer |-> << >>]
           old == toc.tracks
           new == toc'.tracks
           n   == trk - FirstTrack + 1
<1>1. /\ disc \in Discs /\ pc = "entry" /\ trk1 = LastTrack /\ trk0 = FirstTrack
      /\ trk \in Nat /\ FirstTrack <= trk /\ trk <= LastTrack + 1
      /\ Len(old) = trk - FirstTrack
      /\ toc \in [title : {<< >>}, performer : {<< >>}, tracks : Seq(TocEntry)]
  BY DEF Parsed, IInv, TypeOK
<1>2. old \in Seq(TocEntry) /\ n \in Nat \ {0} /\ Len(old) = n - 1 /\ TrackAt(n) = trk
  <2>1. old \in Seq(TocEntry)
    BY <1>1
  <2>2. FirstTrack \in Int
    BY <1>1, DiscType
  <2>3. n \in Nat \ {0} /\ Len(old) = n - 1
    BY <1>1, <2>2
  <2>4. TrackAt(n) = trk
    BY <1>1, <2>2 DEF TrackAt
  <2> QED BY <2>1, <2>3, <2>4
<1>3. <<"entry", TrackAt(n)>> \notin refused' =>
        d.track = EntryOf(n).track /\ d.start = EntryOf(n).start
  BY <1>2
<1>4. e \in TocEntry /\ e.track = d.track /\ e.start = d.start
  BY DiscReaderAssumption DEF TocEntry
<1>5. cdb' = Command(Requested(trk, trk1)) /\ UNCHANGED <<disc, isrc, cdtext, trk0, trk1>>
  BY DEF Parsed
<1>6. toc' = [toc EXCEPT !.tracks = Append(@, e)]
  BY DEF Parsed
<1> HIDE DEF e
<1>7. toc' = [title |-> << >>, performer |-> << >>, tracks |-> Append(old, e)]
  BY <1>1, <1>6
<1>8. new = Append(old, e)
  BY <1>7
<1>9. Append(old, e) \in Seq(TocEntry)
  BY <1>2, <1>4, AppendProperties
<1>10. toc' \in [title : {<< >>}, performer : {<< >>}, tracks : Seq(TocEntry)]
  BY <1>7, <1>9
<1> HIDE DEF old, new, n
<1>11. DOMAIN old = 1..n - 1
  BY <1>2, LenProperties
<1>12. /\ Len(new) = n /\ DOMAIN new = 1..n /\ new[n] = e
       /\ \A i \in 1..n - 1 : new[i] = old[i]
  BY <1>2, <1>4, <1>8, AppendProperties, LenProperties
<1>13. \/ pc' = "isrc" /\ trk' = trk /\ isrc
       \/ pc' = "entry" /\ trk' = trk + 1 /\ trk <= LastTrack /\ ~isrc
       \/ pc' \in {"cdtext", "done"} /\ trk' = trk + 1 /\ ~(trk <= LastTrack) /\ ~isrc
  BY <1>1 DEF Parsed, After
<1>14. \A i \in 1..n - 1 :
         /\ EntryIsDisc(i) /\ IsrcIsDisc(i)
         /\ old[i].track \in 0..255 /\ old[i].start \in Address
  BY <1>1, <1>11 DEF IInv, TypeOK, TocIsDisc, old
<1>15. \A i \in 1..n : EntryIsDisc(i)' /\ new[i].track \in 0..255 /\ new[i].start \in Address
  <2> SUFFICES ASSUME NEW i \in 1..n
               PROVE  EntryIsDisc(i)' /\ new[i].track \in 0..255 /\ new[i].start \in Address
    BY Zenon
  <2>1. i = n \/ i \in 1..n - 1
    BY <1>2
  <2>2. TrackAt(i)' = TrackAt(i) /\ EntryOf(i)' = EntryOf(i)
    BY <1>5, SameDisc
  <2>3. CASE i = n
    <3>1. new[i] = e
      BY <1>12, <2>3
    <3>2. EntryIsDisc(i)'
      BY <1>3, <1>4, <2>2, <2>3, <3>1 DEF EntryIsDisc, new
    <3> QED BY <1>4, <3>1, <3>2
  <2>4. CASE i \in 1..n - 1
    <3>1. new[i] = old[i] /\ EntryIsDisc(i)
      BY <1>12, <1>14, <2>4
    <3>2. EntryIsDisc(i)'
      BY <2>2, <3>1 DEF EntryIsDisc, new, old
    <3> QED BY <1>14, <2>4, <3>1, <3>2
  <2> QED BY <2>1, <2>3, <2>4
<1>16. \A i \in 1..n - 1 : IsrcIsDisc(i)'
  <2> SUFFICES ASSUME NEW i \in 1..n - 1 PROVE IsrcIsDisc(i)'
    OBVIOUS
  <2>1. new[i] = old[i] /\ IsrcIsDisc(i)
    BY <1>12, <1>14
  <2>2. UNCHANGED <<TrackAt(i), IsrcOf(TrackAt(i)), LastTrack>>
    BY <1>5, SameDisc DEF IsrcOf, TrackAt, FirstTrack, LastTrack, TrackCount
  <2> QED BY <1>5, <2>1, <2>2 DEF IsrcIsDisc, new, old
<1>17. TypeOK'
  <2>1. cdb'.msf \in BOOLEAN /\ cdb'.track \in Nat
    BY <1>1, <1>5, DiscType DEF Command, Requested, LeadOut
  <2>2. pc' \in {"isrc", "entry", "cdtext", "done"} /\ trk' \in Nat
    BY <1>1, <1>13
  <2> QED BY <1>5, <1>12, <1>15, <2>1, <2>2 DEF IInv, TypeOK, new
<1>18. TocIsDisc'
  <2>1. \/ pc' = "isrc"
        \/ ~isrc'
    BY <1>5, <1>13
  <2>2. pc' \in {"cdtext", "done"} => n = TrackCount + 1
    BY <1>1, <1>13, DiscType DEF n
  <2>3. \A i \in 1..n : ~isrc' => IsrcIsDisc(i)'
    BY DEF IsrcIsDisc
  <2>4. \A i \in 1..n : i < n => i \in 1..n - 1
    BY <1>2
  <2> QED BY <1>5, <1>12, <1>15, <1>16, <2>1, <2>2, <2>3, <2>4, SameDisc DEF TocIsDisc, new
<1>19. /\ pc' \in {"entry", "isrc"} => FirstTrack <= trk' /\ trk' <= LastTrack + 1
       /\ pc' = "entry" => Len(new) = trk' - FirstTrack
       /\ pc' = "isrc" => Len(new) = trk' - FirstTrack + 1
  <2>1. Len(new) = trk - FirstTrack + 1
    BY <1>12 DEF n
  <2>2. FirstTrack \in Int /\ LastTrack \in Int
    BY <1>1, DiscType
  <2> HIDE DEF new
  <2> QED BY <1>1, <1>13, <2>1, <2>2
<1>20. pc' \notin {"idle", "upc"}
  BY <1>13
<1> QED BY <1>1, <1>5, <1>10, <1>17, <1>18, <1>19, <1>20, SameDisc DEF IInv, new

LEMMA EntryIInv == IInv /\ Entry => IInv'
<1> SUFFICES ASSUME IInv, Entry PROVE IInv'
  OBVIOUS
<1> DEFINE d == Descriptor(Command(Requested(trk, trk1)))
<1>1. /\ disc \in Discs /\ trk \in Int /\ trk1 = LastTrack
      /\ FirstTrack <= trk /\ trk <= LastTrack + 1
  BY DEF Entry, Parsed, IInv, TypeOK
<1>2. Parsed(d) /\ UNCHANGED refused
  BY DEF Entry
<1>3. d = Descriptor(Command(Requested(trk, LastTrack)))
  BY <1>1
<1> HIDE DEF d
<1>4. /\ d.track = EntryOf(trk - FirstTrack + 1).track /\ d.track \in 0..255
      /\ d.start = EntryOf(trk - FirstTrack + 1).start /\ d.start \in Address
  BY <1>1, <1>3, DescriptorIsEntry, Zenon
<1> QED BY <1>2, <1>4, ParsedIInv

\* buf holds the entry before, or what came with the header.
LEMMA EntryRefusedIInv == IInv /\ EntryRefused => IInv'
<1> SUFFICES ASSUME IInv, EntryRefused PROVE IInv'
  OBVIOUS
<1>1. Parsed(Held) /\ refused' = refused \cup {<<"entry", trk>>}
  BY DEF EntryRefused, Refuse
<1>2. Held.track \in 0..255 /\ Held.start \in Address
  <2>1. CASE toc.tracks = << >>
    BY <2>1, HeaderDescriptorType DEF Held, IInv, TypeOK
  <2>2. CASE toc.tracks # << >>
    <3> DEFINE last == Len(toc.tracks)
               e    == toc.tracks[last]
    <3>1. toc.tracks \in Seq(TocEntry)
      BY <1>1 DEF Parsed, IInv
    <3>2. last \in DOMAIN toc.tracks
      BY <2>2, <3>1, EmptySeq, LenProperties
    <3>3. e.track \in 0..255 /\ e.start \in Address
      BY <3>2 DEF IInv, TypeOK
    <3>4. Held = [track |-> e.track, start |-> e.start]
      BY <2>2 DEF Held
    <3> QED BY <3>3, <3>4
  <2> QED BY <2>1, <2>2
<1> QED BY <1>1, <1>2, ParsedIInv

\* The ISRC of the last entry, which is that of the disc unless refused.
LEMMA FiledIInv ==
  ASSUME IInv, NEW code \in Isrcs, Filed(code), refused \subseteq refused',
         <<"isrc", trk>> \notin refused' => code = IsrcOf(trk)
  PROVE  IInv'
<1> DEFINE n   == trk - FirstTrack + 1
           old == toc.tracks
           e   == [track |-> old[n].track, start |-> old[n].start, isrc |-> code,
                   title |-> << >>, performer |-> << >>]
           new == toc'.tracks
<1>1. /\ disc \in Discs /\ pc = "isrc" /\ trk1 = LastTrack /\ trk0 = FirstTrack
      /\ trk \in Nat /\ FirstTrack <= trk /\ trk <= LastTrack + 1 /\ Len(old) = n
      /\ toc \in [title : {<< >>}, performer : {<< >>}, tracks : Seq(TocEntry)]
      /\ UNCHANGED <<disc, isrc, cdtext, cdb, trk0, trk1>>
  BY DEF Filed, IInv, TypeOK
<1>2. old \in Seq(TocEntry) /\ n \in Nat \ {0}
  BY <1>1, DiscType
<1>3. n \in 1..Len(old) /\ DOMAIN old = 1..n /\ old[n] \in TocEntry
  <2> HIDE DEF old, n
  <2> QED BY <1>1, <1>2, LenProperties, ElementOfSeq
<1>4. [old[n] EXCEPT !.isrc = code] = e
  <2> DEFINE o == old[n]
  <2>1. o \in TocEntry
    BY <1>3
  <2> HIDE DEF o
  <2>2. [o EXCEPT !.isrc = code] = [track |-> o.track, start |-> o.start, isrc |-> code,
                                    title |-> << >>, performer |-> << >>]
    BY <2>1 DEF TocEntry
  <2> QED BY <2>2 DEF o
<1>5. e \in TocEntry /\ e.track = old[n].track /\ e.start = old[n].start /\ e.isrc = code
  BY <1>3 DEF TocEntry
<1>6. toc' = [toc EXCEPT !.tracks[Len(old)] = e]
  BY <1>1, <1>4 DEF Filed
<1> HIDE DEF e
<1>7. toc' = [title |-> << >>, performer |-> << >>, tracks |-> [old EXCEPT ![n] = e]]
  BY <1>1, <1>6
<1>8. new = [old EXCEPT ![n] = e]
  BY <1>7
<1>9. TrackAt(n) = trk
  BY <1>1, DiscType DEF TrackAt
<1> HIDE DEF old, new, n
<1>10. /\ Len(new) = n /\ DOMAIN new = 1..n /\ new[n] = e
       /\ \A i \in 1..n - 1 : new[i] = old[i]
  BY <1>1, <1>2, <1>3, <1>8, ExceptSeq, LenProperties
<1>11. toc' \in [title : {<< >>}, performer : {<< >>}, tracks : Seq(TocEntry)]
  <2>1. [old EXCEPT ![n] = e] \in Seq(TocEntry)
    BY <1>2, <1>3, <1>5, ExceptSeq
  <2> QED BY <1>7, <2>1
<1>12. \/ pc' = "entry" /\ trk' = trk + 1 /\ trk <= LastTrack
       \/ pc' \in {"cdtext", "done"} /\ trk' = trk + 1 /\ ~(trk <= LastTrack)
  BY <1>1 DEF Filed, After
<1>13. \A i \in 1..n : /\ EntryIsDisc(i) /\ (i < n => IsrcIsDisc(i))
                       /\ old[i].track \in 0..255 /\ old[i].start \in Address
  BY <1>1, <1>3 DEF IInv, TypeOK, TocIsDisc, old
<1>14. \A i \in 1..n : i = n \/ (i \in 1..n - 1 /\ i < n)
  BY <1>2
<1>15. \A i \in 1..n : /\ EntryIsDisc(i)' /\ IsrcIsDisc(i)'
                       /\ new[i].track \in 0..255 /\ new[i].start \in Address
  <2> SUFFICES ASSUME NEW i \in 1..n
               PROVE  /\ EntryIsDisc(i)' /\ IsrcIsDisc(i)'
                      /\ new[i].track \in 0..255 /\ new[i].start \in Address
    BY Zenon
  <2>1. /\ new[i].track = old[i].track /\ new[i].start = old[i].start
        /\ i < n => new[i].isrc = old[i].isrc
    BY <1>2, <1>5, <1>10, <1>14
  <2>2. /\ UNCHANGED <<TrackAt(i), EntryOf(i), LastTrack>>
        /\ IsrcOf(TrackAt(i))' = IsrcOf(TrackAt(i))
    BY <1>1, SameDisc DEF IsrcOf, TrackAt, FirstTrack, LastTrack, TrackCount
  <2>3. EntryIsDisc(i)'
    BY <1>13, <2>1, <2>2 DEF EntryIsDisc, new, old
  <2>4. CASE i = n
    <3>1. new[i].isrc = code
      BY <1>5, <1>10, <2>4
    <3>2. IsrcIsDisc(i)'
      BY <1>9, <2>2, <2>4, <3>1 DEF IsrcIsDisc, new
    <3> QED BY <1>13, <2>1, <2>3, <3>2
  <2>5. CASE i < n
    <3>1. IsrcIsDisc(i)'
      BY <1>1, <1>13, <2>1, <2>2, <2>5 DEF IsrcIsDisc, new, old
    <3> QED BY <1>13, <2>1, <2>3, <3>1
  <2> QED BY <1>14, <2>4, <2>5
<1>16. TypeOK'
  <2>1. pc' \in {"entry", "cdtext", "done"} /\ trk' \in Nat
    BY <1>1, <1>12
  <2> QED BY <1>1, <1>10, <1>15, <2>1 DEF IInv, TypeOK, new
<1>17. TocIsDisc'
  <2>1. pc' \in {"cdtext", "done"} => n = TrackCount + 1
    BY <1>1, <1>12, DiscType DEF n
  <2> QED BY <1>1, <1>10, <1>15, <2>1, SameDisc DEF TocIsDisc, new
<1>18. /\ pc' \notin {"idle", "upc", "isrc"}
       /\ pc' = "entry" => /\ FirstTrack <= trk' /\ trk' <= LastTrack + 1
                           /\ Len(new) = trk' - FirstTrack
  BY <1>1, <1>10, <1>12, DiscType DEF n
<1> QED BY <1>1, <1>11, <1>16, <1>17, <1>18, SameDisc DEF IInv, new

LEMMA GetISRCIInv == IInv /\ (GetISRC \/ GetISRCRefused) => IInv'
<1>1. ASSUME IInv, GetISRC PROVE IInv'
  <2>1. IsrcOf(trk) \in Isrcs
    BY <1>1, IsrcType DEF IInv, TypeOK
  <2> QED BY <1>1, <2>1, FiledIInv DEF GetISRC
<1>2. ASSUME IInv, GetISRCRefused PROVE IInv'
  <2>1. PICK code \in Leftover : Filed(code)
    BY <1>2 DEF GetISRCRefused
  <2>2. code \in Isrcs
    BY DiscReaderAssumption
  <2>3. refused' = refused \cup {<<"isrc", trk>>}
    BY <1>2 DEF GetISRCRefused, Refuse
  <2> QED BY <1>2, <2>1, <2>2, <2>3, FiledIInv
<1> QED BY <1>1, <1>2

\* CD-TEXT changes texts only.
LEMMA GetCdTextIInv == IInv /\ GetCdText => IInv'
<1> SUFFICES ASSUME IInv, GetCdText PROVE IInv'
  OBVIOUS
<1> DEFINE old == toc.tracks
           new == toc'.tracks
           n   == Len(old)
<1>1. /\ pc = "cdtext" /\ pc' = "done"
      /\ toc \in [title : {<< >>}, performer : {<< >>}, tracks : Seq(TocEntry)]
      /\ UNCHANGED <<disc, isrc, cdtext, cdb, trk0, trk1, trk, refused>>
  BY DEF GetCdText, IInv
<1>2. PICK titles, performers :
        new = [i \in DOMAIN old |->
                 [old[i] EXCEPT !.title     = TextAt(titles, old[i].track),
                                !.performer = TextAt(performers, old[i].track)]]
  BY DEF GetCdText
<1>3. old \in Seq(TocEntry)
  BY <1>1
<1> HIDE DEF old, new
<1>4. DOMAIN old = 1..n /\ n \in Nat
  BY <1>3, LenProperties
<1>5. DOMAIN new = DOMAIN old
  BY <1>2
<1>6. Len(new) = n
  <2> DEFINE text(i) == [old[i] EXCEPT !.title     = TextAt(titles, old[i].track),
                                       !.performer = TextAt(performers, old[i].track)]
  <2>1. new = [i \in 1..n |-> text(i)]
    BY <1>2, <1>4
  <2> HIDE DEF text
  <2> QED BY <1>4, <2>1
<1>7. \A i \in DOMAIN old : /\ new[i].track = old[i].track /\ new[i].start = old[i].start
                            /\ new[i].isrc = old[i].isrc
  <2> SUFFICES ASSUME NEW i \in DOMAIN old
               PROVE  /\ new[i].track = old[i].track /\ new[i].start = old[i].start
                      /\ new[i].isrc = old[i].isrc
    OBVIOUS
  <2> DEFINE o == old[i]
  <2>1. o \in TocEntry
    BY <1>3, <1>4, ElementOfSeq
  <2>2. new[i] = [o EXCEPT !.title     = TextAt(titles, o.track),
                           !.performer = TextAt(performers, o.track)]
    BY <1>2
  <2> HIDE DEF o
  <2>3. new[i] = [track |-> o.track, start |-> o.start, isrc |-> o.isrc,
                  title |-> TextAt(titles, o.track),
                  performer |-> TextAt(performers, o.track)]
    BY <2>1, <2>2 DEF TocEntry
  <2> QED BY <2>3 DEF o
<1>8. TypeOK'
  BY <1>1, <1>5, <1>7 DEF IInv, TypeOK, old, new
<1>9. TocIsDisc'
  <2>1. \A i \in DOMAIN old : EntryIsDisc(i) => EntryIsDisc(i)'
    BY <1>1, <1>7, SameDisc DEF EntryIsDisc, old, new
  <2>2. \A i \in DOMAIN old : IsrcIsDisc(i) => IsrcIsDisc(i)'
    BY <1>1, <1>7, SameDisc DEF IsrcIsDisc, old, new
  <2> QED BY <1>1, <1>5, <1>6, <2>1, <2>2, SameDisc DEF IInv, TocIsDisc, old, new
<1> QED BY <1>1, <1>8, <1>9 DEF IInv

\* The call ends, by an exception or with a packet refused, and the entries
\* stay what they are.
LEMMA EndsIInv == IInv /\ (Throw \/ HeaderRefused \/ GetCdTextRefused) => IInv'
<1> SUFFICES ASSUME IInv, Throw \/ HeaderRefused \/ GetCdTextRefused PROVE IInv'
  OBVIOUS
<1>1. /\ \/ pc' = "threw" /\ pc \notin {"done", "threw", "junk"}
         \/ pc' = "junk" /\ pc = "idle"
         \/ pc' = "done" /\ pc = "cdtext"
      /\ refused \subseteq refused'
      /\ UNCHANGED <<disc, isrc, cdtext, cdb, trk0, trk1, trk, toc>>
  BY DEF Throw, HeaderRefused, GetCdTextRefused, Refuse
<1>2. TypeOK'
  BY <1>1 DEF IInv, TypeOK
<1>3. TocIsDisc'
  BY <1>1, SameToc
<1> QED BY <1>1, <1>2, <1>3 DEF IInv

LEMMA NextIInv == IInv /\ [Next]_vars => IInv'
<1> SUFFICES ASSUME IInv, [Next]_vars PROVE IInv'
  OBVIOUS
<1>1. CASE UNCHANGED vars
  <2>1. UNCHANGED <<pc, disc, isrc, cdtext, cdb, trk0, trk1, trk, toc, refused>>
    BY <1>1 DEF vars
  <2>2. TypeOK' = TypeOK
    BY <2>1 DEF TypeOK
  <2>3. TocIsDisc'
    BY <2>1, SameToc
  <2> QED BY <2>1, <2>2, <2>3, SameDisc DEF IInv
<1> QED BY <1>1, GetTocIInv, UpcIInv, EntryIInv, EntryRefusedIInv, GetISRCIInv,
           GetCdTextIInv, EndsIInv DEF Next

\* The inductive invariant, for any disc of up to 99 tracks.
THEOREM InductiveInvariant == Spec => []IInv
BY InitIInv, NextIInv, PTL DEF Spec

\* The entries are those of the disc, in its order and with its ISRCs, and a
\* finished table has them all and then the lead-out.
THEOREM TocIsOfTheDisc == Spec => []TocIsDisc
<1>1. IInv => TocIsDisc
  BY DEF IInv
<1> QED BY <1>1, InductiveInvariant, PTL

-----------------------------------------------------------------------------
(***************************************************************************)
(* CD-TEXT.  GetToc's texts come from two folds, over the packs and over   *)
(* the characters of each, of joined texts cut into packs.  What holds of  *)
(* a fold is shown by induction over its steps, as in SequenceFolds.       *)
(***************************************************************************)

\* CdTextPacketCollectorSimple.  What a pack holds, and what a collector is.
Letters == Chars \cup {Nul}

Collector ==
  [m_track : Nat, perTrack : UNION {[D -> Seq(Chars)] : D \in SUBSET Nat}]

\* What a character does to the texts.
LEMMA AddCharParts ==
  ASSUME NEW c \in Collector, NEW char \in Letters
  PROVE  /\ AddChar(c, char) \in Collector
         /\ char = Nul =>
              /\ AddChar(c, char).m_track = c.m_track + 1
              /\ AddChar(c, char).perTrack = c.perTrack
         /\ char # Nul =>
              /\ AddChar(c, char).m_track = c.m_track
              /\ \A t \in Nat : TextAt(AddChar(c, char).perTrack, t)
                                  = IF t = c.m_track THEN Append(TextAt(c.perTrack, t), char)
                                    ELSE TextAt(c.perTrack, t)
<1>1. c.m_track \in Nat
  BY DEF Collector
<1>2. PICK D \in SUBSET Nat : c.perTrack \in [D -> Seq(Chars)]
  BY DEF Collector
<1>3. CASE char = Nul
  <2>1. AddChar(c, char) = [c EXCEPT !.m_track = c.m_track + 1]
    BY <1>3 DEF AddChar
  <2> QED BY <1>1, <1>3, <2>1 DEF Collector
<1>4. CASE char # Nul
  <2> DEFINE m == c.m_track
             p == c.perTrack
             new == [t \in D \cup {m} |->
                       IF t # m THEN p[t] ELSE IF t \in D THEN Append(p[t], char) ELSE <<char>>]
  <2>1. AddChar(c, char) = [c EXCEPT !.perTrack = new]
    BY <1>2, <1>4 DEF AddChar
  <2>2. char \in Chars
    BY <1>4 DEF Letters
  <2>3. new \in [D \cup {m} -> Seq(Chars)]
    BY <1>2, <2>2
  <2>4. D \cup {m} \in SUBSET Nat
    BY <1>1
  <2> HIDE DEF new
  <2>5. AddChar(c, char) \in Collector
    BY <2>1, <2>3, <2>4 DEF Collector
  <2>6. AddChar(c, char).m_track = m /\ AddChar(c, char).perTrack = new
    BY <2>1 DEF Collector
  <2>7. ASSUME NEW t \in Nat
        PROVE  TextAt(new, t) = IF t = m THEN Append(TextAt(p, t), char) ELSE TextAt(p, t)
    <3>1. DOMAIN new = D \cup {m} /\ DOMAIN p = D
      BY <1>2, <2>3
    <3>2. Append(<< >>, char) = <<char>>
      OBVIOUS
    <3> QED BY <3>1, <3>2 DEF TextAt, new
  <2> QED BY <1>4, <2>5, <2>6, <2>7
<1> QED BY <1>3, <1>4

\* Add takes the characters of a pack one after the other,
LEMMA AddSteps ==
  ASSUME NEW c \in Collector, NEW text \in Seq(Letters)
  PROVE  \E f \in [0..Len(text) -> Collector] :
           /\ f[0] = c
           /\ \A k \in 1..Len(text) : f[k] = AddChar(f[k - 1], text[k])
           /\ Add(c, text) = f[Len(text)]
<1> DEFINE n == Len(text)
           D == DOMAIN text
           step == [p \in (1..n) \X Collector |-> AddChar(p[2], text[p[1]])]
           Rec(g) == g = [s \in SUBSET D |->
                            IF s = {} THEN c
                            ELSE AddChar(g[s \ {Max(s)}], text[Max(s)])]
           iter == CHOOSE g : Rec(g)
<1>1. n \in Nat /\ D = 1..n /\ \A k \in 1..n : text[k] \in Letters
  BY LenProperties
<1>0. n = Len(text)
  OBVIOUS
<1>2. Add(c, text) = iter[D]
  BY DEF Add, FoldLeft, MapThenFoldSet
<1> HIDE DEF n, D
<1>3. \A k \in 1..n : \A v \in Collector : step[<<k, v>>] \in Collector
  BY <1>1, AddCharParts
<1>4. PICK g \in [SUBSET (1..n) -> Collector] : \A s \in SUBSET (1..n) :
        g[s] = IF s = {} THEN c ELSE step[<<Max(s), g[s \ {Max(s)}]>>]
  <2> HIDE DEF step
  <2>1. Stepping(n, Collector, c, step)
    BY <1>1, <1>3 DEF Stepping
  <2>2. PICK g : Folding(g, n, Collector, c, step)
    BY <2>1, FoldExists
  <2> QED BY <2>2 DEF Folding
<1>5. Rec(g)
  <2>1. ASSUME NEW s \in SUBSET (1..n), s # {}
        PROVE  step[<<Max(s), g[s \ {Max(s)}]>>] = AddChar(g[s \ {Max(s)}], text[Max(s)])
    <3>1. Max(s) \in 1..n
      BY <1>1, <2>1, Greatest
    <3>2. g[s \ {Max(s)}] \in Collector
      BY <1>4
    <3> QED BY <3>1, <3>2
  <2> HIDE DEF step
  <2>2. \A s \in SUBSET (1..n) :
          g[s] = IF s = {} THEN c ELSE AddChar(g[s \ {Max(s)}], text[Max(s)])
    BY <1>4, <2>1
  <2> QED BY <1>1, <2>2
<1>6. Rec(iter)
  <2> HIDE DEF Rec
  <2> QED BY <1>5
<1> HIDE DEF iter
<1>7. iter[{}] = c
  BY <1>6
<1>8. ASSUME NEW k \in 1..n PROVE iter[1..k] = AddChar(iter[1..k - 1], text[k])
  <2>1. Max(1..k) = k /\ (1..k) \ {k} = 1..k - 1
    <3>1. n \in Nat
      BY <1>1
    <3> QED BY <3>1, Greatest
  <2>2. 1..k \in SUBSET D /\ 1..k # {}
    BY <1>1
  <2>3. iter[1..k] = AddChar(iter[(1..k) \ {Max(1..k)}], text[Max(1..k)])
    BY <1>6, <2>2
  <2> QED BY <2>1, <2>3
<1> DEFINE f == [k \in 0..n |-> iter[1..k]]
           F == {k \in 0..n : iter[1..k] \in Collector}
<1>9. f[0] = c /\ iter[1..0] = c
  <2>1. 1..0 = {} /\ 0 \in 0..n
    BY <1>1
  <2> QED BY <1>7, <2>1
<1>10. f \in [0..n -> Collector]
  <2>1. 0 \in F
    BY <1>1, <1>9
  <2>2. ASSUME NEW k \in 0..n - 1, k \in F PROVE k + 1 \in F
    <3>1. k + 1 \in 1..n /\ (k + 1) - 1 = k
      BY <1>1
    <3>2. iter[1..k + 1] = AddChar(iter[1..k], text[k + 1])
      BY <1>8, <3>1
    <3>3. AddChar(iter[1..k], text[k + 1]) \in Collector
      BY <1>1, <2>2, <3>1, AddCharParts
    <3> QED BY <1>1, <3>1, <3>2, <3>3
  <2> HIDE DEF F
  <2>3. \A k \in 0..n : k \in F
    BY <1>1, <2>1, <2>2, CountUp
  <2> QED BY <2>3 DEF F
<1>11. ASSUME NEW k \in 1..n PROVE f[k] = AddChar(f[k - 1], text[k])
  <2>1. k \in 0..n /\ k - 1 \in 0..n
    BY <1>1
  <2> QED BY <1>8, <2>1
<1>12. Add(c, text) = f[n]
  BY <1>1, <1>2
<1> HIDE DEF f
<1> QED BY <1>0, <1>9, <1>10, <1>11, <1>12

\* A pack, and what it does to a collector that wants packs of a type.
Pack == [packType : {"Title", "Performer"}, text : Seq(Letters)]

Packed(type, c, p) == IF p.packType = type THEN Add(c, p.text) ELSE c

LEMMA NewIsCollector == NewCollector \in Collector
<1>1. << >> \in [{} -> Seq(Chars)] /\ {} \in SUBSET Nat
  OBVIOUS
<1> QED BY <1>1 DEF NewCollector, Collector

LEMMA PackedIsCollector ==
  ASSUME NEW c \in Collector, NEW type, NEW p \in Pack
  PROVE  Packed(type, c, p) \in Collector
<1>1. p.text \in Seq(Letters)
  BY DEF Pack
<1>2. Add(c, p.text) \in Collector
  <2> DEFINE text == p.text
  <2>1. text \in Seq(Letters)
    BY <1>1
  <2> HIDE DEF text
  <2>2. PICK f \in [0..Len(text) -> Collector] : Add(c, text) = f[Len(text)]
    BY <2>1, AddSteps
  <2>3. Len(text) \in 0..Len(text)
    BY <2>1, LenProperties
  <2>4. Add(c, text) \in Collector
    BY <2>2, <2>3
  <2> QED BY <2>4 DEF text
<1> QED BY <1>2 DEF Packed

\* and Flush the packs, of which it leaves out those of another type.
LEMMA FlushSteps ==
  ASSUME NEW packs \in Seq(Pack), NEW type
  PROVE  \E f \in [0..Len(packs) -> Collector] :
           /\ f[0] = NewCollector
           /\ \A k \in 1..Len(packs) : f[k] = Packed(type, f[k - 1], packs[k])
           /\ Flush(packs, type) = f[Len(packs)].perTrack
<1> DEFINE n == Len(packs)
           D == DOMAIN packs
           step == [p \in (1..n) \X Collector |-> Packed(type, p[2], packs[p[1]])]
           Rec(g) == g = [s \in SUBSET D |->
                            IF s = {} THEN NewCollector
                            ELSE Packed(type, g[s \ {Max(s)}], packs[Max(s)])]
           iter == CHOOSE g : Rec(g)
<1>1. n \in Nat /\ D = 1..n /\ \A k \in 1..n : packs[k] \in Pack
  BY LenProperties
<1>0. n = Len(packs)
  OBVIOUS
<1>2. Flush(packs, type) = iter[D].perTrack
  BY DEF Flush, FoldLeft, MapThenFoldSet, Packed
<1> HIDE DEF n, D
<1>3. \A k \in 1..n : \A v \in Collector : step[<<k, v>>] \in Collector
  BY <1>1, PackedIsCollector, NewIsCollector
<1>4. PICK g \in [SUBSET (1..n) -> Collector] : \A s \in SUBSET (1..n) :
        g[s] = IF s = {} THEN NewCollector ELSE step[<<Max(s), g[s \ {Max(s)}]>>]
  <2> HIDE DEF step
  <2>1. Stepping(n, Collector, NewCollector, step)
    BY <1>1, <1>3, NewIsCollector DEF Stepping
  <2>2. PICK g : Folding(g, n, Collector, NewCollector, step)
    BY <2>1, FoldExists
  <2> QED BY <2>2 DEF Folding
<1>5. Rec(g)
  <2>1. ASSUME NEW s \in SUBSET (1..n), s # {}
        PROVE  step[<<Max(s), g[s \ {Max(s)}]>>] = Packed(type, g[s \ {Max(s)}], packs[Max(s)])
    <3>1. Max(s) \in 1..n
      BY <1>1, <2>1, Greatest
    <3>2. g[s \ {Max(s)}] \in Collector
      BY <1>4
    <3> QED BY <3>1, <3>2
  <2> HIDE DEF step
  <2>2. \A s \in SUBSET (1..n) :
          g[s] = IF s = {} THEN NewCollector ELSE Packed(type, g[s \ {Max(s)}], packs[Max(s)])
    BY <1>4, <2>1
  <2> QED BY <1>1, <2>2
<1>6. Rec(iter)
  <2> HIDE DEF Rec
  <2> QED BY <1>5
<1> HIDE DEF iter
<1>7. iter[{}] = NewCollector
  BY <1>6
<1>8. ASSUME NEW k \in 1..n PROVE iter[1..k] = Packed(type, iter[1..k - 1], packs[k])
  <2>1. Max(1..k) = k /\ (1..k) \ {k} = 1..k - 1
    <3>1. n \in Nat
      BY <1>1
    <3> QED BY <3>1, Greatest
  <2>2. 1..k \in SUBSET D /\ 1..k # {}
    <3>1. D = 1..n /\ n \in Nat
      BY <1>1
    <3>2. 1..k \subseteq 1..n /\ k \in 1..k
      BY <3>1
    <3> QED BY <3>1, <3>2
  <2>3. iter[1..k] = Packed(type, iter[(1..k) \ {Max(1..k)}], packs[Max(1..k)])
    BY <1>6, <2>2
  <2> QED BY <2>1, <2>3
<1> DEFINE f == [k \in 0..n |-> iter[1..k]]
           F == {k \in 0..n : iter[1..k] \in Collector}
<1>9. f[0] = NewCollector /\ iter[1..0] = NewCollector
  <2>1. 1..0 = {} /\ 0 \in 0..n
    BY <1>1
  <2> QED BY <1>7, <2>1
<1>10. f \in [0..n -> Collector]
  <2>1. 0 \in F
    <3>1. iter[1..0] \in Collector
      BY <1>9, NewIsCollector
    <3> QED BY <1>1, <3>1
  <2>2. ASSUME NEW k \in 0..n - 1, k \in F PROVE k + 1 \in F
    <3>1. k + 1 \in 1..n /\ (k + 1) - 1 = k
      BY <1>1
    <3>2. iter[1..k + 1] = Packed(type, iter[1..k], packs[k + 1])
      BY <1>8, <3>1
    <3>3. Packed(type, iter[1..k], packs[k + 1]) \in Collector
      BY <1>1, <2>2, <3>1, PackedIsCollector, NewIsCollector
    <3> QED BY <1>1, <3>1, <3>2, <3>3
  <2> HIDE DEF F
  <2>3. \A k \in 0..n : k \in F
    BY <1>1, <2>1, <2>2, CountUp
  <2> QED BY <2>3 DEF F
<1>11. ASSUME NEW k \in 1..n PROVE f[k] = Packed(type, f[k - 1], packs[k])
  <2>1. k \in 0..n /\ k - 1 \in 0..n
    BY <1>1
  <2> QED BY <1>8, <2>1
<1>12. Flush(packs, type) = f[n].perTrack
  BY <1>1, <1>2
<1> HIDE DEF f
<1> QED BY <1>0, <1>9, <1>10, <1>11, <1>12

-----------------------------------------------------------------------------

\* Where in their joined characters the texts end.
Places(J, texts) ==
  /\ J \in [0..Len(texts) -> Nat]
  /\ J[0] = 0 /\ \A q \in 1..Len(texts) : J[q] = J[q - 1] + Len(texts[q]) + 1
  /\ Len(Joined(texts)) = J[Len(texts)]
  /\ \A q \in 1..Len(texts) : \A r \in 1..Len(texts[q]) + 1 :
       /\ J[q - 1] + r \in 1..J[Len(texts)]
       /\ Joined(texts)[J[q - 1] + r] = IF r <= Len(texts[q]) THEN texts[q][r] ELSE Nul

\* The joined texts are the texts, each ended by Nul.
LEMMA JoinedParts ==
  ASSUME NEW texts \in Seq(Seq(Chars))
  PROVE  Joined(texts) \in Seq(Letters) /\ \E J : Places(J, texts)
<1> DEFINE n == Len(texts)
           seqs == [i \in DOMAIN texts |-> Append(texts[i], Nul)]
<1>1. n \in Nat /\ DOMAIN texts = 1..n /\ \A i \in 1..n : texts[i] \in Seq(Chars)
  BY LenProperties
<1>2. ASSUME NEW i \in 1..n
      PROVE  /\ Append(texts[i], Nul) \in Seq(Letters)
             /\ Len(texts[i]) \in Nat
             /\ Len(Append(texts[i], Nul)) = Len(texts[i]) + 1
             /\ \A r \in 1..Len(texts[i]) + 1 :
                  Append(texts[i], Nul)[r] = IF r <= Len(texts[i]) THEN texts[i][r] ELSE Nul
  <2>1. texts[i] \in Seq(Letters) /\ Nul \in Letters
    BY <1>1 DEF Letters
  <2> QED BY <2>1, AppendProperties, LenProperties
<1> HIDE DEF n
<1>3. seqs \in Seq(Seq(Letters)) /\ Len(seqs) = n /\ \A i \in 1..n : seqs[i] = Append(texts[i], Nul)
  <2>1. seqs = [i \in 1..n |-> Append(texts[i], Nul)]
    BY <1>1
  <2>2. seqs \in [1..n -> Seq(Letters)]
    BY <1>2, <2>1
  <2>3. \A i \in 1..n : seqs[i] = Append(texts[i], Nul)
    BY <2>1
  <2> HIDE DEF seqs
  <2> QED BY <1>1, <2>2, <2>3
<1>4. Joined(texts) = FlattenSeq(seqs)
  BY DEF Joined
<1> HIDE DEF seqs
<1> DEFINE J == [k \in 0..n |-> Upto(seqs, k)]
<1>5. /\ Upto(seqs, 0) = 0 /\ Upto(seqs, n) = Len(FlattenSeq(seqs))
      /\ FlattenSeq(seqs) \in Seq(Letters)
      /\ \A k \in 0..n : Upto(seqs, k) \in Nat
      /\ \A k \in 1..n :
           /\ Upto(seqs, k) = Upto(seqs, k - 1) + Len(seqs[k])
           /\ \A r \in 1..Len(seqs[k]) :
                /\ Upto(seqs, k - 1) + r \in 1..Len(FlattenSeq(seqs))
                /\ FlattenSeq(seqs)[Upto(seqs, k - 1) + r] = seqs[k][r]
  BY <1>3, FlattenedParts
<1>6. \A k \in 0..n : J[k] = Upto(seqs, k)
  OBVIOUS
<1>7. J \in [0..n -> Nat]
  BY <1>5
<1> HIDE DEF J
<1>8. J[0] = 0 /\ J[n] = Len(Joined(texts)) /\ Joined(texts) \in Seq(Letters)
  <2>1. 0 \in 0..n /\ n \in 0..n
    BY <1>1
  <2> QED BY <1>4, <1>5, <1>6, <2>1
<1>9. ASSUME NEW q \in 1..n
      PROVE  /\ q - 1 \in 0..n /\ q \in 0..n
             /\ J[q - 1] = Upto(seqs, q - 1) /\ J[q] = Upto(seqs, q)
             /\ Len(seqs[q]) = Len(texts[q]) + 1 /\ J[q - 1] \in Nat /\ Len(texts[q]) \in Nat
  <2>1. q - 1 \in 0..n /\ q \in 0..n
    BY <1>1
  <2>2. J[q - 1] = Upto(seqs, q - 1) /\ J[q] = Upto(seqs, q) /\ J[q - 1] \in Nat
    BY <1>6, <1>7, <2>1
  <2>3. Len(seqs[q]) = Len(texts[q]) + 1 /\ Len(texts[q]) \in Nat
    BY <1>2, <1>3
  <2> QED BY <2>1, <2>2, <2>3
<1>10. ASSUME NEW q \in 1..n PROVE J[q] = J[q - 1] + Len(texts[q]) + 1
  <2>1. Upto(seqs, q) = Upto(seqs, q - 1) + Len(seqs[q])
    BY <1>5
  <2> DEFINE before == J[q - 1]
             l == Len(texts[q])
  <2>2. J[q] = before + (l + 1) /\ before \in Nat /\ l \in Nat
    BY <1>9, <2>1
  <2> HIDE DEF before, l
  <2>3. J[q] = before + l + 1
    BY <2>2
  <2> QED BY <2>3 DEF before, l
<1>11. ASSUME NEW q \in 1..n, NEW r \in 1..Len(texts[q]) + 1
       PROVE  /\ J[q - 1] + r \in 1..J[n]
              /\ Joined(texts)[J[q - 1] + r] = IF r <= Len(texts[q]) THEN texts[q][r] ELSE Nul
  <2>1. r \in 1..Len(seqs[q]) /\ J[q - 1] = Upto(seqs, q - 1)
    BY <1>9
  <2>2. /\ Upto(seqs, q - 1) + r \in 1..Len(FlattenSeq(seqs))
        /\ FlattenSeq(seqs)[Upto(seqs, q - 1) + r] = seqs[q][r]
    BY <1>5, <2>1
  <2>3. seqs[q][r] = IF r <= Len(texts[q]) THEN texts[q][r] ELSE Nul
    BY <1>2, <1>3
  <2> QED BY <1>4, <1>8, <2>1, <2>2, <2>3
<1>12. Places(J, texts)
  <2>1. n = Len(texts)
    BY DEF n
  <2> QED BY <1>7, <1>8, <1>10, <1>11, <2>1 DEF Places
<1> QED BY <1>8, <1>12

-----------------------------------------------------------------------------
\* The m-th of the joined characters, with Nul after them.
Padded(texts, m) == IF m <= Len(Joined(texts)) THEN Joined(texts)[m] ELSE Nul

\* All texts are collected; or the first m characters of them are.
Complete(c, texts) ==
  /\ c.m_track >= Len(texts)
  /\ \A t \in 1..Len(texts) : TextAt(c.perTrack, t - 1) = texts[t]

Amid(c, m, texts, J) ==
  \E q \in 1..Len(texts) : \E r \in 0..Len(texts[q]) :
    /\ m = J[q - 1] + r /\ c.m_track = q - 1
    /\ \A t \in 1..Len(texts) :
         TextAt(c.perTrack, t - 1) =
           IF t < q THEN texts[t] ELSE IF t = q THEN SubSeq(texts[q], 1, r) ELSE << >>

Right(c, m, texts, J) ==
  \/ Amid(c, m, texts, J)
  \/ m >= Len(Joined(texts)) /\ Complete(c, texts)

\* The collector begins with none of the characters,
LEMMA RightStart ==
  ASSUME NEW texts \in Seq(Seq(Chars)), NEW J, Places(J, texts)
  PROVE  Right(NewCollector, 0, texts, J)
<1>1. \A t : TextAt(<< >>, t) = << >>
  BY DEF TextAt
<1>2. NewCollector.m_track = 0 /\ NewCollector.perTrack = << >>
  BY DEF NewCollector
<1>3. Len(texts) \in Nat /\ J[0] = 0 /\ Len(Joined(texts)) = J[Len(texts)]
  BY LenProperties DEF Places
<1>4. CASE Len(texts) = 0
  BY <1>2, <1>3, <1>4 DEF Right, Complete
<1>5. CASE Len(texts) # 0
  <2>1. 1 \in 1..Len(texts) /\ texts[1] \in Seq(Chars)
    BY <1>3, <1>5, LenProperties
  <2>2. 0 \in 0..Len(texts[1]) /\ SubSeq(texts[1], 1, 0) = << >>
    BY <2>1, LenProperties, SubSeqProperties
  <2>3. 0 = J[1 - 1] + 0 /\ NewCollector.m_track = 1 - 1
    BY <1>2, <1>3
  <2>4. \A t \in 1..Len(texts) :
          TextAt(NewCollector.perTrack, t - 1) =
            IF t < 1 THEN texts[t] ELSE IF t = 1 THEN SubSeq(texts[1], 1, 0) ELSE << >>
    <3> SUFFICES ASSUME NEW t \in 1..Len(texts)
                 PROVE  << >> = IF t < 1 THEN texts[t]
                                ELSE IF t = 1 THEN SubSeq(texts[1], 1, 0) ELSE << >>
      BY <1>1, <1>2
    <3>1. ~(t < 1)
      BY <1>3
    <3> QED BY <2>2, <3>1
  <2> QED BY <2>1, <2>2, <2>3, <2>4 DEF Right, Amid
<1> QED BY <1>4, <1>5

\* complete texts stay as they are, whatever follows,
LEMMA CompleteStays ==
  ASSUME NEW texts \in Seq(Seq(Chars)), NEW c \in Collector, NEW char \in Letters,
         Complete(c, texts)
  PROVE  Complete(AddChar(c, char), texts)
<1> DEFINE d == AddChar(c, char)
<1>1. /\ char = Nul => d.m_track = c.m_track + 1 /\ d.perTrack = c.perTrack
      /\ char # Nul => /\ d.m_track = c.m_track
                       /\ \A t \in Nat : TextAt(d.perTrack, t)
                                           = IF t = c.m_track THEN Append(TextAt(c.perTrack, t), char)
                                             ELSE TextAt(c.perTrack, t)
  BY AddCharParts
<1> HIDE DEF d
<1>2. c.m_track \in Nat /\ Len(texts) \in Nat /\ c.m_track >= Len(texts)
  BY LenProperties DEF Collector, Complete
<1>3. d.m_track >= Len(texts)
  BY <1>1, <1>2
<1>4. ASSUME NEW t \in 1..Len(texts) PROVE TextAt(d.perTrack, t - 1) = TextAt(c.perTrack, t - 1)
  <2>1. t - 1 \in Nat /\ t - 1 # c.m_track
    BY <1>2
  <2> QED BY <1>1, <2>1
<1>5. \A t \in 1..Len(texts) : TextAt(d.perTrack, t - 1) = texts[t]
  BY <1>4 DEF Complete
<1>6. Complete(d, texts)
  BY <1>3, <1>5 DEF Complete
<1> QED BY <1>6 DEF d

\* each character goes where it belongs,
LEMMA RightStep ==
  ASSUME NEW texts \in Seq(Seq(Chars)), NEW J, Places(J, texts),
         NEW c \in Collector, NEW m \in Nat, Right(c, m, texts, J)
  PROVE  /\ Padded(texts, m + 1) \in Letters
         /\ Right(AddChar(c, Padded(texts, m + 1)), m + 1, texts, J)
<1> DEFINE n == Len(texts)
           char == Padded(texts, m + 1)
           d == AddChar(c, char)
<1>1. n \in Nat /\ \A q \in 1..n : texts[q] \in Seq(Chars) /\ Len(texts[q]) \in Nat
  BY LenProperties
<1>2. Joined(texts) \in Seq(Letters) /\ Len(Joined(texts)) \in Nat
  BY JoinedParts, LenProperties
<1>3. char \in Letters
  <2>1. CASE m + 1 <= Len(Joined(texts))
    <3>1. m + 1 \in 1..Len(Joined(texts))
      BY <1>2, <2>1
    <3> QED BY <1>2, <2>1, <3>1, ElementOfSeq DEF Padded
  <2>2. CASE ~(m + 1 <= Len(Joined(texts)))
    BY <2>2 DEF Padded, Letters
  <2> QED BY <2>1, <2>2
<1>4. /\ char = Nul => d.m_track = c.m_track + 1 /\ d.perTrack = c.perTrack
      /\ char # Nul => /\ d.m_track = c.m_track
                       /\ \A t \in Nat : TextAt(d.perTrack, t)
                                           = IF t = c.m_track THEN Append(TextAt(c.perTrack, t), char)
                                             ELSE TextAt(c.perTrack, t)
  BY <1>3, AddCharParts
<1>5. CASE m >= Len(Joined(texts)) /\ Complete(c, texts)
  <2>1. Complete(d, texts)
    BY <1>3, <1>5, CompleteStays
  <2>2. m + 1 >= Len(Joined(texts))
    BY <1>2, <1>5
  <2> QED BY <1>3, <2>1, <2>2 DEF Right
<1>6. CASE Amid(c, m, texts, J)
  <2>0. PICK q \in 1..n : \E r \in 0..Len(texts[q]) :
          /\ m = J[q - 1] + r /\ c.m_track = q - 1
          /\ \A t \in 1..n :
               TextAt(c.perTrack, t - 1) =
                 IF t < q THEN texts[t] ELSE IF t = q THEN SubSeq(texts[q], 1, r) ELSE << >>
    BY <1>6 DEF Amid
  <2>1. PICK r \in 0..Len(texts[q]) :
          /\ m = J[q - 1] + r /\ c.m_track = q - 1
          /\ \A t \in 1..n :
               TextAt(c.perTrack, t - 1) =
                 IF t < q THEN texts[t] ELSE IF t = q THEN SubSeq(texts[q], 1, r) ELSE << >>
    BY <2>0
  <2> HIDE DEF d
  <2> DEFINE text == texts[q]
             l == Len(text)
             a == J[q - 1]
  <2>2. text \in Seq(Chars) /\ l \in Nat /\ r \in 0..l /\ a \in Nat /\ m = a + r
    <3>1. q - 1 \in 0..n
      BY <1>1
    <3> QED BY <1>1, <2>1, <3>1 DEF Places
  <2>3. char = IF r + 1 <= l THEN text[r + 1] ELSE Nul
    <3>1. r + 1 \in 1..l + 1 /\ m + 1 = a + (r + 1)
      BY <2>2
    <3>2. /\ a + (r + 1) \in 1..J[n]
          /\ Joined(texts)[a + (r + 1)] = IF r + 1 <= l THEN text[r + 1] ELSE Nul
      BY <3>1 DEF Places
    <3>3. m + 1 <= Len(Joined(texts))
      <4>1. Len(Joined(texts)) = J[n]
        BY DEF Places
      <4>2. m + 1 \in 1..Len(Joined(texts))
        BY <3>1, <3>2, <4>1
      <4> QED BY <1>2, <4>2
    <3> QED BY <3>1, <3>2, <3>3 DEF Padded
  <2> HIDE DEF char
  <2>4. CASE r < l
    <3>1. text[r + 1] \in Chars /\ text[r + 1] # Nul /\ char = text[r + 1]
      <4>1. r + 1 \in 1..l
        BY <2>2, <2>4
      <4>2. text[r + 1] \in Chars
        BY <2>2, <4>1, ElementOfSeq
      <4> QED BY <2>3, <4>1, <4>2, DiscReaderAssumption
    <3>2. r + 1 \in 0..l /\ m + 1 = a + (r + 1)
      BY <2>2, <2>4
    <3>3. Append(SubSeq(text, 1, r), char) = SubSeq(text, 1, r + 1)
      <4> HIDE DEF text
      <4>1. r + 1 \in 1..Len(text)
        BY <2>2, <3>2
      <4> DEFINE u == SubSeq(text, 1, r)
                 v == SubSeq(text, 1, r + 1)
      <4>2. u \in Seq(Chars) /\ Len(u) = r /\ \A i \in 1..r : u[i] = text[i]
        BY <2>2, <4>1, SubSeqProperties
      <4>3. v \in Seq(Chars) /\ Len(v) = r + 1 /\ \A i \in 1..r + 1 : v[i] = text[i]
        BY <2>2, <4>1, SubSeqProperties
      <4> HIDE DEF u, v
      <4>4. /\ Append(u, char) \in Seq(Chars) /\ Len(Append(u, char)) = r + 1
            /\ \A i \in 1..r : Append(u, char)[i] = u[i]
            /\ Append(u, char)[r + 1] = char
        BY <3>1, <4>2, AppendProperties
      <4>5. \A i \in 1..Len(v) : Append(u, char)[i] = v[i]
        <5>1. ASSUME NEW i \in 1..Len(v) PROVE Append(u, char)[i] = v[i]
          <6>1. i \in 1..r + 1 /\ v[i] = text[i]
            BY <4>3
          <6>2. CASE i = r + 1
            BY <3>1, <4>4, <6>1, <6>2
          <6>3. CASE i # r + 1
            <7>1. i \in 1..r
              BY <2>2, <6>1, <6>3
            <7> QED BY <4>2, <4>4, <6>1, <7>1
          <6> QED BY <6>2, <6>3
        <5> QED BY <5>1
      <4>6. Append(u, char) = v
        BY <4>3, <4>4, <4>5, SeqEqual
      <4> QED BY <4>6 DEF u, v
    <3>4. ASSUME NEW t \in 1..n
          PROVE  TextAt(d.perTrack, t - 1) =
                   IF t < q THEN texts[t]
                   ELSE IF t = q THEN SubSeq(texts[q], 1, r + 1) ELSE << >>
      <4>1. t - 1 \in Nat /\ (t - 1 = c.m_track <=> t = q) /\ ~(q < q)
        BY <1>1, <2>1
      <4>2. TextAt(d.perTrack, t - 1)
              = IF t = q THEN Append(TextAt(c.perTrack, t - 1), char) ELSE TextAt(c.perTrack, t - 1)
        BY <1>4, <3>1, <4>1
      <4> QED BY <2>1, <3>3, <4>1, <4>2
    <3>5. d.m_track = q - 1
      BY <1>4, <2>1, <3>1
    <3> QED BY <1>3, <3>2, <3>4, <3>5 DEF Right, Amid, char, d
  <2>5. CASE r = l
    <3>1. char = Nul /\ d.m_track = q /\ d.perTrack = c.perTrack
      BY <1>1, <1>4, <2>1, <2>2, <2>3, <2>5
    <3>2. SubSeq(text, 1, r) = text
      BY <2>2, <2>5, SubSeqFull
    <3>3. J[q] = a + l + 1 /\ m + 1 = J[q]
      BY <2>2, <2>5 DEF Places
    <3>4. CASE q < n
      <4>1. q + 1 \in 1..n /\ (q + 1) - 1 = q /\ 0 \in 0..Len(texts[q + 1])
        BY <1>1, <3>4
      <4>2. SubSeq(texts[q + 1], 1, 0) = << >>
        BY <1>1, <4>1, SubSeqProperties
      <4>3. ASSUME NEW t \in 1..n
            PROVE  TextAt(d.perTrack, t - 1) =
                     IF t < q + 1 THEN texts[t]
                     ELSE IF t = q + 1 THEN SubSeq(texts[q + 1], 1, 0) ELSE << >>
        <5>1. TextAt(d.perTrack, t - 1)
                = IF t < q THEN texts[t] ELSE IF t = q THEN texts[q] ELSE << >>
          BY <2>1, <3>1, <3>2
        <5>2. CASE t < q
          <6>1. t < q + 1
            BY <1>1, <5>2
          <6> QED BY <5>1, <5>2, <6>1
        <5>3. CASE t = q
          <6>1. t < q + 1 /\ ~(t < q)
            BY <1>1, <5>3
          <6> QED BY <5>1, <5>3, <6>1
        <5>4. CASE ~(t < q) /\ t # q
          <6>1. ~(t < q + 1)
            BY <1>1, <5>4
          <6> QED BY <4>2, <5>1, <5>4, <6>1
        <5> QED BY <5>2, <5>3, <5>4
      <4>4. m + 1 = J[(q + 1) - 1] + 0 /\ d.m_track = (q + 1) - 1
        <5>1. J[q] + 0 = J[q]
          BY <2>2, <3>3
        <5> QED BY <3>1, <3>3, <4>1, <5>1
      <4>5. Amid(d, m + 1, texts, J)
        BY <4>1, <4>3, <4>4 DEF Amid
      <4> QED BY <1>3, <4>5 DEF Right, char, d
    <3>5. CASE q = n
      <4>1. \A t \in 1..n : TextAt(d.perTrack, t - 1) = texts[t]
        <5> SUFFICES ASSUME NEW t \in 1..n PROVE TextAt(d.perTrack, t - 1) = texts[t]
          OBVIOUS
        <5>1. TextAt(d.perTrack, t - 1)
                = IF t < q THEN texts[t] ELSE IF t = q THEN texts[q] ELSE << >>
          BY <2>1, <3>1, <3>2
        <5>2. t < q \/ t = q
          BY <1>1, <3>5
        <5> QED BY <5>1, <5>2
      <4>2. d.m_track >= n /\ Complete(d, texts)
        BY <1>1, <3>1, <3>5, <4>1 DEF Complete
      <4>3. m + 1 >= Len(Joined(texts))
        BY <1>2, <3>3, <3>5 DEF Places
      <4> QED BY <1>3, <4>2, <4>3 DEF Right, char, d
    <3> QED BY <1>1, <3>4, <3>5
  <2> QED BY <2>2, <2>4, <2>5
<1> QED BY <1>5, <1>6 DEF Right

\* and so do those of a pack.
LEMMA RightPack ==
  ASSUME NEW texts \in Seq(Seq(Chars)), NEW J, Places(J, texts),
         NEW c \in Collector, NEW m \in Nat, Right(c, m, texts, J),
         NEW text \in Seq(Letters),
         \A j \in 1..Len(text) : text[j] = Padded(texts, m + j)
  PROVE  Right(Add(c, text), m + Len(text), texts, J)
<1> DEFINE n == Len(text)
<1>1. n \in Nat
  BY LenProperties
<1>2. PICK f \in [0..n -> Collector] :
        /\ f[0] = c
        /\ \A k \in 1..n : f[k] = AddChar(f[k - 1], text[k])
        /\ Add(c, text) = f[n]
  BY AddSteps
<1> HIDE DEF n
<1> DEFINE F == {k \in 0..n : Right(f[k], m + k, texts, J)}
<1>3. 0 \in F
  BY <1>1, <1>2
<1>4. ASSUME NEW k \in 0..n - 1, k \in F PROVE k + 1 \in F
  <2>1. k + 1 \in 1..n /\ k + 1 \in 0..n /\ (k + 1) - 1 = k /\ m + (k + 1) = (m + k) + 1
    BY <1>1
  <2> DEFINE d == f[k]
             l == m + k
  <2>2. d \in Collector /\ l \in Nat /\ Right(d, l, texts, J)
    BY <1>1, <1>4
  <2>3. f[k + 1] = AddChar(d, Padded(texts, l + 1))
    <3>1. text[k + 1] = Padded(texts, m + (k + 1))
      BY <2>1 DEF n
    <3> QED BY <1>2, <2>1, <3>1
  <2> HIDE DEF d, l
  <2>4. Right(AddChar(d, Padded(texts, l + 1)), l + 1, texts, J)
    BY <2>2, RightStep
  <2> QED BY <2>1, <2>3, <2>4 DEF l
<1> HIDE DEF F
<1>5. \A k \in 0..n : k \in F
  BY <1>1, <1>3, <1>4, CountUp
<1>6. n \in F
  BY <1>1, <1>5
<1> QED BY <1>2, <1>6 DEF F, n

\* Nor does a pack disturb complete texts.
LEMMA CompletePack ==
  ASSUME NEW texts \in Seq(Seq(Chars)), NEW c \in Collector, Complete(c, texts),
         NEW type, NEW p \in Pack
  PROVE  Complete(Packed(type, c, p), texts)
<1> DEFINE text == p.text
           n == Len(text)
<1>1. text \in Seq(Letters) /\ n \in Nat /\ \A k \in 1..n : text[k] \in Letters
  BY LenProperties DEF Pack
<1> HIDE DEF text
<1>2. PICK f \in [0..n -> Collector] :
        /\ f[0] = c
        /\ \A k \in 1..n : f[k] = AddChar(f[k - 1], text[k])
        /\ Add(c, text) = f[n]
  BY <1>1, AddSteps
<1> HIDE DEF n
<1> DEFINE F == {k \in 0..n : Complete(f[k], texts)}
<1>3. 0 \in F
  BY <1>1, <1>2
<1>4. ASSUME NEW k \in 0..n - 1, k \in F PROVE k + 1 \in F
  <2>1. k + 1 \in 1..n /\ k + 1 \in 0..n /\ (k + 1) - 1 = k /\ k \in 0..n
    BY <1>1
  <2> DEFINE d == f[k]
             char == text[k + 1]
  <2>2. d \in Collector /\ Complete(d, texts) /\ char \in Letters /\ f[k + 1] = AddChar(d, char)
    BY <1>1, <1>2, <1>4, <2>1
  <2> HIDE DEF d, char
  <2>3. Complete(AddChar(d, char), texts)
    BY <2>2, CompleteStays
  <2> QED BY <2>1, <2>2, <2>3
<1> HIDE DEF F
<1>5. \A k \in 0..n : k \in F
  BY <1>1, <1>3, <1>4, CountUp
<1>6. n \in F
  BY <1>1, <1>5
<1>7. Complete(Add(c, p.text), texts)
  BY <1>2, <1>6 DEF F, text
<1> QED BY <1>7 DEF Packed

\* Enough packs for all characters.
LEMMA RoundedUp ==
  ASSUME NEW len \in Nat, NEW p \in Nat \ {0}
  PROVE  (len + p - 1) \div p \in Nat /\ ((len + p - 1) \div p) * p >= len
<1> DEFINE s == len + p - 1
<1>1. s \in Nat /\ p \in Nat /\ p >= 1
  OBVIOUS
<1> HIDE DEF s
<1>2. s \div p \in Int /\ s \div p >= 0 /\ s % p \in 0..p - 1
  BY <1>1
<1>3. s = (s \div p) * p + (s % p)
  BY <1>1
<1> DEFINE n == s \div p
           x == n * p
<1>4. n \in Nat /\ s = x + (s % p)
  BY <1>2, <1>3
<1> HIDE DEF n
<1>5. x \in Nat
  BY <1>1, <1>4
<1> HIDE DEF x
<1>6. x >= s - (p - 1)
  BY <1>1, <1>2, <1>4, <1>5
<1>7. x >= len
  BY <1>5, <1>6 DEF s
<1> QED BY <1>4, <1>7 DEF n, x, s

\* The packs hold the joined characters and what fills up the last.
LEMMA PacksParts ==
  ASSUME NEW texts \in Seq(Seq(Chars)), NEW type \in {"Title", "Performer"}
  PROVE  /\ Packs(type, texts) \in Seq(Pack)
         /\ Len(Packs(type, texts)) * PackSize >= Len(Joined(texts))
         /\ \A k \in 1..Len(Packs(type, texts)) :
              /\ Packs(type, texts)[k].packType = type
              /\ Len(Packs(type, texts)[k].text) = PackSize
              /\ \A j \in 1..PackSize :
                   Packs(type, texts)[k].text[j] = Padded(texts, (k - 1) * PackSize + j)
<1> DEFINE chars == Joined(texts)
           len == Len(chars)
           n == (len + PackSize - 1) \div PackSize
           text == [k \in 1..n |-> [j \in 1..PackSize |-> Padded(texts, (k - 1) * PackSize + j)]]
           packs == [k \in 1..n |-> [packType |-> type, text |-> text[k]]]
<1>1. chars \in Seq(Letters) /\ len \in Nat
  BY JoinedParts, LenProperties
<1>2. PackSize \in Nat /\ PackSize >= 1
  BY DiscReaderAssumption
<1>3. Packs(type, texts) = packs
  BY DEF Packs, Padded
<1>4. n \in Nat /\ n * PackSize >= len
  <2> HIDE DEF len
  <2>1. PackSize \in Nat \ {0}
    BY <1>2
  <2> QED BY <1>1, <2>1, RoundedUp
<1> HIDE DEF n
<1>5. ASSUME NEW k \in 1..n, NEW j \in 1..PackSize
      PROVE  Padded(texts, (k - 1) * PackSize + j) \in Letters
  <2> DEFINE m == (k - 1) * PackSize + j
  <2>1. m \in Nat /\ m >= 1
    <3> DEFINE a == k - 1
    <3>1. a \in Nat
      BY <1>4
    <3> HIDE DEF a
    <3>2. a * PackSize \in Nat
      BY <1>2, <3>1
    <3> DEFINE b == a * PackSize
    <3> HIDE DEF b
    <3>3. b + j \in Nat /\ b + j >= 1
      BY <1>2, <3>2 DEF b
    <3> QED BY <3>3 DEF a, b
  <2> HIDE DEF m
  <2>2. CASE m <= len
    <3>1. m \in 1..Len(chars)
      BY <1>1, <2>1, <2>2
    <3>2. chars[m] \in Letters
      BY <1>1, <3>1, ElementOfSeq
    <3> QED BY <2>2, <3>2 DEF Padded, m
  <2>3. CASE ~(m <= len)
    BY <2>3 DEF Padded, Letters, m
  <2> QED BY <2>2, <2>3
<1>6. ASSUME NEW k \in 1..n
      PROVE  /\ text[k] \in Seq(Letters) /\ Len(text[k]) = PackSize
             /\ \A j \in 1..PackSize : text[k][j] = Padded(texts, (k - 1) * PackSize + j)
  <2>1. text[k] = [j \in 1..PackSize |-> Padded(texts, (k - 1) * PackSize + j)]
    OBVIOUS
  <2>2. text[k] \in [1..PackSize -> Letters]
    BY <1>5, <2>1
  <2>3. \A j \in 1..PackSize : text[k][j] = Padded(texts, (k - 1) * PackSize + j)
    BY <2>1
  <2> HIDE DEF text
  <2> QED BY <1>2, <2>2, <2>3
<1> HIDE DEF text
<1>7. \A k \in 1..n : packs[k] \in Pack /\ packs[k].packType = type /\ packs[k].text = text[k]
  BY <1>6 DEF Pack
<1>8. packs \in Seq(Pack) /\ Len(packs) = n
  BY <1>4, <1>7
<1> HIDE DEF packs
<1> QED BY <1>3, <1>4, <1>6, <1>7, <1>8

\* After a packs of other types come those that hold the texts.
HeldFrom(a, packs, type, texts) ==
  /\ packs \in Seq(Pack) /\ a \in Nat
  /\ a + Len(Packs(type, texts)) <= Len(packs)
  /\ \A k \in 1..a : packs[k].packType # type
  /\ \A k \in 1..Len(Packs(type, texts)) : packs[a + k] = Packs(type, texts)[k]

\* What is collected from these packs are the texts, wherever they were cut.
LEMMA FlushIsTexts ==
  ASSUME NEW texts \in Seq(Seq(Chars)), NEW type \in {"Title", "Performer"},
         NEW a, NEW packs, HeldFrom(a, packs, type, texts)
  PROVE  \A t \in 1..Len(texts) : TextAt(Flush(packs, type), t - 1) = texts[t]
<1> DEFINE n == Len(packs)
           own == Packs(type, texts)
           N == Len(own)
<1>1. /\ packs \in Seq(Pack) /\ a \in Nat /\ n \in Nat /\ N \in Nat /\ a + N <= n
      /\ own \in Seq(Pack) /\ PackSize \in Nat
      /\ \A k \in 1..n : packs[k] \in Pack
  BY PacksParts, LenProperties, DiscReaderAssumption DEF HeldFrom
<1>2. PICK J : Places(J, texts)
  BY JoinedParts
<1>3. PICK f \in [0..n -> Collector] :
        /\ f[0] = NewCollector
        /\ \A k \in 1..n : f[k] = Packed(type, f[k - 1], packs[k])
        /\ Flush(packs, type) = f[n].perTrack
  BY <1>1, FlushSteps
<1>4. N * PackSize >= Len(Joined(texts))
  BY PacksParts
<1>5. ASSUME NEW k \in 1..N
      PROVE  /\ packs[a + k].packType = type
             /\ packs[a + k].text \in Seq(Letters) /\ Len(packs[a + k].text) = PackSize
             /\ \A j \in 1..PackSize :
                  packs[a + k].text[j] = Padded(texts, (k - 1) * PackSize + j)
  <2>1. packs[a + k] = own[k] /\ own[k] \in Pack
    BY <1>1 DEF HeldFrom
  <2>2. /\ own[k].packType = type /\ Len(own[k].text) = PackSize
        /\ \A j \in 1..PackSize : own[k].text[j] = Padded(texts, (k - 1) * PackSize + j)
    BY PacksParts
  <2>3. own[k].text \in Seq(Letters)
    BY <2>1 DEF Pack
  <2> HIDE DEF own
  <2> QED BY <2>1, <2>2, <2>3
<1> HIDE DEF n, own, N
<1>6. f[a] = NewCollector
  <2> DEFINE F == {k \in 0..a : f[k] = NewCollector}
  <2>1. 0 \in F
    BY <1>1, <1>3
  <2>2. ASSUME NEW k \in 0..a - 1, k \in F PROVE k + 1 \in F
    <3>1. k + 1 \in 1..a /\ k + 1 \in 1..n /\ (k + 1) - 1 = k /\ k + 1 \in 0..a
      BY <1>1
    <3>2. packs[k + 1].packType # type
      BY <3>1 DEF HeldFrom
    <3>3. f[k + 1] = Packed(type, f[k], packs[k + 1])
      BY <1>3, <3>1
    <3> QED BY <2>2, <3>1, <3>2, <3>3 DEF Packed
  <2> HIDE DEF F
  <2>3. \A k \in 0..a : k \in F
    BY <1>1, <2>1, <2>2, CountUp
  <2>4. a \in F
    BY <1>1, <2>3
  <2> QED BY <2>4 DEF F
<1>7. Right(f[a + N], N * PackSize, texts, J)
  <2> DEFINE F == {k \in 0..N : Right(f[a + k], k * PackSize, texts, J)}
  <2>1. 0 \in F
    <3>1. a + 0 = a /\ 0 * PackSize = 0 /\ 0 \in 0..N
      BY <1>1
    <3> QED BY <1>2, <1>6, <3>1, RightStart
  <2>2. ASSUME NEW k \in 0..N - 1, k \in F PROVE k + 1 \in F
    <3> DEFINE p == packs[a + (k + 1)]
               c == f[a + k]
               m == k * PackSize
               text == p.text
    <3>1. /\ k + 1 \in 1..N /\ k + 1 \in 0..N /\ a + (k + 1) \in 1..n /\ (a + (k + 1)) - 1 = a + k
          /\ a + k \in 0..n /\ ((k + 1) - 1) = k
      BY <1>1
    <3>2. m \in Nat /\ (k + 1) * PackSize = m + PackSize
      BY <1>1
    <3>3. c \in Collector /\ Right(c, m, texts, J)
      BY <1>3, <2>2, <3>1
    <3>4. /\ p.packType = type /\ text \in Seq(Letters) /\ Len(text) = PackSize
          /\ \A j \in 1..PackSize : text[j] = Padded(texts, m + j)
      <4> DEFINE l == k + 1
      <4>1. l \in 1..N /\ l - 1 = k
        BY <3>1
      <4> HIDE DEF l
      <4>2. /\ packs[a + l].packType = type
            /\ packs[a + l].text \in Seq(Letters) /\ Len(packs[a + l].text) = PackSize
            /\ \A j \in 1..PackSize :
                 packs[a + l].text[j] = Padded(texts, (l - 1) * PackSize + j)
        BY <1>5, <4>1
      <4> QED BY <4>1, <4>2 DEF l
    <3>5. f[a + (k + 1)] = Packed(type, c, p)
      BY <1>3, <3>1
    <3>6. Packed(type, c, p) = Add(c, text)
      BY <3>4 DEF Packed
    <3> HIDE DEF p, c, m, text
    <3>7. Right(Add(c, text), m + Len(text), texts, J)
      BY <1>2, <3>2, <3>3, <3>4, RightPack
    <3>8. Right(f[a + (k + 1)], (k + 1) * PackSize, texts, J)
      BY <3>2, <3>4, <3>5, <3>6, <3>7
    <3> QED BY <3>1, <3>8
  <2> HIDE DEF F
  <2>3. \A k \in 0..N : k \in F
    BY <1>1, <2>1, <2>2, CountUp
  <2>4. N \in F
    BY <1>1, <2>3
  <2> QED BY <2>4 DEF F
<1>8. Complete(f[a + N], texts)
  <2> DEFINE c == f[a + N]
             m == N * PackSize
  <2>1. m \in Nat /\ m >= Len(Joined(texts)) /\ Right(c, m, texts, J)
    BY <1>1, <1>4, <1>7
  <2> HIDE DEF c, m
  <2>2. ASSUME Amid(c, m, texts, J) PROVE FALSE
    <3>1. PICK q \in 1..Len(texts) : \E r \in 0..Len(texts[q]) : m = J[q - 1] + r
      BY <2>2 DEF Amid
    <3>2. PICK r \in 0..Len(texts[q]) : m = J[q - 1] + r
      BY <3>1
    <3>3. Len(texts[q]) \in Nat /\ Len(texts) \in Nat
      BY LenProperties
    <3> DEFINE e == Len(texts[q]) + 1
               b == J[q - 1]
    <3>4. b \in Nat
      <4>1. q - 1 \in 0..Len(texts)
        BY <3>3
      <4> QED BY <1>2, <4>1 DEF Places
    <3>5. b + e \in 1..J[Len(texts)] /\ J[Len(texts)] = Len(Joined(texts))
      <4>1. e \in 1..Len(texts[q]) + 1
        BY <3>3
      <4> QED BY <1>2, <4>1 DEF Places
    <3>6. e \in Nat /\ r < e /\ m = b + r /\ r \in Nat
      BY <3>2, <3>3
    <3> HIDE DEF e, b
    <3> QED BY <2>1, <3>4, <3>5, <3>6
  <2>3. Complete(c, texts)
    BY <2>1, <2>2 DEF Right
  <2> QED BY <2>3 DEF c
<1>9. Complete(f[n], texts)
  <2> DEFINE z == a + N
             F == {k \in 0..n - z : Complete(f[z + k], texts)}
  <2>1. z \in Nat /\ n - z \in Nat /\ z + (n - z) = n /\ Complete(f[z], texts)
    BY <1>1, <1>8
  <2> HIDE DEF z
  <2>2. 0 \in F
    <3>1. z + 0 = z /\ 0 \in 0..n - z
      BY <2>1
    <3> QED BY <2>1, <3>1
  <2>3. ASSUME NEW k \in 0..(n - z) - 1, k \in F PROVE k + 1 \in F
    <3> DEFINE p == packs[z + (k + 1)]
               c == f[z + k]
    <3>1. /\ k + 1 \in 0..n - z /\ z + (k + 1) \in 1..n /\ (z + (k + 1)) - 1 = z + k
          /\ z + k \in 0..n
      BY <1>1, <2>1
    <3>2. p \in Pack /\ c \in Collector /\ Complete(c, texts)
      BY <1>1, <1>3, <2>3, <3>1
    <3>3. f[z + (k + 1)] = Packed(type, c, p)
      BY <1>3, <3>1
    <3> HIDE DEF p, c
    <3>4. Complete(Packed(type, c, p), texts)
      BY <3>2, CompletePack
    <3> QED BY <3>1, <3>3, <3>4
  <2> DEFINE y == n - z
  <2>4. y \in Nat /\ \A k \in 0..y - 1 : k \in F => k + 1 \in F
    BY <2>1, <2>3
  <2> HIDE DEF F, y
  <2>5. \A k \in 0..y : k \in F
    BY <2>2, <2>4, CountUp
  <2>6. y \in F
    BY <2>4, <2>5
  <2> QED BY <2>1, <2>6 DEF F, y
<1> QED BY <1>3, <1>9 DEF Complete

-----------------------------------------------------------------------------

\* The packs of a disc begin with the titles of the first language, and then
\* its performers.
LEMMA CdTextBegins ==
  ASSUME disc \in Discs, disc.blocks # << >>
  PROVE  LET b == disc.blocks[1]
         IN  /\ b.titles \in Seq(Seq(Chars)) /\ b.performers \in Seq(Seq(Chars))
             /\ Len(b.titles) = TrackCount + 1 /\ Len(b.performers) = TrackCount + 1
             /\ HeldFrom(0, CdText, "Title", b.titles)
             /\ HeldFrom(Len(Packs("Title", b.titles)), CdText, "Performer", b.performers)
<1> DEFINE BlockTexts == [titles : Seq(Seq(Chars)), performers : Seq(Seq(Chars))]
           blocks == disc.blocks
           n == Len(blocks)
           held(b) == Packs("Title", blocks[b].titles) \o Packs("Performer", blocks[b].performers)
           seqs == [b \in DOMAIN blocks |-> held(b)]
<1>1. blocks \in Seq(BlockTexts) /\ n \in Nat /\ DOMAIN blocks = 1..n /\ n >= 1
  <2>1. blocks \in Seq(BlockTexts)
    BY DiscReaderAssumption DEF DiscRecord
  <2> HIDE DEF BlockTexts
  <2> QED BY <2>1, LenProperties, EmptySeq
<1>2. /\ Len(blocks[1].titles) = TrackCount + 1
      /\ Len(blocks[1].performers) = TrackCount + 1
  BY <1>1, DiscReaderAssumption DEF TrackCount
<1> HIDE DEF blocks, n
<1>3. ASSUME NEW b \in 1..n
      PROVE  /\ blocks[b].titles \in Seq(Seq(Chars)) /\ blocks[b].performers \in Seq(Seq(Chars))
             /\ held(b) \in Seq(Pack)
  <2>1. blocks[b] \in BlockTexts
    BY <1>1, ElementOfSeq DEF n
  <2>2. blocks[b].titles \in Seq(Seq(Chars)) /\ blocks[b].performers \in Seq(Seq(Chars))
    BY <2>1
  <2>3. /\ Packs("Title", blocks[b].titles) \in Seq(Pack)
        /\ Packs("Performer", blocks[b].performers) \in Seq(Pack)
    BY <2>2, PacksParts
  <2> QED BY <2>2, <2>3, ConcatProperties
<1> DEFINE s == Packs("Title", blocks[1].titles)
           t == Packs("Performer", blocks[1].performers)
<1>4. /\ s \in Seq(Pack) /\ t \in Seq(Pack) /\ Len(s) \in Nat /\ Len(t) \in Nat
      /\ \A k \in 1..Len(s) : s[k].packType = "Title"
      /\ Len(s \o t) = Len(s) + Len(t)
      /\ \A k \in 1..Len(s) + Len(t) : (s \o t)[k] = IF k <= Len(s) THEN s[k] ELSE t[k - Len(s)]
  <2>1. s \in Seq(Pack) /\ t \in Seq(Pack) /\ \A k \in 1..Len(s) : s[k].packType = "Title"
    <3> DEFINE T == blocks[1].titles
               P == blocks[1].performers
    <3>1. T \in Seq(Seq(Chars)) /\ P \in Seq(Seq(Chars))
      BY <1>1, <1>3
    <3> HIDE DEF T, P
    <3>2. Packs("Performer", P) \in Seq(Pack)
      BY <3>1, PacksParts
    <3>3. /\ Packs("Title", T) \in Seq(Pack)
          /\ \A k \in 1..Len(Packs("Title", T)) : Packs("Title", T)[k].packType = "Title"
      BY <3>1, PacksParts
    <3> QED BY <3>2, <3>3 DEF T, P
  <2> HIDE DEF s, t
  <2> QED BY <2>1, ConcatProperties, LenProperties
<1>5. seqs \in Seq(Seq(Pack)) /\ seqs # << >> /\ seqs[1] = s \o t
  <2> HIDE DEF held
  <2>1. seqs \in [1..n -> Seq(Pack)] /\ seqs[1] = held(1) /\ Len(seqs) = n
    BY <1>1, <1>3
  <2>2. held(1) = s \o t
    BY DEF held
  <2> HIDE DEF seqs, s, t
  <2>3. seqs \in Seq(Seq(Pack))
    <3> DEFINE V == Seq(Pack)
    <3>1. n \in Nat /\ seqs \in [1..n -> V]
      BY <1>1, <2>1
    <3> HIDE DEF V
    <3>2. seqs \in Seq(V)
      BY <3>1
    <3> QED BY <3>2 DEF V
  <2>4. seqs # << >>
    BY <1>1, <2>1, EmptySeq
  <2> QED BY <2>1, <2>2, <2>3, <2>4
<1>6. CdText = FlattenSeq(seqs)
  BY DEF CdText, blocks
<1> HIDE DEF seqs, s, t
<1>7. /\ CdText \in Seq(Pack) /\ Len(s \o t) <= Len(CdText) /\ Len(CdText) \in Nat
      /\ \A k \in 1..Len(s \o t) : CdText[k] = (s \o t)[k]
  BY <1>5, <1>6, FlattenedFirst, LenProperties
<1>8. \A k \in 1..Len(s) : CdText[k] = s[k]
  BY <1>4, <1>7
<1>9. ASSUME NEW k \in 1..Len(t) PROVE CdText[Len(s) + k] = t[k]
  <2>1. /\ Len(s) + k \in 1..Len(s) + Len(t) /\ ~(Len(s) + k <= Len(s))
        /\ (Len(s) + k) - Len(s) = k
    BY <1>4
  <2> QED BY <1>4, <1>7, <2>1
<1>10. HeldFrom(0, CdText, "Title", blocks[1].titles)
  <2>1. \A k \in 1..Len(s) : CdText[0 + k] = s[k]
    BY <1>4, <1>8
  <2>2. 0 + Len(s) <= Len(CdText) /\ \A k \in 1..0 : CdText[k].packType # "Title"
    BY <1>4, <1>7
  <2> QED BY <1>7, <2>1, <2>2 DEF HeldFrom, s
<1>11. HeldFrom(Len(s), CdText, "Performer", blocks[1].performers)
  <2>1. \A k \in 1..Len(s) : CdText[k].packType # "Performer"
    BY <1>4, <1>8
  <2>2. Len(s) \in Nat /\ Len(s) + Len(t) <= Len(CdText)
    BY <1>4, <1>7
  <2> QED BY <1>7, <1>9, <2>1, <2>2 DEF HeldFrom, t
<1> QED BY <1>1, <1>2, <1>3, <1>10, <1>11 DEF blocks, s

\* Entry i of a table that was read without trouble is track i, which is where
\* the collector has text i.
LEMMA GetCdTextIsDisc == IInv /\ GetCdText => TextIsDisc'
<1> SUFFICES ASSUME IInv, GetCdText, cdtext, Noticed, disc.blocks # << >>, FirstTrack = 1
             PROVE  LET text == disc.blocks[1]
                    IN  /\ toc'.title = text.titles[1] /\ toc'.performer = text.performers[1]
                        /\ \A i \in DOMAIN disc.starts :
                             /\ toc'.tracks[i].title = text.titles[i + 1]
                             /\ toc'.tracks[i].performer = text.performers[i + 1]
  BY DEF GetCdText, TextIsDisc, Noticed, FirstTrack
<1> DEFINE text == disc.blocks[1]
           titles == Flush(CdText, "Title")
           performers == Flush(CdText, "Performer")
           old == toc.tracks
           n == TrackCount
<1>1. disc \in Discs /\ pc = "cdtext"
  BY DEF IInv, TypeOK, GetCdText
<1>2. /\ text.titles \in Seq(Seq(Chars)) /\ text.performers \in Seq(Seq(Chars))
      /\ Len(text.titles) = n + 1 /\ Len(text.performers) = n + 1
      /\ HeldFrom(0, CdText, "Title", text.titles)
      /\ HeldFrom(Len(Packs("Title", text.titles)), CdText, "Performer", text.performers)
  BY <1>1, CdTextBegins
<1>3. /\ \A t \in 1..n + 1 : TextAt(titles, t - 1) = text.titles[t]
      /\ \A t \in 1..n + 1 : TextAt(performers, t - 1) = text.performers[t]
  <2> DEFINE T == text.titles
             P == text.performers
             a == Len(Packs("Title", T))
  <2>1. /\ T \in Seq(Seq(Chars)) /\ P \in Seq(Seq(Chars)) /\ Len(T) = n + 1 /\ Len(P) = n + 1
        /\ HeldFrom(0, CdText, "Title", T) /\ HeldFrom(a, CdText, "Performer", P)
    BY <1>2
  <2> HIDE DEF T, P, a
  <2>2. \A t \in 1..Len(T) : TextAt(titles, t - 1) = T[t]
    BY <2>1, FlushIsTexts
  <2>3. \A t \in 1..Len(P) : TextAt(performers, t - 1) = P[t]
    BY <2>1, FlushIsTexts
  <2> QED BY <2>1, <2>2, <2>3 DEF T, P
<1>4. n \in Nat /\ DOMAIN disc.starts = 1..n
  <2>1. disc.starts \in Seq(MSF)
    BY <1>1, DiscReaderAssumption DEF DiscRecord
  <2> QED BY <2>1, LenProperties DEF TrackCount
<1>5. toc' = [title     |-> TextAt(titles, 0),
              performer |-> TextAt(performers, 0),
              tracks    |-> [i \in DOMAIN old |->
                [old[i] EXCEPT !.title     = TextAt(titles, old[i].track),
                               !.performer = TextAt(performers, old[i].track)]]]
  BY DEF GetCdText
<1>6. old \in Seq(TocEntry) /\ Len(old) = n + 1 /\ DOMAIN old = 1..n + 1
  <2>1. old \in Seq(TocEntry)
    BY <1>1 DEF IInv
  <2>2. Len(old) = n + 1
    BY <1>1 DEF IInv, TocIsDisc
  <2> QED BY <2>1, <2>2, LenProperties
<1>7. ASSUME NEW i \in 1..n PROVE old[i].track = i /\ old[i] \in TocEntry
  <2>1. i \in DOMAIN old /\ old[i] \in TocEntry
    BY <1>4, <1>6, ElementOfSeq
  <2>2. <<"entry", TrackAt(i)>> \notin refused
    BY DEF Noticed
  <2>3. old[i].track = EntryOf(i).track
    BY <2>1, <2>2 DEF IInv, TocIsDisc, EntryIsDisc
  <2>4. TrackAt(i) = i /\ ~(i > LastTrack)
    BY <1>1, <1>4, DiscType DEF TrackAt
  <2>5. EntryOf(i).track = i
    BY <2>4 DEF EntryOf
  <2> QED BY <2>1, <2>3, <2>5
<1> HIDE DEF titles, performers, old, n, text
<1>8. ASSUME NEW i \in 1..n
      PROVE  toc'.tracks[i].title = text.titles[i + 1]
             /\ toc'.tracks[i].performer = text.performers[i + 1]
  <2> DEFINE o == old[i]
  <2>1. i \in DOMAIN old /\ i + 1 \in 1..n + 1 /\ (i + 1) - 1 = i
    BY <1>4, <1>6
  <2>2. o.track = i /\ o \in TocEntry
    BY <1>7
  <2>3. toc'.tracks[i] = [o EXCEPT !.title     = TextAt(titles, o.track),
                                   !.performer = TextAt(performers, o.track)]
    BY <1>5, <2>1
  <2> HIDE DEF o
  <2>4. /\ toc'.tracks[i].title = TextAt(titles, i)
        /\ toc'.tracks[i].performer = TextAt(performers, i)
    BY <2>2, <2>3 DEF TocEntry
  <2> QED BY <1>3, <2>1, <2>4
<1>9. toc'.title = text.titles[1] /\ toc'.performer = text.performers[1]
  <2>1. 1 \in 1..n + 1 /\ 1 - 1 = 0
    BY <1>4
  <2> QED BY <1>3, <1>5, <2>1
<1> QED BY <1>4, <1>8, <1>9 DEF text

\* No other packet finishes a table that has texts.
LEMMA NextTextIsDisc == IInv /\ TextIsDisc /\ [Next]_vars => TextIsDisc'
<1> SUFFICES ASSUME IInv, TextIsDisc, [Next]_vars PROVE TextIsDisc'
  OBVIOUS
<1>1. CASE GetCdText
  BY <1>1, GetCdTextIsDisc
<1>2. CASE GetCdTextRefused
  <2>1. <<"cdtext", 0>> \in refused'
    BY <1>2 DEF GetCdTextRefused, Refuse
  <2> QED BY <2>1 DEF TextIsDisc, Noticed
<1>3. CASE Entry \/ EntryRefused \/ GetISRC \/ GetISRCRefused
  <2>1. cdtext' = cdtext /\ (cdtext => pc' # "done")
    BY <1>3 DEF Entry, EntryRefused, Parsed, GetISRC, GetISRCRefused, Filed, After
  <2> QED BY <2>1 DEF TextIsDisc
<1>4. CASE GetToc \/ HeaderRefused \/ UniversalProductCode \/ Throw
  <2>1. pc' # "done"
    BY <1>4 DEF GetToc, HeaderRefused, UniversalProductCode, Throw
  <2> QED BY <2>1 DEF TextIsDisc
<1>5. CASE UNCHANGED vars
  BY <1>5 DEF vars, TextIsDisc, Noticed, FirstTrack
<1> QED BY <1>1, <1>2, <1>3, <1>4, <1>5 DEF Next

\* Whatever texts a disc of any number of tracks has, and whatever the size of
\* a pack: each track gets its title and its performer.
THEOREM TextIsOfTheDisc == Spec => []TextIsDisc
<1>1. Init => TextIsDisc
  BY DEF Init, TextIsDisc
<1> QED BY <1>1, NextTextIsDisc, InductiveInvariant, PTL DEF Spec

-----------------------------------------------------------------------------
(***************************************************************************)
(* The other calls of GenericPacket.                                       *)
(***************************************************************************)
IsCall(c) ==
  c = [op |-> c.op, at |-> c.at, cdb |-> c.cdb, buf |-> c.buf, status |-> c.status,
       sent |-> c.sent, result |-> c.result]

LEMMA SendParts ==
  ASSUME NEW op, NEW buffer, NEW block, Send(op, buffer, block)
  PROVE  /\ call' = [op |-> op, at |-> "sent", cdb |-> block, buf |-> buffer, status |-> 0,
                     sent |-> 1, result |-> Nothing]
         /\ UNCHANGED <<vars, drive, channel>>
BY DEF Send, Becomes, NoCall

LEMMA ReturnsParts ==
  ASSUME IsCall(call), NEW r, Returns(r)
  PROVE  /\ call' = [op |-> call.op, at |-> "returned", cdb |-> call.cdb, buf |-> call.buf,
                     status |-> call.status, sent |-> call.sent, result |-> r]
         /\ UNCHANGED <<vars, drive, channel>>
BY DEF Returns, Becomes, IsCall

Deciding == {"GetDiscStatus", "GetDriveStatus", "SizeInSectors"}

\* The calls that decide nothing about the disc.
Others == {"GetHardwareInfo", "GetCapabilities", "GetPerformance", "GetMinimumWriteSpeed",
           "UnitReady", "GetConfiguration", "GetStatus", "ReadCd", "FlushCache"}

LEMMA OtherCalls ==
  ASSUME IsCall(call),
         \/ GetHardwareInfo \/ GetCapabilities \/ GetPerformance \/ GetMinimumWriteSpeed
         \/ UnitReady \/ GetConfigurationCall \/ GetStatus \/ ReadCd \/ FlushCache
  PROVE  IsCall(call') /\ call'.op \in Others /\ UNCHANGED <<vars, drive, channel>>
<1> DEFINE Goal == IsCall(call') /\ call'.op \in Others /\ UNCHANGED <<vars, drive, channel>>
<1> SUFFICES Goal
  OBVIOUS
<1>1. ASSUME NEW op \in Others, NEW buffer, NEW block, Send(op, buffer, block) PROVE Goal
  BY <1>1, SendParts DEF IsCall
<1>2. ASSUME call.op \in Others, NEW r, Returns(r) PROVE Goal
  BY <1>2, ReturnsParts DEF IsCall
<1>3. ASSUME NEW op \in Others, NEW n, Answered(op, n), NEW r, Returns(r) PROVE Goal
  BY <1>2, <1>3 DEF Answered
<1>4. "GetHardwareInfo" \in Others /\ "GetCapabilities" \in Others /\ "GetPerformance" \in Others
      /\ "GetMinimumWriteSpeed" \in Others /\ "UnitReady" \in Others
      /\ "GetConfiguration" \in Others /\ "GetStatus" \in Others /\ "ReadCd" \in Others
      /\ "FlushCache" \in Others
  BY DEF Others
<1> HIDE DEF Goal
<1>5. CASE GetHardwareInfo
  BY <1>1, <1>3, <1>4, <1>5 DEF GetHardwareInfo
<1>6. CASE GetCapabilities
  BY <1>1, <1>3, <1>4, <1>6 DEF GetCapabilities
<1>7. CASE GetPerformance
  <2>1. ASSUME Answered("GetPerformance", 1),
               Becomes([call EXCEPT !.at = "sent", !.cdb = PerformanceCommand(Write),
                                    !.sent = 2, !.result = EndPerformance])
        PROVE  Goal
    BY <1>4, <2>1 DEF Answered, Becomes, IsCall, Goal
  <2> QED BY <1>1, <1>3, <1>4, <1>7, <2>1 DEF GetPerformance
<1>8. CASE GetMinimumWriteSpeed
  BY <1>1, <1>3, <1>4, <1>8 DEF GetMinimumWriteSpeed
<1>9. CASE UnitReady
  BY <1>1, <1>3, <1>4, <1>9 DEF UnitReady
<1>10. CASE GetConfigurationCall
  BY <1>1, <1>3, <1>4, <1>10 DEF GetConfigurationCall
<1>11. CASE GetStatus
  BY <1>1, <1>3, <1>4, <1>11 DEF GetStatus
<1>12. CASE ReadCd
  BY <1>1, <1>3, <1>4, <1>12 DEF ReadCd
<1>13. CASE FlushCache
  BY <1>1, <1>3, <1>4, <1>13 DEF FlushCache
<1> QED BY <1>5, <1>6, <1>7, <1>8, <1>9, <1>10, <1>11, <1>12, <1>13

\* What the buffer of a call holds that the drive has not written to.
Cleared(op) == IF op = "GetDiscStatus" THEN Blank(34, 0)
               ELSE IF op = "SizeInSectors" THEN Blank(12, 0) ELSE << >>

RefusedInv ==
  /\ IsCall(call)
  /\ call.op \in {"GetDiscStatus", "GetDriveStatus"} => channel = "Windows"
  /\ call.op \in Deciding =>
       /\ call.status \in {0, 2, 8}
       /\ call.at = "sent" => call.status = 0 /\ call.buf = Cleared(call.op)
       /\ call.at = "answered" /\ call.status # 0 => call.buf = Cleared(call.op)
       /\ RefusedIsNoDisc

\* A call that has sent its first packet.
LEMMA SendRefusedInv ==
  ASSUME NEW op \in Deciding, NEW block, Send(op, Cleared(op), block),
         op # "SizeInSectors" => channel = "Windows"
  PROVE  RefusedInv'
<1>1. /\ call' = [op |-> op, at |-> "sent", cdb |-> block, buf |-> Cleared(op), status |-> 0,
                  sent |-> 1, result |-> Nothing]
      /\ channel' = channel
  BY SendParts
<1> QED BY <1>1 DEF RefusedInv, IsCall, RefusedIsNoDisc, Deciding

LEMMA ReturnRefusedInv ==
  ASSUME RefusedInv, NEW r, Returns(r), call.op \in Deciding,
         call.status # 0 => /\ call.op = "GetDiscStatus" => r = "NoInfo"
                            /\ call.op = "GetDriveStatus" => r # "DiscOk"
                            /\ call.op = "SizeInSectors" => r = 0
  PROVE  RefusedInv'
<1>1. /\ call' = [op |-> call.op, at |-> "returned", cdb |-> call.cdb, buf |-> call.buf,
                  status |-> call.status, sent |-> call.sent, result |-> r]
      /\ channel' = channel
  BY ReturnsParts DEF RefusedInv
<1> QED BY <1>1 DEF RefusedInv, IsCall, RefusedIsNoDisc

LEMMA DriveRefusedInv ==
  ASSUME RefusedInv, DriveAnswers \/ DriveRefuses \/ TransportFails
  PROVE  RefusedInv'
<1>1. /\ channel' = channel /\ call.at = "sent"
      /\ \/ \E buf : call' = [call EXCEPT !.at = "answered", !.buf = buf]
         \/ \E status \in {2, 8} : call' = [call EXCEPT !.at = "answered", !.status = status]
         \/ call' = [call EXCEPT !.at = "threw"]
  BY DEF DriveAnswers, DriveRefuses, TransportFails, Becomes
<1>2. /\ IsCall(call') /\ call'.op = call.op
      /\ \/ call'.at = "answered" /\ call'.status = call.status
         \/ call'.at = "answered" /\ call'.status \in {2, 8} /\ call'.buf = call.buf
         \/ call'.at = "threw" /\ call'.status = call.status
  BY <1>1 DEF RefusedInv, IsCall
<1> QED BY <1>1, <1>2 DEF RefusedInv, RefusedIsNoDisc

LEMMA BlankIsNothing ==
  /\ parse16(Blank(34, 0), 0) = 0
  /\ parse32(Blank(12, 0), 8) = 0
BY DEF parse16, parse32, Blank

LEMMA NextRefusedInv ==
  ASSUME RefusedInv, [GpNext]_<<vars, packet>>
  PROVE  RefusedInv'
<1>1. CASE UNCHANGED packet
  BY <1>1 DEF packet, RefusedInv, RefusedIsNoDisc
<1>2. CASE \/ GetHardwareInfo \/ GetCapabilities \/ GetPerformance \/ GetMinimumWriteSpeed
           \/ UnitReady \/ GetConfigurationCall \/ GetStatus \/ ReadCd \/ FlushCache
  <2>1. IsCall(call') /\ call'.op \in Others
    BY <1>2, OtherCalls DEF RefusedInv
  <2> QED BY <2>1 DEF RefusedInv, Others, Deciding
<1>3. CASE GetDiscStatus
  <2>1. channel = "Windows"
    BY <1>3 DEF GetDiscStatus
  <2>2. CASE \E block : Send("GetDiscStatus", Cleared("GetDiscStatus"), block)
    BY <2>1, <2>2, SendRefusedInv DEF Deciding
  <2>3. CASE Answered("GetDiscStatus", 1) /\ \E r \in DiscStatusOf(call.buf) : Returns(r)
    <3>1. PICK r \in DiscStatusOf(call.buf) : Returns(r)
      BY <2>3
    <3>2. call.op = "GetDiscStatus" /\ call.at = "answered" /\ call.op \in Deciding
      BY <2>3 DEF Answered, Deciding
    <3>3. call.status # 0 => r = "NoInfo"
      BY <3>1, <3>2, BlankIsNothing DEF RefusedInv, Cleared, DiscStatusOf
    <3> QED BY <3>1, <3>2, <3>3, ReturnRefusedInv
  <2> QED BY <1>3, <2>2, <2>3 DEF GetDiscStatus, Cleared
<1>4. CASE GetDriveStatus
  <2>1. channel = "Windows"
    BY <1>4 DEF GetDriveStatus
  <2>2. CASE \E block : Send("GetDriveStatus", Cleared("GetDriveStatus"), block)
    BY <2>1, <2>2, SendRefusedInv DEF Deciding
  <2>3. CASE \E r : /\ Answered("GetDriveStatus", 1) /\ Returns(r)
                    /\ Result \in {2, 8} => r # "DiscOk"
    <3>1. PICK r : /\ Answered("GetDriveStatus", 1) /\ Returns(r)
                   /\ Result \in {2, 8} => r # "DiscOk"
      BY <2>3
    <3>2. call.op = "GetDriveStatus" /\ call.op \in Deciding /\ Result = call.status
      BY <2>1, <3>1 DEF Answered, Deciding, Result
    <3>3. call.status # 0 => r # "DiscOk"
      BY <3>1, <3>2 DEF RefusedInv
    <3> QED BY <3>1, <3>2, <3>3, ReturnRefusedInv
  <2>4. Result \in {2, 8} => (CASE Result = 0 -> "DiscOk" [] Result = 2 -> "NoDisc"
                                [] OTHER -> "NotReady") # "DiscOk"
    OBVIOUS
  <2> QED BY <1>4, <2>2, <2>3, <2>4 DEF GetDriveStatus, Cleared
<1>5. CASE SizeInSectors
  <2>1. CASE \E block : Send("SizeInSectors", Cleared("SizeInSectors"), block)
    BY <2>1, SendRefusedInv DEF Deciding
  <2>2. CASE Answered("SizeInSectors", 1) /\ Returns(parse32(call.buf, 8))
    <3>1. call.op = "SizeInSectors" /\ call.at = "answered" /\ call.op \in Deciding
      BY <2>2 DEF Answered, Deciding
    <3>2. call.status # 0 => parse32(call.buf, 8) = 0
      BY <3>1, BlankIsNothing DEF RefusedInv, Cleared
    <3> QED BY <2>2, <3>1, <3>2, ReturnRefusedInv
  <2> QED BY <1>5, <2>1, <2>2 DEF SizeInSectors, Cleared
<1>6. CASE DriveAnswers \/ DriveRefuses \/ TransportFails
  BY <1>6, DriveRefusedInv
<1> QED BY <1>1, <1>2, <1>3, <1>4, <1>5, <1>6 DEF GpNext

\* GetDiscStatus, GetDriveStatus and SizeInSectors whose packet was refused without
\* notice, as by a drive without a disc, make no disc of what their buffer held: the
\* status is "no information", the drive is not ready, the disc has no sectors, for
\* every drive and transport: gpc.cc clears these buffers. (GetToc's header buffer it
\* does not clear, and of GetToc this says nothing.)
THEOREM RefusedStatusIsNoDisc == GpSpec => []RefusedIsNoDisc
<1>1. GpInit => RefusedInv
  BY DEF GpInit, NoCall, RefusedInv, IsCall, Deciding
<1>2. RefusedInv /\ [GpNext]_<<vars, packet>> => RefusedInv'
  BY NextRefusedInv
<1>3. RefusedInv => RefusedIsNoDisc
  BY DEF RefusedInv, RefusedIsNoDisc, Deciding
<1> QED BY <1>1, <1>2, <1>3, PTL DEF GpSpec

\* The other calls do not disturb GetToc: what is proved of it holds with them.
THEOREM TocAmongCalls == GpSpec => Spec
<1>1. GpInit => Init
  BY DEF GpInit
<1>2. ASSUME GpNext PROVE [Next]_vars
  <2>1. ASSUME NEW op, NEW buffer, NEW block, Send(op, buffer, block) PROVE UNCHANGED vars
    BY <2>1, SendParts
  <2>2. ASSUME NEW r, Returns(r) PROVE UNCHANGED vars
    BY <2>2 DEF Returns, Becomes
  <2>3. ASSUME NEW c, Becomes(c) PROVE UNCHANGED vars
    BY <2>3 DEF Becomes
  <2>4. CASE GetHardwareInfo
    BY <2>1, <2>2, <2>4 DEF GetHardwareInfo
  <2>5. CASE GetCapabilities
    BY <2>1, <2>2, <2>5 DEF GetCapabilities
  <2>6. CASE GetPerformance
    BY <2>1, <2>2, <2>3, <2>6 DEF GetPerformance
  <2>7. CASE GetMinimumWriteSpeed
    BY <2>1, <2>2, <2>7 DEF GetMinimumWriteSpeed
  <2>8. CASE UnitReady
    BY <2>1, <2>2, <2>8 DEF UnitReady
  <2>9. CASE GetDriveStatus
    BY <2>1, <2>2, <2>9 DEF GetDriveStatus
  <2>10. CASE GetConfigurationCall
    BY <2>1, <2>2, <2>10 DEF GetConfigurationCall
  <2>11. CASE GetDiscStatus
    BY <2>1, <2>2, <2>11 DEF GetDiscStatus
  <2>12. CASE SizeInSectors
    BY <2>1, <2>2, <2>12 DEF SizeInSectors
  <2>13. CASE GetStatus
    BY <2>1, <2>2, <2>13 DEF GetStatus
  <2>14. CASE ReadCd
    BY <2>1, <2>2, <2>14 DEF ReadCd
  <2>15. CASE FlushCache
    BY <2>1, <2>2, <2>15 DEF FlushCache
  <2>16. CASE DriveAnswers \/ DriveRefuses \/ TransportFails
    BY <2>3, <2>16 DEF DriveAnswers, DriveRefuses, TransportFails
  <2> QED BY <1>2, <2>4, <2>5, <2>6, <2>7, <2>8, <2>9, <2>10, <2>11, <2>12, <2>13, <2>14,
             <2>15, <2>16 DEF GpNext
<1>3. [GpNext]_<<vars, packet>> => [Next]_vars
  BY <1>2
<1> QED BY <1>1, <1>3, PTL DEF GpSpec, Spec

-----------------------------------------------------------------------------
(***************************************************************************)
(* What the drive writes is what the parsers return.                       *)
(***************************************************************************)
\* A byte of an answer; the drive sends zeros after its end.
Byte(bytes, i) == IF i \in DOMAIN bytes THEN bytes[i] ELSE 0

LEMMA Powers ==
  /\ TwoTo(0) = 1 /\ TwoTo(1) = 2 /\ TwoTo(2) = 4 /\ TwoTo(3) = 8 /\ TwoTo(4) = 16
  /\ TwoTo(5) = 32 /\ TwoTo(6) = 64 /\ TwoTo(7) = 128 /\ TwoTo(8) = 256
BY DEF TwoTo

\* The four bytes of n are at k.
Holds32(buf, k, n) ==
  /\ buf[k] = (n \div 16777216) % 256   /\ buf[k + 1] = (n \div 65536) % 256
  /\ buf[k + 2] = (n \div 256) % 256    /\ buf[k + 3] = n % 256

LEMMA LowByte ==
  ASSUME NEW n \in Nat
  PROVE  n = 256 * (n \div 256) + (n % 256) /\ n \div 256 \in Nat /\ n % 256 \in 0..255
BY SMT

LEMMA NextByte ==
  ASSUME NEW n \in Nat
  PROVE  /\ n \div 65536 = (n \div 256) \div 256
         /\ n \div 16777216 = (n \div 65536) \div 256
BY SMT

LEMMA OneByte ==
  ASSUME NEW n \in Nat, n < 256
  PROVE  n % 256 = n
OBVIOUS

LEMMA FourBytes ==
  ASSUME NEW n \in Number
  PROVE  65536 * (256 * ((n \div 16777216) % 256) + ((n \div 65536) % 256))
           + (256 * ((n \div 256) % 256) + (n % 256)) = n
<1> DEFINE a == n \div 16777216
           b == n \div 65536
           c == n \div 256
           d == n % 256
<1>1. n \in Nat /\ a < 256
  BY SMT DEF Number
<1>2. n = 256 * c + d /\ c \in Nat /\ d \in 0..255
  BY <1>1, LowByte
<1>3. b = c \div 256 /\ a = b \div 256
  BY <1>1, NextByte
<1> SUFFICES 65536 * (256 * (a % 256) + (b % 256)) + (256 * (c % 256) + d) = n
  OBVIOUS
<1> HIDE DEF a, b, c, d
<1>4. c = 256 * b + (c % 256) /\ b \in Nat /\ c % 256 \in 0..255
  BY <1>2, <1>3, LowByte
<1>5. b = 256 * a + (b % 256) /\ a \in Nat /\ b % 256 \in 0..255
  <2>1. b \in Nat /\ a = b \div 256
    BY <1>3, <1>4
  <2> QED BY <2>1, LowByte
<1>6. a % 256 = a
  BY <1>1, <1>5, OneByte
<1> QED BY <1>1, <1>2, <1>4, <1>5, <1>6, SMT

LEMMA Parse32 ==
  ASSUME NEW n \in Number, NEW k \in Nat, NEW buf, Holds32(buf, k, n)
  PROVE  parse32(buf, k) = n
<1> DEFINE a == (n \div 16777216) % 256
           b == (n \div 65536) % 256
           c == (n \div 256) % 256
           d == n % 256
<1>1. 65536 * (256 * a + b) + (256 * c + d) = n
  BY FourBytes, SMT
<1>2. /\ buf[k] = a /\ buf[k + 1] = b /\ buf[k + 2] = c /\ buf[k + 3] = d
      /\ k + 2 + 1 = k + 3
  BY DEF Holds32
<1>3. parse32(buf, k) = 65536 * (256 * a + b) + (256 * c + d)
  BY <1>2, SMT DEF parse32, parse16
<1> QED BY <1>1, <1>3, SMT

\* The blocks that are sent, the nth of a call.
Blocks(op, n) ==
  CASE op = "GetHardwareInfo" -> {[CDB(Inquiry) EXCEPT ![4] = 36]}
    [] op = "GetCapabilities" ->
         {SetReadLength16([CDB(ModeSense) EXCEPT
                             ![1] = SetBits(3, 1, 1),
                             ![2] = SetBits(6, 2, 0) + SetBits(0, 6, 42)], 36)}
    [] op = "GetPerformance"  -> {PerformanceCommand(IF n = 1 THEN 0 ELSE Write)}
    [] op = "GetMinimumWriteSpeed" ->
         {[CDB(Performance) EXCEPT ![1] = Tolerance, ![10] = 3, ![9] = 1]}
    [] op = "GetDiscStatus"   -> {SetReadLength16(CDB(DiscInformation), 34)}
    [] op = "SizeInSectors"   ->
         {SetReadLength16([CDB(ReadToc) EXCEPT ![1] = 0, ![6] = LeadOut], 12)}
    [] op = "ReadCd"          ->
         {ReadCdCommand(lba) : lba \in ReadLbas}

Size(op) ==
  CASE op = "GetHardwareInfo" -> 36
    [] op = "GetCapabilities" -> 36
    [] op = "GetPerformance"  -> 72
    [] op = "GetMinimumWriteSpeed" -> 24
    [] op = "GetDiscStatus"   -> 34
    [] op = "SizeInSectors"   -> 12
    [] op = "ReadCd"          -> 2744

LEMMA InquiryBlock ==
  ASSUME NEW b \in Blocks("GetHardwareInfo", 1)
  PROVE  /\ Asked(b) = 36
         /\ Answer(b) = [i \in 8..35 |-> IF i < 16 THEN drive.vendor
                          ELSE IF i < 32 THEN drive.model ELSE drive.revision]
<1>1. b[0] = 18 /\ b[4] = 36
  BY DEF Blocks, CDB, Blank, Inquiry
<1>2. Asked(b) = 36
  BY <1>1 DEF Asked, Inquiry, ModeSense, Performance, DiscInformation, ReadToc, ReadCD
<1>3. Answer(b) = [i \in 8..35 |-> IF i < 16 THEN drive.vendor
                          ELSE IF i < 32 THEN drive.model ELSE drive.revision]
  BY <1>1 DEF Answer, Inquiry, ModeSense, Performance, DiscInformation, ReadToc, ReadCD
<1> QED BY <1>2, <1>3

LEMMA ModeSenseBlock ==
  ASSUME NEW b \in Blocks("GetCapabilities", 1)
  PROVE  Asked(b) = 36 /\ Answer(b) = CapabilitiesPage(b) /\ GetBit(3, b[1])
<1>1. b[0] = 90 /\ b[1] = 8 /\ b[7] = 0 /\ b[8] = 36
  BY Powers DEF Blocks, CDB, Blank, ModeSense, SetReadLength16, SetBits
<1>2. GetBit(3, b[1])
  BY <1>1, Powers DEF GetBit, GetBits
<1> QED BY <1>1, <1>2 DEF Asked, Answer, parse16,
           Inquiry, ModeSense, Performance, DiscInformation, ReadToc, ReadCD

LEMMA PerformanceBlock ==
  ASSUME NEW n \in {1, 2}, NEW b \in Blocks("GetPerformance", n)
  PROVE  /\ Asked(b) = 72
         /\ Answer(b) = store32(Blank(24, 0), 20, IF n = 1 THEN drive.read ELSE drive.write)
<1>1. b[0] = 172 /\ b[1] = (IF n = 1 THEN 16 ELSE 20) /\ b[8] = 0 /\ b[9] = 4 /\ b[10] = 0
  BY DEF Blocks, CDB, Blank, Performance, PerformanceCommand, Tolerance, Write
<1>2. GetBit(2, b[1]) <=> n = 2
  BY <1>1, Powers DEF GetBit, GetBits
<1>3. Answer(b) = SpeedDescriptor(b)
  BY <1>1 DEF Answer, Inquiry, ModeSense, Performance, DiscInformation, ReadToc, ReadCD
<1>4. Asked(b) = 72
  BY <1>1 DEF Asked, parse16, Inquiry, ModeSense, Performance, DiscInformation, ReadToc, ReadCD
<1> QED BY <1>1, <1>2, <1>3, <1>4 DEF SpeedDescriptor

LEMMA MinimumBlock ==
  ASSUME NEW b \in Blocks("GetMinimumWriteSpeed", 1)
  PROVE  /\ Asked(b) = 24
         /\ Answer(b) = store32(store32(Blank(24, 0), 16, drive.minRead), 20, drive.minWrite)
<1>1. b[0] = 172 /\ b[8] = 0 /\ b[9] = 1 /\ b[10] = 3
  BY DEF Blocks, CDB, Blank, Performance, Tolerance
<1>2. Answer(b) = SpeedDescriptor(b)
  BY <1>1 DEF Answer, Inquiry, ModeSense, Performance, DiscInformation, ReadToc, ReadCD
<1>3. Asked(b) = 24
  BY <1>1 DEF Asked, parse16, Inquiry, ModeSense, Performance, DiscInformation, ReadToc, ReadCD
<1> QED BY <1>1, <1>2, <1>3 DEF SpeedDescriptor

LEMMA DiscInformationBlock ==
  ASSUME NEW b \in Blocks("GetDiscStatus", 1)
  PROVE  /\ Asked(b) = 34
         /\ Answer(b) = [Blank(9, 0) EXCEPT ![1] = 32, ![8] = drive.discType]
<1>1. b[0] = 81 /\ b[7] = 0 /\ b[8] = 34
  BY DEF Blocks, CDB, Blank, DiscInformation, SetReadLength16
<1> QED BY <1>1 DEF Asked, Answer, parse16,
           Inquiry, ModeSense, Performance, DiscInformation, ReadToc, ReadCD

LEMMA ReadTocBlock ==
  ASSUME NEW b \in Blocks("SizeInSectors", 1)
  PROVE  /\ Asked(b) = 12
         /\ Answer(b) = TocDescriptor(b) /\ b[6] = LeadOut /\ ~GetBit(1, b[1])
<1>1. b[0] = 67 /\ b[1] = 0 /\ b[6] = LeadOut /\ b[7] = 0 /\ b[8] = 12
  BY DEF Blocks, CDB, Blank, ReadToc, SetReadLength16, LeadOut
<1>2. ~GetBit(1, b[1])
  BY <1>1, Powers DEF GetBit, GetBits
<1> QED BY <1>1, <1>2 DEF Asked, Answer, parse16,
           Inquiry, ModeSense, Performance, DiscInformation, ReadToc, ReadCD

LEMMA ReadCdBlock ==
  ASSUME NEW b \in Blocks("ReadCd", 1)
  PROVE  Asked(b) = 2662 /\ Answer(b) = SectorWithC2(b) /\ parse32(b, 2) \in ReadLbas
<1>1. PICK lba \in ReadLbas :
        b = ReadCdCommand(lba)
  BY DEF Blocks
<1> DEFINE s == store32(CDB(ReadCD), 2, lba)
<1>2. lba \in Number
  BY GenericPacketAssumption
<1>4. DOMAIN s = 0..11 /\ Holds32(s, 2, lba) /\ s[0] = 190
  BY DEF store32, CDB, Blank, ReadCD, Holds32
<1> HIDE DEF s
<1>5. b[0] = s[0] /\ b[7] = 0 /\ b[8] = 1
      /\ b[2] = s[2] /\ b[3] = s[3] /\ b[4] = s[4] /\ b[5] = s[5]
  BY <1>1, <1>4 DEF s, ReadCdCommand, SetReadLength
<1>6. Holds32(b, 2, lba)
  BY <1>4, <1>5 DEF Holds32
<1>7. parse32(b, 2) = lba
  BY <1>2, <1>6, Parse32
<1> QED BY <1>4, <1>5, <1>7 DEF Asked, Answer,
           Inquiry, ModeSense, Performance, DiscInformation, ReadToc, ReadCD

DataCalls == {"GetHardwareInfo", "GetCapabilities", "GetPerformance", "GetMinimumWriteSpeed",
              "GetDiscStatus", "SizeInSectors", "ReadCd"}

\* The bytes that were asked for are the drive's.
AnswerInBuffer ==
  \A i \in DOMAIN call.buf : i < Asked(call.cdb) => call.buf[i] = Byte(Answer(call.cdb), i)

DataInv ==
  call.op \in DataCalls /\ call.at \in {"sent", "answered"} =>
    /\ call.sent \in {1, 2} /\ call.cdb \in Blocks(call.op, call.sent)
    /\ DOMAIN call.buf = 0..Size(call.op) - 1
    /\ call.status = 0 =>
         /\ call.at = "answered" => AnswerInBuffer
         /\ call.op = "GetPerformance" /\ call.sent = 2 => call.result = drive.read

AnswersInv ==
  /\ IsCall(call) /\ drive \in Drives /\ disc \in Discs
  /\ DataInv
  /\ AnswersAreTheDrives

LEMMA DriveFields ==
  ASSUME NEW N, NEW C, NEW D, NEW E,
         NEW r \in [vendor : Nat, model : Nat, revision : Nat, caps : C, read : N, write : N,
                    minRead : N, minWrite : N, discType : D, c2 : E]
  PROVE  /\ r.read \in N /\ r.write \in N /\ r.minRead \in N /\ r.minWrite \in N
         /\ r.discType \in D /\ r.c2 \in E /\ r.caps \in C
OBVIOUS

LEMMA DriveType ==
  ASSUME drive \in Drives
  PROVE  /\ drive.read \in Number /\ drive.write \in Number
         /\ drive.minRead \in Number /\ drive.minWrite \in Number
         /\ drive.discType \in 0..255
         /\ drive.c2 \in [ReadLbas -> 0..8]
         /\ drive.caps \in Capabilities
<1>1. drive \in DriveRecord
  BY GenericPacketAssumption
<1>2. drive \in [vendor : Nat, model : Nat, revision : Nat, caps : Capabilities, read : Number,
                 write : Number, minRead : Number, minWrite : Number, discType : 0..255,
                 c2 : [ReadLbas -> 0..8]]
  BY <1>1 DEF DriveRecord
<1> QED BY <1>2, DriveFields, Zenon

LEMMA CapabilitiesFields ==
  ASSUME NEW V, NEW c \in [UPC : BOOLEAN, ISRC : BOOLEAN, C2pointers : BOOLEAN,
                           streamAccurate : BOOLEAN, nrVolumeLevels : V]
  PROVE  /\ c.UPC \in BOOLEAN /\ c.ISRC \in BOOLEAN /\ c.C2pointers \in BOOLEAN
         /\ c.streamAccurate \in BOOLEAN /\ c.nrVolumeLevels \in V
         /\ c = [UPC |-> c.UPC, ISRC |-> c.ISRC, C2pointers |-> c.C2pointers,
                 streamAccurate |-> c.streamAccurate, nrVolumeLevels |-> c.nrVolumeLevels]
OBVIOUS

LEMMA InBuffer ==
  ASSUME AnswersInv, NEW op \in DataCalls, call.op = op, call.at = "answered", call.status = 0
  PROVE  /\ call.cdb \in Blocks(op, call.sent)
         /\ \A i \in 0..Size(op) - 1 :
              i < Asked(call.cdb) => call.buf[i] = Byte(Answer(call.cdb), i)
BY DEF AnswersInv, DataInv, AnswerInBuffer

LEMMA HardwareInfoIsTrue ==
  ASSUME AnswersInv, Answered("GetHardwareInfo", 1), call.status = 0
  PROVE  [vendor |-> Text(8, 8), model |-> Text(16, 16), revision |-> Text(32, 4)]
           = Truth("GetHardwareInfo")
<1>1. /\ call.cdb \in Blocks("GetHardwareInfo", 1)
      /\ \A i \in 0..35 : i < Asked(call.cdb) => call.buf[i] = Byte(Answer(call.cdb), i)
  BY InBuffer DEF Answered, DataCalls, Size
<1>2. /\ Asked(call.cdb) = 36
      /\ Answer(call.cdb) = [i \in 8..35 |-> IF i < 16 THEN drive.vendor
                          ELSE IF i < 32 THEN drive.model ELSE drive.revision]
  BY <1>1, InquiryBlock
<1>3. \A i \in 8..35 : call.buf[i] = IF i < 16 THEN drive.vendor
                          ELSE IF i < 32 THEN drive.model ELSE drive.revision
  BY <1>1, <1>2 DEF Byte
<1>4. Text(8, 8) = {drive.vendor}
  <2>1. 8 \in 8..8 + 8 - 1 /\ \A i \in 8..8 + 8 - 1 : call.buf[i] = drive.vendor
    BY <1>3
  <2> QED BY <2>1, Zenon DEF Text
<1>5. Text(16, 16) = {drive.model}
  <2>1. 16 \in 16..16 + 16 - 1 /\ \A i \in 16..16 + 16 - 1 : call.buf[i] = drive.model
    BY <1>3
  <2> QED BY <2>1, Zenon DEF Text
<1>6. Text(32, 4) = {drive.revision}
  <2>1. 32 \in 32..32 + 4 - 1 /\ \A i \in 32..32 + 4 - 1 : call.buf[i] = drive.revision
    BY <1>3
  <2> QED BY <2>1, Zenon DEF Text
<1> QED BY <1>4, <1>5, <1>6 DEF Truth

\* A flag is where its bit is, whatever the others are.
LEMMA Flags ==
  ASSUME NEW u \in BOOLEAN, NEW i \in BOOLEAN, NEW p \in BOOLEAN, NEW s \in BOOLEAN
  PROVE  LET b == Flag(6, u) + Flag(5, i) + Flag(4, p) + Flag(1, s)
         IN  /\ GetBit(6, b) = u /\ GetBit(5, b) = i /\ GetBit(4, b) = p /\ GetBit(1, b) = s
<1> DEFINE b == Flag(6, u) + Flag(5, i) + Flag(4, p) + Flag(1, s)
<1>1. \A f \in BOOLEAN : /\ Flag(6, f) = IF f THEN 64 ELSE 0
                         /\ Flag(5, f) = IF f THEN 32 ELSE 0
                         /\ Flag(4, f) = IF f THEN 16 ELSE 0
                         /\ Flag(1, f) = IF f THEN 2 ELSE 0
  BY Powers DEF Flag
<1>2. b = (IF u THEN 64 ELSE 0) + (IF i THEN 32 ELSE 0) + (IF p THEN 16 ELSE 0)
             + (IF s THEN 2 ELSE 0)
  BY <1>1
<1> HIDE DEF b
<1>3. /\ (b \div 64) % 2 = IF u THEN 1 ELSE 0
      /\ (b \div 32) % 2 = IF i THEN 1 ELSE 0
      /\ (b \div 16) % 2 = IF p THEN 1 ELSE 0
      /\ (b \div 2) % 2 = IF s THEN 1 ELSE 0
  BY <1>2, SMT
<1>4. /\ GetBit(6, b) <=> (b \div 64) % 2 = 1
      /\ GetBit(5, b) <=> (b \div 32) % 2 = 1
      /\ GetBit(4, b) <=> (b \div 16) % 2 = 1
      /\ GetBit(1, b) <=> (b \div 2) % 2 = 1
  BY Powers DEF GetBit, GetBits
<1>5. (GetBit(6, b) <=> u) /\ (GetBit(5, b) <=> i) /\ (GetBit(4, b) <=> p) /\ (GetBit(1, b) <=> s)
  BY <1>3, <1>4
<1>6. GetBit(6, b) \in BOOLEAN /\ GetBit(5, b) \in BOOLEAN
      /\ GetBit(4, b) \in BOOLEAN /\ GetBit(1, b) \in BOOLEAN
  BY DEF GetBit
<1> QED BY <1>5, <1>6 DEF b

LEMMA CapabilitiesAreTrue ==
  ASSUME AnswersInv, Answered("GetCapabilities", 1), call.status = 0
  PROVE  [UPC |-> GetBit(6, call.buf[8 + 5]), ISRC |-> GetBit(5, call.buf[8 + 5]),
          C2pointers |-> GetBit(4, call.buf[8 + 5]),
          streamAccurate |-> GetBit(1, call.buf[8 + 5]),
          nrVolumeLevels |-> parse16(call.buf, 8 + 10)] = Truth("GetCapabilities")
<1>1. /\ call.cdb \in Blocks("GetCapabilities", 1)
      /\ \A i \in 0..35 : i < Asked(call.cdb) => call.buf[i] = Byte(Answer(call.cdb), i)
  BY InBuffer DEF Answered, DataCalls, Size
<1>2. Asked(call.cdb) = 36 /\ Answer(call.cdb) = CapabilitiesPage(call.cdb)
      /\ GetBit(3, call.cdb[1])
  BY <1>1, ModeSenseBlock
<1> DEFINE c == drive.caps
           b == Flag(6, c.UPC) + Flag(5, c.ISRC) + Flag(4, c.C2pointers)
                  + Flag(1, c.streamAccurate)
           page == CapabilitiesPage(call.cdb)
<1>3. DOMAIN page = 0..27 /\ page[13] = b /\ page[18] = c.nrVolumeLevels \div 256
      /\ page[19] = c.nrVolumeLevels % 256
  BY <1>2 DEF CapabilitiesPage, Blank
<1> HIDE DEF page, b
<1>4. /\ call.buf[13] = b /\ call.buf[18] = c.nrVolumeLevels \div 256
      /\ call.buf[19] = c.nrVolumeLevels % 256
  BY <1>1, <1>2, <1>3 DEF page, Byte
<1>5. /\ c.UPC \in BOOLEAN /\ c.ISRC \in BOOLEAN /\ c.C2pointers \in BOOLEAN
      /\ c.streamAccurate \in BOOLEAN /\ c.nrVolumeLevels \in Short
      /\ c = [UPC |-> c.UPC, ISRC |-> c.ISRC, C2pointers |-> c.C2pointers,
              streamAccurate |-> c.streamAccurate, nrVolumeLevels |-> c.nrVolumeLevels]
  <2>1. c \in Capabilities
    BY DriveType DEF AnswersInv
  <2> QED BY <2>1, CapabilitiesFields, Zenon DEF Capabilities
<1>6. parse16(call.buf, 8 + 10) = c.nrVolumeLevels
  <2>1. c.nrVolumeLevels \in Nat
    BY <1>5 DEF Short
  <2>2. c.nrVolumeLevels = 256 * (c.nrVolumeLevels \div 256) + (c.nrVolumeLevels % 256)
    BY <2>1, LowByte
  <2> QED BY <1>4, <2>2 DEF parse16
<1>7. /\ GetBit(6, b) = c.UPC /\ GetBit(5, b) = c.ISRC
      /\ GetBit(4, b) = c.C2pointers /\ GetBit(1, b) = c.streamAccurate
  BY <1>5, Flags DEF b
<1>8. Truth("GetCapabilities") = c
  BY DEF Truth
<1>9. call.buf[8 + 5] = b
  BY <1>4
<1> HIDE DEF c
<1> QED BY <1>5, <1>6, <1>7, <1>8, <1>9, Zenon

LEMMA SpeedIsTrue ==
  ASSUME AnswersInv, NEW n \in {1, 2}, Answered("GetPerformance", n), call.status = 0
  PROVE  EndPerformance = IF n = 1 THEN drive.read ELSE drive.write
<1> DEFINE speed == IF n = 1 THEN drive.read ELSE drive.write
           answer == store32(Blank(24, 0), 20, speed)
<1>1. /\ call.cdb \in Blocks("GetPerformance", n)
      /\ \A i \in 0..71 : i < Asked(call.cdb) => call.buf[i] = Byte(Answer(call.cdb), i)
  BY InBuffer DEF Answered, DataCalls, Size
<1>2. Asked(call.cdb) = 72 /\ Answer(call.cdb) = answer
  BY <1>1, PerformanceBlock
<1>3. speed \in Number
  BY DriveType, Zenon DEF AnswersInv
<1> HIDE DEF speed
<1>4. DOMAIN Blank(24, 0) = 0..23
  BY DEF Blank
<1>5. DOMAIN answer = 0..23 /\ Holds32(answer, 20, speed)
  BY <1>4 DEF store32, Holds32
<1> HIDE DEF answer
<1>6. \A i \in 0..71 : i < 72 => call.buf[i] = Byte(answer, i)
  BY <1>1, <1>2
<1>7. \A i \in 20..23 : call.buf[i] = answer[i]
  BY <1>5, <1>6 DEF Byte
<1>8. Holds32(call.buf, 20, speed)
  BY <1>5, <1>7 DEF Holds32
<1>9. parse32(call.buf, 20) = speed
  BY <1>3, <1>8, Parse32
<1> QED BY <1>9 DEF EndPerformance, speed

LEMMA MinimumSpeedIsTrue ==
  ASSUME AnswersInv, Answered("GetMinimumWriteSpeed", 1), call.status = 0
  PROVE  parse32(call.buf, 8 + 8) = drive.minRead /\ parse32(call.buf, 8 + 12) = drive.minWrite
<1> DEFINE first == store32(Blank(24, 0), 16, drive.minRead)
           answer == store32(first, 20, drive.minWrite)
<1>1. /\ call.cdb \in Blocks("GetMinimumWriteSpeed", 1)
      /\ \A i \in 0..23 : i < Asked(call.cdb) => call.buf[i] = Byte(Answer(call.cdb), i)
  BY InBuffer DEF Answered, DataCalls, Size
<1>2. Asked(call.cdb) = 24 /\ Answer(call.cdb) = answer
  BY <1>1, MinimumBlock
<1>3. drive.minRead \in Number /\ drive.minWrite \in Number
  BY DriveType DEF AnswersInv
<1>4. DOMAIN Blank(24, 0) = 0..23
  BY DEF Blank
<1>5. DOMAIN first = 0..23 /\ Holds32(first, 16, drive.minRead)
  BY <1>4 DEF store32, Holds32
<1> HIDE DEF first
<1>6. /\ DOMAIN answer = 0..23 /\ Holds32(answer, 20, drive.minWrite)
      /\ \A i \in 0..23 : i \notin 20..20 + 3 => answer[i] = first[i]
  BY <1>5 DEF store32, Holds32
<1> HIDE DEF answer
<1>7. \A i \in 0..23 : call.buf[i] = answer[i]
  BY <1>1, <1>2, <1>6 DEF Byte
<1>8. Holds32(call.buf, 16, drive.minRead) /\ Holds32(call.buf, 20, drive.minWrite)
  BY <1>5, <1>6, <1>7 DEF Holds32
<1>9. parse32(call.buf, 16) = drive.minRead /\ parse32(call.buf, 20) = drive.minWrite
  BY <1>3, <1>8, Parse32
<1> QED BY <1>9

LEMMA DiscStatusIsTrue ==
  ASSUME AnswersInv, Answered("GetDiscStatus", 1), call.status = 0,
         NEW r \in DiscStatusOf(call.buf)
  PROVE  /\ drive.discType = 0 => r = "Audio"
         /\ drive.discType = 32 => r = "XA1"
<1>1. /\ call.cdb \in Blocks("GetDiscStatus", 1)
      /\ \A i \in 0..33 : i < Asked(call.cdb) => call.buf[i] = Byte(Answer(call.cdb), i)
  BY InBuffer DEF Answered, DataCalls, Size
<1>2. /\ Asked(call.cdb) = 34
      /\ Answer(call.cdb) = [Blank(9, 0) EXCEPT ![1] = 32, ![8] = drive.discType]
  BY <1>1, DiscInformationBlock
<1>3. call.buf[0] = 0 /\ call.buf[1] = 32 /\ call.buf[8] = drive.discType
  BY <1>1, <1>2 DEF Byte, Blank
<1>4. parse16(call.buf, 0) = 32
  BY <1>3 DEF parse16
<1> QED BY <1>3, <1>4 DEF DiscStatusOf

\* A sector number in the bytes of an address.
LEMMA SectorParts ==
  ASSUME NEW n \in Int
  PROVE  65536 * (n \div 65536) + (256 * ((n \div 256) % 256) + (n % 256)) = n
<1>1. n \div 65536 = (n \div 256) \div 256
  BY SMT
<1>2. n = 256 * (n \div 256) + (n % 256) /\ n \div 256 \in Int /\ n % 256 \in Int
  BY SMT
<1>3. \A c \in Int : c = 256 * (c \div 256) + (c % 256) /\ c \div 256 \in Int /\ c % 256 \in Int
  BY SMT
<1> DEFINE c == n \div 256
<1>4. c = 256 * (c \div 256) + (c % 256) /\ c \div 256 \in Int /\ c % 256 \in Int
  BY <1>2, <1>3
<1> QED BY <1>1, <1>2, <1>4, SMT

LEMMA SizeIsTrue ==
  ASSUME AnswersInv, Answered("SizeInSectors", 1), call.status = 0
  PROVE  parse32(call.buf, 8) = ToFrame(disc.leadout) - 150
<1>1. /\ call.cdb \in Blocks("SizeInSectors", 1)
      /\ \A i \in 0..11 : i < Asked(call.cdb) => call.buf[i] = Byte(Answer(call.cdb), i)
  BY InBuffer DEF Answered, DataCalls, Size
<1>2. /\ Asked(call.cdb) = 12 /\ Answer(call.cdb) = TocDescriptor(call.cdb)
      /\ call.cdb[6] = LeadOut /\ ~GetBit(1, call.cdb[1])
  BY <1>1, ReadTocBlock
<1> DEFINE n == ToFrame(disc.leadout) - 150
           start == SectorBytes(disc.leadout)
<1>3. Descriptor([msf |-> GetBit(1, call.cdb[1]), track |-> call.cdb[6]]).start = start
  BY <1>2 DEF Descriptor, LeadOut
<1>4. start.minute = n \div 65536 /\ start.second = (n \div 256) % 256 /\ start.frame = n % 256
  BY SMT DEF SectorBytes
<1>5. n \in Int
  <2>1. disc.leadout \in MSF
    BY DiscContents DEF AnswersInv
  <2>2. disc.leadout.minute \in Int /\ disc.leadout.second \in Int /\ disc.leadout.frame \in Int
    BY <2>1 DEF MSF
  <2> QED BY <2>2, SMT DEF ToFrame
<1> HIDE DEF n, start
<1>6. /\ DOMAIN TocDescriptor(call.cdb) = 0..11 /\ TocDescriptor(call.cdb)[8] = 0
      /\ TocDescriptor(call.cdb)[9] = start.minute /\ TocDescriptor(call.cdb)[10] = start.second
      /\ TocDescriptor(call.cdb)[11] = start.frame
  BY <1>3 DEF TocDescriptor, Blank
<1>7. /\ call.buf[8] = 0 /\ call.buf[9] = n \div 65536
      /\ call.buf[10] = (n \div 256) % 256 /\ call.buf[11] = n % 256
  BY <1>1, <1>2, <1>4, <1>6 DEF Byte
<1>8. parse32(call.buf, 8) = 65536 * (n \div 65536) + (256 * ((n \div 256) % 256) + (n % 256))
  BY <1>5, <1>7, SMT DEF parse32, parse16
<1> QED BY <1>5, <1>8, SectorParts DEF n

\* The bits of a byte that is 1 or 0.
LEMMA LowBit == \A k \in 0..7 : (GetBit(k, 1) <=> k = 0) /\ ~GetBit(k, 0)
<1> SUFFICES ASSUME NEW k \in 0..7 PROVE (GetBit(k, 1) <=> k = 0) /\ ~GetBit(k, 0)
  OBVIOUS
<1>1. GetBit(k, 1) <=> (1 \div TwoTo(k)) % 2 = 1
  BY Powers DEF GetBit, GetBits
<1>2. GetBit(k, 0) <=> (0 \div TwoTo(k)) % 2 = 1
  BY Powers DEF GetBit, GetBits
<1>3. TwoTo(k) \in Nat /\ TwoTo(k) >= 1 /\ (TwoTo(k) = 1 <=> k = 0)
  BY Powers
<1>4. \A m \in Nat : m >= 1 => ((1 \div m) % 2 = 1 <=> m = 1) /\ 0 \div m = 0
  <2> SUFFICES ASSUME NEW m \in Nat, m >= 1
               PROVE  ((1 \div m) % 2 = 1 <=> m = 1) /\ 0 \div m = 0
    OBVIOUS
  <2>1. m # 1 => 1 \div m = 0
    OBVIOUS
  <2>2. 0 \div m = 0
    OBVIOUS
  <2> QED BY <2>1, <2>2
<1> QED BY <1>1, <1>2, <1>3, <1>4

LEMMA IntervalCount ==
  ASSUME NEW first \in Int, NEW n \in Nat, NEW last \in Int, last = first + n - 1
  PROVE  IsFiniteSet(first..last) /\ Cardinality(first..last) = n
BY FS_Interval

LEMMA ErrorsAreTrue ==
  ASSUME AnswersInv, Answered("ReadCd", 1), call.status = 0
  PROVE  Cardinality(ErrorBits) = drive.c2[parse32(call.cdb, 2)]
<1> DEFINE Buffer  == 0..Size("ReadCd") - 1
           C2Bytes == 2352..2352 + 294 - 1
           c2      == drive.c2[parse32(call.cdb, 2)]
           Set     == 2352..2351 + c2
<1>1. /\ call.cdb \in Blocks("ReadCd", 1)
      /\ \A i \in Buffer : i < Asked(call.cdb) => call.buf[i] = Byte(Answer(call.cdb), i)
  BY InBuffer DEF Answered, DataCalls
<1>2. /\ Asked(call.cdb) = 2662 /\ Answer(call.cdb) = SectorWithC2(call.cdb)
      /\ parse32(call.cdb, 2) \in ReadLbas
  BY <1>1, ReadCdBlock
<1>3. c2 \in 0..8
  BY <1>2, DriveType DEF AnswersInv
<1>4. SectorWithC2(call.cdb) = [i \in Set |-> 1]
  BY DEF SectorWithC2
<1> HIDE DEF c2
<1>5. Set \subseteq C2Bytes /\ IsFiniteSet(Set) /\ Cardinality(Set) = c2
  <2>1. Set \subseteq C2Bytes
    BY <1>3
  <2> DEFINE last == 2351 + c2
  <2>2. last \in Int /\ last = 2352 + c2 - 1 /\ 2352 \in Int /\ c2 \in Nat
    BY <1>3
  <2> HIDE DEF last
  <2>3. IsFiniteSet(2352..last) /\ Cardinality(2352..last) = c2
    BY <2>2, IntervalCount
  <2> QED BY <2>1, <2>3 DEF last
<1>6. \A i \in C2Bytes : i \in Buffer /\ i < Asked(call.cdb)
  BY <1>2 DEF Size
<1> HIDE DEF Buffer, C2Bytes, Set
<1>7. \A i \in C2Bytes : call.buf[i] = IF i \in Set THEN 1 ELSE 0
  <2>1. Answer(call.cdb) = [i \in Set |-> 1]
    BY <1>2, <1>4
  <2> QED BY <1>1, <1>6, <2>1 DEF Byte
<1>8. \A i \in C2Bytes, k \in 0..7 : GetBit(k, call.buf[i]) <=> i \in Set /\ k = 0
  BY <1>7, LowBit
<1>9. ErrorBits = {bit \in C2Bytes \X (0..7) : GetBit(bit[2], call.buf[bit[1]])}
  BY DEF ErrorBits, C2Bytes
<1>10. ErrorBits = Set \X {0}
  <2>1. ASSUME NEW bit \in ErrorBits PROVE bit \in Set \X {0}
    <3>1. PICK i \in C2Bytes, k \in 0..7 : bit = <<i, k>> /\ GetBit(k, call.buf[i])
      BY <1>9
    <3> QED BY <1>8, <3>1
  <2>2. ASSUME NEW bit \in Set \X {0} PROVE bit \in ErrorBits
    <3>1. PICK i \in Set : bit = <<i, 0>>
      OBVIOUS
    <3>2. 0 \in 0..7 /\ i \in C2Bytes /\ GetBit(0, call.buf[i])
      BY <1>5, <1>8
    <3> QED BY <1>9, <3>1, <3>2
  <2> QED BY <2>1, <2>2
<1>11. IsFiniteSet({0}) /\ Cardinality({0}) = 1
  BY FS_Singleton
<1>12. Cardinality(Set \X {0}) = Cardinality(Set) * Cardinality({0})
  BY <1>5, <1>11, FS_Product
<1>13. Cardinality(Set \X {0}) = c2
  BY <1>3, <1>5, <1>11, <1>12
<1> QED BY <1>10, <1>13 DEF c2

\* What the drive would say, and what the call should return, changes only with
\* the drive, the disc or the call.
LEMMA SameAnswer ==
  ASSUME UNCHANGED <<disc, drive>>, call'.cdb = call.cdb
  PROVE  Asked(call.cdb)' = Asked(call.cdb) /\ Answer(call.cdb)' = Answer(call.cdb)
<1>1. Asked(call.cdb)' = Asked(call.cdb)
  BY DEF Asked
<1>2. /\ CapabilitiesPage(call.cdb)' = CapabilitiesPage(call.cdb)
      /\ SpeedDescriptor(call.cdb)' = SpeedDescriptor(call.cdb)
      /\ SectorWithC2(call.cdb)' = SectorWithC2(call.cdb)
  BY DEF CapabilitiesPage, SpeedDescriptor, SectorWithC2
<1>3. \A c : Descriptor(c)' = Descriptor(c)
  BY DEF Descriptor, FirstTrack
<1>4. TocDescriptor(call.cdb)' = TocDescriptor(call.cdb)
  BY <1>3 DEF TocDescriptor
<1>5. Answer(call.cdb)' = Answer(call.cdb)
  BY <1>2, <1>4 DEF Answer
<1> QED BY <1>1, <1>5

LEMMA SameTruth ==
  ASSUME UNCHANGED <<disc, drive>>, call'.op = call.op, call'.cdb = call.cdb,
         call.op # "GetDiscStatus"
  PROVE  Truth(call.op)' = Truth(call.op)
BY DEF Truth

LEMMA SendDataInv ==
  ASSUME AnswersInv, NEW op \in DataCalls, NEW buffer, NEW block \in Blocks(op, 1),
         DOMAIN buffer = 0..Size(op) - 1, Send(op, buffer, block)
  PROVE  AnswersInv'
<1>1. /\ call' = [op |-> op, at |-> "sent", cdb |-> block, buf |-> buffer, status |-> 0,
                  sent |-> 1, result |-> Nothing]
      /\ UNCHANGED <<disc, drive>>
  BY SendParts DEF vars
<1>2. IsCall(call')
  BY <1>1 DEF IsCall
<1>3. DataInv'
  BY <1>1 DEF DataInv
<1>4. AnswersAreTheDrives'
  BY <1>1 DEF AnswersAreTheDrives
<1> QED BY <1>1, <1>2, <1>3, <1>4 DEF AnswersInv

LEMMA SendOtherInv ==
  ASSUME AnswersInv, NEW op, op \notin DataCalls, NEW buffer, NEW block,
         Send(op, buffer, block)
  PROVE  AnswersInv'
<1>1. /\ call' = [op |-> op, at |-> "sent", cdb |-> block, buf |-> buffer, status |-> 0,
                  sent |-> 1, result |-> Nothing]
      /\ UNCHANGED <<disc, drive>>
  BY SendParts DEF vars
<1>2. IsCall(call')
  BY <1>1 DEF IsCall
<1>3. DataInv'
  BY <1>1 DEF DataInv
<1>4. AnswersAreTheDrives'
  BY <1>1 DEF AnswersAreTheDrives
<1> QED BY <1>1, <1>2, <1>3, <1>4 DEF AnswersInv

LEMMA ReturnsTruth ==
  ASSUME AnswersInv, NEW r, Returns(r),
         call.op # "GetDiscStatus" => (call.status = 0 => r = Truth(call.op)),
         call.op = "GetDiscStatus" /\ call.status = 0 =>
           /\ drive.discType = 0 => r = "Audio"
           /\ drive.discType = 32 => r = "XA1"
  PROVE  AnswersInv'
<1>1. /\ call' = [op |-> call.op, at |-> "returned", cdb |-> call.cdb, buf |-> call.buf,
                  status |-> call.status, sent |-> call.sent, result |-> r]
      /\ UNCHANGED <<disc, drive>>
  BY ReturnsParts DEF AnswersInv, vars
<1>2. IsCall(call')
  BY <1>1 DEF IsCall
<1>3. DataInv'
  BY <1>1 DEF DataInv
<1>4. CASE call.op # "GetDiscStatus"
  <2>1. Truth(call.op)' = Truth(call.op)
    BY <1>1, <1>4, SameTruth
  <2>2. AnswersAreTheDrives'
    BY <1>1, <1>4, <2>1 DEF AnswersAreTheDrives
  <2> QED BY <1>1, <1>2, <1>3, <2>2 DEF AnswersInv
<1>5. CASE call.op = "GetDiscStatus"
  <2>1. Truth(call.op)' = IF drive.discType = 0 THEN "Audio"
                          ELSE IF drive.discType = 32 THEN "XA1" ELSE r
    BY <1>1, <1>5 DEF Truth
  <2>2. AnswersAreTheDrives'
    BY <1>1, <1>5, <2>1 DEF AnswersAreTheDrives
  <2> QED BY <1>1, <1>2, <1>3, <2>2 DEF AnswersInv
<1> QED BY <1>4, <1>5

LEMMA AskedIsANumber ==
  ASSUME NEW op \in DataCalls, NEW n \in {1, 2}, NEW b \in Blocks(op, n)
  PROVE  Asked(b) \in Int
<1>1. CASE op = "GetPerformance"
  <2>1. Asked(b) = 72
    BY <1>1, PerformanceBlock
  <2> QED BY <2>1
<1>2. CASE op # "GetPerformance"
  <2>1. Blocks(op, n) = Blocks(op, 1)
    BY <1>2, Zenon DEF Blocks, DataCalls
  <2>2. op = "GetHardwareInfo" => Asked(b) = 36
    BY <2>1, InquiryBlock
  <2>3. op = "GetCapabilities" => Asked(b) = 36
    BY <2>1, ModeSenseBlock
  <2>4. op = "GetMinimumWriteSpeed" => Asked(b) = 24
    BY <2>1, MinimumBlock
  <2>5. op = "GetDiscStatus" => Asked(b) = 34
    BY <2>1, DiscInformationBlock
  <2>6. op = "SizeInSectors" => Asked(b) = 12
    BY <2>1, ReadTocBlock
  <2>7. op = "ReadCd" => Asked(b) = 2662
    BY <2>1, ReadCdBlock
  <2> QED BY <1>2, <2>2, <2>3, <2>4, <2>5, <2>6, <2>7 DEF DataCalls
<1> QED BY <1>1, <1>2

LEMMA AnswerInv ==
  ASSUME AnswersInv, DriveAnswers
  PROVE  AnswersInv'
<1> DEFINE bytes == Answer(call.cdb)
           buf   == [i \in DOMAIN call.buf |->
                       IF i >= Asked(call.cdb) THEN call.buf[i]
                       ELSE IF i \in DOMAIN bytes THEN bytes[i] ELSE 0]
<1>1. /\ call.at = "sent"
      /\ call' = [op |-> call.op, at |-> "answered", cdb |-> call.cdb, buf |-> buf,
                  status |-> call.status, sent |-> call.sent, result |-> call.result]
      /\ UNCHANGED <<disc, drive>>
  BY DEF DriveAnswers, Becomes, AnswersInv, IsCall, vars
<1>2. IsCall(call') /\ AnswersAreTheDrives'
  BY <1>1 DEF IsCall, AnswersAreTheDrives
<1>3. call'.cdb = call.cdb
  BY <1>1
<1>4. Asked(call.cdb)' = Asked(call.cdb) /\ Answer(call.cdb)' = bytes
  BY <1>1, <1>3, SameAnswer
<1>5. CASE call.op \in DataCalls
  <2>1. /\ call.sent \in {1, 2} /\ call.cdb \in Blocks(call.op, call.sent)
        /\ DOMAIN call.buf = 0..Size(call.op) - 1
        /\ call.status = 0 => (call.op = "GetPerformance" /\ call.sent = 2 => call.result = drive.read)
    BY <1>1, <1>5 DEF AnswersInv, DataInv
  <2>2. Asked(call.cdb) \in Int
    BY <1>5, <2>1, AskedIsANumber
  <2>3. \A i \in DOMAIN buf : i < Asked(call.cdb) => buf[i] = Byte(bytes, i)
    <3>1. \A i \in DOMAIN call.buf : i \in Int
      BY <2>1, <1>5 DEF Size, DataCalls
    <3>2. \A i \in DOMAIN call.buf : i < Asked(call.cdb) => ~(i >= Asked(call.cdb))
      BY <2>2, <3>1
    <3> HIDE DEF bytes
    <3> QED BY <3>2 DEF Byte
  <2>4. AnswerInBuffer'
    BY <1>1, <1>4, <2>3 DEF AnswerInBuffer, Byte
  <2>5. DataInv'
    BY <1>1, <2>1, <2>4 DEF DataInv, Blocks
  <2> QED BY <1>1, <1>2, <2>5 DEF AnswersInv
<1>6. CASE call.op \notin DataCalls
  <2>1. DataInv'
    BY <1>1, <1>6 DEF DataInv
  <2> QED BY <1>1, <1>2, <2>1 DEF AnswersInv
<1> QED BY <1>5, <1>6

LEMMA NoAnswerInv ==
  ASSUME AnswersInv, DriveRefuses \/ TransportFails
  PROVE  AnswersInv'
<1>1. /\ UNCHANGED <<disc, drive>>
      /\ \/ \E status \in {2, 8} : call' = [call EXCEPT !.at = "answered", !.status = status]
         \/ call' = [call EXCEPT !.at = "threw"]
      /\ call.at = "sent"
  BY DEF DriveRefuses, TransportFails, Becomes, vars
<1>2. /\ IsCall(call') /\ call'.op = call.op /\ call'.cdb = call.cdb
      /\ call'.buf = call.buf /\ call'.sent = call.sent /\ call'.result = call.result
      /\ \/ call'.at = "answered" /\ call'.status \in {2, 8}
         \/ call'.at = "threw"
  BY <1>1 DEF AnswersInv, IsCall
<1>3. DataInv'
  BY <1>1, <1>2 DEF AnswersInv, DataInv
<1>4. AnswersAreTheDrives'
  BY <1>2 DEF AnswersAreTheDrives
<1> QED BY <1>1, <1>2, <1>3, <1>4 DEF AnswersInv

\* Between the two packets of GetPerformance the read speed is in the result.
LEMMA SecondPacketInv ==
  ASSUME AnswersInv, Answered("GetPerformance", 1),
         Becomes([call EXCEPT !.at = "sent", !.cdb = PerformanceCommand(Write),
                              !.sent = 2, !.result = EndPerformance])
  PROVE  AnswersInv'
<1>1. /\ call.op = "GetPerformance" /\ call.at = "answered" /\ call.sent = 1
      /\ call' = [op |-> "GetPerformance", at |-> "sent", cdb |-> PerformanceCommand(Write),
                  buf |-> call.buf, status |-> call.status, sent |-> 2,
                  result |-> EndPerformance]
      /\ UNCHANGED <<disc, drive>>
  BY DEF Answered, Becomes, AnswersInv, IsCall, vars
<1>2. call.status = 0 => EndPerformance = drive.read
  BY SpeedIsTrue
<1>3. call'.cdb \in Blocks("GetPerformance", 2)
  BY <1>1 DEF Blocks
<1>4. DOMAIN call.buf = 0..Size(call.op) - 1
  BY <1>1 DEF AnswersInv, DataInv, DataCalls
<1>5. DataInv'
  BY <1>1, <1>2, <1>3, <1>4 DEF DataInv
<1>6. IsCall(call') /\ AnswersAreTheDrives'
  BY <1>1 DEF IsCall, AnswersAreTheDrives
<1> QED BY <1>1, <1>5, <1>6 DEF AnswersInv

LEMMA CallsAnswersInv ==
  ASSUME AnswersInv,
         \/ GetHardwareInfo \/ GetCapabilities \/ GetPerformance \/ GetMinimumWriteSpeed
         \/ GetDiscStatus \/ SizeInSectors \/ ReadCd
  PROVE  AnswersInv'
<1>1. CASE GetHardwareInfo
  <2>1. ASSUME Send("GetHardwareInfo", Blank(36, 0), [CDB(Inquiry) EXCEPT ![4] = 36])
        PROVE  AnswersInv'
    <3>1. /\ "GetHardwareInfo" \in DataCalls
          /\ [CDB(Inquiry) EXCEPT ![4] = 36] \in Blocks("GetHardwareInfo", 1)
          /\ DOMAIN Blank(36, 0) = 0..Size("GetHardwareInfo") - 1
      BY DEF DataCalls, Blocks, Size, Blank
    <3> QED BY <2>1, <3>1, SendDataInv
  <2>2. ASSUME Answered("GetHardwareInfo", 1),
               Returns([vendor |-> Text(8, 8), model |-> Text(16, 16), revision |-> Text(32, 4)])
        PROVE  AnswersInv'
    <3>1. call.op = "GetHardwareInfo"
      BY <2>2 DEF Answered
    <3>2. call.status = 0 =>
            [vendor |-> Text(8, 8), model |-> Text(16, 16), revision |-> Text(32, 4)]
              = Truth(call.op)
      BY <2>2, <3>1, HardwareInfoIsTrue
    <3> QED BY <2>2, <3>1, <3>2, ReturnsTruth
  <2> QED BY <1>1, <2>1, <2>2 DEF GetHardwareInfo
<1>2. CASE GetCapabilities
  <2> DEFINE block == SetReadLength16([CDB(ModeSense) EXCEPT
                                 ![1] = SetBits(3, 1, 1),
                                 ![2] = SetBits(6, 2, 0) + SetBits(0, 6, 42)], 36)
             flags == call.buf[8 + 5]
             r == [UPC |-> GetBit(6, flags), ISRC |-> GetBit(5, flags),
                   C2pointers |-> GetBit(4, flags), streamAccurate |-> GetBit(1, flags),
                   nrVolumeLevels |-> parse16(call.buf, 8 + 10)]
  <2>1. ASSUME Send("GetCapabilities", Blank(36, 0), block)
        PROVE  AnswersInv'
    <3>1. /\ "GetCapabilities" \in DataCalls /\ block \in Blocks("GetCapabilities", 1)
          /\ DOMAIN Blank(36, 0) = 0..Size("GetCapabilities") - 1
      BY DEF DataCalls, Blocks, Size, Blank
    <3> HIDE DEF block
    <3> QED BY <2>1, <3>1, SendDataInv
  <2>2. ASSUME Answered("GetCapabilities", 1), Returns(r)
        PROVE  AnswersInv'
    <3>1. call.op = "GetCapabilities"
      BY <2>2 DEF Answered
    <3>2. call.status = 0 => r = Truth(call.op)
      BY <2>2, <3>1, CapabilitiesAreTrue
    <3> HIDE DEF r
    <3> QED BY <2>2, <3>1, <3>2, ReturnsTruth
  <2> QED BY <1>2, <2>1, <2>2 DEF GetCapabilities
<1>3. CASE GetPerformance
  <2>1. ASSUME NEW fill \in Fills,
               Send("GetPerformance", Blank(8 + 16 * 4, fill), PerformanceCommand(0))
        PROVE  AnswersInv'
    <3>1. /\ "GetPerformance" \in DataCalls
          /\ PerformanceCommand(0) \in Blocks("GetPerformance", 1)
          /\ DOMAIN Blank(8 + 16 * 4, fill) = 0..Size("GetPerformance") - 1
      BY DEF DataCalls, Blocks, Size, Blank
    <3> QED BY <2>1, <3>1, SendDataInv
  <2>2. ASSUME Answered("GetPerformance", 2),
               Returns([read |-> call.result, write |-> EndPerformance])
        PROVE  AnswersInv'
    <3>1. call.op = "GetPerformance" /\ call.at = "answered" /\ call.sent = 2
      BY <2>2 DEF Answered
    <3>2. call.status = 0 => call.result = drive.read
      BY <3>1 DEF AnswersInv, DataInv, DataCalls
    <3>3. call.status = 0 => EndPerformance = drive.write
      BY <2>2, SpeedIsTrue
    <3>4. call.status = 0 =>
            [read |-> call.result, write |-> EndPerformance] = Truth(call.op)
      BY <3>1, <3>2, <3>3 DEF Truth
    <3> QED BY <2>2, <3>1, <3>4, ReturnsTruth
  <2> QED BY <1>3, <2>1, <2>2, SecondPacketInv DEF GetPerformance
<1>4. CASE GetMinimumWriteSpeed
  <2> DEFINE block == [CDB(Performance) EXCEPT ![1] = Tolerance, ![10] = 3, ![9] = 1]
             r == [read  |-> parse32(call.buf, 8 + 8) \div 1000,
                   write |-> parse32(call.buf, 8 + 12) \div 1000]
  <2>1. ASSUME NEW fill \in Fills,
               Send("GetMinimumWriteSpeed", Blank(8 + 16, fill), block)
        PROVE  AnswersInv'
    <3>1. /\ "GetMinimumWriteSpeed" \in DataCalls
          /\ block \in Blocks("GetMinimumWriteSpeed", 1)
          /\ DOMAIN Blank(8 + 16, fill) = 0..Size("GetMinimumWriteSpeed") - 1
      BY DEF DataCalls, Blocks, Size, Blank
    <3> HIDE DEF block
    <3> QED BY <2>1, <3>1, SendDataInv
  <2>2. ASSUME Answered("GetMinimumWriteSpeed", 1), Returns(r)
        PROVE  AnswersInv'
    <3>1. call.op = "GetMinimumWriteSpeed"
      BY <2>2 DEF Answered
    <3>2. call.status = 0 => /\ parse32(call.buf, 8 + 8) = drive.minRead
                             /\ parse32(call.buf, 8 + 12) = drive.minWrite
      BY <2>2, MinimumSpeedIsTrue
    <3>3. call.status = 0 => r = Truth(call.op)
      BY <3>1, <3>2 DEF Truth
    <3> HIDE DEF r
    <3> QED BY <2>2, <3>1, <3>3, ReturnsTruth
  <2> QED BY <1>4, <2>1, <2>2 DEF GetMinimumWriteSpeed
<1>5. CASE GetDiscStatus
  <2>1. ASSUME Send("GetDiscStatus", Blank(34, 0), SetReadLength16(CDB(DiscInformation), 34))
        PROVE  AnswersInv'
    <3>1. /\ "GetDiscStatus" \in DataCalls
          /\ SetReadLength16(CDB(DiscInformation), 34) \in Blocks("GetDiscStatus", 1)
          /\ DOMAIN Blank(34, 0) = 0..Size("GetDiscStatus") - 1
      BY DEF DataCalls, Blocks, Size, Blank
    <3> QED BY <2>1, <3>1, SendDataInv
  <2>2. ASSUME Answered("GetDiscStatus", 1), NEW r \in DiscStatusOf(call.buf), Returns(r)
        PROVE  AnswersInv'
    <3>1. call.op = "GetDiscStatus"
      BY <2>2 DEF Answered
    <3>2. call.status = 0 => /\ drive.discType = 0 => r = "Audio"
                             /\ drive.discType = 32 => r = "XA1"
      BY <2>2, DiscStatusIsTrue
    <3> QED BY <2>2, <3>1, <3>2, ReturnsTruth
  <2> QED BY <1>5, <2>1, <2>2 DEF GetDiscStatus
<1>6. CASE SizeInSectors
  <2> DEFINE block == SetReadLength16([CDB(ReadToc) EXCEPT ![1] = 0, ![6] = LeadOut], 12)
  <2>1. ASSUME Send("SizeInSectors", Blank(12, 0), block)
        PROVE  AnswersInv'
    <3>1. /\ "SizeInSectors" \in DataCalls /\ block \in Blocks("SizeInSectors", 1)
          /\ DOMAIN Blank(12, 0) = 0..Size("SizeInSectors") - 1
      BY DEF DataCalls, Blocks, Size, Blank
    <3> HIDE DEF block
    <3> QED BY <2>1, <3>1, SendDataInv
  <2>2. ASSUME Answered("SizeInSectors", 1), Returns(parse32(call.buf, 8))
        PROVE  AnswersInv'
    <3>1. call.op = "SizeInSectors"
      BY <2>2 DEF Answered
    <3>2. call.status = 0 => parse32(call.buf, 8) = Truth(call.op)
      BY <2>2, <3>1, SizeIsTrue DEF Truth
    <3> QED BY <2>2, <3>1, <3>2, ReturnsTruth
  <2> QED BY <1>6, <2>1, <2>2 DEF SizeInSectors
<1>7. CASE ReadCd
  <2>1. ASSUME NEW lba \in ReadLbas,
               Send("ReadCd", Blank(2352 + 294 + 2 + 96, 171), ReadCdCommand(lba))
        PROVE  AnswersInv'
    <3>1. /\ "ReadCd" \in DataCalls /\ ReadCdCommand(lba) \in Blocks("ReadCd", 1)
          /\ DOMAIN Blank(2352 + 294 + 2 + 96, 171) = 0..Size("ReadCd") - 1
      BY SMT DEF DataCalls, Blocks, Size, Blank
    <3> QED BY <2>1, <3>1, SendDataInv, SMT
  <2>2. ASSUME Answered("ReadCd", 1), Returns(Cardinality(ErrorBits))
        PROVE  AnswersInv'
    <3>1. call.op = "ReadCd"
      BY <2>2 DEF Answered
    <3>2. call.status = 0 => Cardinality(ErrorBits) = Truth(call.op)
      BY <2>2, <3>1, ErrorsAreTrue DEF Truth
    <3> QED BY <2>2, <3>1, <3>2, ReturnsTruth
  <2> QED BY <1>7, <2>1, <2>2, SMT DEF ReadCd
<1> QED BY <1>1, <1>2, <1>3, <1>4, <1>5, <1>6, <1>7

LEMMA OtherAnswersInv ==
  ASSUME AnswersInv,
         UnitReady \/ GetDriveStatus \/ GetConfigurationCall \/ GetStatus \/ FlushCache
  PROVE  AnswersInv'
<1> DEFINE Rest == {"UnitReady", "GetDriveStatus", "GetConfiguration", "GetStatus", "FlushCache"}
<1>1. ASSUME NEW op \in Rest, NEW buffer, NEW block, Send(op, buffer, block) PROVE AnswersInv'
  <2>1. op \notin DataCalls
    BY <1>1 DEF DataCalls
  <2> QED BY <1>1, <2>1, SendOtherInv
<1>2. ASSUME NEW op \in Rest, Answered(op, 1), NEW r, Returns(r),
             call.status = 0 => r = Truth(op)
      PROVE  AnswersInv'
  <2>1. call.op = op /\ op # "GetDiscStatus"
    BY <1>2 DEF Answered
  <2> QED BY <1>2, <2>1, ReturnsTruth
<1>3. /\ Truth("UnitReady") = 0 /\ Truth("GetDriveStatus") = "DiscOk"
      /\ Truth("GetConfiguration") = Nothing /\ Truth("GetStatus") = Nothing
      /\ Truth("FlushCache") = Nothing
  BY DEF Truth
<1>4. call.status = 0 => Result = 0
  BY DEF Result
<1>5. CASE UnitReady
  BY <1>1, <1>2, <1>3, <1>4, <1>5 DEF UnitReady
<1>6. CASE GetDriveStatus
  <2>1. Result = 0 => (CASE Result = 0 -> "DiscOk" [] Result = 2 -> "NoDisc"
                         [] OTHER -> "NotReady") = "DiscOk"
    OBVIOUS
  <2> QED BY <1>1, <1>2, <1>3, <1>4, <1>6, <2>1 DEF GetDriveStatus
<1>7. CASE GetConfigurationCall
  BY <1>1, <1>2, <1>3, <1>7 DEF GetConfigurationCall
<1>8. CASE GetStatus
  BY <1>1, <1>2, <1>3, <1>8 DEF GetStatus
<1>9. CASE FlushCache
  BY <1>1, <1>2, <1>3, <1>9 DEF FlushCache
<1> QED BY <1>5, <1>6, <1>7, <1>8, <1>9

LEMMA NextAnswersInv ==
  ASSUME AnswersInv, disc' \in Discs, [GpNext]_<<vars, packet>>
  PROVE  AnswersInv'
<1>1. CASE UNCHANGED <<vars, packet>>
  <2>1. UNCHANGED <<disc, drive, call>>
    BY <1>1 DEF vars, packet
  <2>2. IsCall(call') /\ drive' \in Drives /\ disc' \in Discs
    BY <2>1 DEF AnswersInv
  <2>3. Asked(call.cdb)' = Asked(call.cdb) /\ Answer(call.cdb)' = Answer(call.cdb)
    BY <2>1, SameAnswer
  <2>4. DataInv'
    BY <2>1, <2>3 DEF AnswersInv, DataInv, AnswerInBuffer, Byte
  <2>5. AnswersAreTheDrives'
    BY <2>1 DEF AnswersInv, AnswersAreTheDrives, Truth
  <2> QED BY <2>2, <2>4, <2>5 DEF AnswersInv
<1>2. CASE call = NoCall /\ UNCHANGED packet
  <2>1. call' = NoCall /\ drive' = drive
    BY <1>2 DEF packet
  <2>2. IsCall(call') /\ call'.at = "none"
    BY <2>1 DEF IsCall, NoCall
  <2>3. DataInv' /\ AnswersAreTheDrives'
    BY <2>2 DEF DataInv, AnswersAreTheDrives
  <2> QED BY <2>1, <2>2, <2>3 DEF AnswersInv
<1> QED BY <1>1, <1>2, CallsAnswersInv, OtherAnswersInv, AnswerInv, NoAnswerInv DEF GpNext

\* Of every drive and disc, whatever was in the buffer before: a call all of
\* whose packets the drive answered returns what the drive has.  The command
\* blocks ask for the bytes the parser looks at, and the parser looks where the
\* standard puts them (gpc.cc, parse.h).
THEOREM AnswersOfTheDrive == GpSpec => []AnswersAreTheDrives
<1>1. GpInit => AnswersInv
  <2> SUFFICES ASSUME GpInit PROVE AnswersInv
    OBVIOUS
  <2>1. IsCall(call) /\ call.at = "none" /\ drive \in Drives
    BY DEF GpInit, NoCall, IsCall
  <2>2. disc \in Discs
    BY InitIInv DEF GpInit, IInv, TypeOK
  <2> QED BY <2>1, <2>2 DEF AnswersInv, DataInv, AnswersAreTheDrives
<1>2. AnswersInv /\ IInv' /\ [GpNext]_<<vars, packet>> => AnswersInv'
  BY NextAnswersInv DEF IInv, TypeOK
<1>3. AnswersInv => AnswersAreTheDrives
  BY DEF AnswersInv
<1>4. GpSpec => []IInv
  BY TocAmongCalls, InductiveInvariant, PTL
<1> QED BY <1>1, <1>2, <1>3, <1>4, PTL DEF GpSpec

\* The sum of the digits is what its definition says: there is such a function.
LEMMA DigitSum ==
  \A n \in Nat : sum[n] = IF n = 0 THEN 0 ELSE (n % 10) + sum[n \div 10]
<1> DEFINE Good(m, f) == \A k \in 0..m : f[k] = IF k = 0 THEN 0 ELSE (k % 10) + f[k \div 10]
           Rec(g) == g = [n \in Nat |-> IF n = 0 THEN 0 ELSE (n % 10) + g[n \div 10]]
<1>0. \A k \in Nat : k \div 10 \in 0..k /\ (k # 0 => k \div 10 \in 0..k - 1) /\ k % 10 \in 0..9
  OBVIOUS
<1>1. ASSUME NEW n \in Nat PROVE \E f \in [0..n -> Nat] : Good(n, f)
  <2> DEFINE F == {m \in 0..n : \E f \in [0..m -> Nat] : Good(m, f)}
  <2>1. 0 \in F
    <3>1. Good(0, [k \in 0..0 |-> 0]) /\ [k \in 0..0 |-> 0] \in [0..0 -> Nat]
      OBVIOUS
    <3> HIDE DEF Good
    <3> QED BY <3>1
  <2>2. ASSUME NEW m \in 0..n - 1, m \in F PROVE m + 1 \in F
    <3>1. PICK f \in [0..m -> Nat] : Good(m, f)
      BY <2>2
    <3> DEFINE p == m + 1
               g == [k \in 0..p |-> IF k = p THEN (p % 10) + f[p \div 10] ELSE f[k]]
    <3>2. p \div 10 \in 0..m /\ p % 10 \in Nat /\ p \in 0..n
      <4>1. p \in Nat /\ p # 0 /\ p - 1 = m
        OBVIOUS
      <4> HIDE DEF p
      <4>2. p \div 10 \in 0..p - 1 /\ p % 10 \in 0..9
        BY <1>0, <4>1
      <4>3. p \in 0..n
        BY DEF p
      <4> QED BY <4>1, <4>2, <4>3
    <3>3. \A k \in 0..p : k # p => k \in 0..m /\ k \div 10 \in 0..m /\ k \div 10 # p
      <4> SUFFICES ASSUME NEW k \in 0..p, k # p PROVE k \in 0..m /\ k \div 10 \in 0..m /\ k \div 10 # p
        OBVIOUS
      <4>1. k \in 0..m /\ k \in Nat
        OBVIOUS
      <4>2. k \div 10 \in 0..k
        BY <1>0, <4>1
      <4> QED BY <4>1, <4>2
    <3>4. p \div 10 # p
      BY <3>2
    <3>5. g \in [0..p -> Nat]
      <4> SUFFICES ASSUME NEW k \in 0..p PROVE g[k] \in Nat
        OBVIOUS
      <4>1. k # p => f[k] \in Nat
        BY <3>3
      <4>2. f[p \div 10] \in Nat
        BY <3>2
      <4> HIDE DEF p
      <4> QED BY <3>2, <4>1, <4>2
    <3>6. Good(p, g)
      <4> SUFFICES ASSUME NEW k \in 0..p
                   PROVE  g[k] = IF k = 0 THEN 0 ELSE (k % 10) + g[k \div 10]
        OBVIOUS
      <4>1. CASE k = p
        <5>1. g[p] = (p % 10) + f[p \div 10] /\ p # 0
          OBVIOUS
        <5>2. g[p \div 10] = f[p \div 10]
          <6>1. p \div 10 \in 0..p
            BY <3>2
          <6> HIDE DEF p
          <6> QED BY <3>4, <6>1
        <5> HIDE DEF g, p
        <5> QED BY <4>1, <5>1, <5>2
      <4>2. CASE k # p
        <5>1. k \in 0..m /\ k \div 10 \in 0..m /\ k \div 10 # p
          BY <3>3, <4>2
        <5>2. g[k] = f[k] /\ g[k \div 10] = f[k \div 10]
          <6>1. k \div 10 \in 0..p
            BY <5>1
          <6> HIDE DEF p
          <6> QED BY <4>2, <5>1, <6>1
        <5> HIDE DEF g
        <5> QED BY <3>1, <5>1, <5>2
      <4> QED BY <4>1, <4>2
    <3> HIDE DEF g, Good
    <3> QED BY <3>2, <3>5, <3>6
  <2> HIDE DEF F
  <2>3. \A m \in 0..n : m \in F
    BY <2>1, <2>2, CountUp
  <2>4. n \in F
    BY <2>3
  <2> HIDE DEF Good
  <2> QED BY <2>4 DEF F
<1>2. ASSUME NEW n \in Nat, NEW m \in Nat, n <= m,
             NEW f \in [0..n -> Nat], Good(n, f), NEW h \in [0..m -> Nat], Good(m, h)
      PROVE  \A k \in 0..n : f[k] = h[k]
  <2> DEFINE F == {k \in 0..n : \A j \in 0..k : f[j] = h[j]}
  <2>1. 0 \in F
    BY <1>2
  <2>2. ASSUME NEW k \in 0..n - 1, k \in F PROVE k + 1 \in F
    <3> DEFINE p == k + 1
    <3>1. p \in 0..n /\ p \in 0..m /\ p # 0 /\ p \in Nat /\ p - 1 = k
      BY <1>2
    <3> HIDE DEF p
    <3>2. p \div 10 \in 0..k
      BY <1>0, <3>1
    <3>3. f[p] = (p % 10) + f[p \div 10] /\ h[p] = (p % 10) + h[p \div 10]
      BY <1>2, <3>1
    <3>4. f[p] = h[p]
      BY <2>2, <3>2, <3>3
    <3>5. \A j \in 0..p : j = p \/ j \in 0..k
      BY <3>1
    <3>6. p \in F
      BY <2>2, <3>1, <3>4, <3>5
    <3> QED BY <3>6 DEF p
  <2> HIDE DEF F
  <2>3. \A k \in 0..n : k \in F
    BY <2>1, <2>2, CountUp
  <2> QED BY <2>3 DEF F
<1> DEFINE All(n) == {f \in [0..n -> Nat] : Good(n, f)}
           the(n) == CHOOSE f : f \in All(n)
           g == [n \in Nat |-> the(n)[n]]
<1>3. ASSUME NEW n \in Nat PROVE the(n) \in [0..n -> Nat] /\ Good(n, the(n))
  <2>1. \E f : f \in All(n)
    <3> HIDE DEF Good
    <3> QED BY <1>1
  <2>2. the(n) \in All(n)
    <3> HIDE DEF All
    <3> QED BY <2>1
  <2> HIDE DEF the
  <2> QED BY <2>2
<1>4. Rec(g)
  <2> DEFINE E(n, x) == IF n = 0 THEN 0 ELSE (n % 10) + x
             t(n) == n \div 10
  <2> SUFFICES ASSUME NEW n \in Nat PROVE g[n] = E(n, g[t(n)])
    <3> HIDE DEF E, t, g
    <3>1. g = [n \in Nat |-> g[n]]
      BY DEF g
    <3>2. g = [n \in Nat |-> E(n, g[t(n)])]
      BY <3>1
    <3> QED BY <3>2 DEF E, t
  <2> DEFINE d == n \div 10
             f == the(d)
             h == the(n)
  <2>1. d \in Nat /\ d <= n /\ d \in 0..d /\ n \in 0..n
    BY <1>0
  <2>2. f \in [0..d -> Nat] /\ Good(d, f) /\ h \in [0..n -> Nat] /\ Good(n, h)
    <3> HIDE DEF d, Good, the
    <3> QED BY <1>3, <2>1
  <2>3. g[n] = h[n] /\ g[d] = f[d]
    <3> HIDE DEF the, d
    <3> QED BY <2>1
  <2>5. h[n] = IF n = 0 THEN 0 ELSE (n % 10) + h[d]
    <3> HIDE DEF h, the
    <3> QED BY <2>1, <2>2
  <2> HIDE DEF f, h, d, g, the
  <2>4. f[d] = h[d]
    <3> HIDE DEF Good
    <3> QED BY <1>2, <2>1, <2>2
  <2>6. g[n] = IF n = 0 THEN 0 ELSE (n % 10) + g[d]
    BY <2>3, <2>4, <2>5
  <2> QED BY <2>6 DEF d
<1> HIDE DEF g, Good, the
<1>5. Rec(sum)
  <2>1. sum = CHOOSE s : Rec(s)
    BY DEF sum
  <2> HIDE DEF Rec
  <2> QED BY <1>4, <2>1
<1> QED BY <1>5

\* Of a number of up to four digits.
LEMMA FourDigits ==
  ASSUME NEW n \in Nat, n < 10000
  PROVE  sum[n] = (n % 10) + ((n \div 10) % 10) + ((n \div 100) % 10) + (n \div 1000)
<1> DEFINE r == [k \in Nat |-> k % 10]
           d == [k \in Nat |-> k \div 10]
<1>1. sum[0] = 0
  BY DigitSum
<1>2. ASSUME NEW k \in Nat PROVE sum[k] = IF k = 0 THEN 0 ELSE r[k] + sum[d[k]]
  BY DigitSum
<1>3. r \in [Nat -> Nat] /\ d \in [Nat -> Nat]
  OBVIOUS
<1>4. ASSUME NEW k \in Nat, k < 10 PROVE r[k] = k /\ d[k] = 0
  BY <1>4
<1>5. ASSUME NEW k \in Nat
      PROVE  /\ k < 100 => d[k] < 10
             /\ k < 1000 => d[k] < 100
             /\ k < 10000 => d[k] < 1000
  OBVIOUS
<1>6. r[n] = n % 10 /\ d[n] = n \div 10
  OBVIOUS
<1>7. r[n \div 10] = (n \div 10) % 10 /\ r[n \div 100] = (n \div 100) % 10
  OBVIOUS
<1>8. d[n \div 10] = n \div 100
  OBVIOUS
<1>9. d[n \div 100] = n \div 1000
  OBVIOUS
<1> HIDE DEF r, d
<1>10. ASSUME NEW k \in Nat, k < 10 PROVE sum[k] = k
  BY <1>1, <1>2, <1>4, <1>10
<1>11. ASSUME NEW k \in Nat, k < 100 PROVE sum[k] = r[k] + d[k]
  <2>1. d[k] \in Nat /\ r[k] \in Nat /\ d[k] < 10
    BY <1>3, <1>5, <1>11
  <2>2. sum[d[k]] = d[k]
    BY <1>10, <2>1
  <2>3. k = 0 => r[k] = 0 /\ d[k] = 0
    BY <1>4
  <2> QED BY <1>1, <1>2, <2>1, <2>2, <2>3
<1>12. ASSUME NEW k \in Nat, k < 1000 PROVE sum[k] = r[k] + r[d[k]] + d[d[k]]
  <2>1. d[k] \in Nat /\ r[k] \in Nat /\ d[k] < 100
    BY <1>3, <1>5, <1>12
  <2>2. sum[d[k]] = r[d[k]] + d[d[k]] /\ r[d[k]] \in Nat /\ d[d[k]] \in Nat
    BY <1>3, <1>11, <2>1
  <2>3. k = 0 => r[k] = 0 /\ d[k] = 0 /\ r[d[k]] = 0 /\ d[d[k]] = 0
    BY <1>4
  <2> QED BY <1>1, <1>2, <2>1, <2>2, <2>3
<1>13. sum[n] = r[n] + r[d[n]] + r[d[d[n]]] + d[d[d[n]]]
  <2>1. d[n] \in Nat /\ r[n] \in Nat /\ d[n] < 1000
    BY <1>3, <1>5
  <2>2. sum[d[n]] = r[d[n]] + r[d[d[n]]] + d[d[d[n]]]
    BY <1>12, <2>1
  <2>3. r[d[n]] \in Nat /\ d[d[n]] \in Nat /\ r[d[d[n]]] \in Nat /\ d[d[d[n]]] \in Nat
    BY <1>3, <2>1
  <2>4. n = 0 => r[n] = 0 /\ d[n] = 0
    BY <1>4
  <2>5. n = 0 => r[d[n]] = 0 /\ d[d[n]] = 0
    BY <1>4, <2>4
  <2>6. n = 0 => r[d[d[n]]] = 0 /\ d[d[d[n]]] = 0
    BY <1>4, <2>5
  <2>7. n # 0 => sum[n] = r[n] + sum[d[n]]
    BY <1>2
  <2> QED BY <1>1, <2>1, <2>2, <2>3, <2>4, <2>5, <2>6, <2>7
<1>14. r[d[n]] = (n \div 10) % 10
  BY <1>6, <1>7
<1>15. d[d[n]] = n \div 100
  BY <1>6, <1>8
<1> QED BY <1>6, <1>7, <1>9, <1>13, <1>14, <1>15

\* The checksum of CddbQuery, and its steps.
Checksum(frames) == FoldLeft(LAMBDA c, f : c + sum[f \div 75], 0, frames)

\* A digit sum is a number.
LEMMA SumType == \A n \in Nat : sum[n] \in Nat
<1> SUFFICES ASSUME NEW n \in Nat PROVE sum[n] \in Nat
  OBVIOUS
<1> DEFINE F == {m \in 0..n : \A k \in 0..m : sum[k] \in Nat}
           d == [k \in Nat |-> k \div 10]
           r == [k \in Nat |-> k % 10]
<1>1. ASSUME NEW k \in Nat, k # 0 PROVE d[k] \in Nat /\ d[k] <= k - 1 /\ r[k] \in Nat
  BY <1>1
<1>2. ASSUME NEW k \in Nat PROVE sum[k] = IF k = 0 THEN 0 ELSE r[k] + sum[d[k]]
  BY DigitSum
<1> HIDE DEF d, r
<1>3. 0 \in F
  BY <1>2
<1>4. ASSUME NEW m \in 0..n - 1, m \in F PROVE m + 1 \in F
  <2>1. m + 1 \in Nat /\ m + 1 # 0 /\ m + 1 \in 0..n
    OBVIOUS
  <2>2. d[m + 1] \in 0..m /\ r[m + 1] \in Nat
    BY <1>1, <2>1
  <2>3. sum[m + 1] = r[m + 1] + sum[d[m + 1]]
    BY <1>2, <2>1
  <2>4. sum[m + 1] \in Nat
    BY <1>4, <2>2, <2>3
  <2>5. \A k \in 0..m + 1 : k = m + 1 \/ k \in 0..m
    OBVIOUS
  <2> QED BY <1>4, <2>1, <2>4, <2>5
<1> HIDE DEF F
<1>5. \A k \in 0..n : k \in F
  BY <1>3, <1>4, CountUp
<1>6. n \in F
  BY <1>5
<1> QED BY <1>6 DEF F

\* The checksum adds the digit sums of the seconds up, one frame after the other.
LEMMA ChecksumSteps ==
  ASSUME NEW frames \in Seq(Nat)
  PROVE  \E f \in [0..Len(frames) -> Nat] :
           /\ f[0] = 0
           /\ \A k \in 1..Len(frames) : f[k] = f[k - 1] + sum[frames[k] \div 75]
           /\ Checksum(frames) = f[Len(frames)]
<1> DEFINE n == Len(frames)
           D == DOMAIN frames
           digits == [k \in D |-> sum[frames[k] \div 75]]
           step == [p \in (1..n) \X Nat |-> p[2] + digits[p[1]]]
           Rec(g) == g = [s \in SUBSET D |->
                            IF s = {} THEN 0
                            ELSE g[s \ {Max(s)}] + sum[frames[Max(s)] \div 75]]
           iter == CHOOSE g : Rec(g)
<1>1. n \in Nat /\ D = 1..n /\ \A k \in 1..n : frames[k] \in Nat
  BY LenProperties
<1>2. Checksum(frames) = iter[D]
  BY DEF Checksum, FoldLeft, MapThenFoldSet
<1>3. ASSUME NEW k \in 1..n PROVE digits[k] = sum[frames[k] \div 75] /\ digits[k] \in Nat
  <2>1. frames[k] \div 75 \in Nat /\ k \in D
    BY <1>1
  <2> QED BY <2>1, SumType
<1>0. n = Len(frames)
  OBVIOUS
<1> HIDE DEF n, D, digits
<1>4. \A k \in 1..n : \A v \in Nat : step[<<k, v>>] \in Nat
  BY <1>1, <1>3
<1>5. PICK g \in [SUBSET (1..n) -> Nat] : \A s \in SUBSET (1..n) :
        g[s] = IF s = {} THEN 0 ELSE step[<<Max(s), g[s \ {Max(s)}]>>]
  <2> HIDE DEF step
  <2>1. Stepping(n, Nat, 0, step)
    BY <1>1, <1>4 DEF Stepping
  <2>2. PICK g : Folding(g, n, Nat, 0, step)
    BY <2>1, FoldExists
  <2> QED BY <2>2 DEF Folding
<1>6. Rec(g)
  <2>1. ASSUME NEW s \in SUBSET (1..n), s # {}
        PROVE  step[<<Max(s), g[s \ {Max(s)}]>>]
                 = g[s \ {Max(s)}] + sum[frames[Max(s)] \div 75]
    <3>1. Max(s) \in 1..n
      BY <1>1, <2>1, Greatest
    <3>2. g[s \ {Max(s)}] \in Nat
      BY <1>5
    <3>3. step[<<Max(s), g[s \ {Max(s)}]>>] = g[s \ {Max(s)}] + digits[Max(s)]
      BY <3>1, <3>2
    <3>4. digits[Max(s)] = sum[frames[Max(s)] \div 75]
      BY <1>3, <3>1
    <3> QED BY <3>3, <3>4
  <2> HIDE DEF step
  <2>2. \A s \in SUBSET (1..n) :
          g[s] = IF s = {} THEN 0 ELSE g[s \ {Max(s)}] + sum[frames[Max(s)] \div 75]
    BY <1>5, <2>1
  <2> QED BY <1>1, <2>2
<1>7. Rec(iter)
  <2> HIDE DEF Rec
  <2> QED BY <1>6
<1> HIDE DEF iter
<1>8. iter[{}] = 0
  BY <1>7
<1>9. ASSUME NEW k \in 1..n PROVE iter[1..k] = iter[1..k - 1] + digits[k]
  <2>1. Max(1..k) = k /\ (1..k) \ {k} = 1..k - 1
    <3>1. n \in Nat
      BY <1>1
    <3> QED BY <3>1, Greatest
  <2>2. 1..k \in SUBSET D /\ 1..k # {}
    <3>1. D = 1..n /\ n \in Nat
      BY <1>1
    <3>2. 1..k \subseteq 1..n /\ k \in 1..k
      BY <3>1
    <3> QED BY <3>1, <3>2
  <2>3. iter[1..k] = iter[(1..k) \ {Max(1..k)}] + sum[frames[Max(1..k)] \div 75]
    BY <1>7, <2>2
  <2> QED BY <1>3, <2>1, <2>3
<1> DEFINE f == [k \in 0..n |-> iter[1..k]]
           F == {k \in 0..n : iter[1..k] \in Nat}
<1>10. f[0] = 0 /\ iter[1..0] = 0
  <2>1. 1..0 = {} /\ 0 \in 0..n
    BY <1>1
  <2> QED BY <1>8, <2>1
<1>11. f \in [0..n -> Nat]
  <2>1. 0 \in F
    BY <1>1, <1>10
  <2>2. ASSUME NEW k \in 0..n - 1, k \in F PROVE k + 1 \in F
    <3>1. k + 1 \in 1..n /\ (k + 1) - 1 = k /\ k + 1 \in 0..n
      BY <1>1
    <3>2. iter[1..k + 1] = iter[1..k] + digits[k + 1]
      BY <1>9, <3>1
    <3>3. iter[1..k] + digits[k + 1] \in Nat
      BY <1>3, <2>2, <3>1
    <3> QED BY <3>1, <3>2, <3>3
  <2> HIDE DEF F
  <2>3. \A k \in 0..n : k \in F
    BY <1>1, <2>1, <2>2, CountUp
  <2> QED BY <2>3 DEF F
<1>12. ASSUME NEW k \in 1..n PROVE f[k] = f[k - 1] + sum[frames[k] \div 75]
  <2>1. k \in 0..n /\ k - 1 \in 0..n
    BY <1>1
  <2>2. f[k] = f[k - 1] + digits[k]
    BY <1>9, <2>1
  <2> QED BY <1>3, <2>2
<1>13. Checksum(frames) = f[n]
  <2>1. n \in 0..n
    BY <1>1
  <2> QED BY <1>1, <1>2, <2>1
<1> HIDE DEF f
<1> QED BY <1>0, <1>10, <1>11, <1>12, <1>13

\* A function on 1..n is a sequence of length n, whatever its values are.
LEMMA FunctionIsSeq ==
  ASSUME NEW n \in Nat, NEW f, f = [i \in 1..n |-> f[i]]
  PROVE  Len(f) = n /\ DOMAIN f = 1..n
<1> DEFINE S == {f[i] : i \in 1..n}
<1>1. f \in [1..n -> S]
  OBVIOUS
<1> HIDE DEF S
<1>2. f \in Seq(S)
  BY <1>1, SeqDef
<1>3. Len(f) \in Nat /\ DOMAIN f = 1..Len(f) /\ DOMAIN f = 1..n
  BY <1>1, <1>2, LenProperties
<1> QED BY <1>3

\* A finished table is a sequence too (the texts that fill it are of no matter).
TableIsSeq == \E n \in Nat : toc.tracks = [i \in 1..n |-> toc.tracks[i]]

\* A sequence is a function on 1..Len of it.
LEMMA SeqIsFunction ==
  ASSUME NEW S, NEW s \in Seq(S)
  PROVE  Len(s) \in Nat /\ DOMAIN s = 1..Len(s) /\ s = [i \in 1..Len(s) |-> s[i]]
<1>1. Len(s) \in Nat /\ s \in [1..Len(s) -> S] /\ DOMAIN s = 1..Len(s)
  BY LenProperties
<1> QED BY <1>1

\* Every step of GetToc keeps the table of contents a sequence.
LEMMA NextTableIsSeq == IInv /\ TableIsSeq /\ [Next]_vars => TableIsSeq'
<1> SUFFICES ASSUME IInv, TableIsSeq, [Next]_vars PROVE TableIsSeq'
  OBVIOUS
<1> DEFINE old == toc.tracks
<1>1. pc # "done" =>
        old \in Seq(TocEntry) /\ toc = [title |-> << >>, performer |-> << >>, tracks |-> old]
  BY DEF IInv
<1>2. CASE Entry \/ EntryRefused
  <2>1. PICK e : toc' = [toc EXCEPT !.tracks = Append(@, e)]
    BY <1>2 DEF Entry, EntryRefused, Parsed
  <2> DEFINE T == TocEntry \cup {e}
             new == Append(old, e)
  <2>2. old \in Seq(TocEntry) /\ toc'.tracks = new
    BY <1>1, <1>2, <2>1 DEF Entry, EntryRefused, Parsed
  <2>3. old \in Seq(T) /\ e \in T
    BY <2>2, SeqMonotonic
  <2> HIDE DEF T
  <2>4. new \in Seq(T)
    BY <2>3, AppendProperties
  <2> HIDE DEF new
  <2>5. Len(new) \in Nat /\ new = [i \in 1..Len(new) |-> new[i]]
    BY <2>4, SeqIsFunction
  <2> QED BY <2>2, <2>5 DEF TableIsSeq
<1>3. CASE GetISRC \/ GetISRCRefused
  <2>1. PICK code : toc' = [toc EXCEPT !.tracks[Len(toc.tracks)].isrc = code]
    BY <1>3 DEF GetISRC, GetISRCRefused, Filed
  <2>2. old \in Seq(TocEntry) /\ pc # "done"
    BY <1>1, <1>3 DEF GetISRC, GetISRCRefused, Filed
  <2>3. Len(old) \in Nat /\ DOMAIN old = 1..Len(old)
    BY <2>2, SeqIsFunction
  <2> DEFINE n == Len(old)
             new == [old EXCEPT ![n] = [@ EXCEPT !.isrc = code]]
  <2>4. toc'.tracks = new
    BY <1>1, <2>1, <2>2
  <2>5. new = [i \in 1..n |-> new[i]]
    BY <2>3
  <2> HIDE DEF new, n
  <2>6. n \in Nat
    BY <2>3 DEF n
  <2> QED BY <2>4, <2>5, <2>6 DEF TableIsSeq
<1>4. CASE GetCdText
  <2> DEFINE new == toc'.tracks
  <2>1. PICK F : F = toc' /\ toc'.tracks = [i \in DOMAIN old |-> toc'.tracks[i]]
    BY <1>4 DEF GetCdText
  <2>2. old \in Seq(TocEntry)
    BY <1>1, <1>4 DEF GetCdText
  <2>3. Len(old) \in Nat /\ DOMAIN old = 1..Len(old)
    BY <2>2, SeqIsFunction
  <2> QED BY <2>1, <2>3 DEF TableIsSeq
<1>5. CASE GetToc \/ HeaderRefused \/ UniversalProductCode \/ GetCdTextRefused \/ Throw
  BY <1>5 DEF TableIsSeq, GetToc, HeaderRefused, UniversalProductCode, GetCdTextRefused, Throw
<1>6. CASE UNCHANGED vars
  BY <1>6 DEF TableIsSeq, vars
<1> QED BY <1>2, <1>3, <1>4, <1>5, <1>6 DEF Next

\* The table of contents as it is on the disc.
OnTheDisc(d) ==
  [i \in 1..Len(d.starts) + 1 |->
     [start |-> IF i <= Len(d.starts) THEN d.starts[i] ELSE d.leadout]]

\* A table that is finished, with every refused packet noticed, starts its tracks
\* where the disc does.
FinishedTable ==
  pc = "done" /\ Noticed =>
    /\ DOMAIN toc.tracks = 1..TrackCount + 1 /\ Len(toc.tracks) = TrackCount + 1
    /\ \A i \in 1..TrackCount + 1 :
         toc.tracks[i].start = IF i <= TrackCount THEN disc.starts[i] ELSE disc.leadout

\* The inductive invariant of GetToc says so.
LEMMA TableIsFinished == IInv /\ TableIsSeq => FinishedTable
<1> SUFFICES ASSUME IInv, TableIsSeq, pc = "done", Noticed
             PROVE  /\ DOMAIN toc.tracks = 1..TrackCount + 1 /\ Len(toc.tracks) = TrackCount + 1
                    /\ \A i \in 1..TrackCount + 1 :
                         toc.tracks[i].start
                           = IF i <= TrackCount THEN disc.starts[i] ELSE disc.leadout
  BY DEF FinishedTable
<1>1. PICK n \in Nat : toc.tracks = [i \in 1..n |-> toc.tracks[i]]
  BY DEF TableIsSeq
<1>2. Len(toc.tracks) = n /\ DOMAIN toc.tracks = 1..n
  <2> DEFINE f == toc.tracks
  <2>1. f = [i \in 1..n |-> f[i]]
    BY <1>1
  <2> HIDE DEF f
  <2>2. Len(f) = n /\ DOMAIN f = 1..n
    BY <2>1, FunctionIsSeq
  <2> QED BY <2>2 DEF f
<1>3. Len(toc.tracks) = TrackCount + 1
  BY DEF IInv, TocIsDisc
<1>4. disc \in Discs
  BY DEF IInv, TypeOK
<1>5. ASSUME NEW i \in 1..TrackCount + 1
      PROVE  toc.tracks[i].start = IF i <= TrackCount THEN disc.starts[i] ELSE disc.leadout
  <2>1. i \in DOMAIN toc.tracks
    BY <1>2, <1>3
  <2>2. <<"entry", TrackAt(i)>> \notin refused
    BY DEF Noticed
  <2>3. toc.tracks[i].start = EntryOf(i).start
    BY <2>1, <2>2 DEF IInv, TocIsDisc, EntryIsDisc
  <2>4. (TrackAt(i) > LastTrack) <=> ~(i <= TrackCount)
    BY <1>4, DiscType DEF TrackAt
  <2> QED BY <2>3, <2>4 DEF EntryOf
<1> QED BY <1>2, <1>3, <1>5

\* Every finished table is.
LEMMA TablesAreFinished == Spec => []FinishedTable
<1>1. Init => TableIsSeq
  <2> SUFFICES ASSUME Init PROVE TableIsSeq
    OBVIOUS
  <2>1. toc.tracks = [i \in 1..0 |-> toc.tracks[i]]
    BY DEF Init, NewToc
  <2> QED BY <2>1 DEF TableIsSeq
<1> QED BY <1>1, NextTableIsSeq, TableIsFinished, InductiveInvariant, PTL DEF Spec

\* The CDDB id is that of the table on the disc: whatever was asked for beside
\* the tracks, and whatever ISRCs were refused.
THEOREM IdIsOfTheDisc ==
  Spec => [](pc = "done" /\ Noticed => CddbQuery(toc.tracks) = CddbQuery(OnTheDisc(disc)))
<1>1. ASSUME FinishedTable, IInv, pc = "done", Noticed
      PROVE  CddbQuery(toc.tracks) = CddbQuery(OnTheDisc(disc))
  <2> DEFINE t == toc.tracks
             u == OnTheDisc(disc)
             n == TrackCount + 1
  <2>1. /\ DOMAIN t = 1..n /\ Len(t) = n
        /\ \A i \in 1..n : t[i].start = IF i <= TrackCount THEN disc.starts[i] ELSE disc.leadout
    BY <1>1 DEF FinishedTable
  <2>2. u = [i \in 1..n |-> [start |-> IF i <= TrackCount THEN disc.starts[i] ELSE disc.leadout]]
    BY DEF OnTheDisc, TrackCount
  <2>3. n \in Nat
    BY <1>1, DiscType DEF IInv, TypeOK
  <2> HIDE DEF u, t, n
  <2>4. u = [i \in 1..n |-> u[i]] /\ \A i \in 1..n : u[i].start = t[i].start
    BY <2>1, <2>2
  <2>5. Len(u) = n /\ DOMAIN u = 1..n
    BY <2>3, <2>4, FunctionIsSeq
  <2>6. [i \in DOMAIN t |-> ToFrame(t[i].start)] = [i \in DOMAIN u |-> ToFrame(u[i].start)]
    BY <2>1, <2>4, <2>5
  <2>7. CddbQuery(t) = CddbQuery(u)
    BY <2>1, <2>5, <2>6 DEF CddbQuery
  <2> QED BY <2>7 DEF t, u
<1> QED BY <1>1, TablesAreFinished, InductiveInvariant, PTL

\* An address says which frame it is of.
LEMMA FrameOfTime == \A lba \in Nat : ToFrame(ToMSF(lba)) = lba
<1> SUFFICES ASSUME NEW lba \in Nat PROVE ToFrame(ToMSF(lba)) = lba
  OBVIOUS
<1> DEFINE s == lba \div 75
           f == lba % 75
<1>1. s \in Nat /\ f \in Nat /\ lba = 75 * s + f
  OBVIOUS
<1>2. lba \div (60 * 75) = s \div 60
  OBVIOUS
<1>3. ToFrame(ToMSF(lba)) = ((lba \div (60 * 75)) * 60 + (s % 60)) * 75 + f
  BY DEF ToFrame, ToMSF
<1> HIDE DEF s, f
<1> DEFINE q == s \div 60
           r == s % 60
<1>4. q \in Nat /\ r \in Nat /\ s = 60 * q + r
  BY <1>1
<1>5. ToFrame(ToMSF(lba)) = (q * 60 + r) * 75 + f
  BY <1>2, <1>3
<1> HIDE DEF q, r
<1> QED BY <1>1, <1>4, <1>5

\* A track table that starts its n tracks at these frame offsets, the last of them
\* the lead-out's.
StartsAt(tracks, o, n) ==
  /\ o \in Seq(Nat) /\ Len(o) = n + 1
  /\ DOMAIN tracks = 1..n + 1 /\ Len(tracks) = n + 1
  /\ \A i \in 1..n + 1 : tracks[i].start = ToMSF(o[i])

\* The id such a table has: f adds the digit sums of the track's seconds up.
HasId(tracks, o, n) ==
  \E f \in [0..n -> Nat] :
    /\ f[0] = 0
    /\ \A k \in 1..n : f[k] = f[k - 1] + sum[o[k] \div 75]
    /\ CddbQuery(tracks) = <<f[n] % 255, o[n + 1] \div 75 - o[1] \div 75, n>>

\* CddbQuery computes, of a table with such offsets, the id that goes with them.
LEMMA IdOfOffsets ==
  ASSUME NEW n \in Nat \ {0}, NEW o, NEW tracks, StartsAt(tracks, o, n)
  PROVE  HasId(tracks, o, n)
<1> USE DEF StartsAt
<1> DEFINE frames == [i \in DOMAIN tracks |-> ToFrame(tracks[i].start)]
           front == SubSeq(o, 1, n)
<1>1. \A i \in 1..n + 1 : o[i] \in Nat
  BY ElementOfSeq
<1>2. frames = o
  <2>1. o = [i \in 1..n + 1 |-> o[i]]
    BY SeqIsFunction
  <2>2. \A i \in 1..n + 1 : ToFrame(tracks[i].start) = o[i]
    BY <1>1, FrameOfTime
  <2> QED BY <2>1, <2>2
<1>3. front \in Seq(Nat) /\ Len(front) = n /\ \A i \in 1..n : front[i] = o[i]
  OBVIOUS
<1>4. CddbQuery(tracks) = <<Checksum(front) % 255, o[n + 1] \div 75 - o[1] \div 75, n>>
  <2>1. Checksummed(frames) = front /\ Last(frames) = o[n + 1] /\ Head(frames) = o[1]
    BY <1>2 DEF Checksummed, Front, Last
  <2> HIDE DEF frames, front
  <2>2. Len(tracks) - 1 = n
    OBVIOUS
  <2> QED BY <2>1, <2>2 DEF CddbQuery, Checksum, frames
<1> HIDE DEF front
<1>5. PICK f \in [0..n -> Nat] :
        /\ f[0] = 0
        /\ \A k \in 1..n : f[k] = f[k - 1] + sum[front[k] \div 75]
        /\ Checksum(front) = f[n]
  BY <1>3, ChecksumSteps
<1>6. \A k \in 1..n : f[k] = f[k - 1] + sum[o[k] \div 75]
  BY <1>3, <1>5
<1> QED BY <1>4, <1>5, <1>6 DEF HasId

\* The id of "Arise": the digit sums of its seconds, added up, and its length.
LEMMA AriseId ==
  ASSUME IInv, FinishedTable, pc = "done", Noticed, disc = Arise
  PROVE  CddbQuery(toc.tracks) = <<28, 666, 3>>
<1> DEFINE o == <<183, 15258, 36715, 50118>>
           t == toc.tracks
<1>1. o \in Seq(Nat) /\ Len(o) = 4
  OBVIOUS
<1>2. /\ DOMAIN t = 1..4 /\ Len(t) = 4
      /\ \A i \in 1..4 : t[i].start = ToMSF(o[i])
  <2>1. disc.starts = [i \in 1..3 |-> ToMSF(o[i])] /\ disc.leadout = ToMSF(o[4])
    BY <1>1 DEF Arise, DiscAt, Last
  <2> HIDE DEF o, t
  <2>2. TrackCount = 3
    <3>1. Len([i \in 1..3 |-> ToMSF(o[i])]) = 3
      OBVIOUS
    <3> QED BY <2>1, <3>1 DEF TrackCount
  <2> QED BY <2>1, <2>2 DEF FinishedTable, t
<1>3. /\ o[1] = 183
      /\ o[2] = 15258
      /\ o[3] = 36715
      /\ o[4] = 50118
  OBVIOUS
<1> HIDE DEF o, t
<1>4. /\ sum[2] = 2
      /\ sum[203] = 5
      /\ sum[489] = 21
  BY FourDigits
<1>5. /\ 183 \div 75 = 2
      /\ 15258 \div 75 = 203
      /\ 36715 \div 75 = 489
      /\ 50118 \div 75 = 668
  OBVIOUS
<1>6. PICK f \in [0..3 -> Nat] :
        /\ f[0] = 0
        /\ \A k \in 1..3 : f[k] = f[k - 1] + sum[o[k] \div 75]
        /\ CddbQuery(t) = <<f[3] % 255, o[4] \div 75 - o[1] \div 75, 3>>
  <2>1. StartsAt(t, o, 3)
    BY <1>1, <1>2 DEF StartsAt
  <2>2. HasId(t, o, 3)
    BY <2>1, IdOfOffsets
  <2> QED BY <2>2 DEF HasId
<1>7. /\ f[1] = f[0] + sum[2]
      /\ f[2] = f[1] + sum[203]
      /\ f[3] = f[2] + sum[489]
  BY <1>3, <1>5, <1>6
<1>8. f[3] = 28
  BY <1>4, <1>6, <1>7
<1> QED BY <1>3, <1>5, <1>6, <1>8 DEF t

\* The id of "Paranoid": the digit sums of its seconds, added up, and its length.
LEMMA ParanoidId ==
  ASSUME IInv, FinishedTable, pc = "done", Noticed, disc = Paranoid
  PROVE  CddbQuery(toc.tracks) = <<133, 2654, 11>>
<1> DEFINE o == <<182, 16997, 33812, 49782, 68322, 83477,
             104247, 123227, 139110, 162512, 180587, 199232>>
           t == toc.tracks
<1>1. o \in Seq(Nat) /\ Len(o) = 12
  OBVIOUS
<1>2. /\ DOMAIN t = 1..12 /\ Len(t) = 12
      /\ \A i \in 1..12 : t[i].start = ToMSF(o[i])
  <2>1. disc.starts = [i \in 1..11 |-> ToMSF(o[i])] /\ disc.leadout = ToMSF(o[12])
    BY <1>1 DEF Paranoid, DiscAt, Last
  <2> HIDE DEF o, t
  <2>2. TrackCount = 11
    <3>1. Len([i \in 1..11 |-> ToMSF(o[i])]) = 11
      OBVIOUS
    <3> QED BY <2>1, <3>1 DEF TrackCount
  <2> QED BY <2>1, <2>2 DEF FinishedTable, t
<1>3. /\ o[1] = 182
      /\ o[2] = 16997
      /\ o[3] = 33812
      /\ o[4] = 49782
      /\ o[5] = 68322
      /\ o[6] = 83477
      /\ o[7] = 104247
      /\ o[8] = 123227
      /\ o[9] = 139110
      /\ o[10] = 162512
      /\ o[11] = 180587
      /\ o[12] = 199232
  OBVIOUS
<1> HIDE DEF o, t
<1>4. /\ sum[2] = 2
      /\ sum[226] = 10
      /\ sum[450] = 9
      /\ sum[663] = 15
      /\ sum[910] = 10
      /\ sum[1113] = 6
      /\ sum[1389] = 21
      /\ sum[1643] = 14
      /\ sum[1854] = 18
      /\ sum[2166] = 15
      /\ sum[2407] = 13
  BY FourDigits
<1>5. /\ 182 \div 75 = 2
      /\ 16997 \div 75 = 226
      /\ 33812 \div 75 = 450
      /\ 49782 \div 75 = 663
      /\ 68322 \div 75 = 910
      /\ 83477 \div 75 = 1113
      /\ 104247 \div 75 = 1389
      /\ 123227 \div 75 = 1643
      /\ 139110 \div 75 = 1854
      /\ 162512 \div 75 = 2166
      /\ 180587 \div 75 = 2407
      /\ 199232 \div 75 = 2656
  OBVIOUS
<1>6. PICK f \in [0..11 -> Nat] :
        /\ f[0] = 0
        /\ \A k \in 1..11 : f[k] = f[k - 1] + sum[o[k] \div 75]
        /\ CddbQuery(t) = <<f[11] % 255, o[12] \div 75 - o[1] \div 75, 11>>
  <2>1. StartsAt(t, o, 11)
    BY <1>1, <1>2 DEF StartsAt
  <2>2. HasId(t, o, 11)
    BY <2>1, IdOfOffsets
  <2> QED BY <2>2 DEF HasId
<1>7. /\ f[1] = f[0] + sum[2]
      /\ f[2] = f[1] + sum[226]
      /\ f[3] = f[2] + sum[450]
      /\ f[4] = f[3] + sum[663]
      /\ f[5] = f[4] + sum[910]
      /\ f[6] = f[5] + sum[1113]
      /\ f[7] = f[6] + sum[1389]
      /\ f[8] = f[7] + sum[1643]
      /\ f[9] = f[8] + sum[1854]
      /\ f[10] = f[9] + sum[2166]
      /\ f[11] = f[10] + sum[2407]
  BY <1>3, <1>5, <1>6
<1>8. f[11] = 133
  BY <1>4, <1>6, <1>7
<1> QED BY <1>3, <1>5, <1>6, <1>8 DEF t

\* The id of "Making Movies": the digit sums of its seconds, added up, and its length.
LEMMA MakingMoviesId ==
  ASSUME IInv, FinishedTable, pc = "done", Noticed, disc = MakingMovies
  PROVE  CddbQuery(toc.tracks) = <<83, 2260, 7>>
<1> DEFINE o == <<183, 36835, 63420, 91830, 114588, 136275, 151233, 169690>>
           t == toc.tracks
<1>1. o \in Seq(Nat) /\ Len(o) = 8
  OBVIOUS
<1>2. /\ DOMAIN t = 1..8 /\ Len(t) = 8
      /\ \A i \in 1..8 : t[i].start = ToMSF(o[i])
  <2>1. disc.starts = [i \in 1..7 |-> ToMSF(o[i])] /\ disc.leadout = ToMSF(o[8])
    BY <1>1 DEF MakingMovies, DiscAt, Last
  <2> HIDE DEF o, t
  <2>2. TrackCount = 7
    <3>1. Len([i \in 1..7 |-> ToMSF(o[i])]) = 7
      OBVIOUS
    <3> QED BY <2>1, <3>1 DEF TrackCount
  <2> QED BY <2>1, <2>2 DEF FinishedTable, t
<1>3. /\ o[1] = 183
      /\ o[2] = 36835
      /\ o[3] = 63420
      /\ o[4] = 91830
      /\ o[5] = 114588
      /\ o[6] = 136275
      /\ o[7] = 151233
      /\ o[8] = 169690
  OBVIOUS
<1> HIDE DEF o, t
<1>4. /\ sum[2] = 2
      /\ sum[491] = 14
      /\ sum[845] = 17
      /\ sum[1224] = 9
      /\ sum[1527] = 15
      /\ sum[1817] = 17
      /\ sum[2016] = 9
  BY FourDigits
<1>5. /\ 183 \div 75 = 2
      /\ 36835 \div 75 = 491
      /\ 63420 \div 75 = 845
      /\ 91830 \div 75 = 1224
      /\ 114588 \div 75 = 1527
      /\ 136275 \div 75 = 1817
      /\ 151233 \div 75 = 2016
      /\ 169690 \div 75 = 2262
  OBVIOUS
<1>6. PICK f \in [0..7 -> Nat] :
        /\ f[0] = 0
        /\ \A k \in 1..7 : f[k] = f[k - 1] + sum[o[k] \div 75]
        /\ CddbQuery(t) = <<f[7] % 255, o[8] \div 75 - o[1] \div 75, 7>>
  <2>1. StartsAt(t, o, 7)
    BY <1>1, <1>2 DEF StartsAt
  <2>2. HasId(t, o, 7)
    BY <2>1, IdOfOffsets
  <2> QED BY <2>2 DEF HasId
<1>7. /\ f[1] = f[0] + sum[2]
      /\ f[2] = f[1] + sum[491]
      /\ f[3] = f[2] + sum[845]
      /\ f[4] = f[3] + sum[1224]
      /\ f[5] = f[4] + sum[1527]
      /\ f[6] = f[5] + sum[1817]
      /\ f[7] = f[6] + sum[2016]
  BY <1>3, <1>5, <1>6
<1>8. f[7] = 83
  BY <1>4, <1>6, <1>7
<1> QED BY <1>3, <1>5, <1>6, <1>8 DEF t

\* The ids of the three discs of "CDDB ID" (src/test/testCddb.cc:23-51) are those
\* the test gives.  Of whatever GetToc has read, not of a table written by hand.
THEOREM IdsOfTheTests == Spec => []IdsAsTested
<1>1. IInv /\ FinishedTable => IdsAsTested
  BY AriseId, ParanoidId, MakingMoviesId DEF IdsAsTested
<1> QED BY <1>1, TablesAreFinished, InductiveInvariant, PTL
=============================================================================
