--------------------------- MODULE DiscInfoDatabase ---------------------------
(***************************************************************************)
(* Where the tags of a disc come from: DiscInfoDatabase, which caches them *)
(* in memory and in a file, and Cddb, which asks a local archive of xmcd   *)
(* files and a remote server.  An answer of the server is merged with the  *)
(* table of contents of the disc and stored under the hash of the result;  *)
(* it is looked up under the hash of the table of contents.                *)
(*                                                                         *)
(* Abstractions: boost::hash is injective, so a hash is the sequence of    *)
(* positions that goes into it; a CDDB disc id is not and may collide.  An *)
(* entry of the CDDB is a value for its category, id and title, with the   *)
(* track frame offsets and the number of titles in its xmcd file.          *)
(* The .xml copy of the cache is written and never read.                   *)
(***************************************************************************)
EXTENDS Integers, Sequences, FiniteSets, SequencesExt

CONSTANTS
  Discs,     \* the discs, each with its table of contents
  Starts,    \* positions on a disc (MSF)
  Tracks,    \* per disc the starts of its tracks
  Leadout,   \* per disc the start of the lead-out
  WithText,  \* the discs with CD-TEXT
  LastTrack, \* CreateDiscInfo takes the tracks up to this one (98)
  Ids,       \* CDDB disc ids
  DiscId,    \* per disc its CddbQuery::disc_id
  Entries,   \* the entries of the CDDB
  EntryId,   \* per entry its id
  Offsets,   \* per entry the positions of its "# Track frame offsets"
  Titles,    \* per entry the number of its TTITLE lines
  MaxCrash   \* bound: how often the process dies

ASSUME DiscInfoAssumption ==
  /\ Tracks \in [Discs -> Seq(Starts)] /\ Leadout \in [Discs -> Starts]
  /\ WithText \subseteq Discs /\ LastTrack \in Nat
  /\ DiscId \in [Discs -> Ids]
  /\ IsFiniteSet(Entries) /\ EntryId \in [Entries -> Ids]
  /\ Offsets \in [Entries -> Seq(Starts)] /\ Titles \in [Entries -> Nat]
  /\ MaxCrash \in Nat

VARIABLES
  m_cache,     \* the cached infos, a function of their hashes
  file,        \* cddb2.cache.bin
  m_queries,   \* Cddb: the entry for a disc id
  m_infos,     \* Cddb: the entries parsed from local files
  archive,     \* the files below m_localPath
  m_localPath, \* there is a directory xmcd
  pc,          \* "idle", "read" in GetDiscById, "save" in Save
  asked,       \* the argument of Query and ids.front(), while it reads that
  known,       \* history: the discs stored with the right number of tracks
  saved,       \* history: known, when the file was last written
  crashes      \* counter of the bound

cddb == <<m_queries, m_infos, archive, m_localPath>>
vars == <<m_cache, file, cddb, pc, asked, known, saved, crashes>>

Info == [track : Seq(Starts), leadout : Starts]

-----------------------------------------------------------------------------
\* Mutated forms, used only to show that the properties depend on the code.

\* The lead-out is left out of the hash of a DiscInfo.
HashOfInfo_NoLeadout(di) == di.track

\* The archive is opened for reading and nothing is read.
Loaded_Nothing == {<< >>}

\* An entry of the CDDB is stored for the disc it was asked for.
StoredUnder_Asked(d, di) == Append(Tracks[d], Leadout[d])

-----------------------------------------------------------------------------
\* hash_value(Toc): the starts of all tracks, the lead-out among them;
\* hash_value(DiscInfo): the starts of the tracks and the lead-out.
HashOfToc(d)   == Append(Tracks[d], Leadout[d])
HashOfInfo(di) == Append(di.track, di.leadout)

TypeOK ==
  /\ \A h \in DOMAIN m_cache : h \in Seq(Starts) /\ m_cache[h] \in Info
  /\ file.state \in {"absent", "torn", "whole"}
  /\ \A h \in DOMAIN file.cache : file.cache[h] \in Info
  /\ DOMAIN m_queries \subseteq Ids
  /\ \A id \in DOMAIN m_queries : m_queries[id] \in Entries /\ EntryId[m_queries[id]] = id
  /\ m_infos \subseteq Entries /\ archive \subseteq Entries
  /\ m_localPath \in BOOLEAN
  /\ pc \in {"idle", "read", "save"}
  /\ asked \in IF pc = "read" THEN Discs \X Entries ELSE {<< >>}
  /\ saved \subseteq Discs /\ known \subseteq Discs
  /\ crashes \in 0..MaxCrash

\* map[k] = v.
Put(f, k, v) == [x \in DOMAIN f \cup {k} |-> IF x = k THEN v ELSE f[x]]

\* Cddb::LoadDatabase, what it may leave in m_queries: of several files with
\* the same id the last one wins, in whatever order the directory has.
LoadDatabase(files) ==
  {q \in [{EntryId[e] : e \in files} -> files] : \A id \in DOMAIN q : EntryId[q[id]] = id}

Init ==
  /\ m_cache = << >>
  /\ file = [state |-> "absent", cache |-> << >>]
  /\ m_localPath \in BOOLEAN
  /\ archive \in SUBSET Entries /\ (archive # {} => m_localPath)
  /\ m_infos = archive
  /\ m_queries \in LoadDatabase(archive)
  /\ pc = "idle"
  /\ asked = << >>
  /\ known = {} /\ saved = {}
  /\ crashes = 0

-----------------------------------------------------------------------------
Has(d) == HashOfToc(d) \in DOMAIN m_cache

\* The key of m_cache[...] = di.
StoredUnder(d, di) == HashOfInfo(di)

\* m_cache[hash] = di, and Save() opens its file, or cannot and gives up
\* without a word.
Stored(d, di) ==
  /\ m_cache' = Put(m_cache, StoredUnder(d, di), di)
  /\ known' = IF Len(di.track) = Len(Tracks[d]) THEN known \cup {d} ELSE known
  /\ \/ /\ file' = [state |-> "torn", cache |-> file.cache]
        /\ pc' = "save"
     \/ UNCHANGED file /\ pc' = "idle"
  /\ asked' = << >>
  /\ UNCHANGED saved

\* CreateDiscInfo: "Don't store the leadout".
CreateDiscInfo(d) ==
  [track   |-> SubSeq(Tracks[d], 1, IF Len(Tracks[d]) < LastTrack
                                    THEN Len(Tracks[d]) ELSE LastTrack),
   leadout |-> Leadout[d]]

\* Grabber::GetInfo prefers the CD-TEXT of the disc.
Store(d) ==
  /\ pc = "idle"
  /\ ~Has(d)
  /\ d \in WithText
  /\ Stored(d, CreateDiscInfo(d))
  /\ UNCHANGED <<cddb, crashes>>

\* What the server can say: one or several entries with the id, or others
\* that look alike.
SingleMatch == 200
ExactMatches == 210
InexactMatches == 211

Answers(id) ==
  LET exact == {e \in Entries : EntryId[e] = id}
  IN  {[code |-> 202, ids |-> << >>]}
      \cup {[code |-> SingleMatch, ids |-> <<e>>] : e \in exact}
      \cup {[code |-> ExactMatches, ids |-> p] :
              p \in {s \in SetToSeqs(exact) : s # << >>}}
      \cup {[code |-> InexactMatches, ids |-> <<e>>] : e \in Entries}

\* Mutated: remembered under the entry instead of its id.
Remembered_ByEntry(q, answer) ==
  IF answer.ids = << >> THEN q ELSE Put(q, Last(answer.ids), Last(answer.ids))

\* m_queries after an answer: all but inexact matches are remembered.
Remembered(q, answer) ==
  IF answer.code \notin {SingleMatch, ExactMatches} THEN q
  ELSE Put(q, EntryId[Last(answer.ids)], Last(answer.ids))

\* Cddb::Query: "Local first", "Then remote, appended".  Without a network it
\* throws, local entry or not, and changes nothing.
Query(d, answer) ==
  /\ pc = "idle"
  /\ ~Has(d)
  /\ answer \in Answers(DiscId[d])
  /\ LET local == IF DiscId[d] \in DOMAIN m_queries
                  THEN <<m_queries[DiscId[d]]>> ELSE << >>
         ids   == local \o answer.ids
     IN  IF ids = << >>
         THEN UNCHANGED <<pc, asked>>
         ELSE pc' = "read" /\ asked' = <<d, ids[1]>>
  /\ m_queries' = Remembered(m_queries, answer)
  /\ UNCHANGED <<m_cache, file, m_infos, archive, m_localPath, known, saved, crashes>>

\* "Merge toc and cddb data": entry track t is at toc.tracks[t], of which the
\* last one is the lead-out.
Merged(d, track) ==
  [track   |-> [t \in DOMAIN track |->
                  IF t \in DOMAIN HashOfToc(d) THEN HashOfToc(d)[t] ELSE track[t]],
   leadout |-> Leadout[d]]

\* The tracks of an xmcd file: a title without an offset leaves its start
\* uninitialised.
ParseXmcd(e) ==
  {track \in [1..Titles[e] -> Starts] :
     \A n \in 1..Titles[e] : n <= Len(Offsets[e]) => track[n] = Offsets[e][n]}

\* GetDiscById finds the entry in m_infos.
ReadLocal ==
  /\ pc = "read"
  /\ asked[2] \in m_infos
  /\ \E track \in ParseXmcd(asked[2]) : Stored(asked[1], Merged(asked[1], track))
  /\ UNCHANGED <<cddb, crashes>>

\* The server sends it (210), and it is added to the archive, or does not
\* have it: then there is nothing to parse.
ReadRemote(code) ==
  /\ pc = "read"
  /\ asked[2] \notin m_infos
  /\ \E track \in IF code = 210 THEN ParseXmcd(asked[2]) ELSE {<< >>} :
        Stored(asked[1], Merged(asked[1], track))
  /\ archive' = IF m_localPath /\ code = 210 THEN archive \cup {asked[2]} ELSE archive
  /\ UNCHANGED <<m_queries, m_infos, m_localPath, crashes>>

ReadThrows ==
  /\ pc = "read"
  /\ asked[2] \notin m_infos
  /\ pc' = "idle" /\ asked' = << >>
  /\ UNCHANGED <<m_cache, file, cddb, known, saved, crashes>>

SaveEnd ==
  /\ pc = "save"
  /\ file' = [state |-> "whole", cache |-> m_cache]
  /\ saved' = known
  /\ pc' = "idle"
  /\ UNCHANGED <<m_cache, cddb, asked, known, crashes>>

\* The exception of a failed write is swallowed; some of it is in the file.
SaveThrows ==
  /\ pc = "save"
  /\ file' = [state |-> "torn", cache |-> m_cache]
  /\ pc' = "idle"
  /\ UNCHANGED <<m_cache, cddb, asked, known, saved, crashes>>

\* What is, or is being, written to the file.
OnDisk == IF pc = "save" THEN m_cache ELSE file.cache

\* What the constructor may leave in m_cache: a torn file is read as far as it
\* goes, and the exception is swallowed.
Loaded ==
  CASE file.state = "absent" -> {<< >>}
    [] file.state = "whole"  -> {file.cache}
    [] file.state = "torn"   -> {Restrict(OnDisk, S) : S \in SUBSET DOMAIN OnDisk}

\* The process ends, in Save or not, and a new one starts.
Restart(cache) ==
  /\ crashes < MaxCrash
  /\ crashes' = crashes + 1
  /\ file' = IF file.state = "torn" THEN [state |-> "torn", cache |-> cache] ELSE file
  /\ m_cache' = cache
  /\ m_infos' = archive
  /\ m_queries' \in LoadDatabase(archive)
  /\ known' = IF file.state = "whole" THEN saved
              ELSE {d \in known : HashOfToc(d) \in DOMAIN cache}
  /\ pc' = "idle" /\ asked' = << >>
  /\ UNCHANGED <<archive, m_localPath, saved>>

Next ==
  \/ \E d \in Discs : \/ Store(d)
                      \/ \E answer \in Answers(DiscId[d]) : Query(d, answer)
  \/ ReadLocal \/ ReadThrows
  \/ \E code \in {210, 401} : ReadRemote(code)
  \/ SaveEnd \/ SaveThrows
  \/ \E cache \in Loaded : Restart(cache)

Spec == Init /\ [][Next]_vars

-----------------------------------------------------------------------------
(***************************************************************************)
(* Properties.                                                             *)
(***************************************************************************)

\* What is found for a disc has the tracks of that disc, each at its place,
\* whatever entry the server offered: one of another disc included.
TagsAreForDisc ==
  \A d \in Discs : Has(d) =>
    /\ m_cache[HashOfToc(d)].track = Tracks[d]
    /\ m_cache[HashOfToc(d)].leadout = Leadout[d]

\* What was stored for a disc with the right number of tracks is found for
\* that disc, also by the next process if a Save after it was not cut short.
KnownIsFound == \A d \in known : Has(d)

\* Everything in a whole file is also in memory: the Save that truncates it
\* for one more disc loses none of the others.
FileIsInMemory == file.state = "whole" => \A h \in DOMAIN file.cache :
                    h \in DOMAIN m_cache /\ m_cache[h] = file.cache[h]

\* The inductive invariant: an info is filed under its own hash, and a whole
\* file has what was known when it was written.
Filed(cache) == \A h \in DOMAIN cache : h = HashOfInfo(cache[h])

IInv ==
  /\ TypeOK
  /\ Filed(m_cache) /\ Filed(file.cache)
  /\ KnownIsFound
  /\ FileIsInMemory
  /\ file.state = "whole" => \A d \in saved : HashOfToc(d) \in DOMAIN file.cache

\* assert(hash == hash2 && "Lookup won't work if hashes don't match")
\* (DiscInfoDatabase.cc:256).  Violated: an entry with another number of
\* tracks is stored where it is not found, so is one that could not be read.
LookupWorks == [][m_cache' # m_cache /\ pc = "read" => HashOfToc(asked[1]) \in DOMAIN m_cache']_vars
=============================================================================
