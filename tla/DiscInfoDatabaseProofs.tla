----------------------- MODULE DiscInfoDatabaseProofs -----------------------
(***************************************************************************)
(* DiscInfoDatabase for any discs, entries and archive: what is found for  *)
(* a disc is the disc's, and what was stored for it is found.              *)
(***************************************************************************)
EXTENDS DiscInfoDatabase, SequenceTheorems, FiniteSetTheorems, TLAPS

-----------------------------------------------------------------------------
\* Hashes.

LEMMA TocType ==
  ASSUME NEW d \in Discs
  PROVE  /\ Tracks[d] \in Seq(Starts) /\ Leadout[d] \in Starts
         /\ HashOfToc(d) \in Seq(Starts)
         /\ Len(HashOfToc(d)) = Len(Tracks[d]) + 1
         /\ \A i \in 1..Len(Tracks[d]) : HashOfToc(d)[i] = Tracks[d][i]
<1>1. Tracks[d] \in Seq(Starts) /\ Leadout[d] \in Starts
  BY DiscInfoAssumption
<1> QED BY <1>1, AppendProperties DEF HashOfToc

LEMMA InfoType ==
  ASSUME NEW di \in Info
  PROVE  /\ di.track \in Seq(Starts) /\ di.leadout \in Starts
         /\ HashOfInfo(di) \in Seq(Starts)
<1>1. di.track \in Seq(Starts) /\ di.leadout \in Starts
  BY DEF Info
<1> QED BY <1>1, AppendProperties DEF HashOfInfo

LEMMA HashOfInfoInjective ==
  ASSUME NEW a \in Info, NEW b \in Info, HashOfInfo(a) = HashOfInfo(b)
  PROVE  a = b
<1>0. /\ a.track \in Seq(Starts) /\ a.leadout \in Starts
      /\ b.track \in Seq(Starts) /\ b.leadout \in Starts
      /\ Append(a.track, a.leadout) = Append(b.track, b.leadout)
  BY InfoType DEF HashOfInfo
<1>. DEFINE s == a.track  e == a.leadout  t == b.track  f == b.leadout
<1>1. s = t /\ e = f
  <2>1. s \in Seq(Starts) /\ e \in Starts /\ t \in Seq(Starts) /\ f \in Starts
    BY <1>0
  <2>2. Append(s, e) = Append(t, f)
    BY <1>0
  <2> HIDE DEF s, e, t, f
  <2> QED BY <2>1, <2>2, AppendInjective
<1>2. \A x \in Info : x = [track |-> x.track, leadout |-> x.leadout]
  BY DEF Info
<1> QED BY <1>1, <1>2

\* An info with the hash of a disc has the disc's tracks and lead-out.
LEMMA HashIsToc ==
  ASSUME NEW d \in Discs, NEW di \in Info
  PROVE  HashOfInfo(di) = HashOfToc(d)
           <=> di.track = Tracks[d] /\ di.leadout = Leadout[d]
<1> DEFINE s == di.track  e == di.leadout  t == Tracks[d]  f == Leadout[d]
<1>1. HashOfInfo(di) = Append(s, e) /\ HashOfToc(d) = Append(t, f)
  BY DEF HashOfInfo, HashOfToc
<1>2. s \in Seq(Starts) /\ e \in Starts /\ t \in Seq(Starts) /\ f \in Starts
  BY InfoType, TocType
<1>3. Append(s, e) = Append(t, f) <=> s = t /\ e = f
  <2> HIDE DEF s, e, t, f
  <2> QED BY <1>2, AppendInjective
<1> QED BY <1>1, <1>3

\* The property that the inductive invariant gives.
LEMMA FiledIsForDisc ==
  ASSUME TypeOK, Filed(m_cache)
  PROVE  TagsAreForDisc
BY HashIsToc DEF TypeOK, Filed, TagsAreForDisc, Has

-----------------------------------------------------------------------------
\* What is stored.

LEMMA CreateDiscInfoType ==
  ASSUME NEW d \in Discs
  PROVE  /\ CreateDiscInfo(d) \in Info
         /\ Len(CreateDiscInfo(d).track) = Len(Tracks[d])
              => HashOfInfo(CreateDiscInfo(d)) = HashOfToc(d)
<1> DEFINE n  == IF Len(Tracks[d]) < LastTrack THEN Len(Tracks[d]) ELSE LastTrack
           tr == SubSeq(Tracks[d], 1, n)
<1>1. /\ Tracks[d] \in Seq(Starts) /\ Leadout[d] \in Starts
      /\ Len(Tracks[d]) \in Nat /\ n \in 0..Len(Tracks[d])
  BY TocType, LenProperties, DiscInfoAssumption
<1>2. \A i \in 1..n : Tracks[d][i] \in Starts
  BY <1>1, ElementOfSeq
<1>3. tr \in Seq(Starts) /\ Len(tr) = n
  <2> HIDE DEF n
  <2> QED BY <1>1, <1>2, SubSeqProperties
<1>4. n = Len(Tracks[d]) => tr = Tracks[d]
  BY <1>1, SubSeqFull
<1>5. CreateDiscInfo(d) = [track |-> tr, leadout |-> Leadout[d]]
  BY DEF CreateDiscInfo
<1> HIDE DEF n, tr
<1>6. CreateDiscInfo(d) \in Info
  BY <1>1, <1>3, <1>5 DEF Info
<1> QED BY <1>1, <1>3, <1>4, <1>5, <1>6, HashIsToc

LEMMA MergedType ==
  ASSUME NEW d \in Discs, NEW track \in Seq(Starts)
  PROVE  /\ Merged(d, track) \in Info
         /\ Len(Merged(d, track).track) = Len(Tracks[d])
              => HashOfInfo(Merged(d, track)) = HashOfToc(d)
<1> DEFINE toc == HashOfToc(d)
           tr  == [t \in DOMAIN track |-> IF t \in DOMAIN toc THEN toc[t] ELSE track[t]]
<1>1. /\ toc \in Seq(Starts) /\ Tracks[d] \in Seq(Starts) /\ Leadout[d] \in Starts
      /\ Len(toc) = Len(Tracks[d]) + 1
      /\ \A i \in 1..Len(Tracks[d]) : toc[i] = Tracks[d][i]
  BY TocType
<1>2. Merged(d, track) = [track |-> tr, leadout |-> Leadout[d]]
  BY DEF Merged
<1> HIDE DEF toc
<1>3. tr \in Seq(Starts) /\ Len(tr) = Len(track) /\ DOMAIN tr = 1..Len(track)
  BY <1>1, LenProperties
<1>4. ASSUME Len(tr) = Len(Tracks[d]) PROVE tr = Tracks[d]
  <2>1. \A i \in 1..Len(tr) : tr[i] = Tracks[d][i]
    BY <1>1, <1>3, <1>4
  <2> HIDE DEF tr
  <2> QED BY <1>1, <1>3, <1>4, <2>1, LenProperties
<1> HIDE DEF tr
<1>5. Merged(d, track) \in Info
  BY <1>1, <1>2, <1>3 DEF Info
<1> QED BY <1>1, <1>2, <1>4, <1>5, HashIsToc

LEMMA ParsedType ==
  ASSUME NEW e \in Entries, NEW track \in ParseXmcd(e)
  PROVE  track \in Seq(Starts)
<1>1. Titles[e] \in Nat /\ track \in [1..Titles[e] -> Starts]
  BY DiscInfoAssumption DEF ParseXmcd
<1> QED BY <1>1

-----------------------------------------------------------------------------
\* The CDDB's answers.

LEMMA AnswersType ==
  ASSUME NEW id, NEW answer \in Answers(id)
  PROVE  answer.ids \in Seq(Entries)
<1> DEFINE exact == {e \in Entries : EntryId[e] = id}
           n == Cardinality(exact)
<1>1. n \in Nat
  BY FS_Subset, FS_CardinalityType, DiscInfoAssumption
<1>2. SetToSeqs(exact) \subseteq [1..n -> exact]
  BY DEF SetToSeqs
<1>3. ASSUME NEW s \in [1..n -> exact] PROVE s \in Seq(Entries)
  <2>1. s \in [1..n -> Entries]
    BY DEF exact
  <2> HIDE DEF n
  <2> QED BY <1>1, <2>1
<1>4. \/ answer.ids = << >>
      \/ \E e \in Entries : answer.ids = <<e>>
      \/ answer.ids \in SetToSeqs(exact)
  BY DEF Answers
<1> HIDE DEF exact
<1>5. \A e \in Entries : <<e>> \in Seq(Entries)
  OBVIOUS
<1>6. << >> \in Seq(Entries)
  OBVIOUS
<1>7. \A s \in SetToSeqs(exact) : s \in Seq(Entries)
  BY <1>2, <1>3
<1> QED BY ONLY <1>4, <1>5, <1>6, <1>7, Zenon

LEMMA RememberedType ==
  ASSUME TypeOK, NEW id, NEW answer \in Answers(id)
  PROVE  LET q == Remembered(m_queries, answer)
         IN  /\ DOMAIN q \subseteq Ids
             /\ \A i \in DOMAIN q : q[i] \in Entries /\ EntryId[q[i]] = i
<1>1. answer.ids \in Seq(Entries)
  BY AnswersType
<1>2. answer.code \in {SingleMatch, ExactMatches} => answer.ids # << >>
  <2> DEFINE exact == {e \in Entries : EntryId[e] = id}
             perms == {s \in SetToSeqs(exact) : s # << >>}
  <2>1. \A s \in perms : s # << >>
    OBVIOUS
  <2>2. answer \in {[code |-> 202, ids |-> << >>]}
                  \cup {[code |-> SingleMatch, ids |-> <<e>>] : e \in exact}
                  \cup {[code |-> ExactMatches, ids |-> p] : p \in perms}
                  \cup {[code |-> InexactMatches, ids |-> <<e>>] : e \in Entries}
    BY DEF Answers
  <2> HIDE DEF perms, exact
  <2>3. CASE answer = [code |-> 202, ids |-> << >>]
    BY <2>3 DEF SingleMatch, ExactMatches
  <2>4. CASE \E e : answer.ids = <<e>>
    BY <2>4
  <2>5. CASE \E p \in perms : answer = [code |-> ExactMatches, ids |-> p]
    BY <2>1, <2>5
  <2> QED BY <2>2, <2>3, <2>4, <2>5
<1> DEFINE e == Last(answer.ids)
<1>3. answer.ids # << >> => e \in Entries /\ EntryId[e] \in Ids
  BY <1>1, DiscInfoAssumption DEF Last
<1> HIDE DEF e
<1>4. CASE answer.code \in {SingleMatch, ExactMatches}
  <2>1. Remembered(m_queries, answer) = Put(m_queries, EntryId[e], e)
    BY <1>4 DEF Remembered, e
  <2> QED BY <1>2, <1>3, <1>4, <2>1 DEF Put, TypeOK
<1>5. CASE answer.code \notin {SingleMatch, ExactMatches}
  BY <1>5 DEF Remembered, TypeOK
<1> QED BY <1>4, <1>5

-----------------------------------------------------------------------------
\* The steps.

\* m_cache[hash] = di replaces nothing but by itself.
LEMMA PutFiled ==
  ASSUME Filed(m_cache), \A h \in DOMAIN m_cache : m_cache[h] \in Info,
         NEW di \in Info, NEW cache, cache = Put(m_cache, HashOfInfo(di), di)
  PROVE  /\ DOMAIN cache = DOMAIN m_cache \cup {HashOfInfo(di)}
         /\ \A h \in DOMAIN m_cache : cache[h] = m_cache[h]
         /\ cache[HashOfInfo(di)] = di
         /\ Filed(cache)
<1>1. /\ DOMAIN cache = DOMAIN m_cache \cup {HashOfInfo(di)}
      /\ cache[HashOfInfo(di)] = di
      /\ \A h \in DOMAIN m_cache : h # HashOfInfo(di) => cache[h] = m_cache[h]
  BY DEF Put
<1>2. HashOfInfo(di) \in DOMAIN m_cache => m_cache[HashOfInfo(di)] = di
  BY HashOfInfoInjective DEF Filed
<1>3. \A h \in DOMAIN m_cache : cache[h] = m_cache[h]
  BY <1>1, <1>2
<1>4. Filed(cache)
  BY <1>1, <1>3 DEF Filed
<1> QED BY <1>1, <1>3, <1>4

LEMMA StoredKeepsIInv ==
  ASSUME IInv, NEW d \in Discs, NEW di \in Info, Stored(d, di),
         Len(di.track) = Len(Tracks[d]) => HashOfInfo(di) = HashOfToc(d),
         archive' \subseteq Entries,
         UNCHANGED <<m_queries, m_infos, m_localPath, crashes>>
  PROVE  IInv'
<1> USE DEF IInv
<1>1. m_cache' = Put(m_cache, HashOfInfo(di), di)
  BY DEF Stored, StoredUnder
<1>2. /\ DOMAIN m_cache' = DOMAIN m_cache \cup {HashOfInfo(di)}
      /\ \A h \in DOMAIN m_cache : m_cache'[h] = m_cache[h]
      /\ m_cache'[HashOfInfo(di)] = di
      /\ Filed(m_cache')
  <2>1. /\ Filed(m_cache)
        /\ \A h \in DOMAIN m_cache : m_cache[h] \in Info
    BY DEF TypeOK
  <2> DEFINE cache == m_cache'
  <2>2. cache = Put(m_cache, HashOfInfo(di), di)
    BY <1>1
  <2> HIDE DEF cache
  <2>3. /\ DOMAIN cache = DOMAIN m_cache \cup {HashOfInfo(di)}
        /\ \A h \in DOMAIN m_cache : cache[h] = m_cache[h]
        /\ cache[HashOfInfo(di)] = di
        /\ Filed(cache)
    BY <2>1, <2>2, PutFiled
  <2> QED BY <2>3 DEF cache, Filed
<1>3. /\ file'.cache = file.cache
      /\ \/ file'.state = "torn" /\ pc' = "save"
         \/ file' = file /\ pc' = "idle"
      /\ saved' = saved /\ asked' = << >>
  BY DEF Stored
<1>4. known' = IF Len(di.track) = Len(Tracks[d]) THEN known \cup {d} ELSE known
  BY DEF Stored
<1>5. \A h \in DOMAIN m_cache' : h \in Seq(Starts) /\ m_cache'[h] \in Info
  BY <1>2, InfoType DEF TypeOK
<1>6. TypeOK'
  BY <1>3, <1>4, <1>5 DEF TypeOK
<1>7. KnownIsFound'
  BY <1>2, <1>4 DEF KnownIsFound, Has
<1>8. FileIsInMemory'
  BY <1>2, <1>3 DEF FileIsInMemory
<1>9. Filed(file.cache)'
  BY <1>3 DEF Filed
<1>10. file'.state = "whole" => \A c \in saved' : HashOfToc(c) \in DOMAIN file'.cache
  BY <1>3
<1> QED BY <1>2, <1>6, <1>7, <1>8, <1>9, <1>10 DEF Filed

LEMMA InitIInv == Init => IInv
<1> SUFFICES ASSUME Init PROVE IInv
  OBVIOUS
<1>1. m_cache = << >> /\ file.cache = << >> /\ file.state = "absent"
  BY DEF Init
<1>2. m_queries \in LoadDatabase(archive) /\ archive \in SUBSET Entries
  BY DEF Init
<1>3. TypeOK
  <2>1. DOMAIN m_queries \subseteq Ids
    BY <1>2, DiscInfoAssumption DEF LoadDatabase
  <2>2. \A id \in DOMAIN m_queries : m_queries[id] \in Entries /\ EntryId[m_queries[id]] = id
    BY <1>2 DEF LoadDatabase
  <2> QED BY <1>1, <2>1, <2>2, DiscInfoAssumption DEF Init, TypeOK
<1> QED BY <1>1, <1>3 DEF Init, IInv, Filed, KnownIsFound, FileIsInMemory

LEMMA NextIInv == IInv /\ [Next]_vars => IInv'
<1> SUFFICES ASSUME IInv, [Next]_vars PROVE IInv'
  OBVIOUS
<1>0. TypeOK
  BY DEF IInv
<1>1. ASSUME NEW d \in Discs, Store(d) PROVE IInv'
  BY <1>1, <1>0, CreateDiscInfoType, StoredKeepsIInv DEF Store, cddb, TypeOK
<1>2. ASSUME NEW d \in Discs, NEW answer \in Answers(DiscId[d]), Query(d, answer)
      PROVE  IInv'
  <2> DEFINE local == IF DiscId[d] \in DOMAIN m_queries
                      THEN <<m_queries[DiscId[d]]>> ELSE << >>
             ids   == local \o answer.ids
  <2>1. answer.ids \in Seq(Entries) /\ local \in Seq(Entries)
    BY <1>0, AnswersType DEF TypeOK
  <2>2. ids # << >> => ids[1] \in Entries
    <3> HIDE DEF local
    <3> QED BY <2>1
  <2>3. \/ UNCHANGED <<pc, asked>>
        \/ ids # << >> /\ pc' = "read" /\ asked' = <<d, ids[1]>>
    BY <1>2 DEF Query
  <2>4. UNCHANGED <<m_cache, file, m_infos, archive, m_localPath, known, saved, crashes>>
        /\ m_queries' = Remembered(m_queries, answer)
    BY <1>2 DEF Query
  <2>5. /\ DOMAIN m_queries' \subseteq Ids
        /\ \A i \in DOMAIN m_queries' : m_queries'[i] \in Entries /\ EntryId[m_queries'[i]] = i
    BY <1>0, <2>4, RememberedType
  <2> HIDE DEF ids
  <2>6. TypeOK'
    BY <1>0, <2>2, <2>3, <2>4, <2>5 DEF TypeOK
  <2> QED BY <2>4, <2>6 DEF IInv, Filed, KnownIsFound, FileIsInMemory, Has
<1>3. ASSUME ReadLocal PROVE IInv'
  <2>1. asked[1] \in Discs /\ asked[2] \in Entries
    BY <1>0, <1>3 DEF TypeOK, ReadLocal
  <2>2. PICK track \in ParseXmcd(asked[2]) : Stored(asked[1], Merged(asked[1], track))
    BY <1>3 DEF ReadLocal
  <2>3. track \in Seq(Starts)
    BY <2>1, <2>2, ParsedType
  <2> QED BY <1>0, <1>3, <2>1, <2>2, <2>3, MergedType, StoredKeepsIInv DEF ReadLocal, cddb, TypeOK
<1>4. ASSUME NEW code \in {210, 401}, ReadRemote(code) PROVE IInv'
  <2>1. asked[1] \in Discs /\ asked[2] \in Entries
    BY <1>0, <1>4 DEF TypeOK, ReadRemote
  <2>2. PICK track \in IF code = 210 THEN ParseXmcd(asked[2]) ELSE {<< >>} :
           Stored(asked[1], Merged(asked[1], track))
    BY <1>4 DEF ReadRemote
  <2>3. track \in Seq(Starts)
    <3>1. << >> \in Seq(Starts)
      OBVIOUS
    <3>2. CASE code = 210
      BY <2>1, <2>2, <3>2, ParsedType
    <3>3. CASE code # 210
      BY <2>2, <3>1, <3>3
    <3> QED BY <3>2, <3>3
  <2>4. archive' \subseteq Entries
    BY <1>0, <1>4, <2>1 DEF ReadRemote, TypeOK
  <2> QED BY <1>4, <2>1, <2>2, <2>3, <2>4, MergedType, StoredKeepsIInv DEF ReadRemote
<1>5. CASE ReadThrows
  BY <1>5 DEF ReadThrows, cddb, IInv, TypeOK, Filed, KnownIsFound, FileIsInMemory, Has
<1>6. CASE SaveEnd
  <2>1. /\ file'.state = "whole" /\ file'.cache = m_cache /\ saved' = known /\ pc' = "idle"
        /\ UNCHANGED <<m_cache, cddb, asked, known, crashes>>
    BY <1>6 DEF SaveEnd
  <2>2. pc = "save"
    BY <1>6 DEF SaveEnd
  <2>3. TypeOK'
    BY <1>0, <2>1, <2>2 DEF TypeOK, cddb
  <2> QED BY <2>1, <2>3 DEF IInv, Filed, KnownIsFound, FileIsInMemory, Has
<1>7. CASE SaveThrows
  <2>1. /\ file'.state = "torn" /\ file'.cache = m_cache /\ pc' = "idle"
        /\ UNCHANGED <<m_cache, cddb, asked, known, saved, crashes>>
    BY <1>7 DEF SaveThrows
  <2>2. pc = "save"
    BY <1>7 DEF SaveThrows
  <2>3. TypeOK'
    BY <1>0, <2>1, <2>2 DEF TypeOK, cddb
  <2> QED BY <2>1, <2>3 DEF IInv, Filed, KnownIsFound, FileIsInMemory, Has
<1>8. ASSUME NEW cache \in Loaded, Restart(cache) PROVE IInv'
  <2>1. /\ m_cache' = cache /\ m_infos' = archive /\ m_queries' \in LoadDatabase(archive)
        /\ pc' = "idle" /\ asked' = << >> /\ crashes' = crashes + 1 /\ crashes < MaxCrash
        /\ UNCHANGED <<archive, m_localPath, saved>>
    BY <1>8 DEF Restart
  <2>2. \A h \in DOMAIN cache : \/ h \in DOMAIN m_cache /\ cache[h] = m_cache[h]
                                \/ h \in DOMAIN file.cache /\ cache[h] = file.cache[h]
    BY <1>0 DEF Loaded, OnDisk, Restrict, TypeOK
  <2>3. /\ \A h \in DOMAIN cache : cache[h] \in Info /\ h \in Seq(Starts)
        /\ Filed(cache)
    <3>1. \A h \in DOMAIN cache : cache[h] \in Info /\ h = HashOfInfo(cache[h])
      BY <1>0, <2>2 DEF IInv, TypeOK, Filed
    <3> QED BY <3>1, InfoType DEF Filed
  <2>4. /\ DOMAIN m_queries' \subseteq Ids
        /\ \A i \in DOMAIN m_queries' : m_queries'[i] \in Entries /\ EntryId[m_queries'[i]] = i
    BY <1>0, <2>1, DiscInfoAssumption DEF LoadDatabase, TypeOK
  <2>5. /\ file.state = "torn" => file'.state = "torn" /\ file'.cache = cache
        /\ file.state # "torn" => file' = file
    BY <1>8 DEF Restart
  <2>6. /\ file.state = "whole" => known' = saved
        /\ file.state # "whole" => known' = {d \in known : HashOfToc(d) \in DOMAIN cache}
    BY <1>8 DEF Restart
  <2>7. file.state = "whole" => cache = file.cache
    BY DEF Loaded
  <2>8. TypeOK'
    <3>1. crashes' \in 0..MaxCrash
      BY <1>0, <2>1, DiscInfoAssumption DEF TypeOK
    <3>2. known' \subseteq Discs
      BY <1>0, <2>6 DEF TypeOK
    <3>3. \A h \in DOMAIN file'.cache : file'.cache[h] \in Info
      BY <1>0, <2>3, <2>5 DEF TypeOK
    <3> QED BY <1>0, <2>1, <2>3, <2>4, <2>5, <3>1, <3>2, <3>3 DEF TypeOK
  <2>9. KnownIsFound'
    BY <2>1, <2>6, <2>7 DEF IInv, KnownIsFound, Has
  <2>10. FileIsInMemory'
    BY <2>1, <2>5, <2>7 DEF FileIsInMemory
  <2>11. Filed(m_cache)' /\ Filed(file.cache)'
    BY <2>1, <2>3, <2>5 DEF IInv, Filed
  <2>12. file'.state = "whole" => \A d \in saved' : HashOfToc(d) \in DOMAIN file'.cache
    BY <2>1, <2>5 DEF IInv
  <2> QED BY <2>8, <2>9, <2>10, <2>11, <2>12 DEF IInv
<1>9. CASE UNCHANGED vars
  BY <1>9 DEF vars, cddb, IInv, TypeOK, Filed, KnownIsFound, FileIsInMemory, Has
<1> QED BY <1>1, <1>2, <1>3, <1>4, <1>5, <1>6, <1>7, <1>8, <1>9 DEF Next

\* The inductive invariant holds, whatever discs, entries, files and failures.
THEOREM InductiveInvariant == Spec => []IInv
BY InitIInv, NextIInv, PTL DEF Spec

\* Type correctness.
THEOREM TypeCorrect == Spec => []TypeOK
<1>1. IInv => TypeOK
  BY DEF IInv
<1> QED BY <1>1, InductiveInvariant, PTL

\* The info found for a disc has exactly its tracks and its lead-out.
THEOREM TagsAreForTheDisc == Spec => []TagsAreForDisc
<1>1. IInv => TagsAreForDisc
  BY FiledIsForDisc DEF IInv
<1> QED BY <1>1, InductiveInvariant, PTL

\* What was stored with the right number of tracks is found again, after a
\* restart too.
THEOREM StoredIsFound == Spec => []KnownIsFound
<1>1. IInv => KnownIsFound
  BY DEF IInv
<1> QED BY <1>1, InductiveInvariant, PTL

\* What a file that was written to its end has of a disc is in memory.
THEOREM FileIsKept == Spec => []FileIsInMemory
<1>1. IInv => FileIsInMemory
  BY DEF IInv
<1> QED BY <1>1, InductiveInvariant, PTL
=============================================================================
