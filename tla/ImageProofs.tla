----------------------------- MODULE ImageProofs ------------------------------
(***************************************************************************)
(* The image of Encoder is in order for every size of db, chunk and yield  *)
(* distance, wherever the encoding is cancelled.  And of every image Nero  *)
(* writes, with any sessions, tracks and texts, nrg2dts extracts the audio *)
(* of every track.                                                         *)
(***************************************************************************)
EXTENDS Encoder, Nrg, SequenceFolds

-----------------------------------------------------------------------------
(***************************************************************************)
(* Encoder.                                                                *)
(***************************************************************************)

Content == Nat \cup {Junk}

\* Reading n sectors fills the first n places of the buffer.
LEMMA ReadAudioType ==
  ASSUME NEW from \in Nat, NEW n \in Nat, NEW b \in [1..ChunkFrames -> Content]
  PROVE  /\ ReadAudio(from, n, b) \in [1..ChunkFrames -> Content]
         /\ ReadAudio(from, n, b) \in Seq(Content)
         /\ Len(ReadAudio(from, n, b)) = ChunkFrames
         /\ \A k \in 1..ChunkFrames :
               k <= n => ReadAudio(from, n, b)[k] = from + k - 1
<1> DEFINE new == ReadAudio(from, n, b)
<1>1. ChunkFrames \in Nat
  BY EncoderAssumption
<1>2. new = [k \in 1..ChunkFrames |-> IF k <= n THEN from + k - 1 ELSE b[k]]
  BY DEF ReadAudio
<1>3. \A k \in 1..ChunkFrames : (IF k <= n THEN from + k - 1 ELSE b[k]) \in Content
  BY DEF Content
<1> QED BY <1>1, <1>2, <1>3

LEMMA ConcatType ==
  ASSUME NEW S, NEW s \in Seq(S), NEW t \in Seq(S)
  PROVE  /\ s \o t \in Seq(S)
         /\ Len(s \o t) = Len(s) + Len(t)
         /\ \A k \in DOMAIN s : (s \o t)[k] = s[k]
         /\ \A k \in 1..(Len(s) + Len(t)) :
               Len(s) < k => (s \o t)[k] = t[k - Len(s)]
OBVIOUS

\* One process(lba, nrFrames) when the image ends where the read begins.
LEMMA ProcessExtends ==
  ASSUME TypeOK, ImageInOrder, Len(image) = lba, lba < lbasize,
         NEW n \in Nat, Process(n), lba + n <= lbasize, n <= ChunkFrames,
         n = ChunkFrames \/ lba + n = lbasize, UNCHANGED lbasize
  PROVE  /\ buf' \in [1..ChunkFrames -> Content]
         /\ image' \in Seq(Content)
         /\ Len(image') = lba + ChunkFrames
         /\ ImageInOrder'
<1>1. /\ ChunkFrames \in Nat \ {0} /\ lbasize \in Nat /\ lba \in Nat
      /\ buf \in [1..ChunkFrames -> Content]
      /\ image \in Seq(Content)
  BY EncoderAssumption DEF TypeOK, Content
<1>2. /\ buf' \in [1..ChunkFrames -> Content]
      /\ buf' \in Seq(Content)
      /\ Len(buf') = ChunkFrames
      /\ \A k \in 1..ChunkFrames : k <= n => buf'[k] = lba + k - 1
  BY <1>1, ReadAudioType DEF Process
<1>3. image' = image \o buf'
  BY DEF Process, Appended
<1>4. image' \in Seq(Content) /\ Len(image') = lba + ChunkFrames
  BY <1>1, <1>2, <1>3, ConcatType
<1>5. ASSUME NEW k \in DOMAIN image', k <= lbasize PROVE image'[k] = k - 1
  <2>1. k \in 1..(lba + ChunkFrames)
    BY <1>4
  <2>2. CASE k <= lba
    <3>1. k \in DOMAIN image /\ image'[k] = image[k]
      BY <1>1, <1>2, <1>3, <2>1, <2>2, ConcatType
    <3> QED BY <1>5, <3>1 DEF ImageInOrder
  <2>3. CASE lba < k
    <3>1. /\ image'[k] = buf'[k - lba]
          /\ k - lba \in 1..ChunkFrames
      BY <1>1, <1>2, <1>3, <2>1, <2>3, ConcatType
    <3>2. k - lba <= n
      BY <1>1, <1>5, <2>1, <2>3
    <3>3. buf'[k - lba] = lba + (k - lba) - 1
      BY <1>2, <3>1, <3>2
    <3> QED BY <1>1, <2>1, <3>1, <3>3
  <2> QED BY <1>1, <2>1, <2>2, <2>3
<1>6. ImageInOrder'
  BY <1>5 DEF ImageInOrder
<1> QED BY <1>2, <1>4, <1>6

LEMMA InitIInv == Init => IInv
<1> SUFFICES ASSUME Init PROVE IInv
  OBVIOUS
<1>1. lbasize \in Nat \ {0}
  BY EncoderAssumption DEF Init
<1>2. TypeOK
  <2>1. buf \in [1..ChunkFrames -> Content] /\ image \in Seq(Content)
    BY DEF Init, Content
  <2> QED BY <2>1 DEF Init, TypeOK, Content
<1> QED BY <1>1, <1>2 DEF Init, IInv, ImageInOrder, DoneIsWhole

LEMMA NextIInv == IInv /\ [Next]_vars => IInv'
<1> SUFFICES ASSUME IInv, [Next]_vars PROVE IInv'
  OBVIOUS
<1>1. /\ TypeOK /\ ImageInOrder /\ DoneIsWhole
      /\ pc \in {"loop", "yield"} => Len(image) = lba /\ lba < lbasize
      /\ ChunkFrames \in Nat \ {0} /\ lbasize \in Nat /\ lba \in Nat
  BY EncoderAssumption DEF IInv, TypeOK
<1>2. CASE Chunk
  <2>1. /\ lba < lbasize - ChunkFrames
        /\ Process(ChunkFrames)
        /\ lba' = lba + ChunkFrames
        /\ pc' \in {"loop", "yield"}
        /\ lbasize' = lbasize /\ m_cancelled' = m_cancelled
        /\ pc = "loop"
    BY <1>2 DEF Chunk, HasFullChunk, Advanced
  <2>2. /\ buf' \in [1..ChunkFrames -> Content]
        /\ image' \in Seq(Content)
        /\ Len(image') = lba + ChunkFrames
        /\ ImageInOrder'
    BY <1>1, <2>1, ProcessExtends
  <2>3. TypeOK'
    BY <1>1, <2>1, <2>2 DEF TypeOK, Content
  <2> QED BY <1>1, <2>1, <2>2, <2>3 DEF IInv, DoneIsWhole
<1>3. CASE RunOut
  <2>1. /\ ~(lba < lbasize - ChunkFrames)
        /\ Process(lbasize - lba)
        /\ lba' = lba
        /\ pc' \in {"lastYield", "done"}
        /\ lbasize' = lbasize /\ m_cancelled' = m_cancelled
        /\ pc = "loop"
    BY <1>3 DEF RunOut, HasFullChunk
  <2>2. /\ lbasize - lba \in Nat
        /\ lbasize - lba <= ChunkFrames
        /\ lba + (lbasize - lba) = lbasize
    BY <1>1, <2>1
  <2>3. /\ buf' \in [1..ChunkFrames -> Content]
        /\ image' \in Seq(Content)
        /\ Len(image') = lba + ChunkFrames
        /\ ImageInOrder'
    BY <1>1, <2>1, <2>2, ProcessExtends
  <2>4. TypeOK'
    BY <1>1, <2>1, <2>3 DEF TypeOK, Content
  <2> QED BY <1>1, <2>1, <2>3, <2>4 DEF IInv, DoneIsWhole
<1>4. CASE Stop
  BY <1>1, <1>4 DEF Stop, IInv, TypeOK, ImageInOrder, DoneIsWhole
<1>5. CASE Cancel
  BY <1>1, <1>5 DEF Cancel, IInv, TypeOK, ImageInOrder, DoneIsWhole
<1>6. CASE Resume
  BY <1>1, <1>6 DEF Resume, IInv, TypeOK, ImageInOrder, DoneIsWhole
<1>7. CASE UNCHANGED vars
  BY <1>1, <1>7 DEF vars, IInv, TypeOK, ImageInOrder, DoneIsWhole
<1> QED BY <1>2, <1>3, <1>4, <1>5, <1>6, <1>7 DEF Next, Step

\* Type correctness and the exact position of the image after every chunk.
THEOREM InductiveInvariant == Spec => []IInv
<1>1. Init => IInv
  BY InitIInv
<1>2. IInv /\ [Next]_vars => IInv'
  BY NextIInv
<1> QED BY <1>1, <1>2, PTL DEF Spec

\* Whatever the sizes, no sector of the db is skipped, doubled or out of
\* order in the image.
THEOREM ImageIsInOrder == Spec => []ImageInOrder
<1>1. IInv => ImageInOrder
  BY DEF IInv
<1> QED BY <1>1, InductiveInvariant, PTL

\* Whatever the sizes, a finished image has the whole db and less than one
\* buffer after it.
THEOREM DoneIsWholeDb == Spec => []DoneIsWhole
<1>1. IInv => DoneIsWhole
  BY DEF IInv
<1> QED BY <1>1, InductiveInvariant, PTL

\* Nothing is encoded after Cancel.
THEOREM CancelStops == Spec => NothingAfterCancel
<1>1. [Next]_vars => [m_cancelled => image' = image]_vars
  BY DEF Next, Step, Chunk, RunOut, Stop, Cancel, Resume, GoesOn, vars
<1> QED BY <1>1, PTL DEF Spec, NothingAfterCancel

-----------------------------------------------------------------------------
(***************************************************************************)
(* The image Nero writes: where its chunks are.                            *)
(***************************************************************************)

\* Bytes, chunk by chunk.
LEMMA BytesSteps ==
  ASSUME NEW T, NEW chunks \in Seq(T), \A c \in T : c.size \in Nat
  PROVE  \E f \in [0..Len(chunks) -> Nat] :
           /\ f[0] = 0
           /\ \A k \in 1..Len(chunks) : f[k] = f[k - 1] + 8 + chunks[k].size
           /\ Bytes(chunks) = f[Len(chunks)]
<1> DEFINE n == Len(chunks)
           D == DOMAIN chunks
           step == [p \in (1..n) \X Nat |-> p[2] + 8 + chunks[p[1]].size]
           Rec(g) == g = [s \in SUBSET D |->
                            IF s = {} THEN 0
                            ELSE g[s \ {Max(s)}] + 8 + chunks[Max(s)].size]
           iter == CHOOSE g : Rec(g)
<1>1. n \in Nat /\ D = 1..n /\ \A k \in 1..n : chunks[k].size \in Nat
  BY LenProperties
<1>0. n = Len(chunks)
  OBVIOUS
<1>2. Bytes(chunks) = iter[D]
  BY DEF Bytes, FoldLeft, MapThenFoldSet
<1> HIDE DEF n, D
<1>3. \A k \in 1..n : \A v \in Nat : step[<<k, v>>] \in Nat
  BY <1>1
<1>4. PICK g \in [SUBSET (1..n) -> Nat] : \A s \in SUBSET (1..n) :
        g[s] = IF s = {} THEN 0 ELSE step[<<Max(s), g[s \ {Max(s)}]>>]
  <2> HIDE DEF step
  <2>1. Stepping(n, Nat, 0, step)
    BY <1>1, <1>3 DEF Stepping
  <2>2. PICK g : Folding(g, n, Nat, 0, step)
    BY <2>1, FoldExists
  <2> QED BY <2>2 DEF Folding
<1>5. Rec(g)
  <2>1. ASSUME NEW s \in SUBSET (1..n), s # {}
        PROVE  step[<<Max(s), g[s \ {Max(s)}]>>] = g[s \ {Max(s)}] + 8 + chunks[Max(s)].size
    <3>1. Max(s) \in 1..n
      BY <1>1, <2>1, Greatest
    <3>2. g[s \ {Max(s)}] \in Nat
      BY <1>4
    <3> QED BY <3>1, <3>2
  <2> HIDE DEF step
  <2>2. \A s \in SUBSET (1..n) :
          g[s] = IF s = {} THEN 0 ELSE g[s \ {Max(s)}] + 8 + chunks[Max(s)].size
    BY <1>4, <2>1
  <2> QED BY <1>1, <2>2
<1>6. Rec(iter)
  <2> HIDE DEF Rec
  <2> QED BY <1>5
<1> HIDE DEF iter
<1>7. iter[{}] = 0
  BY <1>6
<1>8. ASSUME NEW k \in 1..n PROVE iter[1..k] = iter[1..k - 1] + 8 + chunks[k].size
  <2>1. Max(1..k) = k /\ (1..k) \ {k} = 1..k - 1
    <3>1. n \in Nat
      BY <1>1
    <3> QED BY <3>1, Greatest
  <2>2. 1..k \in SUBSET D /\ 1..k # {}
    <3>1. D = 1..n /\ n \in Nat
      BY <1>1
    <3>2. 1..k \subseteq 1..n /\ k \in 1..k
      BY <3>1
    <3> QED BY <3>1, <3>2
  <2>3. iter[1..k] = iter[(1..k) \ {Max(1..k)}] + 8 + chunks[Max(1..k)].size
    BY <1>6, <2>2
  <2> QED BY <2>1, <2>3
<1> DEFINE f == [k \in 0..n |-> iter[1..k]]
           F == {k \in 0..n : iter[1..k] \in Nat}
<1>9. f[0] = 0 /\ iter[1..0] = 0
  <2>1. 1..0 = {} /\ 0 \in 0..n
    BY <1>1
  <2> QED BY <1>7, <2>1
<1>10. f \in [0..n -> Nat]
  <2>1. 0 \in F
    BY <1>1, <1>9
  <2>2. ASSUME NEW k \in 0..n - 1, k \in F PROVE k + 1 \in F
    <3>1. k + 1 \in 1..n /\ (k + 1) - 1 = k /\ k + 1 \in 0..n
      BY <1>1
    <3>2. iter[1..k + 1] = iter[1..k] + 8 + chunks[k + 1].size
      BY <1>8, <3>1
    <3>3. iter[1..k] + 8 + chunks[k + 1].size \in Nat
      BY <1>1, <2>2, <3>1
    <3> QED BY <3>1, <3>2, <3>3
  <2> HIDE DEF F
  <2>3. \A k \in 0..n : k \in F
    BY <1>1, <2>1, <2>2, CountUp
  <2> QED BY <2>3 DEF F
<1>11. ASSUME NEW k \in 1..n PROVE f[k] = f[k - 1] + 8 + chunks[k].size
  <2>1. k \in 0..n /\ k - 1 \in 0..n
    BY <1>1
  <2> QED BY <1>8, <2>1
<1>12. Bytes(chunks) = f[n]
  BY <1>1, <1>2
<1> HIDE DEF f
<1> QED BY <1>0, <1>9, <1>10, <1>11, <1>12

\* Where the chunks are.
BeginOf(chunks, j) == Bytes(SubSeq(chunks, 1, j - 1))

LEMMA BytesParts ==
  ASSUME NEW T, NEW chunks \in Seq(T), \A c \in T : c.size \in Nat
  PROVE  /\ BeginOf(chunks, 1) = 0
         /\ BeginOf(chunks, Len(chunks) + 1) = Bytes(chunks)
         /\ \A j \in 1..Len(chunks) + 1 : BeginOf(chunks, j) \in Nat
         /\ \A j \in 1..Len(chunks) :
              BeginOf(chunks, j + 1) = BeginOf(chunks, j) + 8 + chunks[j].size
         /\ \A j \in 1..Len(chunks) + 1 : \A i \in 1..j - 1 :
              BeginOf(chunks, i) + 8 <= BeginOf(chunks, j)
<1> DEFINE n == Len(chunks)
<1>1. n \in Nat /\ DOMAIN chunks = 1..n /\ \A i \in 1..n : chunks[i] \in T /\ chunks[i].size \in Nat
  BY LenProperties
<1>2. PICK f \in [0..n -> Nat] : /\ f[0] = 0
                                 /\ \A k \in 1..n : f[k] = f[k - 1] + 8 + chunks[k].size
                                 /\ Bytes(chunks) = f[n]
  BY BytesSteps
<1>3. ASSUME NEW k \in 0..n PROVE Bytes(SubSeq(chunks, 1, k)) = f[k]
  <2> DEFINE sub == SubSeq(chunks, 1, k)
  <2>1. sub \in Seq(T) /\ Len(sub) = k /\ \A i \in 1..k : sub[i] = chunks[i]
    <3>1. k \in Int /\ \A i \in 1..k : chunks[i] \in T
      BY <1>1
    <3>3. /\ sub \in Seq(T) /\ Len(sub) = IF 1 <= k THEN k - 1 + 1 ELSE 0
          /\ \A i \in 1..k - 1 + 1 : sub[i] = chunks[1 + i - 1]
      BY <3>1, SubSeqProperties
    <3>4. Len(sub) = k /\ \A i \in 1..k : sub[i] = chunks[i]
      BY <1>1, <3>3
    <3> QED BY <3>3, <3>4
  <2> HIDE DEF sub
  <2>2. PICK g \in [0..Len(sub) -> Nat] :
          /\ g[0] = 0
          /\ \A m \in 1..Len(sub) : g[m] = g[m - 1] + 8 + sub[m].size
          /\ Bytes(sub) = g[Len(sub)]
    BY <2>1, BytesSteps
  <2> DEFINE F == {m \in 0..k : g[m] = f[m]}
  <2>3. k \in Nat /\ 0 \in F
    BY <1>1, <1>2, <2>2
  <2>4. ASSUME NEW m \in 0..k - 1, m \in F PROVE m + 1 \in F
    <3> DEFINE l == m + 1
    <3>1. l \in 1..k /\ l \in 1..n /\ l - 1 = m /\ l \in 0..k
      BY <1>1
    <3> HIDE DEF l
    <3>2. g[l] = g[m] + 8 + sub[l].size /\ f[l] = f[m] + 8 + chunks[l].size /\ sub[l] = chunks[l]
      BY <1>2, <2>1, <2>2, <3>1
    <3> QED BY <2>4, <3>1, <3>2 DEF l
  <2> HIDE DEF F
  <2>5. \A m \in 0..k : m \in F
    BY <2>3, <2>4, CountUp
  <2>6. g[k] = f[k]
    BY <2>3, <2>5 DEF F
  <2>7. Bytes(sub) = f[k]
    <3>1. Len(sub) = k
      BY <2>1
    <3>2. Bytes(sub) = g[Len(sub)]
      BY <2>2
    <3> QED BY <2>6, <3>1, <3>2
  <2> QED BY <2>7 DEF sub
<1> HIDE DEF n
<1>4. ASSUME NEW j \in 1..n + 1 PROVE BeginOf(chunks, j) = f[j - 1] /\ f[j - 1] \in Nat /\ j - 1 \in 0..n
  <2>1. j - 1 \in 0..n
    BY <1>1
  <2> QED BY <1>2, <1>3, <2>1 DEF BeginOf
<1>5. ASSUME NEW j \in 1..n PROVE BeginOf(chunks, j + 1) = BeginOf(chunks, j) + 8 + chunks[j].size
  <2>1. j \in 1..n + 1 /\ j + 1 \in 1..n + 1 /\ (j + 1) - 1 = j
    BY <1>1
  <2> QED BY <1>2, <1>4, <2>1
<1>6. BeginOf(chunks, 1) = 0 /\ BeginOf(chunks, n + 1) = Bytes(chunks)
  <2>1. 1 \in 1..n + 1 /\ n + 1 \in 1..n + 1 /\ (n + 1) - 1 = n /\ 1 - 1 = 0
    BY <1>1
  <2> QED BY <1>2, <1>4, <2>1
<1> DEFINE b == [j \in 1..n + 1 |-> BeginOf(chunks, j)]
<1>7. b \in [1..n + 1 -> Nat] /\ \A j \in 1..n : b[j + 1] >= b[j] + 8
  <2>1. b \in [1..n + 1 -> Nat]
    BY <1>4
  <2>2. ASSUME NEW j \in 1..n PROVE b[j + 1] >= b[j] + 8
    <3>1. j \in 1..n + 1 /\ j + 1 \in 1..n + 1 /\ chunks[j].size \in Nat
      BY <1>1
    <3>2. b[j + 1] = b[j] + 8 + chunks[j].size /\ b[j] \in Nat
      BY <1>5, <2>1, <3>1
    <3> QED BY <3>1, <3>2
  <2> QED BY <2>1, <2>2
<1>8. \A j \in 1..n + 1 : b[j] = BeginOf(chunks, j)
  OBVIOUS
<1> HIDE DEF b
<1> DEFINE F == {k \in 0..n : \A i \in 1..k : b[i] + 8 <= b[k + 1]}
<1>9. 0 \in F
  BY <1>1
<1>10. ASSUME NEW k \in 0..n - 1, k \in F PROVE k + 1 \in F
  <2>1. k + 1 \in 0..n /\ k + 1 \in 1..n /\ k + 1 \in 1..n + 1 /\ (k + 1) + 1 \in 1..n + 1
    BY <1>1
  <2>2. ASSUME NEW i \in 1..k + 1 PROVE b[i] + 8 <= b[(k + 1) + 1]
    <3>3. i \in 1..n + 1
      BY <1>1
    <3>4. b[(k + 1) + 1] >= b[k + 1] + 8
      BY <1>7, <2>1
    <3>1. /\ i \in 1..n + 1 /\ b[i] \in Nat /\ b[k + 1] \in Nat /\ b[(k + 1) + 1] \in Nat
          /\ b[(k + 1) + 1] >= b[k + 1] + 8
      BY <1>7, <2>1, <3>3, <3>4
    <3>2. i = k + 1 \/ b[i] + 8 <= b[k + 1]
      BY <1>1, <1>10
    <3> QED BY <3>1, <3>2
  <2> QED BY <2>1, <2>2
<1> HIDE DEF F
<1>11. \A k \in 0..n : k \in F
  BY <1>1, <1>9, <1>10, CountUp
<1>12. ASSUME NEW j \in 1..n + 1, NEW i \in 1..j - 1
       PROVE  BeginOf(chunks, i) + 8 <= BeginOf(chunks, j)
  <2>1. j - 1 \in 0..n /\ (j - 1) + 1 = j /\ i \in 1..n + 1
    BY <1>1
  <2>2. b[i] + 8 <= b[(j - 1) + 1]
    BY <1>11, <2>1 DEF F
  <2> QED BY <1>8, <2>1, <2>2
<1> QED BY <1>4, <1>5, <1>6, <1>12 DEF n

-----------------------------------------------------------------------------
(***************************************************************************)
(* Its tracks and their audio.                                             *)
(***************************************************************************)

\* What is written: the images of NrgInit.
Discs == [version : Versions, layout : Layouts, packs : Packs]

\* The sequences that are written one after the other, by the sums before each.
LEMMA BeforeParts ==
  ASSUME NEW T, NEW seqs \in Seq(Seq(T))
  PROVE  /\ FlattenSeq(seqs) \in Seq(T) /\ Len(seqs) \in Nat
         /\ Before(seqs, 1) = 0 /\ Before(seqs, Len(seqs) + 1) = Len(FlattenSeq(seqs))
         /\ \A k \in 1..Len(seqs) + 1 : Before(seqs, k) \in Nat
         /\ \A k \in 1..Len(seqs) :
              /\ seqs[k] \in Seq(T) /\ Len(seqs[k]) \in Nat
              /\ Before(seqs, k + 1) = Before(seqs, k) + Len(seqs[k])
              /\ \A r \in 1..Len(seqs[k]) :
                   /\ Before(seqs, k) + r \in 1..Len(FlattenSeq(seqs))
                   /\ FlattenSeq(seqs)[Before(seqs, k) + r] = seqs[k][r]
<1> DEFINE n == Len(seqs)
<1>1. n \in Nat /\ \A i \in 1..n : seqs[i] \in Seq(T) /\ Len(seqs[i]) \in Nat
  BY LenProperties
<1>2. \A k : Before(seqs, k) = Upto(seqs, k - 1)
  BY DEF Before, Upto
<1>3. Before(seqs, 1) = 0
  <2>1. 1 - 1 = 0
    OBVIOUS
  <2> QED BY <1>2, <2>1, FlattenedParts
<1>4. \A k \in 1..n + 1 : Before(seqs, k) \in Nat
  <2>1. \A k \in 1..n + 1 : k - 1 \in 0..n
    BY <1>1
  <2> QED BY <1>2, <2>1, FlattenedParts
<1>5. \A k \in 0..n : Before(seqs, k + 1) = Upto(seqs, k)
  <2>1. \A k \in 0..n : (k + 1) - 1 = k
    BY <1>1
  <2> QED BY <1>2, <2>1
<1>6. Before(seqs, n + 1) = Len(FlattenSeq(seqs))
  <2>1. n \in 0..n
    BY <1>1
  <2> QED BY <1>5, <2>1, FlattenedParts
<1>7. \A k \in 1..n : Before(seqs, k + 1) = Before(seqs, k) + Len(seqs[k])
  <2>1. \A k \in 1..n : k \in 0..n
    BY <1>1
  <2>2. \A k \in 1..n : Upto(seqs, k) = Upto(seqs, k - 1) + Len(seqs[k])
    BY FlattenedParts
  <2>3. \A k \in 1..n : Before(seqs, k + 1) = Upto(seqs, k)
    BY <1>5, <2>1
  <2> QED BY <1>2, <2>2, <2>3
<1>8. ASSUME NEW k \in 1..n, NEW r \in 1..Len(seqs[k])
      PROVE  /\ Before(seqs, k) + r \in 1..Len(FlattenSeq(seqs))
             /\ FlattenSeq(seqs)[Before(seqs, k) + r] = seqs[k][r]
  <2>1. /\ Upto(seqs, k - 1) + r \in 1..Len(FlattenSeq(seqs))
        /\ FlattenSeq(seqs)[Upto(seqs, k - 1) + r] = seqs[k][r]
    BY FlattenedParts
  <2> QED BY <1>2, <2>1
<1> QED BY <1>1, <1>3, <1>4, <1>6, <1>7, <1>8, FlattenedParts

-----------------------------------------------------------------------------
\* The tracks are those of the sessions, one session after the other.
LEMMA DiscShape ==
  ASSUME NEW d \in Discs
  PROVE  /\ d.version \in {"NER5", "NERO", "none"} /\ d.packs \in Nat
         /\ d.layout \in Seq(Seq(Nat)) /\ d.layout # << >>
         /\ Len(d.layout) \in Nat \ {0} /\ DOMAIN d.layout = 1..Len(d.layout)
         /\ \A s \in 1..Len(d.layout) : /\ d.layout[s] \in Seq(Nat)
                                        /\ Len(d.layout[s]) \in Nat
                                        /\ DOMAIN d.layout[s] = 1..Len(d.layout[s])
         /\ AllTracks(d) \in Seq(Nat)
<1>1. d.version \in Versions /\ d.layout \in Layouts /\ d.packs \in Packs
  BY DEF Discs
<1>2. d.layout \in Seq(Seq(Nat)) /\ d.layout # << >>
  BY <1>1, NrgAssumption
<1>3. Len(d.layout) \in Nat \ {0} /\ DOMAIN d.layout = 1..Len(d.layout)
  BY <1>2, LenProperties, EmptySeq
<1>4. \A s \in 1..Len(d.layout) : d.layout[s] \in Seq(Nat)
  BY <1>2, ElementOfSeq
<1>5. AllTracks(d) \in Seq(Nat)
  BY <1>2, BeforeParts DEF AllTracks
<1> QED BY <1>1, <1>2, <1>3, <1>4, <1>5, NrgAssumption, LenProperties

\* What main cuts out of the blocks at DaoTrack is the track's audio.
LEMMA AudioPlaced ==
  ASSUME NEW d \in Discs, NEW t \in 1..Len(AllTracks(d))
  PROVE  SubSeq(Blocks(d), DaoTrack(d, t).index1 + 1, DaoTrack(d, t).indexEnd) = Audio(d, t)
<1> DEFINE T == Nat \X Nat
           n == Len(AllTracks(d))
           tb == TrackBlocks(d)
           bl == FlattenSeq(tb)
<1>1. n \in Nat /\ DOMAIN AllTracks(d) = 1..n /\ \A k \in 1..n : AllTracks(d)[k] \in Nat
  BY DiscShape, LenProperties
<1>2. ASSUME NEW k \in 1..n
      PROVE  /\ tb[k] \in Seq(T)
             /\ Len(tb[k]) = 1 + AllTracks(d)[k]
             /\ \A b \in 1..AllTracks(d)[k] : tb[k][b + 1] = <<k, b>>
  <2> DEFINE a == AllTracks(d)[k]
             pre == << <<k, 0>> >>
             au == [b \in 1..a |-> <<k, b>>]
  <2>1. k \in Nat /\ a \in Nat
    BY <1>1
  <2>2. pre \in Seq(T) /\ Len(pre) = 1
    BY <2>1
  <2>3. au \in Seq(T) /\ Len(au) = a
    <3> HIDE DEF a
    <3>1. \A b \in 1..a : <<k, b>> \in T
      BY <2>1
    <3> QED BY <2>1, <3>1
  <2>4. tb[k] = pre \o au
    BY <1>1 DEF TrackBlocks, Audio
  <2>5. \A b \in 1..a : au[b] = <<k, b>>
    OBVIOUS
  <2> HIDE DEF T, pre, au, a, tb
  <2> DEFINE joined == pre \o au
  <2>8. /\ joined \in Seq(T) /\ Len(joined) = Len(pre) + Len(au)
        /\ \A i \in 1..Len(pre) + Len(au) :
             joined[i] = IF i <= Len(pre) THEN pre[i] ELSE au[i - Len(pre)]
    BY <2>2, <2>3, ConcatProperties
  <2> HIDE DEF joined
  <2>6. tb[k] \in Seq(T) /\ Len(tb[k]) = 1 + a
    BY <2>2, <2>3, <2>4, <2>8 DEF joined
  <2>7. ASSUME NEW b \in 1..a PROVE tb[k][b + 1] = <<k, b>>
    <3>1. b + 1 \in 1..Len(pre) + Len(au) /\ ~(b + 1 <= Len(pre)) /\ (b + 1) - Len(pre) = b
      BY <2>1, <2>2, <2>3
    <3>2. joined[b + 1] = au[b]
      BY <2>8, <3>1
    <3> QED BY <2>4, <2>5, <3>2 DEF joined
  <2> QED BY <2>6, <2>7 DEF a
<1>3. tb \in Seq(Seq(T)) /\ Len(tb) = n
  <2>1. DOMAIN tb = 1..n /\ tb = [k \in 1..n |-> tb[k]]
    BY <1>1 DEF TrackBlocks
  <2> HIDE DEF tb, n
  <2>2. tb \in [1..n -> Seq(T)]
    BY <1>2, <2>1
  <2> QED BY <1>1, <2>1, <2>2
<1> HIDE DEF T, n
<1> DEFINE g == Before(tb, t)
           a == AllTracks(d)[t]
<1>4. t \in 1..n
  BY DEF n
<1>5. a \in Nat /\ g \in Nat
  <2>1. t \in 1..Len(tb) + 1
    BY <1>1, <1>3, <1>4
  <2> QED BY <1>1, <1>3, <1>4, <2>1, BeforeParts
<1>6. \A b \in 1..a : bl[g + 1 + b] = <<t, b>>
  <2> HIDE DEF tb
  <2> SUFFICES ASSUME NEW b \in 1..a PROVE bl[g + 1 + b] = <<t, b>>
    OBVIOUS
  <2>1. b + 1 \in 1..Len(tb[t]) /\ t \in 1..Len(tb)
    BY <1>2, <1>3, <1>4, <1>5
  <2> DEFINE r == b + 1
  <2>2. bl[g + (b + 1)] = tb[t][b + 1]
    <3>1. r \in 1..Len(tb[t])
      BY <2>1
    <3> HIDE DEF r
    <3>2. bl[g + r] = tb[t][r]
      BY <1>3, <2>1, <3>1, BeforeParts
    <3> QED BY <3>2 DEF r
  <2>3. tb[t][b + 1] = <<t, b>>
    BY <1>2, <1>4
  <2>4. g + (b + 1) = g + 1 + b
    BY <1>5
  <2> QED BY <2>2, <2>3, <2>4
<1>7. /\ Blocks(d) = bl /\ Audio(d, t) = [b \in 1..a |-> <<t, b>>]
      /\ DaoTrack(d, t).index1 + 1 = g + 2 /\ DaoTrack(d, t).indexEnd = g + 1 + a
  BY <1>5 DEF Blocks, Audio, DaoTrack, Begin
<1> HIDE DEF g, a, bl, tb
<1>8. SubSeq(bl, g + 2, g + 1 + a) = [b \in 1..a |-> <<t, b>>]
  <2> DEFINE lo == g + 2
             hi == g + 1 + a
             s == SubSeq(bl, lo, hi)
             u == [b \in 1..a |-> <<t, b>>]
  <2>1. \A i \in g + 2..g + 1 + a : bl[i] \in T
    <3> SUFFICES ASSUME NEW i \in g + 2..g + 1 + a PROVE bl[i] \in T
      OBVIOUS
    <3>1. i - g - 1 \in 1..a /\ g + 1 + (i - g - 1) = i /\ i - g - 1 \in Nat /\ t \in Nat
      BY <1>1, <1>4, <1>5
    <3>2. bl[i] = <<t, i - g - 1>>
      BY <1>6, <3>1
    <3> QED BY <3>1, <3>2 DEF T
  <2>2. lo \in Int /\ hi \in Int
    BY <1>5
  <2>3. /\ s \in Seq(T)
        /\ Len(s) = IF lo <= hi THEN hi - lo + 1 ELSE 0
        /\ \A i \in 1..hi - lo + 1 : s[i] = bl[lo + i - 1]
    <3> HIDE DEF lo, hi
    <3>1. \A i \in lo..hi : bl[i] \in T
      BY <2>1 DEF lo, hi
    <3> QED BY <2>2, <3>1, SubSeqProperties
  <2> HIDE DEF s
  <2>4. Len(s) = a /\ \A i \in 1..a : s[i] = bl[g + 1 + i]
    <3>1. g + 1 + a - (g + 2) + 1 = a /\ \A i \in 1..a : g + 2 + i - 1 = g + 1 + i
      BY <1>5
    <3>2. Len(s) = a
      BY <1>5, <2>3
    <3> QED BY <2>3, <3>1, <3>2
  <2>5. u \in Seq(T) /\ Len(u) = a
    <3>1. \A b \in 1..a : <<t, b>> \in T
      BY <1>1, <1>4, <1>5 DEF T
    <3> QED BY <1>5, <3>1
  <2>6. \A i \in 1..Len(s) : s[i] = u[i]
    BY <1>6, <2>4
  <2> HIDE DEF u
  <2>7. s = u
    BY <2>3, <2>4, <2>5, <2>6, SeqEqual
  <2> QED BY <2>7 DEF s, u, lo, hi
<1> QED BY <1>7, <1>8

-----------------------------------------------------------------------------
(***************************************************************************)
(* Its chunks, session by session.                                         *)
(***************************************************************************)

\* Tuples put together.
LEMMA Tuples ==
  ASSUME NEW a, NEW b, NEW c, NEW e
  PROVE  /\ <<a, b>> \o << >> \o <<c>> = <<a, b, c>>
         /\ <<a, b>> \o <<c>> \o <<e>> = <<a, b, c, e>>
<1> DEFINE T == {a, b, c, e}
           ab == <<a, b>>
           abc == <<a, b, c>>
<1>1. ab \in Seq(T) /\ <<c>> \in Seq(T) /\ <<e>> \in Seq(T)
  OBVIOUS
<1>2. ab \o << >> = ab
  <2> HIDE DEF ab, T
  <2> QED BY <1>1, ConcatEmptySeq
<1> DEFINE cs == <<c>>
           es == <<e>>
           abce == <<a, b, c, e>>
<1>3. /\ ab \in Seq(T) /\ cs \in Seq(T) /\ es \in Seq(T) /\ abc \in Seq(T) /\ abce \in Seq(T)
      /\ Len(ab) = 2 /\ Len(cs) = 1 /\ Len(es) = 1 /\ Len(abc) = 3 /\ Len(abce) = 4
      /\ ab[1] = a /\ ab[2] = b /\ cs[1] = c /\ es[1] = e
      /\ abc[1] = a /\ abc[2] = b /\ abc[3] = c
      /\ abce[1] = a /\ abce[2] = b /\ abce[3] = c /\ abce[4] = e
  OBVIOUS
<1>4. ab \o cs = abc
  <2> DEFINE j == ab \o cs
  <2> HIDE DEF ab, cs, abc, T, es, abce
  <2>1. /\ j \in Seq(T) /\ Len(j) = Len(ab) + Len(cs)
        /\ \A i \in 1..Len(ab) + Len(cs) : j[i] = IF i <= Len(ab) THEN ab[i] ELSE cs[i - Len(ab)]
    BY <1>3, ConcatProperties
  <2> HIDE DEF j
  <2>2. Len(j) = 3 /\ j[1] = a /\ j[2] = b /\ j[3] = c
    BY <1>3, <2>1
  <2>3. \A i \in 1..Len(j) : j[i] = abc[i]
    BY <1>3, <2>2
  <2>4. j = abc
    BY <1>3, <2>1, <2>2, <2>3, SeqEqual
  <2> QED BY <2>4 DEF j
<1>5. abc \o es = abce
  <2> DEFINE j == abc \o es
  <2> HIDE DEF ab, cs, abc, T, es, abce
  <2>1. /\ j \in Seq(T) /\ Len(j) = Len(abc) + Len(es)
        /\ \A i \in 1..Len(abc) + Len(es) : j[i] = IF i <= Len(abc) THEN abc[i] ELSE es[i - Len(abc)]
    BY <1>3, ConcatProperties
  <2> HIDE DEF j
  <2>2. Len(j) = 4 /\ j[1] = a /\ j[2] = b /\ j[3] = c /\ j[4] = e
    BY <1>3, <2>1
  <2>3. \A i \in 1..Len(j) : j[i] = abce[i]
    BY <1>3, <2>2
  <2>4. j = abce
    BY <1>3, <2>1, <2>2, <2>3, SeqEqual
  <2> QED BY <2>4 DEF j
<1> QED BY <1>2, <1>4, <1>5

\* Two points for every track, between a lead-in and a lead-out.
LEMMA PointCount ==
  ASSUME NEW d \in Discs, NEW s \in 1..Len(d.layout)
  PROVE  Len(CuePoints(d, s)) = 2 * Len(d.layout[s]) + 2
<1> DEFINE first == FirstOf(d, s)
           l == Len(d.layout[s])
           T == {"lead-in", "lead-out"} \cup (Int \X Int)
           mid == [i \in 1..(2 * l) |-> <<first + (i - 1) \div 2, (i - 1) % 2>>]
           a == <<"lead-in">>
           z == <<"lead-out">>
<1>1. l \in Nat /\ 2 * l \in Nat
  BY DiscShape
<1>2. first \in Nat
  <2>1. s \in 1..Len(d.layout) + 1
    BY DiscShape
  <2> QED BY <2>1, DiscShape, BeforeParts DEF FirstOf
<1>3. mid \in Seq(T) /\ Len(mid) = 2 * l
  <2>1. ASSUME NEW i \in 1..(2 * l)
        PROVE  <<first + (i - 1) \div 2, (i - 1) % 2>> \in T
    <3>1. first + (i - 1) \div 2 \in Int /\ (i - 1) % 2 \in Int
      BY <1>1, <1>2
    <3> QED BY <3>1
  <2> HIDE DEF T, first, l
  <2> QED BY <1>1, <2>1
<1>4. a \in Seq(T) /\ z \in Seq(T) /\ Len(a) = 1 /\ Len(z) = 1
  OBVIOUS
<1>5. CuePoints(d, s) = a \o mid \o z
  BY DEF CuePoints
<1> HIDE DEF T, a, z, mid, first, l
<1> DEFINE am == a \o mid
<1>6. am \in Seq(T) /\ Len(am) = 1 + 2 * l
  <2>1. am \in Seq(T) /\ Len(am) = Len(a) + Len(mid)
    BY <1>3, <1>4, ConcatProperties
  <2> HIDE DEF am
  <2> QED BY <1>3, <1>4, <2>1
<1> HIDE DEF am
<1>7. Len(am \o z) = Len(am) + Len(z)
  BY <1>4, <1>6, ConcatProperties
<1> QED BY <1>1, <1>4, <1>5, <1>6, <1>7 DEF am, l

\* What a session's chunks are.
Tracks(d, s) == [i \in 1..Len(d.layout[s]) |-> DaoTrack(d, FirstOf(d, s) + i - 1)]
Text(d, s)   == [p \in 1..d.packs |-> <<s, p>>]

\* The ids, sizes and cells of a session's chunks, in both versions.
LEMMA SessionShape ==
  ASSUME NEW d \in Discs, NEW s \in 1..Len(d.layout)
  PROVE  LET sc == SessionChunks(d, s)
             l  == Len(d.layout[s])
         IN  /\ DOMAIN sc = 1..Len(sc) /\ Len(sc) \in {3, 4}
             /\ \A i \in 1..Len(sc) : sc[i].size \in Nat
             /\ sc \in Seq({sc[i] : i \in 1..Len(sc)})
             /\ d.version # "NER5" =>
                  /\ Len(sc) = 3
                  /\ sc[1].id = "CUES" /\ sc[2].id = "DAOI" /\ sc[3].id = "SINF"
             /\ d.version = "NER5" =>
                  /\ sc[1].id = "CUEX" /\ sc[1].cells = CuePoints(d, s)
                  /\ sc[1].size = 8 * (2 * l + 2)
                  /\ sc[2].id = "DAOX" /\ sc[2].cells = Tracks(d, s)
                  /\ sc[2].size = 22 + 42 * l
                  /\ IF d.packs = 0
                     THEN Len(sc) = 3 /\ sc[3].id = "SINF"
                     ELSE /\ Len(sc) = 4
                          /\ sc[3].id = "CDTX" /\ sc[3].cells = Text(d, s)
                          /\ sc[3].size = 18 * d.packs
                          /\ sc[4].id = "SINF"
<1> DEFINE sc == SessionChunks(d, s)
           l == Len(d.layout[s])
           tracks == Tracks(d, s)
           text == Text(d, s)
           points == CuePoints(d, s)
<1>1. /\ l \in Nat /\ d.packs \in Nat /\ Len(tracks) = l /\ Len(text) = d.packs
      /\ Len(points) = 2 * l + 2 /\ DOMAIN d.layout[s] = 1..l
  BY DiscShape, PointCount DEF Tracks, Text
<1>2. Cell("CUEX") = 8 /\ Cell("DAOX") = 42 /\ Cell("CDTX") = 18
  BY DEF Cell
<1> DEFINE c1 == Chunk5("CUEX", 0, points)
           c2 == Chunk5("DAOX", 22, tracks)
           c3 == Chunk5("CDTX", 0, text)
           si == Other("SINF", 4)
<1>3. CASE d.version # "NER5"
  <2> DEFINE x == Other("CUES", 8 * Len(tracks))
             y == Other("DAOI", 22 + 30 * Len(tracks))
  <2>1. sc = <<x, y, si>>
    BY <1>1, <1>3 DEF SessionChunks, Tracks
  <2>2. /\ x.id = "CUES" /\ y.id = "DAOI" /\ si.id = "SINF"
        /\ x.size \in Nat /\ y.size \in Nat /\ si.size \in Nat
    <3>1. x.size = 8 * l /\ y.size = 22 + 30 * l /\ si.size = 4
      BY <1>1 DEF Other
    <3>2. x.id = "CUES" /\ y.id = "DAOI" /\ si.id = "SINF"
      BY DEF Other
    <3> QED BY <1>1, <3>1, <3>2
  <2> HIDE DEF x, y, si, sc
  <2> QED BY <1>3, <2>1, <2>2 DEF sc
<1>4. CASE d.version = "NER5"
  <2>1. /\ c1.id = "CUEX" /\ c1.cells = points /\ c1.size = 8 * (2 * l + 2) /\ c1.size \in Nat
        /\ c2.id = "DAOX" /\ c2.cells = tracks /\ c2.size = 22 + 42 * l /\ c2.size \in Nat
        /\ c3.id = "CDTX" /\ c3.cells = text /\ c3.size = 18 * d.packs /\ c3.size \in Nat
        /\ si.id = "SINF" /\ si.size \in Nat
    <3>1. /\ c1.id = "CUEX" /\ c1.cells = points /\ c1.size = 0 + 8 * Len(points)
          /\ c2.id = "DAOX" /\ c2.cells = tracks /\ c2.size = 22 + 42 * Len(tracks)
          /\ c3.id = "CDTX" /\ c3.cells = text /\ c3.size = 0 + 18 * Len(text)
          /\ si.id = "SINF" /\ si.size = 4
      <4> HIDE DEF points, tracks, text
      <4> QED BY <1>2 DEF Chunk5, Other
    <3> HIDE DEF c1, c2, c3, si, points, tracks, text, l
    <3> QED BY <1>1, <3>1
  <2>2. sc = IF d.packs = 0 THEN <<c1, c2, si>> ELSE <<c1, c2, c3, si>>
    <3>1. sc = <<c1, c2>> \o (IF d.packs = 0 THEN << >> ELSE <<c3>>) \o <<si>>
      <4>1. tracks = [i \in DOMAIN d.layout[s] |-> DaoTrack(d, FirstOf(d, s) + i - 1)]
        BY <1>1 DEF Tracks
      <4>2. text = [p \in 1..d.packs |-> <<s, p>>]
        BY DEF Text
      <4> HIDE DEF tracks, text, points
      <4> QED BY <1>4, <4>1, <4>2 DEF SessionChunks, points
    <3> HIDE DEF c1, c2, c3, si
    <3>2. <<c1, c2>> \o << >> \o <<si>> = <<c1, c2, si>>
      BY Tuples
    <3>3. <<c1, c2>> \o <<c3>> \o <<si>> = <<c1, c2, c3, si>>
      BY Tuples
    <3>4. CASE d.packs = 0
      BY <3>1, <3>2, <3>4
    <3>5. CASE d.packs # 0
      BY <3>1, <3>3, <3>5
    <3> QED BY <3>4, <3>5
  <2> HIDE DEF c1, c2, c3, si, sc, points, tracks, text, l
  <2>3. CASE d.packs = 0
    BY <1>4, <2>1, <2>2, <2>3 DEF sc, points, tracks, text, l
  <2>4. CASE d.packs # 0
    BY <1>4, <2>1, <2>2, <2>4 DEF sc, points, tracks, text, l
  <2> QED BY <2>3, <2>4
<1> QED BY <1>3, <1>4

\* The chunks of each session, and those of the file.
Parts(d) == Append([s \in DOMAIN d.layout |-> SessionChunks(d, s)],
                   <<Other("MTYP", 4), Other("END!", 0)>>)

\* Where the i-th chunk of a part is.
Place(d, s, i) == BeginOf(Chunks(d), Before(Parts(d), s) + i)

\* The file's chunks are the sessions', and two more.
LEMMA PartsShape ==
  ASSUME NEW d \in Discs
  PROVE  /\ Chunks(d) = FlattenSeq(Parts(d)) /\ Len(Parts(d)) = Len(d.layout) + 1
         /\ \A s \in 1..Len(d.layout) : Parts(d)[s] = SessionChunks(d, s)
         /\ LET last == Parts(d)[Len(d.layout) + 1]
            IN  /\ Len(last) = 2 /\ last[1].id = "MTYP" /\ last[2].id = "END!"
                /\ last[1].size \in Nat /\ last[2].size \in Nat
         /\ \E T : Parts(d) \in Seq(Seq(T)) /\ \A c \in T : c.size \in Nat
<1> DEFINE n == Len(d.layout)
           sc == [s \in 1..n |-> SessionChunks(d, s)]
           P == Parts(d)
           tail == <<Other("MTYP", 4), Other("END!", 0)>>
           T == {tail[1], tail[2]}
                \cup UNION {{sc[s][i] : i \in 1..Len(sc[s])} : s \in 1..n}
<1>1. n \in Nat /\ DOMAIN d.layout = 1..n
  BY DiscShape
<1>2. Chunks(d) = FlattenSeq(P)
  BY DEF Chunks, Parts
<1>3. P = Append(sc, tail)
  BY <1>1 DEF Parts
<1>4. /\ tail[1].id = "MTYP" /\ tail[2].id = "END!" /\ Len(tail) = 2
      /\ tail[1].size = 4 /\ tail[2].size = 0
  BY DEF Other
<1>5. \A s \in 1..n : /\ sc[s] = SessionChunks(d, s)
                      /\ sc[s] \in Seq({sc[s][i] : i \in 1..Len(sc[s])})
                      /\ \A i \in 1..Len(sc[s]) : sc[s][i].size \in Nat
  <2> SUFFICES ASSUME NEW s \in 1..n
               PROVE  /\ sc[s] = SessionChunks(d, s)
                      /\ sc[s] \in Seq({sc[s][i] : i \in 1..Len(sc[s])})
                      /\ \A i \in 1..Len(sc[s]) : sc[s][i].size \in Nat
    OBVIOUS
  <2>1. sc[s] = SessionChunks(d, s)
    OBVIOUS
  <2> DEFINE c == SessionChunks(d, s)
  <2>2. c \in Seq({c[i] : i \in 1..Len(c)}) /\ \A i \in 1..Len(c) : c[i].size \in Nat
    BY SessionShape
  <2> HIDE DEF c, sc
  <2> QED BY <2>1, <2>2 DEF c
<1>6. tail \in Seq(T)
  BY <1>4
<1>7. \A c \in T : c.size \in Nat
  <2> SUFFICES ASSUME NEW c \in T PROVE c.size \in Nat
    OBVIOUS
  <2> HIDE DEF sc, tail, n
  <2>1. CASE c = tail[1] \/ c = tail[2]
    BY <1>4, <2>1
  <2>2. CASE \E s \in 1..n : \E i \in 1..Len(sc[s]) : c = sc[s][i]
    BY <1>5, <2>2
  <2> QED BY <2>1, <2>2
<1>8. \A s \in 1..n : sc[s] \in Seq(T)
  <2> SUFFICES ASSUME NEW s \in 1..n PROVE sc[s] \in Seq(T)
    OBVIOUS
  <2> DEFINE U == {sc[s][i] : i \in 1..Len(sc[s])}
  <2>1. U \subseteq T
    <3> HIDE DEF sc, tail, n
    <3> QED OBVIOUS
  <2>2. sc[s] \in Seq(U)
    BY <1>5
  <2> HIDE DEF U, T, sc, n
  <2> QED BY <2>1, <2>2, SeqMonotonic
<1>9. sc \in Seq(Seq(T)) /\ Len(sc) = n
  <2>1. sc = [s \in 1..n |-> sc[s]]
    OBVIOUS
  <2> HIDE DEF sc, T, n
  <2>2. sc \in [1..n -> Seq(T)]
    BY <1>8, <2>1
  <2> QED BY <1>1, <2>1, <2>2
<1> HIDE DEF sc, tail, T, P, n
<1>10. P \in Seq(Seq(T)) /\ Len(P) = n + 1 /\ (\A s \in 1..n : P[s] = sc[s]) /\ P[n + 1] = tail
  BY <1>1, <1>3, <1>6, <1>9
<1>11. tail[1].size \in Nat /\ tail[2].size \in Nat
  BY <1>4
<1> QED BY <1>2, <1>4, <1>5, <1>7, <1>10, <1>11 DEF P, n

\* Each chunk is where the one before ends, no two are at one place, and so
\* TheChunk is the chunk of the place pChunk has come to.
LEMMA Walking ==
  ASSUME NEW d \in Discs
  PROVE  /\ Place(d, 1, 1) = 0 /\ Bytes(Chunks(d)) \in Nat
         /\ \A s \in 1..Len(d.layout) : Len(Parts(d)[s]) \in {3, 4}
         /\ \A s \in 1..Len(d.layout) + 1 : \A i \in 1..Len(Parts(d)[s]) :
              /\ Place(d, s, i) \in Nat
              /\ Place(d, s, i) + 8 <= Bytes(Chunks(d))
              /\ Place(d, s, i + 1) = Place(d, s, i) + 8 + Parts(d)[s][i].size
              /\ disc = Burnt(d) /\ pChunk = Place(d, s, i) => TheChunk = Parts(d)[s][i]
         /\ \A s \in 1..Len(d.layout) : Place(d, s, Len(Parts(d)[s]) + 1) = Place(d, s + 1, 1)
<1> DEFINE P == Parts(d)
           n == Len(d.layout)
           C == Chunks(d)
           B(s) == Before(P, s)
<1>1. PICK T : P \in Seq(Seq(T)) /\ \A c \in T : c.size \in Nat
  BY PartsShape
<1>2. C = FlattenSeq(P) /\ Len(P) = n + 1 /\ n \in Nat \ {0}
  BY PartsShape, DiscShape
<1>3. /\ C \in Seq(T)
      /\ B(1) = 0
      /\ \A s \in 1..n + 1 : /\ B(s) \in Nat /\ Len(P[s]) \in Nat
                             /\ \A i \in 1..Len(P[s]) : /\ B(s) + i \in 1..Len(C)
                                                        /\ C[B(s) + i] = P[s][i]
      /\ \A s \in 1..n : B(s + 1) = B(s) + Len(P[s])
  <2> HIDE DEF P, n, C
  <2>1. /\ FlattenSeq(P) \in Seq(T) /\ Before(P, 1) = 0
        /\ \A k \in 1..Len(P) + 1 : Before(P, k) \in Nat
        /\ \A k \in 1..Len(P) :
              /\ Len(P[k]) \in Nat
              /\ Before(P, k + 1) = Before(P, k) + Len(P[k])
              /\ \A r \in 1..Len(P[k]) :
                   /\ Before(P, k) + r \in 1..Len(FlattenSeq(P))
                   /\ FlattenSeq(P)[Before(P, k) + r] = P[k][r]
    BY <1>1, BeforeParts
  <2>2. \A s \in 1..n + 1 : s \in 1..Len(P) /\ s \in 1..Len(P) + 1
    BY <1>2
  <2>3. \A s \in 1..n : s \in 1..Len(P)
    BY <1>2
  <2> QED BY <1>2, <2>1, <2>2, <2>3
<1>4. /\ BeginOf(C, 1) = 0
      /\ BeginOf(C, Len(C) + 1) = Bytes(C)
      /\ \A j \in 1..Len(C) + 1 : BeginOf(C, j) \in Nat
      /\ \A j \in 1..Len(C) : BeginOf(C, j + 1) = BeginOf(C, j) + 8 + C[j].size
      /\ \A j \in 1..Len(C) + 1 : \A i \in 1..j - 1 : BeginOf(C, i) + 8 <= BeginOf(C, j)
  <2> HIDE DEF C, P
  <2> QED BY <1>1, <1>3, BytesParts
<1>5. \A s, i : Place(d, s, i) = BeginOf(C, B(s) + i)
  BY DEF Place
<1>6. Len(C) \in Nat /\ DOMAIN C = 1..Len(C)
  BY <1>3, LenProperties
<1>7. disc = Burnt(d) => disc.chunks = {[begin |-> BeginOf(C, j), chunk |-> C[j]] : j \in 1..Len(C)}
  BY <1>6 DEF Burnt, BeginOf
<1>8. \A s \in 1..n : P[s] = SessionChunks(d, s)
  BY PartsShape
<1>9. \A s \in 1..n : Len(P[s]) \in {3, 4}
  BY <1>8, SessionShape
<1> HIDE DEF P, n, C, B
<1>10. ASSUME NEW j \in 1..Len(C), NEW i \in 1..Len(C), BeginOf(C, i) = BeginOf(C, j)
       PROVE  i = j
  <2>1. i \in 1..Len(C) + 1 /\ j \in 1..Len(C) + 1 /\ BeginOf(C, i) \in Nat /\ BeginOf(C, j) \in Nat
    BY <1>4, <1>6
  <2>2. i < j => i \in 1..j - 1
    BY <1>6
  <2>3. j < i => j \in 1..i - 1
    BY <1>6
  <2>4. ~(i < j)
    BY <1>4, <1>10, <2>1, <2>2
  <2>5. ~(j < i)
    BY <1>4, <1>10, <2>1, <2>3
  <2> QED BY <1>6, <2>4, <2>5
<1>11. ASSUME NEW s \in 1..n + 1, NEW i \in 1..Len(P[s])
       PROVE  /\ Place(d, s, i) \in Nat
              /\ Place(d, s, i) + 8 <= Bytes(C)
              /\ Place(d, s, i + 1) = Place(d, s, i) + 8 + P[s][i].size
              /\ disc = Burnt(d) /\ pChunk = Place(d, s, i) => TheChunk = P[s][i]
  <2> DEFINE j == B(s) + i
  <2>1. j \in 1..Len(C) /\ C[j] = P[s][i]
    BY <1>3
  <2>2. Place(d, s, i) = BeginOf(C, j) /\ Place(d, s, i + 1) = BeginOf(C, j + 1)
    <3>3. B(s) \in Nat /\ Len(P[s]) \in Nat
      BY <1>3
    <3>1. B(s) + (i + 1) = j + 1
      BY <3>3
    <3>2. Place(d, s, i + 1) = BeginOf(C, B(s) + (i + 1))
      BY <1>5
    <3> QED BY <1>5, <3>1, <3>2
  <2> HIDE DEF j
  <2>3. j \in 1..Len(C) + 1 /\ Len(C) + 1 \in 1..Len(C) + 1 /\ j \in 1..(Len(C) + 1) - 1
    BY <1>6, <2>1
  <2>4. BeginOf(C, j) \in Nat /\ BeginOf(C, j) + 8 <= Bytes(C)
    <3> DEFINE e == Len(C) + 1
    <3>1. e \in 1..Len(C) + 1 /\ j \in 1..e - 1
      BY <2>3
    <3>2. BeginOf(C, e) = Bytes(C)
      BY <1>4
    <3> HIDE DEF e
    <3> QED BY <1>4, <2>3, <3>1, <3>2
  <2>5. BeginOf(C, j + 1) = BeginOf(C, j) + 8 + C[j].size
    BY <1>4, <2>1
  <2>6. ASSUME disc = Burnt(d), pChunk = Place(d, s, i) PROVE TheChunk = P[s][i]
    <3> DEFINE c == CHOOSE c \in disc.chunks : c.begin = pChunk
    <3>1. \E x \in disc.chunks : x.begin = pChunk
      <4> DEFINE r == [begin |-> BeginOf(C, j), chunk |-> C[j]]
      <4>1. r \in disc.chunks
        BY <1>7, <2>1, <2>6
      <4>2. r.begin = pChunk
        BY <2>2, <2>6
      <4> HIDE DEF r
      <4> QED BY <4>1, <4>2
    <3>2. c \in disc.chunks /\ c.begin = pChunk
      BY <3>1
    <3>3. TheChunk = c.chunk
      BY DEF TheChunk
    <3> HIDE DEF c
    <3>4. PICK i2 \in 1..Len(C) : c = [begin |-> BeginOf(C, i2), chunk |-> C[i2]]
      BY <1>7, <2>6, <3>2
    <3>5. i2 = j
      BY <1>10, <2>1, <2>2, <2>6, <3>2, <3>4
    <3> QED BY <2>1, <3>3, <3>4, <3>5
  <2> QED BY <2>1, <2>2, <2>4, <2>5, <2>6
<1>12. ASSUME NEW s \in 1..n PROVE Place(d, s, Len(P[s]) + 1) = Place(d, s + 1, 1)
  <2>1. s \in 1..n + 1 /\ B(s + 1) = B(s) + Len(P[s]) /\ B(s) \in Nat /\ Len(P[s]) \in Nat
    BY <1>2, <1>3
  <2>2. B(s) + (Len(P[s]) + 1) = B(s + 1) + 1
    BY <2>1
  <2> QED BY <1>5, <2>2
<1>13. Place(d, 1, 1) = 0
  <2>1. B(1) + 1 = 1
    BY <1>3
  <2> QED BY <1>4, <1>5, <2>1
<1>14. Bytes(C) \in Nat
  <2>1. Len(C) + 1 \in 1..Len(C) + 1
    BY <1>6
  <2> QED BY <1>4, <2>1
<1> QED BY <1>9, <1>11, <1>12, <1>13, <1>14 DEF P, n, C

-----------------------------------------------------------------------------
(***************************************************************************)
(* The walk over the chunks: nrg2dts has read what is before pChunk.       *)
(***************************************************************************)

\* What has been read when the k-th session is through.
DaoOf(d, k)  == [t \in 1..Before(d.layout, k + 1) |-> DaoTrack(d, t)]
CuesOf(d, k) == IF k = 0 THEN << >> ELSE Front(CuePoints(d, k))
TextOf(d, k) == IF k = 0 THEN << >> ELSE Text(d, k)

\* The last session of which chunk m has been read, before the i-th of s.
LastOf(d, s, i, m) == IF s <= Len(d.layout) /\ i > m THEN s ELSE s - 1

\* Before the i-th chunk of part s.
Read(d, s, i) ==
  IF d.version = "NER5"
  THEN /\ m_cues = CuesOf(d, LastOf(d, s, i, 1))
       /\ m_dao = DaoOf(d, LastOf(d, s, i, 2))
       /\ m_cdText = TextOf(d, LastOf(d, s, i, 3))
  ELSE m_dao = << >>

\* Behind the last one.
Found(d) ==
  IF d.version = "NER5"
  THEN /\ m_cues = CuesOf(d, Len(d.layout))
       /\ m_dao = DaoOf(d, Len(d.layout))
       /\ m_cdText = TextOf(d, Len(d.layout))
  ELSE m_dao = << >>

\* The tracks that have been copied.
Written(d) ==
  /\ dts \in Seq(Seq(Nat \X Nat)) /\ Len(dts) <= Len(m_dao)
  /\ \A t \in 1..Len(dts) : dts[t] = Audio(d, t)

\* pChunk is at the i-th chunk of part s.
At(d, s, i) ==
  /\ s \in 1..Len(d.layout) + 1 /\ i \in 1..Len(Parts(d)[s])
  /\ pChunk = Place(d, s, i)

\* The inductive invariant, and d is the disc the image was made of.
Walked(d) ==
  /\ d \in Discs /\ disc = Burnt(d)
  /\ at \in {"open", "chunks", "tracks", "end"}
  /\ at = "open" => /\ pChunk = 0
                    /\ m_cues = << >> /\ m_dao = << >> /\ m_cdText = << >>
  /\ at = "chunks" => /\ d.version # "none"
                      /\ \E s, i : At(d, s, i) /\ Read(d, s, i)
  /\ at \in {"open", "chunks"} => dts = << >>
  /\ at \in {"tracks", "end"} => Found(d) /\ Written(d)
  /\ at = "end" => Len(dts) = Len(m_dao)

NrgInv == \E d \in Discs : Walked(d)

-----------------------------------------------------------------------------
\* The loops that end 8 bytes early lose a cue point, and no track or pack.
LEMMA CuesRead ==
  ASSUME NEW l \in Nat, TheChunk.id = "CUEX", TheChunk.size = 8 * (2 * l + 2),
         Len(TheChunk.cells) = 2 * l + 2
  PROVE  Cells(8, LoopEnd) = Front(TheChunk.cells)
<1> DEFINE e == LoopEnd
           step == Cell(TheChunk.id)
           q == (e - 8 + step - 1) \div step
<1>1. step = 8 /\ e = 8 * (2 * l + 2)
  BY DEF Cell, LoopEnd
<1>2. ~(e <= 8)
  BY <1>1
<1>3. Cells(8, e) = SubSeq(TheChunk.cells, 1, q)
  BY <1>2 DEF Cells
<1>4. q = (8 * (2 * l + 1) + 7) \div 8
  <2>1. e - 8 + step - 1 = 8 * (2 * l + 1) + 7
    BY <1>1
  <2> QED BY <1>1, <2>1
<1>5. q = (2 * l + 2) - 1
  BY <1>4
<1> QED BY <1>3, <1>5 DEF Front

\* Of a chunk with or without a head before its tracks or packs.
LEMMA CellsRead ==
  ASSUME NEW l \in Nat, NEW head \in {0, 22}, NEW T, TheChunk.cells \in Seq(T),
         Len(TheChunk.cells) = l, l > 0 \/ head = 22,
         TheChunk.size = head + Cell(TheChunk.id) * l,
         TheChunk.id = (IF head = 22 THEN "DAOX" ELSE "CDTX")
  PROVE  Cells(head + 8, LoopEnd) = TheChunk.cells
<1> DEFINE e == LoopEnd
           step == Cell(TheChunk.id)
           q == (e - (head + 8) + step - 1) \div step
           c == TheChunk.cells
<1>1. e = head + step * l /\ (head = 22 => step = 42) /\ (head = 0 => step = 18)
  BY DEF Cell, LoopEnd
<1>2. SubSeq(c, 1, l) = c
  BY SubSeqFull
<1>3. CASE l > 0
  <2>1. Cells(head + 8, e) = SubSeq(c, 1, q)
    <3>1. ~(e <= head + 8)
      BY <1>1, <1>3
    <3> QED BY <3>1 DEF Cells
  <2>2. CASE head = 22
    <3>1. e - (head + 8) + step - 1 = 42 * l + 33
      BY <1>1, <2>2
    <3>2. q = (42 * l + 33) \div 42
      BY <1>1, <2>2, <3>1
    <3>3. q = l
      BY <3>2
    <3> QED BY <1>2, <2>1, <3>3
  <2>3. CASE head = 0
    <3>1. e - (head + 8) + step - 1 = 18 * l + 9
      BY <1>1, <2>3
    <3>2. q = (18 * l + 9) \div 18
      BY <1>1, <2>3, <3>1
    <3>3. q = l
      BY <3>2
    <3> QED BY <1>2, <2>1, <3>3
  <2> QED BY <2>2, <2>3
<1>4. CASE l = 0
  <2>1. e <= head + 8
    BY <1>1, <1>4
  <2>2. Cells(head + 8, e) = SubSeq(c, 1, 0)
    BY <2>1 DEF Cells
  <2> QED BY <1>2, <1>4, <2>2
<1> QED BY <1>3, <1>4

\* The tracks of a session go behind those of the sessions before.
LEMMA DaoAppended ==
  ASSUME NEW d \in Discs, NEW s \in 1..Len(d.layout)
  PROVE  DaoOf(d, s - 1) \o Tracks(d, s) = DaoOf(d, s)
<1> DEFINE b == Before(d.layout, s)
           l == Len(d.layout[s])
           x == DaoOf(d, s - 1)
           y == Tracks(d, s)
           z == DaoOf(d, s)
           T == {DaoTrack(d, t) : t \in Nat}
<1>1. b \in Nat /\ l \in Nat /\ Before(d.layout, s + 1) = b + l
  <2>1. s \in 1..Len(d.layout) + 1
    BY DiscShape
  <2> QED BY <2>1, DiscShape, BeforeParts
<1>2. (s - 1) + 1 = s
  BY DiscShape
<1>3. /\ x = [t \in 1..b |-> DaoTrack(d, t)]
      /\ y = [i \in 1..l |-> DaoTrack(d, b + 1 + i - 1)]
      /\ z = [t \in 1..b + l |-> DaoTrack(d, t)]
  BY <1>1, <1>2 DEF DaoOf, Tracks, FirstOf
<1> HIDE DEF x, y, z, b, l
<1>4. x \in Seq(T) /\ Len(x) = b
  BY <1>1, <1>3
<1>5. y \in Seq(T) /\ Len(y) = l /\ \A i \in 1..l : y[i] = DaoTrack(d, b + i)
  <2>1. \A i \in 1..l : b + 1 + i - 1 = b + i /\ b + i \in Nat
    BY <1>1
  <2>2. \A i \in 1..l : DaoTrack(d, b + 1 + i - 1) = DaoTrack(d, b + i) /\ DaoTrack(d, b + i) \in T
    BY <2>1
  <2> HIDE DEF T
  <2> QED BY <1>1, <1>3, <2>2
<1>6. z \in Seq(T) /\ Len(z) = b + l
  <2>1. \A t \in 1..b + l : DaoTrack(d, t) \in T
    BY <1>1
  <2> HIDE DEF T
  <2> QED BY <1>1, <1>3, <2>1
<1> DEFINE j == x \o y
<1>7. /\ j \in Seq(T) /\ Len(j) = Len(x) + Len(y)
      /\ \A i \in 1..Len(x) + Len(y) : j[i] = IF i <= Len(x) THEN x[i] ELSE y[i - Len(x)]
  <2> HIDE DEF T
  <2> QED BY <1>4, <1>5, ConcatProperties
<1> HIDE DEF j, T
<1>8. ASSUME NEW i \in 1..Len(j) PROVE j[i] = z[i]
  <2>1. i \in 1..b + l /\ Len(x) = b /\ Len(y) = l
    BY <1>4, <1>5, <1>7
  <2>2. z[i] = DaoTrack(d, i)
    BY <1>3, <2>1
  <2>3. CASE i <= b
    <3>1. i \in 1..b
      BY <1>1, <2>1, <2>3
    <3>2. j[i] = x[i]
      BY <1>7, <2>1, <2>3
    <3> QED BY <1>3, <2>2, <3>1, <3>2
  <2>4. CASE ~(i <= b)
    <3>1. i - b \in 1..l /\ b + (i - b) = i
      BY <1>1, <2>1, <2>4
    <3>2. j[i] = y[i - b]
      BY <1>7, <2>1, <2>4
    <3> QED BY <1>5, <2>2, <3>1, <3>2
  <2> QED BY <2>3, <2>4
<1>9. j = z
  BY <1>4, <1>5, <1>6, <1>7, <1>8, SeqEqual
<1> QED BY <1>9 DEF j, x, y, z

-----------------------------------------------------------------------------
\* The chunk at a place, and the next place.
LEMMA Onward ==
  ASSUME NEW d \in Discs, NEW s, NEW i, At(d, s, i), disc = Burnt(d), NextChunk,
         TheChunk.id # "END!"
  PROVE  IF i < Len(Parts(d)[s]) THEN At(d, s, i + 1)'
         ELSE At(d, s + 1, 1)' /\ s <= Len(d.layout)
<1> DEFINE P == Parts(d)
           n == Len(d.layout)
<1>1. n \in Nat \ {0} /\ Len(P) = n + 1
  BY DiscShape, PartsShape
<1>2. s \in 1..n + 1 /\ i \in 1..Len(P[s]) /\ pChunk = Place(d, s, i)
  BY DEF At
<1>3. TheChunk = P[s][i] /\ pChunk' = Place(d, s, i + 1)
  BY <1>2, Walking DEF NextChunk
<1>4. s = n + 1 => Len(P[s]) = 2 /\ P[s][2].id = "END!" /\ P[s][1].id = "MTYP"
  BY PartsShape
<1>5. s # n + 1 => s \in 1..n /\ Len(P[s]) \in {3, 4} /\ Place(d, s, Len(P[s]) + 1) = Place(d, s + 1, 1)
  <2>1. s # n + 1 => s \in 1..n
    BY <1>1, <1>2
  <2> QED BY <2>1, Walking
<1>6. CASE i < Len(P[s])
  <2>1. i + 1 \in 1..Len(P[s])
    BY <1>2, <1>4, <1>5, <1>6
  <2> QED BY <1>2, <1>3, <1>6, <2>1 DEF At
<1>7. CASE ~(i < Len(P[s]))
  <2>1. i = Len(P[s])
    BY <1>2, <1>4, <1>5, <1>7
  <2>2. s \in 1..n /\ s + 1 \in 1..n + 1 /\ s <= n
    <3>1. s # n + 1
      BY <1>3, <1>4, <2>1
    <3> QED BY <1>1, <1>5, <3>1
  <2>3. pChunk' = Place(d, s + 1, 1)
    BY <1>3, <1>5, <2>1, <2>2, <1>1
  <2>4. 1 \in 1..Len(P[s + 1])
    <3>1. s + 1 = n + 1 => Len(P[s + 1]) = 2
      BY PartsShape
    <3>2. s + 1 # n + 1 => s + 1 \in 1..n
      BY <1>1, <2>2
    <3>3. s + 1 # n + 1 => Len(P[s + 1]) \in {3, 4}
      BY <3>2, Walking
    <3> DEFINE l == Len(P[s + 1])
    <3>4. l = 2 \/ l = 3 \/ l = 4
      BY <3>1, <3>3
    <3> HIDE DEF l
    <3>5. 1 \in 1..l
      BY <3>4
    <3> QED BY <3>5 DEF l
  <2> QED BY <1>7, <2>2, <2>3, <2>4 DEF At
<1> QED BY <1>6, <1>7

\* Part s is a session.
Session(d, s) == s \in 1..Len(d.layout)

\* What the chunk at a place is, in an image of version 5.
LEMMA Kinds ==
  ASSUME NEW d \in Discs, NEW s, NEW i, At(d, s, i), disc = Burnt(d), d.version = "NER5"
  PROVE  LET l    == Len(d.layout[s])
             last == Len(Parts(d)[s])
         IN  \/ s = Len(d.layout) + 1 /\ i = 1 /\ last = 2 /\ TheChunk.id = "MTYP"
             \/ s = Len(d.layout) + 1 /\ i = 2 /\ last = 2 /\ TheChunk.id = "END!"
             \/ /\ Session(d, s) /\ i = 1 /\ last > 1 /\ l \in Nat
                /\ TheChunk.id = "CUEX" /\ TheChunk.size = 8 * (2 * l + 2)
                /\ TheChunk.cells = CuePoints(d, s)
             \/ /\ Session(d, s) /\ i = 2 /\ last > 2 /\ l \in Nat
                /\ TheChunk.id = "DAOX" /\ TheChunk.size = 22 + 42 * l
                /\ TheChunk.cells = Tracks(d, s)
             \/ /\ Session(d, s) /\ i = 3 /\ last > 3 /\ d.packs # 0
                /\ TheChunk.id = "CDTX" /\ TheChunk.size = 18 * d.packs
                /\ TheChunk.cells = Text(d, s)
             \/ /\ Session(d, s) /\ i = last /\ TheChunk.id = "SINF"
                /\ i = 4 \/ (i = 3 /\ d.packs = 0)
<1> DEFINE P == Parts(d)
           n == Len(d.layout)
<1>1. n \in Nat \ {0}
  BY DiscShape
<1>2. s \in 1..n + 1 /\ i \in 1..Len(P[s]) /\ pChunk = Place(d, s, i)
  BY DEF At
<1>3. TheChunk = P[s][i]
  BY <1>2, Walking
<1>4. CASE s = n + 1
  <2>1. Len(P[s]) = 2 /\ P[s][1].id = "MTYP" /\ P[s][2].id = "END!"
    BY <1>4, PartsShape
  <2>2. i \in {1, 2}
    BY <1>2, <2>1
  <2> QED BY <1>3, <1>4, <2>1, <2>2
<1>5. CASE s # n + 1
  <2>1. s \in 1..n
    BY <1>1, <1>2, <1>5
  <2> DEFINE sc == SessionChunks(d, s)
             l == Len(d.layout[s])
  <2>2. P[s] = sc /\ l \in Nat
    BY <2>1, PartsShape, DiscShape
  <2>3. /\ Len(sc) \in {3, 4}
        /\ sc[1].id = "CUEX" /\ sc[1].cells = CuePoints(d, s)
        /\ sc[1].size = 8 * (2 * l + 2)
        /\ sc[2].id = "DAOX" /\ sc[2].cells = Tracks(d, s)
        /\ sc[2].size = 22 + 42 * l
        /\ IF d.packs = 0
           THEN Len(sc) = 3 /\ sc[3].id = "SINF"
           ELSE /\ Len(sc) = 4
                /\ sc[3].id = "CDTX" /\ sc[3].cells = Text(d, s)
                /\ sc[3].size = 18 * d.packs
                /\ sc[4].id = "SINF"
    BY <2>1, SessionShape
  <2> HIDE DEF sc, l, P, n
  <2>4. (i = 1 \/ i = 2 \/ i = 3 \/ i = 4) /\ (i = 4 => Len(sc) = 4)
    <3>1. i \in 1..Len(sc)
      BY <1>2, <2>2
    <3>2. CASE Len(sc) = 3
      <4>1. i \in 1..3
        BY <3>1, <3>2
      <4> QED BY <4>1
    <3>3. CASE Len(sc) = 4
      <4>1. i \in 1..4
        BY <3>1, <3>3
      <4> QED BY <3>3, <4>1
    <3> QED BY <2>3, <3>2, <3>3
  <2>5. Session(d, s)
    BY <2>1 DEF Session, n
  <2>6. CASE i = 1
    BY <1>3, <2>2, <2>3, <2>5, <2>6 DEF l, P
  <2>7. CASE i = 2
    BY <1>3, <2>2, <2>3, <2>5, <2>7 DEF l, P
  <2>8. CASE i = 3
    BY <1>3, <2>2, <2>3, <2>5, <2>8 DEF l, P
  <2>9. CASE i = 4
    <3>1. TheChunk = sc[4] /\ Len(sc) = 4 /\ d.packs # 0 /\ sc[4].id = "SINF" /\ i = Len(P[s])
      BY <1>3, <2>2, <2>3, <2>4, <2>9
    <3>2. i = Len(Parts(d)[s]) /\ TheChunk.id = "SINF" /\ Session(d, s) /\ i = 4
      BY <2>5, <2>9, <3>1 DEF P
    <3> QED BY ONLY <3>2
  <2> QED BY <2>4, <2>6, <2>7, <2>8, <2>9
<1> QED BY <1>4, <1>5

\* No version but 5 has chunks that are read, and version 5 has an END!.
LEMMA OtherKinds ==
  ASSUME NEW d \in Discs, NEW s, NEW i, At(d, s, i), disc = Burnt(d)
  PROVE  /\ d.version # "NER5" => TheChunk.id \notin {"CUEX", "DAOX", "CDTX"}
         /\ d.version = "NER5" => pChunk < disc.end - 8
<1> DEFINE P == Parts(d)
           n == Len(d.layout)
<1>1. n \in Nat \ {0}
  BY DiscShape
<1>2. s \in 1..n + 1 /\ i \in 1..Len(P[s]) /\ pChunk = Place(d, s, i)
  BY DEF At
<1>3. TheChunk = P[s][i] /\ pChunk \in Nat /\ pChunk + 8 <= Bytes(Chunks(d)) /\ Bytes(Chunks(d)) \in Nat
  BY <1>2, Walking
<1>4. d.version = "NER5" => disc.end - 8 = Bytes(Chunks(d)) + 4
  <2>1. d.version = "NER5" => disc.end = Bytes(Chunks(d)) + 12
    BY DEF Burnt
  <2> QED BY <1>3, <2>1
<1>5. CASE s = n + 1
  <2>1. Len(P[s]) = 2 /\ P[s][1].id = "MTYP" /\ P[s][2].id = "END!"
    BY <1>5, PartsShape
  <2> HIDE DEF P, n
  <2>2. i \in {1, 2}
    BY <1>2, <2>1
  <2> QED BY <1>3, <1>4, <2>1, <2>2
<1>6. CASE s # n + 1
  <2>1. s \in 1..n
    BY <1>1, <1>2, <1>6
  <2>2. P[s] = SessionChunks(d, s)
    BY <2>1, PartsShape
  <2>3. d.version # "NER5" => /\ Len(P[s]) = 3
                              /\ P[s][1].id = "CUES" /\ P[s][2].id = "DAOI" /\ P[s][3].id = "SINF"
    BY <2>1, <2>2, SessionShape
  <2> HIDE DEF P, n
  <2>4. ASSUME d.version # "NER5" PROVE i = 1 \/ i = 2 \/ i = 3
    <3>1. Len(P[s]) = 3
      BY <2>3, <2>4
    <3>2. i \in 1..Len(P[s])
      BY <1>2
    <3> QED BY <3>1, <3>2
  <2> QED BY <1>3, <1>4, <2>3, <2>4
<1> QED BY <1>3, <1>5, <1>6, <1>4

\* What is read stays the same along the disc's sessions.
LEMMA LastSteps ==
  ASSUME NEW d \in Discs, NEW s \in 1..Len(d.layout), NEW m \in Nat \ {0}
  PROVE  /\ \A i \in Int : LastOf(d, s, i, m) = IF i > m THEN s ELSE s - 1
         /\ LastOf(d, s + 1, 1, m) = s
<1>1. Len(d.layout) \in Nat
  BY DiscShape
<1>2. \A i \in Int : LastOf(d, s, i, m) = IF i > m THEN s ELSE s - 1
  BY <1>1 DEF LastOf
<1>3. LastOf(d, s + 1, 1, m) = s
  BY <1>1 DEF LastOf
<1> QED BY <1>2, <1>3

\* The footer has been looked at.
LEMMA WalkBegins ==
  ASSUME NEW d \in Discs, Walked(d), ParseHeader
  PROVE  Walked(d)'
<1> DEFINE n == Len(d.layout)
<1>1. /\ at = "open" /\ UNCHANGED <<disc, pChunk, m_cues, m_dao, m_cdText, dts>>
      /\ at' = IF disc.version \in {"NERO", "NER5"} THEN "chunks" ELSE "tracks"
  BY DEF ParseHeader
<1>2. /\ disc = Burnt(d) /\ pChunk = 0 /\ m_cues = << >> /\ m_dao = << >> /\ m_cdText = << >>
      /\ dts = << >>
  BY <1>1 DEF Walked
<1>3. disc.version = d.version
  BY <1>2 DEF Burnt
<1>4. n \in Nat \ {0} /\ d.version \in {"NER5", "NERO", "none"}
  BY DiscShape
<1>5. CASE d.version = "none"
  <2>1. at' = "tracks" /\ d.version # "NER5"
    BY <1>1, <1>3, <1>5
  <2>2. Found(d)'
    BY <1>1, <1>2, <2>1 DEF Found
  <2>3. Written(d)'
    BY <1>1, <1>2 DEF Written
  <2> QED BY <1>1, <1>2, <2>1, <2>2, <2>3 DEF Walked
<1>6. CASE d.version # "none"
  <2>1. at' = "chunks"
    BY <1>1, <1>3, <1>4, <1>6
  <2>2. At(d, 1, 1)'
    <3>1. 1 \in 1..n + 1 /\ 1 \in 1..n
      BY <1>4
    <3>2. Len(Parts(d)[1]) \in {3, 4} /\ Place(d, 1, 1) = 0
      BY <3>1, Walking
    <3> DEFINE last == Len(Parts(d)[1])
    <3>3. 1 \in 1..last
      <4>1. last = 3 \/ last = 4
        BY <3>2
      <4> HIDE DEF last
      <4> QED BY <4>1
    <3> QED BY <1>1, <1>2, <3>1, <3>2, <3>3 DEF At
  <2>3. Read(d, 1, 1)'
    <3>1. LastOf(d, 1, 1, 1) = 0 /\ LastOf(d, 1, 1, 2) = 0 /\ LastOf(d, 1, 1, 3) = 0
      BY DEF LastOf
    <3>2. DaoOf(d, 0) = << >>
      <4>1. 0 + 1 = 1
        OBVIOUS
      <4>2. Before(d.layout, 1) = 0
        BY DiscShape, BeforeParts
      <4> QED BY <4>1, <4>2 DEF DaoOf
    <3> QED BY <1>1, <1>2, <3>1, <3>2 DEF Read, CuesOf, TextOf
  <2> QED BY <1>1, <1>2, <1>6, <2>1, <2>2, <2>3 DEF Walked
<1> QED BY <1>5, <1>6

\* Reading one chunk after the other, in an image of version 5.
LEMMA Reads ==
  ASSUME NEW d \in Discs, NEW s, NEW i, At(d, s, i), Read(d, s, i), disc = Burnt(d),
         d.version = "NER5", NextChunk,
         \/ /\ TheChunk.id = "CUEX" /\ m_cues' = Cells(8, LoopEnd)
            /\ UNCHANGED <<m_dao, m_cdText>>
         \/ /\ TheChunk.id = "DAOX" /\ m_dao' = m_dao \o Cells(30, LoopEnd)
            /\ UNCHANGED <<m_cues, m_cdText>>
         \/ /\ TheChunk.id = "CDTX" /\ m_cdText' = Cells(8, LoopEnd)
            /\ UNCHANGED <<m_cues, m_dao>>
         \/ /\ TheChunk.id \notin {"CUEX", "DAOX", "CDTX", "END!"}
            /\ UNCHANGED <<m_cues, m_dao, m_cdText>>
  PROVE  \E s2, i2 : At(d, s2, i2)' /\ Read(d, s2, i2)'
<1> DEFINE n == Len(d.layout)
           l == Len(d.layout[s])
           last == Len(Parts(d)[s])
<1>1. TheChunk.id # "END!" /\ n \in Nat \ {0}
  BY DiscShape
<1>2. IF i < last THEN At(d, s, i + 1)' ELSE At(d, s + 1, 1)' /\ s <= n
  BY <1>1, Onward
<1>3. /\ m_cues = CuesOf(d, LastOf(d, s, i, 1))
      /\ m_dao = DaoOf(d, LastOf(d, s, i, 2))
      /\ m_cdText = TextOf(d, LastOf(d, s, i, 3))
  BY DEF Read
<1>4. CASE s = n + 1 /\ i = 1 /\ last = 2 /\ TheChunk.id = "MTYP"
  <2>1. At(d, s, 2)' /\ UNCHANGED <<m_cues, m_dao, m_cdText>>
    <3>1. i < last /\ i + 1 = 2
      BY <1>4
    <3> QED BY <1>2, <1>4, <3>1
  <2>2. \A m : LastOf(d, s, 2, m) = s - 1 /\ LastOf(d, s, i, m) = s - 1
    <3>1. ~(s <= n)
      BY <1>1, <1>4
    <3> QED BY <3>1 DEF LastOf
  <2>3. Read(d, s, 2)'
    BY <1>3, <2>1, <2>2 DEF Read
  <2> QED BY <2>1, <2>3
<1>5. ASSUME Session(d, s)
      PROVE  /\ s \in 1..n /\ s # 0
             /\ \A m \in Nat \ {0} : /\ \A j \in Int : LastOf(d, s, j, m) = IF j > m THEN s ELSE s - 1
                                     /\ LastOf(d, s + 1, 1, m) = s
  <2>1. s \in 1..n
    BY <1>5 DEF Session
  <2>2. s # 0
    BY <1>1, <2>1
  <2> HIDE DEF n
  <2> QED BY <2>1, <2>2, LastSteps DEF n
<1>6. CASE /\ Session(d, s) /\ i = 1 /\ last > 1 /\ l \in Nat
           /\ TheChunk.id = "CUEX" /\ TheChunk.size = 8 * (2 * l + 2)
           /\ TheChunk.cells = CuePoints(d, s)
  <2>1. At(d, s, 2)'
    <3>1. last \in Nat
      BY <1>1, <1>5, <1>6, Walking
    <3>2. i < last /\ i + 1 = 2
      BY <1>6, <3>1
    <3> QED BY <1>2, <3>2
  <2>2. m_cues' = Front(CuePoints(d, s)) /\ UNCHANGED <<m_dao, m_cdText>>
    <3>1. Len(CuePoints(d, s)) = 2 * l + 2
      BY <1>5, <1>6, PointCount
    <3>2. Cells(8, LoopEnd) = Front(TheChunk.cells)
      BY <1>6, <3>1, CuesRead
    <3> QED BY <1>6, <3>2
  <2>3. /\ LastOf(d, s, 2, 1) = s
        /\ LastOf(d, s, 2, 2) = s - 1 /\ LastOf(d, s, 1, 2) = s - 1
        /\ LastOf(d, s, 2, 3) = s - 1 /\ LastOf(d, s, 1, 3) = s - 1
    BY <1>5, <1>6
  <2>4. Read(d, s, 2)'
    BY <1>3, <1>5, <1>6, <2>2, <2>3 DEF Read, CuesOf
  <2> QED BY <2>1, <2>4
<1>7. CASE /\ Session(d, s) /\ i = 2 /\ last > 2 /\ l \in Nat
           /\ TheChunk.id = "DAOX" /\ TheChunk.size = 22 + 42 * l
           /\ TheChunk.cells = Tracks(d, s)
  <2>1. At(d, s, 3)'
    <3>1. last \in Nat
      BY <1>1, <1>5, <1>7, Walking
    <3>2. i < last /\ i + 1 = 3
      BY <1>7, <3>1
    <3> QED BY <1>2, <3>2
  <2>2. m_dao' = m_dao \o Tracks(d, s) /\ UNCHANGED <<m_cues, m_cdText>>
    <3> DEFINE tr == Tracks(d, s)
               T == {tr[k] : k \in 1..l}
    <3>1. tr \in Seq(T) /\ Len(tr) = l
      <4>1. tr = [k \in 1..l |-> tr[k]] /\ DOMAIN tr = 1..l
        BY DEF Tracks
      <4>2. l \in Nat
        BY <1>7
      <4> HIDE DEF tr, l
      <4> QED BY <4>1, <4>2
    <3>2. Cell(TheChunk.id) = 42
      BY <1>7 DEF Cell
    <3> DEFINE head == 22
    <3>3. /\ head \in {0, 22} /\ (l > 0 \/ head = 22) /\ head + 8 = 30
          /\ TheChunk.size = head + Cell(TheChunk.id) * l
          /\ TheChunk.id = (IF head = 22 THEN "DAOX" ELSE "CDTX")
      BY <1>7, <3>2
    <3> HIDE DEF T, tr, head, l
    <3>4. TheChunk.cells \in Seq(T) /\ Len(TheChunk.cells) = l /\ l \in Nat
      BY <1>7, <3>1 DEF tr
    <3>5. Cells(head + 8, LoopEnd) = TheChunk.cells
      BY <3>3, <3>4, CellsRead
    <3> QED BY <1>7, <3>3, <3>5
  <2>3. /\ LastOf(d, s, 3, 2) = s /\ LastOf(d, s, 2, 2) = s - 1
        /\ LastOf(d, s, 3, 1) = s /\ LastOf(d, s, 2, 1) = s
        /\ LastOf(d, s, 3, 3) = s - 1 /\ LastOf(d, s, 2, 3) = s - 1
    BY <1>5, <1>7
  <2>4. DaoOf(d, s - 1) \o Tracks(d, s) = DaoOf(d, s)
    BY <1>5, <1>7, DaoAppended
  <2>5. Read(d, s, 3)'
    BY <1>3, <1>7, <2>2, <2>3, <2>4 DEF Read
  <2> QED BY <2>1, <2>5
<1>8. CASE /\ Session(d, s) /\ i = 3 /\ last > 3 /\ d.packs # 0
           /\ TheChunk.id = "CDTX" /\ TheChunk.size = 18 * d.packs
           /\ TheChunk.cells = Text(d, s)
  <2>1. At(d, s, 4)'
    <3>1. last \in Nat
      BY <1>1, <1>5, <1>8, Walking
    <3>2. i < last /\ i + 1 = 4
      BY <1>8, <3>1
    <3> QED BY <1>2, <3>2
  <2>2. m_cdText' = Text(d, s) /\ UNCHANGED <<m_cues, m_dao>>
    <3> DEFINE tx == Text(d, s)
               p == d.packs
               T == {tx[k] : k \in 1..p}
    <3>0. p \in Nat /\ p > 0
      BY <1>8, DiscShape
    <3>1. tx \in Seq(T) /\ Len(tx) = p
      <4>1. tx = [k \in 1..p |-> tx[k]] /\ DOMAIN tx = 1..p
        BY DEF Text
      <4> HIDE DEF tx, p
      <4> QED BY <3>0, <4>1
    <3>2. Cell(TheChunk.id) = 18
      BY <1>8 DEF Cell
    <3> DEFINE head == 0
    <3>3. /\ head \in {0, 22} /\ (p > 0 \/ head = 22) /\ head + 8 = 8
          /\ TheChunk.size = head + Cell(TheChunk.id) * p
          /\ TheChunk.id = (IF head = 22 THEN "DAOX" ELSE "CDTX")
      BY <1>8, <3>0, <3>2
    <3> HIDE DEF T, tx, head, p
    <3>4. TheChunk.cells \in Seq(T) /\ Len(TheChunk.cells) = p /\ p \in Nat
      BY <1>8, <3>0, <3>1 DEF tx
    <3>5. Cells(head + 8, LoopEnd) = TheChunk.cells
      BY <3>3, <3>4, CellsRead
    <3> QED BY <1>8, <3>3, <3>5
  <2>3. /\ LastOf(d, s, 4, 3) = s
        /\ LastOf(d, s, 4, 1) = s /\ LastOf(d, s, 3, 1) = s
        /\ LastOf(d, s, 4, 2) = s /\ LastOf(d, s, 3, 2) = s
    BY <1>5, <1>8
  <2>4. Read(d, s, 4)'
    BY <1>3, <1>5, <1>8, <2>2, <2>3 DEF Read, TextOf
  <2> QED BY <2>1, <2>4
<1>9. CASE /\ Session(d, s) /\ i = last /\ TheChunk.id = "SINF"
           /\ i = 4 \/ (i = 3 /\ d.packs = 0)
  <2>1. At(d, s + 1, 1)' /\ UNCHANGED <<m_cues, m_dao, m_cdText>>
    <3>1. ~(i < last)
      BY <1>9
    <3> QED BY <1>2, <1>9, <3>1
  <2>2. /\ LastOf(d, s + 1, 1, 1) = s /\ LastOf(d, s, i, 1) = s
        /\ LastOf(d, s + 1, 1, 2) = s /\ LastOf(d, s, i, 2) = s
        /\ LastOf(d, s + 1, 1, 3) = s
    <3>2. i = 3 \/ i = 4
      BY <1>9
    <3>1. i \in Int /\ i > 1 /\ i > 2
      BY <3>2
    <3> QED BY <1>5, <1>9, <3>1
  <2>3. TextOf(d, LastOf(d, s, i, 3)) = TextOf(d, s)
    <3>1. CASE i = 4
      BY <1>5, <1>9, <3>1
    <3>2. CASE i = 3 /\ d.packs = 0
      <4>1. \A k : Text(d, k) = << >>
        BY <3>2 DEF Text
      <4> QED BY <4>1 DEF TextOf
    <3> QED BY <1>9, <3>1, <3>2
  <2>4. Read(d, s + 1, 1)'
    BY <1>3, <2>1, <2>2, <2>3 DEF Read
  <2> QED BY <2>1, <2>4
<1>10. CASE s = n + 1 /\ i = 2 /\ last = 2 /\ TheChunk.id = "END!"
  BY <1>1, <1>10
<1> QED BY <1>4, <1>6, <1>7, <1>8, <1>9, <1>10, Kinds

\* A chunk that is parsed or passed over.
LEMMA WalkGoesOn ==
  ASSUME NEW d \in Discs, Walked(d), ParseCue \/ ParseDao \/ ParseCdText \/ SkipChunk
  PROVE  Walked(d)'
<1>1. at = "chunks" /\ NextChunk /\ UNCHANGED <<disc, at, dts>>
  BY DEF ParseCue, ParseDao, ParseCdText, SkipChunk, AtChunk
<1>2. disc = Burnt(d) /\ dts = << >> /\ d.version # "none"
  BY <1>1 DEF Walked
<1>3. PICK s, i : At(d, s, i) /\ Read(d, s, i)
  BY <1>1 DEF Walked
<1>4. \/ TheChunk.id = "CUEX" /\ m_cues' = Cells(8, LoopEnd) /\ UNCHANGED <<m_dao, m_cdText>>
      \/ TheChunk.id = "DAOX" /\ m_dao' = m_dao \o Cells(30, LoopEnd) /\ UNCHANGED <<m_cues, m_cdText>>
      \/ TheChunk.id = "CDTX" /\ m_cdText' = Cells(8, LoopEnd) /\ UNCHANGED <<m_cues, m_dao>>
      \/ /\ TheChunk.id \notin {"CUEX", "DAOX", "CDTX", "END!"}
         /\ UNCHANGED <<m_cues, m_dao, m_cdText>>
  BY DEF ParseCue, ParseDao, ParseCdText, SkipChunk, AtChunk
<1>5. \E s2, i2 : At(d, s2, i2)' /\ Read(d, s2, i2)'
  <2>1. CASE d.version = "NER5"
    BY <1>1, <1>2, <1>3, <1>4, <2>1, Reads
  <2>2. CASE d.version # "NER5"
    <3>1. TheChunk.id \notin {"CUEX", "DAOX", "CDTX"}
      BY <1>2, <1>3, <2>2, OtherKinds
    <3>2. m_dao' = m_dao /\ TheChunk.id # "END!"
      BY <1>4, <3>1
    <3>3. \E s2, i2 : At(d, s2, i2)'
      BY <1>1, <1>2, <1>3, <3>2, Onward
    <3>4. \A s2, i2 : Read(d, s2, i2)'
      BY <1>3, <2>2, <3>2 DEF Read
    <3> QED BY <3>3, <3>4
  <2> QED BY <2>1, <2>2
<1> QED BY <1>1, <1>2, <1>5 DEF Walked

\* The list is through.
LEMMA WalkEnds ==
  ASSUME NEW d \in Discs, Walked(d), EndChunks
  PROVE  Walked(d)'
<1> DEFINE n == Len(d.layout)
<1>1. /\ at = "chunks" /\ at' = "tracks"
      /\ pChunk >= disc.end - 8 \/ TheChunk.id = "END!"
      /\ UNCHANGED <<disc, pChunk, m_cues, m_dao, m_cdText, dts>>
  BY DEF EndChunks
<1>2. disc = Burnt(d) /\ dts = << >>
  BY <1>1 DEF Walked
<1>3. PICK s, i : At(d, s, i) /\ Read(d, s, i)
  BY <1>1 DEF Walked
<1>4. Found(d)
  <2>1. CASE d.version # "NER5"
    BY <1>3, <2>1 DEF Read, Found
  <2>2. CASE d.version = "NER5"
    <3>1. pChunk < disc.end - 8
      BY <1>2, <1>3, <2>2, OtherKinds
    <3>2. TheChunk.id = "END!"
      <4>1. pChunk \in Nat /\ disc.end \in Nat
        <5>1. pChunk = Place(d, s, i) /\ s \in 1..n + 1 /\ i \in 1..Len(Parts(d)[s])
          BY <1>3 DEF At
        <5>2. Place(d, s, i) \in Nat /\ Bytes(Chunks(d)) \in Nat
          BY <5>1, Walking
        <5>3. disc.end = Bytes(Chunks(d)) + 12
          BY <1>2, <2>2 DEF Burnt
        <5> QED BY <5>1, <5>2, <5>3
      <4> QED BY <1>1, <3>1, <4>1
    <3>3. s = n + 1 /\ i = 2
      BY <1>2, <1>3, <2>2, <3>2, Kinds
    <3>4. n \in Nat
      BY DiscShape
    <3>5. \A m : LastOf(d, s, i, m) = n
      BY <3>3, <3>4 DEF LastOf
    <3> QED BY <1>3, <2>2, <3>5 DEF Read, Found
  <2> QED BY <2>1, <2>2
<1>5. Len(m_dao) \in Nat
  <2>1. CASE d.version # "NER5"
    BY <1>4, <2>1 DEF Found
  <2>2. CASE d.version = "NER5"
    <3>1. n + 1 \in 1..n + 1
      BY DiscShape
    <3>2. Before(d.layout, n + 1) \in Nat
      BY <3>1, DiscShape, BeforeParts
    <3> QED BY <1>4, <2>2, <3>2 DEF Found, DaoOf
  <2> QED BY <2>1, <2>2
<1>6. Written(d)
  BY <1>2, <1>5 DEF Written
<1>7. Found(d)' /\ Written(d)'
  BY <1>1, <1>4, <1>6 DEF Found, Written
<1> QED BY <1>1, <1>2, <1>7 DEF Walked

\* All the tracks have been found.
LEMMA TracksFound ==
  ASSUME NEW d \in Discs, Found(d)
  PROVE  IF d.version = "NER5"
         THEN /\ Len(m_dao) = Len(AllTracks(d)) /\ Len(m_dao) \in Nat
              /\ \A t \in 1..Len(m_dao) : m_dao[t] = DaoTrack(d, t)
         ELSE m_dao = << >> /\ Len(m_dao) = 0
<1>1. CASE d.version # "NER5"
  BY <1>1 DEF Found
<1>2. CASE d.version = "NER5"
  <2> DEFINE b == Before(d.layout, Len(d.layout) + 1)
  <2>1. b = Len(AllTracks(d)) /\ b \in Nat
    <3>1. Len(d.layout) + 1 \in 1..Len(d.layout) + 1
      BY DiscShape
    <3> QED BY <3>1, DiscShape, BeforeParts DEF AllTracks
  <2>2. m_dao = [t \in 1..b |-> DaoTrack(d, t)]
    BY <1>2 DEF Found, DaoOf
  <2> HIDE DEF b
  <2> QED BY <1>2, <2>1, <2>2
<1> QED BY <1>1, <1>2

\* One more track is copied.
LEMMA AudioWritten ==
  ASSUME NEW d \in Discs, Walked(d), WriteTrack
  PROVE  Walked(d)'
<1> DEFINE k == Len(dts) + 1
<1>1. /\ at = "tracks" /\ Len(dts) < Len(m_dao)
      /\ dts' = Append(dts, Extract(disc, m_dao[k]))
      /\ UNCHANGED <<disc, at, pChunk, m_cues, m_dao, m_cdText>>
  BY DEF WriteTrack
<1>2. disc = Burnt(d) /\ Found(d) /\ Written(d)
  BY <1>1 DEF Walked
<1>3. /\ dts \in Seq(Seq(Nat \X Nat)) /\ Len(dts) \in Nat
      /\ \A t \in 1..Len(dts) : dts[t] = Audio(d, t)
  BY <1>2, LenProperties DEF Written
<1>4. /\ d.version = "NER5" /\ Len(m_dao) = Len(AllTracks(d)) /\ Len(m_dao) \in Nat
      /\ \A t \in 1..Len(m_dao) : m_dao[t] = DaoTrack(d, t)
  <2>1. d.version = "NER5"
    <3> SUFFICES ASSUME d.version # "NER5" PROVE FALSE
      OBVIOUS
    <3>1. Len(m_dao) = 0
      BY <1>2, TracksFound
    <3> QED BY <1>1, <1>3, <3>1
  <2> QED BY <1>2, <2>1, TracksFound
<1>5. k \in 1..Len(m_dao)
  BY <1>1, <1>3, <1>4
<1>6. disc.blocks = Blocks(d)
  BY <1>2 DEF Burnt
<1> HIDE DEF k
<1>7. Extract(disc, m_dao[k]) = Audio(d, k)
  <2>1. k \in 1..Len(AllTracks(d)) /\ m_dao[k] = DaoTrack(d, k)
    BY <1>4, <1>5
  <2>2. Extract(disc, m_dao[k]) = SubSeq(Blocks(d), DaoTrack(d, k).index1 + 1, DaoTrack(d, k).indexEnd)
    BY <1>6, <2>1 DEF Extract
  <2> QED BY <2>1, <2>2, AudioPlaced
<1>8. Audio(d, k) \in Seq(Nat \X Nat)
  <2> DEFINE a == AllTracks(d)[k]
  <2>1. a \in Nat
    BY <1>4, <1>5, DiscShape, ElementOfSeq
  <2>2. Audio(d, k) = [b \in 1..a |-> <<k, b>>]
    BY DEF Audio
  <2> HIDE DEF a
  <2>3. k \in Nat
    BY <1>4, <1>5
  <2>4. \A b \in 1..a : <<k, b>> \in Nat \X Nat
    BY <2>1, <2>3
  <2> QED BY <2>1, <2>2, <2>4
<1>9. Written(d)'
  <2> DEFINE T == Seq(Nat \X Nat)
             e == Audio(d, k)
  <2>1. dts' = Append(dts, e) /\ dts \in Seq(T) /\ e \in T
    BY <1>1, <1>3, <1>7, <1>8 DEF k
  <2> HIDE DEF T, e
  <2>2. /\ dts' \in Seq(T) /\ Len(dts') = k /\ dts'[k] = e
        /\ \A t \in 1..Len(dts) : dts'[t] = dts[t]
    BY <1>3, <2>1 DEF k
  <2>3. ASSUME NEW t \in 1..Len(dts') PROVE dts'[t] = Audio(d, t)
    <3>1. t = k \/ t \in 1..Len(dts)
      BY <1>3, <2>2 DEF k
    <3> QED BY <1>3, <2>2, <3>1 DEF e
  <2>4. Len(dts') <= Len(m_dao')
    BY <1>1, <1>4, <1>5, <2>2
  <2> QED BY <2>2, <2>3, <2>4 DEF Written, T
<1>10. Found(d)'
  BY <1>1, <1>2 DEF Found
<1> QED BY <1>1, <1>2, <1>9, <1>10 DEF Walked

\* Walked is inductive, and what it says of a program that has ended.
LEMMA WalkStep ==
  ASSUME NEW d \in Discs, Walked(d), [NrgNext]_nrgVars
  PROVE  Walked(d)'
<1>1. CASE ParseHeader
  BY <1>1, WalkBegins
<1>2. CASE ParseCue \/ ParseDao \/ ParseCdText \/ SkipChunk
  BY <1>2, WalkGoesOn
<1>3. CASE EndChunks
  BY <1>3, WalkEnds
<1>4. CASE WriteTrack
  BY <1>4, AudioWritten
<1>5. CASE Finish
  <2>1. /\ at = "tracks" /\ at' = "end" /\ Len(dts) = Len(m_dao)
        /\ UNCHANGED <<disc, pChunk, m_cues, m_dao, m_cdText, dts>>
    BY <1>5 DEF Finish
  <2>2. Found(d)' /\ Written(d)'
    BY <2>1 DEF Walked, Found, Written
  <2> QED BY <2>1, <2>2 DEF Walked
<1>6. CASE UNCHANGED nrgVars
  <2>1. \A s, i : At(d, s, i)' <=> At(d, s, i)
    BY <1>6 DEF nrgVars, At
  <2>2. \A s, i : Read(d, s, i)' <=> Read(d, s, i)
    BY <1>6 DEF nrgVars, Read
  <2>3. (Found(d)' <=> Found(d)) /\ (Written(d)' <=> Written(d))
    BY <1>6 DEF nrgVars, Found, Written
  <2> QED BY <1>6, <2>1, <2>2, <2>3 DEF nrgVars, Walked
<1> QED BY <1>1, <1>2, <1>3, <1>4, <1>5, <1>6 DEF NrgNext

LEMMA WalkedIsAudio ==
  ASSUME NEW d \in Discs, Walked(d)
  PROVE  ExtractedIsAudio
<1> SUFFICES ASSUME at = "end"
             PROVE  IF disc.version = "NER5"
                    THEN /\ dts = [t \in DOMAIN AllTracks(disc) |-> Audio(disc, t)]
                         /\ m_cues = Front(CuePoints(disc, Len(disc.layout)))
                         /\ m_cdText = [p \in 1..disc.packs |-> <<Len(disc.layout), p>>]
                    ELSE dts = << >>
  BY DEF ExtractedIsAudio
<1>1. disc = Burnt(d) /\ Found(d) /\ Written(d) /\ Len(dts) = Len(m_dao)
  BY DEF Walked
<1>2. disc.version = d.version /\ disc.layout = d.layout /\ disc.packs = d.packs
  BY <1>1 DEF Burnt
<1>3. dts \in Seq(Seq(Nat \X Nat)) /\ \A t \in 1..Len(dts) : dts[t] = Audio(d, t)
  BY <1>1 DEF Written
<1>4. CASE d.version # "NER5"
  <2>1. Len(dts) = 0
    BY <1>1, <1>4, TracksFound
  <2>2. dts = << >>
    BY <1>3, <2>1, EmptySeq
  <2> QED BY <1>2, <1>4, <2>2
<1>5. CASE d.version = "NER5"
  <2>1. Len(dts) = Len(AllTracks(d)) /\ DOMAIN AllTracks(d) = 1..Len(AllTracks(d))
    BY <1>1, <1>5, TracksFound, DiscShape, LenProperties
  <2>2. AllTracks(disc) = AllTracks(d)
    BY <1>2 DEF AllTracks
  <2>3. \A t : Audio(disc, t) = Audio(d, t)
    BY <2>2 DEF Audio
  <2>4. dts = [t \in DOMAIN AllTracks(disc) |-> Audio(disc, t)]
    <3>1. dts = [t \in 1..Len(dts) |-> dts[t]]
      BY <1>3, LenProperties
    <3> QED BY <1>3, <2>1, <2>2, <2>3, <3>1
  <2>5. Len(d.layout) # 0
    BY DiscShape
  <2>6. \A s : CuePoints(disc, s) = CuePoints(d, s)
    BY <1>2 DEF CuePoints, FirstOf
  <2>7. m_cues = Front(CuePoints(d, Len(d.layout))) /\ m_cdText = Text(d, Len(d.layout))
    BY <1>1, <1>5, <2>5 DEF Found, CuesOf, TextOf
  <2> QED BY <1>2, <1>5, <2>4, <2>6, <2>7 DEF Text
<1> QED BY <1>4, <1>5

\* Nrg: whatever sessions, tracks and texts an image of version 5 has, one file
\* is written per track, with exactly the audio of that track, and of an image
\* of another version none (ExtractedIsAudio).
THEOREM AudioExtracted == NrgSpec => []ExtractedIsAudio
<1>1. NrgInit => NrgInv
  <2> SUFFICES ASSUME NrgInit PROVE NrgInv
    OBVIOUS
  <2>1. PICK d \in Discs : disc = Burnt(d)
    BY DEF NrgInit, Discs
  <2>2. Walked(d)
    BY <2>1 DEF NrgInit, Walked
  <2> QED BY <2>2 DEF NrgInv
<1>2. NrgInv /\ [NrgNext]_nrgVars => NrgInv'
  BY WalkStep DEF NrgInv
<1>3. NrgInv => ExtractedIsAudio
  BY WalkedIsAudio DEF NrgInv
<1> QED BY <1>1, <1>2, <1>3, PTL DEF NrgSpec
=============================================================================
