--------------------------- MODULE CddaWorkerProofs ---------------------------
(***************************************************************************)
(* Proofs about CddaWorker, for every number of devices, discs, sectors    *)
(* and calls, and however the event loop nests the slots: the lock, the    *)
(* flag of the Cancel button, the db of a suspended job, what a grab has   *)
(* read and not saved, how far an undisturbed grab has come, the toc, what *)
(* the sectors of its dbs promise, and why its jobs come to an end.        *)
(***************************************************************************)
EXTENDS CddaWorker, SectorStoreProofs, SequenceTheorems

-----------------------------------------------------------------------------
(***************************************************************************)
(* Values.                                                                 *)
(***************************************************************************)

LEMMA AddAudioType ==
  ASSUME NEW s \in Sector, NEW audio \in Data
  PROVE  AddAudio(s, audio) \in Sector
<1>1. CrcOf[audio] \in Checks
  BY StoreAssumption
<1>2. push_back(s.checks, CrcOf[audio]) \in occurences_t(Checks)
  BY <1>1, PushBackType DEF Sector
<1> QED BY <1>1, <1>2 DEF AddAudio, Sector

LEMMA NewSectorType == NewSector \in Sector
BY StoreAssumption DEF NewSector, Sector, occurences_t

LEMMA DbParts ==
  ASSUME NEW db \in Db
  PROVE  /\ db.toc \in Tocs /\ db.sectors \in Seq(Sector)
         /\ Len(db.sectors) \in Nat /\ DOMAIN db.sectors = 1..Len(db.sectors)
BY DEF Db

-----------------------------------------------------------------------------
(***************************************************************************)
(* The call stack, as a value: s is the stack, the other arguments are the *)
(* lock, the flag and the db.                                              *)
(***************************************************************************)

LastOf(s) == s[Len(s)]
Replaced(s, f) == Append(SubSeq(s, 1, Len(s) - 1), f)

LEMMA IdleType ==
  ASSUME NEW slot \in {"Poll", "ChangeDevice", "Grab", "Encode"},
         NEW pc \in {"di", "open", "encode"}
  PROVE  Idle(slot, pc) \in Frame
<1>1. Zeros \in Data /\ << >> \in Seq(Data) /\ Untagged \in Tags
  BY StoreAssumption DEF Tags
<1>2. 0 \in 0..MaxPasses
  BY DEF MaxPasses, minimumCommonCrcCount
<1> QED BY <1>1, <1>2 DEF Idle, Frame

LEMMA StackParts ==
  ASSUME NEW s \in Seq(Frame)
  PROVE  /\ Len(s) \in Nat /\ DOMAIN s = 1..Len(s)
         /\ s # << >> => Len(s) \in Nat \ {0} /\ LastOf(s) \in Frame
         /\ Len(s) = 0 => s = << >>
BY DEF LastOf

LEMMA BelowParts ==
  ASSUME NEW s \in Seq(Frame), s # << >>
  PROVE  /\ SubSeq(s, 1, Len(s) - 1) \in Seq(Frame)
         /\ Len(SubSeq(s, 1, Len(s) - 1)) = Len(s) - 1
         /\ \A i \in 1..(Len(s) - 1) : SubSeq(s, 1, Len(s) - 1)[i] = s[i]
<1> DEFINE n == Len(s) - 1
<1>1. n \in Nat /\ n \in Int /\ 1 \in Int /\ n <= Len(s)
  BY StackParts
<1>2. \A i \in 1..n : s[i] \in Frame
  BY <1>1, StackParts
<1> HIDE DEF n
<1>3. /\ SubSeq(s, 1, n) \in Seq(Frame)
      /\ Len(SubSeq(s, 1, n)) = IF 1 <= n THEN n - 1 + 1 ELSE 0
      /\ \A i \in 1..(n - 1 + 1) : SubSeq(s, 1, n)[i] = s[1 + i - 1]
  BY <1>1, <1>2, SubSeqProperties
<1>4. Len(SubSeq(s, 1, n)) = n
  BY <1>1, <1>3
<1>5. ASSUME NEW i \in 1..n PROVE SubSeq(s, 1, n)[i] = s[i]
  <2>1. i \in 1..(n - 1 + 1) /\ 1 + i - 1 = i
    BY <1>1
  <2>2. SubSeq(s, 1, n)[i] = s[1 + i - 1]
    BY <1>3, <2>1
  <2> QED BY <2>1, <2>2
<1> QED BY <1>3, <1>4, <1>5 DEF n

LEMMA ReplacedParts ==
  ASSUME NEW s \in Seq(Frame), s # << >>, NEW f \in Frame
  PROVE  /\ Replaced(s, f) \in Seq(Frame)
         /\ Len(Replaced(s, f)) = Len(s)
         /\ Replaced(s, f)[Len(s)] = f
         /\ \A i \in 1..(Len(s) - 1) : Replaced(s, f)[i] = s[i]
<1> DEFINE below == SubSeq(s, 1, Len(s) - 1)
<1>1. Len(s) \in Nat \ {0} /\ \A i \in 1..Len(s) : s[i] \in Frame
  BY StackParts
<1>2. /\ below \in Seq(Frame) /\ Len(below) = Len(s) - 1
      /\ \A i \in 1..(Len(s) - 1) : below[i] = s[i]
  BY BelowParts
<1> HIDE DEF below
<1> QED BY <1>1, <1>2, AppendProperties DEF Replaced, below

\* The running slot is alone on the stack while it is in its locked part.
LEMMA LockedIsAlone ==
  ASSUME NEW s, NEW locked \in BOOLEAN, NEW c, NEW sdb,
         Slots(s, locked, c, sdb), s # << >>, InLock(LastOf(s))
  PROVE  Len(s) = 1 /\ locked /\ FrameInv(LastOf(s), c, sdb)
<1>1. s \in Seq(Frame) /\ CallStack(s, locked)
  BY DEF Slots
<1>2. Len(s) \in Nat \ {0} /\ Len(s) <= 2 /\ Len(s) # 2 /\ DOMAIN s = 1..Len(s)
  BY <1>1, StackParts DEF CallStack, LastOf
<1>3. Len(s) = 1
  BY <1>2
<1> QED BY <1>1, <1>2, <1>3 DEF CallStack, LastOf, Slots

\* A running slot that stays on the stack.
LEMMA ReplaceKeeps ==
  ASSUME NEW s, NEW locked \in BOOLEAN, NEW c, NEW sdb,
         Slots(s, locked, c, sdb), s # << >>, NEW f \in Frame,
         NEW locked2 \in BOOLEAN, NEW sdb2,
         Len(s) = 1 => (locked2 <=> InLock(f)),
         Len(s) = 2 => ~InLock(f) /\ locked2 = locked /\ sdb2 = sdb,
         FrameInv(f, c, sdb2)
  PROVE  Slots(Replaced(s, f), locked2, c, sdb2)
<1>1. s \in Seq(Frame) /\ CallStack(s, locked) /\ DOMAIN s = 1..Len(s)
  BY StackParts DEF Slots
<1>2. Len(s) \in {1, 2}
  BY <1>1, StackParts DEF CallStack
<1> DEFINE t == Replaced(s, f)
<1>3. t \in Seq(Frame) /\ Len(t) = Len(s) /\ t[Len(s)] = f /\ DOMAIN t = 1..Len(s)
  BY <1>1, ReplacedParts
<1>4. ASSUME Len(s) = 2 PROVE t[1] = s[1]
  <2>1. s # << >> /\ \A i \in 1..(Len(s) - 1) : t[i] = s[i]
    BY <1>1, ReplacedParts
  <2>2. 1 \in 1..(Len(s) - 1)
    BY <1>4
  <2> QED BY <2>1, <2>2
<1> HIDE DEF t
<1>5. CASE Len(s) = 1
  <2>1. \A i \in DOMAIN t : i = 1
    BY <1>3, <1>5
  <2> QED BY <1>3, <1>5, <2>1 DEF Slots, CallStack, t
<1>6. CASE Len(s) = 2
  <2>1. DOMAIN t = {1, 2} /\ t[1] = s[1] /\ t[2] = f /\ 1 \in DOMAIN s
    BY <1>1, <1>3, <1>4, <1>6
  <2>2. s[1].pc = "yield" /\ InLock(s[1]) /\ locked /\ FrameInv(s[1], c, sdb)
    BY <1>1, <1>6, <2>1 DEF CallStack, InLock, Slots
  <2>3. CallStack(t, locked2)
    BY <1>3, <1>6, <2>1, <2>2 DEF CallStack
  <2> QED BY <1>3, <1>6, <2>1, <2>2, <2>3 DEF Slots, t
<1> QED BY <1>2, <1>5, <1>6

\* A slot that returns or is left by an exception.
LEMMA ReturnKeeps ==
  ASSUME NEW s, NEW locked \in BOOLEAN, NEW c, NEW sdb,
         Slots(s, locked, c, sdb), s # << >>,
         NEW locked2 \in BOOLEAN,
         Len(s) = 1 => ~locked2,
         Len(s) = 2 => locked2 = locked
  PROVE  /\ Slots(SubSeq(s, 1, Len(s) - 1), locked2, c, sdb)
         /\ Len(SubSeq(s, 1, Len(s) - 1)) = Len(s) - 1
<1>1. s \in Seq(Frame) /\ CallStack(s, locked) /\ DOMAIN s = 1..Len(s)
  BY StackParts DEF Slots
<1>2. Len(s) \in {1, 2}
  BY <1>1, StackParts DEF CallStack
<1> DEFINE t == SubSeq(s, 1, Len(s) - 1)
<1>3. /\ t \in Seq(Frame) /\ Len(t) = Len(s) - 1 /\ DOMAIN t = 1..(Len(s) - 1)
      /\ \A i \in 1..(Len(s) - 1) : t[i] = s[i]
  <2>1. /\ t \in Seq(Frame) /\ Len(t) = Len(s) - 1
        /\ \A i \in 1..(Len(s) - 1) : t[i] = s[i]
    BY <1>1, BelowParts
  <2> QED BY <2>1
<1> HIDE DEF t
<1>4. CASE Len(s) = 1
  BY <1>3, <1>4 DEF Slots, CallStack, t
<1>5. CASE Len(s) = 2
  <2>1. DOMAIN t = {1} /\ t[1] = s[1] /\ 1 \in DOMAIN s
    BY <1>1, <1>3, <1>5
  <2>2. InLock(s[1]) /\ locked /\ FrameInv(s[1], c, sdb)
    BY <1>1, <1>5, <2>1 DEF CallStack, InLock, Slots
  <2> QED BY <1>3, <1>5, <2>1, <2>2 DEF Slots, CallStack, t
<1> QED BY <1>2, <1>3, <1>4, <1>5 DEF t

\* A slot that the event loop calls.
LEMMA CallKeeps ==
  ASSUME NEW s, NEW locked \in BOOLEAN, NEW c, NEW sdb,
         Slots(s, locked, c, sdb),
         NEW f \in Frame, NEW locked2 \in BOOLEAN, NEW c2, NEW sdb2,
         FrameInv(f, c2, sdb2),
         \/ s = << >> /\ InLock(f) /\ locked2 = TRUE
         \/ s = << >> /\ ~InLock(f) /\ locked2 = FALSE
         \/ /\ s # << >> /\ LastOf(s).pc = "yield" /\ ~InLock(f)
            /\ locked2 = locked /\ c2 = c /\ sdb2 = sdb
  PROVE  Slots(Append(s, f), locked2, c2, sdb2)
<1> DEFINE t == Append(s, f)
<1>1. s \in Seq(Frame) /\ CallStack(s, locked) /\ DOMAIN s = 1..Len(s)
  BY StackParts DEF Slots
<1>2. /\ t \in Seq(Frame) /\ Len(t) = Len(s) + 1 /\ DOMAIN t = 1..(Len(s) + 1)
      /\ t[Len(s) + 1] = f /\ \A i \in 1..Len(s) : t[i] = s[i]
  BY <1>1, AppendProperties
<1> HIDE DEF t
<1>3. CASE s = << >>
  <2>1. Len(s) = 0
    BY <1>3
  <2>2. DOMAIN t = {1} /\ t[1] = f /\ Len(t) = 1
    BY <1>2, <2>1
  <2> QED BY <1>2, <1>3, <2>2 DEF Slots, CallStack, t
<1>4. CASE s # << >>
  <2>1. InLock(LastOf(s))
    <3>1. LastOf(s).pc = "yield"
      BY <1>4
    <3> QED BY <3>1 DEF InLock
  <2>2. Len(s) = 1 /\ locked /\ FrameInv(LastOf(s), c, sdb)
    BY <1>4, <2>1, LockedIsAlone
  <2>3. DOMAIN t = {1, 2} /\ t[1] = LastOf(s) /\ t[2] = f /\ Len(t) = 2
    BY <1>2, <2>2 DEF LastOf
  <2>4. LastOf(s).pc = "yield" /\ ~InLock(f) /\ locked2 = locked /\ c2 = c /\ sdb2 = sdb
    BY <1>4
  <2>5. CallStack(t, locked2)
    BY <2>1, <2>2, <2>3, <2>4 DEF CallStack
  <2>6. \A i \in DOMAIN t : FrameInv(t[i], c2, sdb2)
    BY <2>2, <2>3, <2>4
  <2> QED BY <1>2, <2>5, <2>6 DEF Slots, t
<1> QED BY <1>3, <1>4

-----------------------------------------------------------------------------
(***************************************************************************)
(* The steps.  StackOK is what CallInv says of the call stack, Plain what it  *)
(* says of the other variables.                                            *)
(***************************************************************************)

StackOK == /\ stack \in Seq(Frame) /\ Len(stack) <= MaxDepth
           /\ Slots(stack, mtx, m_cancelled, m_sdb)

Plain ==
  /\ drive \in [Devices -> Discs \cup {None}] /\ noticed \in BOOLEAN /\ missed \in BOOLEAN
  /\ m_cdda \in [dev : Devices \cup {None}, serial : Nat]
  /\ m_toc \in Tocs /\ m_tags \in Tags /\ cache \subseteq Discs
  /\ m_di \in {"Audio", "NoDisc"} /\ m_cancelled \in BOOLEAN /\ mtx \in BOOLEAN
  /\ m_sdb \in Db
  /\ files \in [Bases -> Db] /\ torn \subseteq Bases
  /\ calls \in 0..MaxCalls /\ swaps \in 0..MaxSwaps

LEMMA CallParts == CallInv <=> Plain /\ StackOK
BY DEF CallInv, TypeOK, Plain, StackOK

LEMMA TopParts ==
  ASSUME CallInv, stack # << >>
  PROVE  /\ Top = LastOf(stack) /\ Top \in Frame
         /\ FrameInv(Top, m_cancelled, m_sdb)
         /\ Len(stack) \in {1, 2} /\ Len(stack) <= MaxDepth
         /\ InLock(Top) => Len(stack) = 1 /\ mtx
         /\ ~InLock(Top) /\ Len(stack) = 1 => ~mtx
         /\ ~mtx => Len(stack) = 1
<1>1. Slots(stack, mtx, m_cancelled, m_sdb) /\ mtx \in BOOLEAN /\ Len(stack) <= MaxDepth
  BY DEF CallInv, TypeOK
<1>2. stack \in Seq(Frame) /\ CallStack(stack, mtx)
  BY <1>1 DEF Slots
<1>3. Len(stack) \in {1, 2} /\ Len(stack) \in DOMAIN stack /\ 1 \in DOMAIN stack
  <2>1. Len(stack) \in Nat \ {0} /\ DOMAIN stack = 1..Len(stack)
    BY <1>2, StackParts
  <2> QED BY <1>2, <2>1 DEF CallStack
<1>4. Top = LastOf(stack) /\ Top \in Frame
  BY <1>2, StackParts DEF Top, LastOf
<1>5. FrameInv(Top, m_cancelled, m_sdb)
  BY <1>1, <1>3 DEF Slots, Top
<1>6. InLock(Top) => Len(stack) = 1 /\ mtx
  BY <1>1, <1>4, LockedIsAlone
<1>7. ASSUME ~InLock(Top), Len(stack) = 1 PROVE ~mtx
  <2>1. \A i \in DOMAIN stack : ~InLock(stack[i])
    BY <1>2, <1>7, StackParts DEF Top
  <2> QED BY <1>2, <2>1 DEF CallStack
<1>8. ASSUME ~mtx PROVE Len(stack) = 1
  <2>1. \A i \in DOMAIN stack : ~InLock(stack[i])
    BY <1>2, <1>8 DEF CallStack
  <2>2. stack[1].pc # "yield"
    BY <1>3, <2>1 DEF InLock
  <2> QED BY <1>2, <1>3, <2>2 DEF CallStack
<1> QED BY <1>1, <1>3, <1>4, <1>5, <1>6, <1>7, <1>8

\* The slot of a running frame, from where it is.
LEMMA WhoRuns ==
  ASSUME NEW f \in Frame, NEW c, NEW sdb, FrameInv(f, c, sdb)
  PROVE  /\ f.pc \in {"open", "size", "pass", "loop", "read", "passed", "save", "done"}
              => f.slot = "Grab"
         /\ f.pc \in {"encode", "encoded"} => f.slot = "Encode"
         /\ f.pc = "yield" => f.slot \in {"Grab", "Encode"}
         /\ f.pc \in {"di", "lock", "status", "toc", "query"}
              => f.slot \in {"Poll", "ChangeDevice"}
<1>1. CASE f.slot = "Grab"
  BY <1>1 DEF FrameInv, GrabInv, Phase, Frame
<1>2. CASE f.slot = "Encode"
  BY <1>2 DEF FrameInv, EncodeInv, Phase, Frame
<1>3. CASE f.slot \in {"Poll", "ChangeDevice"}
  BY <1>3 DEF FrameInv
<1> QED BY <1>1, <1>2, <1>3 DEF Frame

LEMMA DriveTypes ==
  ASSUME Plain
  PROVE  /\ Disc \in Discs \cup {None} /\ TocRead \in Tocs
         /\ GetDiscStatus \in {"Audio", "NoDisc"} /\ SizeRead \in Nat
<1>1. Disc \in Discs \cup {None}
  BY DEF Plain, Disc
<1>2. SizeRead \in Nat
  BY <1>1, WorkerAssumption DEF SizeRead
<1> QED BY <1>1, <1>2 DEF TocRead, GetDiscStatus, Tocs

\* A step of the locked part.
LEMMA LockedStep ==
  ASSUME CallInv, stack # << >>, InLock(Top), NEW f \in Frame, InLock(f), Become(f),
         FrameInv(f, m_cancelled, m_sdb'), m_cancelled' = m_cancelled, mtx' = mtx
  PROVE  StackOK'
<1>1. Top = LastOf(stack) /\ Len(stack) = 1 /\ mtx /\ Len(stack) <= MaxDepth
  BY TopParts
<1>2. Slots(stack, mtx, m_cancelled, m_sdb) /\ mtx \in BOOLEAN /\ stack \in Seq(Frame)
  BY DEF CallInv, TypeOK
<1>3. stack' = Replaced(stack, f)
  BY DEF Become, Below, Replaced
<1>4. Slots(stack', mtx', m_cancelled', m_sdb')
  <2>1. mtx' \in BOOLEAN /\ (Len(stack) = 1 => (mtx' <=> InLock(f)))
    BY <1>1, <1>2
  <2>2. ~(Len(stack) = 2)
    BY <1>1
  <2> QED BY <1>2, <1>3, <2>1, <2>2, ReplaceKeeps
<1>5. stack' \in Seq(Frame) /\ Len(stack') = Len(stack)
  BY <1>2, <1>3, ReplacedParts
<1> QED BY <1>1, <1>4, <1>5 DEF StackOK

\* A step outside the lock, which may take it.
LEMMA FreeStep ==
  ASSUME CallInv, stack # << >>, ~InLock(Top), NEW f \in Frame, Become(f),
         FrameInv(f, m_cancelled, m_sdb), m_cancelled' = m_cancelled, m_sdb' = m_sdb,
         \/ ~InLock(f) /\ mtx' = mtx
         \/ InLock(f) /\ ~mtx /\ mtx' = TRUE
  PROVE  StackOK'
<1>1. /\ Top = LastOf(stack) /\ Len(stack) \in {1, 2} /\ Len(stack) <= MaxDepth
      /\ Len(stack) = 1 => ~mtx
      /\ ~mtx => Len(stack) = 1
  BY TopParts
<1>2. Slots(stack, mtx, m_cancelled, m_sdb) /\ mtx \in BOOLEAN /\ stack \in Seq(Frame)
  BY DEF CallInv, TypeOK
<1>3. stack' = Replaced(stack, f)
  BY DEF Become, Below, Replaced
<1>4. Slots(stack', mtx', m_cancelled', m_sdb')
  <2>1. mtx' \in BOOLEAN
    BY <1>2
  <2>2. Len(stack) = 1 => (mtx' <=> InLock(f))
    BY <1>1
  <2>3. Len(stack) = 2 => ~InLock(f) /\ mtx' = mtx
    BY <1>1
  <2> QED BY <1>2, <1>3, <2>1, <2>2, <2>3, ReplaceKeeps
<1>5. stack' \in Seq(Frame) /\ Len(stack') = Len(stack)
  BY <1>2, <1>3, ReplacedParts
<1> QED BY <1>1, <1>4, <1>5 DEF StackOK

\* A slot is left.
LEMMA ReturnStep ==
  ASSUME CallInv, stack # << >>, Return, m_cancelled' = m_cancelled, m_sdb' = m_sdb,
         \/ InLock(Top) /\ mtx' = FALSE
         \/ ~InLock(Top) /\ mtx' = mtx
  PROVE  StackOK'
<1>1. /\ Len(stack) \in {1, 2} /\ Len(stack) <= MaxDepth
      /\ InLock(Top) => Len(stack) = 1
      /\ ~InLock(Top) /\ Len(stack) = 1 => ~mtx
  BY TopParts
<1>2. Slots(stack, mtx, m_cancelled, m_sdb) /\ mtx \in BOOLEAN
  BY DEF CallInv, TypeOK
<1>3. stack' = SubSeq(stack, 1, Len(stack) - 1)
  BY DEF Return, Below
<1>4. Len(stack) = 1 => ~mtx'
  BY <1>1
<1>5. Len(stack) = 2 => mtx' = mtx
  BY <1>1
<1>6. mtx' \in BOOLEAN
  BY <1>2
<1>7. Slots(stack', mtx', m_cancelled', m_sdb') /\ Len(stack') = Len(stack) - 1
  BY <1>2, <1>3, <1>4, <1>5, <1>6, ReturnKeeps
<1>8. stack' \in Seq(Frame)
  BY <1>7 DEF Slots
<1> QED BY <1>1, <1>7, <1>8, WorkerAssumption DEF StackOK

-----------------------------------------------------------------------------
\* A step that leaves the history of disturbances in the frames.

LEMMA WitnessedKeeps ==
  ASSUME CallInv, m_cancelled' = m_cancelled
  PROVE  /\ Slots(Witnessed, mtx, m_cancelled, m_sdb)
         /\ Len(Witnessed) = Len(stack)
         /\ \A i \in DOMAIN stack : Witnessed[i].pc = stack[i].pc
<1>1. /\ stack \in Seq(Frame) /\ CallStack(stack, mtx) /\ DOMAIN stack = 1..Len(stack)
      /\ \A i \in DOMAIN stack : FrameInv(stack[i], m_cancelled, m_sdb)
  BY StackParts DEF CallInv, Slots
<1> DEFINE t == Witnessed
<1>2. \A i \in DOMAIN stack : /\ t[i] = [stack[i] EXCEPT !.disturbed = TRUE]
                              /\ stack[i] \in Frame
  BY <1>1 DEF Witnessed
<1>3. \A i \in DOMAIN stack : /\ t[i] \in Frame /\ t[i].pc = stack[i].pc
                              /\ FrameInv(t[i], m_cancelled, m_sdb)
  <2> SUFFICES ASSUME NEW i \in DOMAIN stack
               PROVE  /\ t[i] \in Frame /\ t[i].pc = stack[i].pc
                      /\ FrameInv(t[i], m_cancelled, m_sdb)
    OBVIOUS
  <2> DEFINE f == stack[i]
  <2> DEFINE g == t[i]
  <2>1. f \in Frame /\ g = [f EXCEPT !.disturbed = TRUE] /\ FrameInv(f, m_cancelled, m_sdb)
    BY <1>1, <1>2
  <2> HIDE DEF f, g, t
  <2>2. /\ g \in Frame /\ g.pc = f.pc /\ g.slot = f.slot /\ g.next = f.next
        /\ g.base = f.base /\ g.retry = f.retry /\ g.asked = f.asked /\ g.nRead = f.nRead
        /\ g.image = f.image /\ g.lba = f.lba
    BY <2>1 DEF Frame
  <2>3. FrameInv(g, m_cancelled, m_sdb)
    BY <2>1, <2>2 DEF FrameInv, GrabInv, EncodeInv, Phase
  <2> QED BY <2>2, <2>3 DEF f, g
<1>4. DOMAIN t = 1..Len(stack) /\ Len(stack) \in Nat
  BY <1>1 DEF Witnessed
<1>5. t \in Seq(Frame)
  <2>1. t \in [1..Len(stack) -> Frame]
    BY <1>1, <1>3, <1>4 DEF Witnessed
  <2> QED BY <1>4, <2>1
<1>6. Len(t) = Len(stack)
  BY <1>4, <1>5
<1>7. CallStack(t, mtx)
  <2>1. Len(stack) = 2 => 1 \in DOMAIN stack /\ 2 \in DOMAIN stack
    BY <1>1
  <2>2. \A i \in DOMAIN stack : InLock(t[i]) <=> InLock(stack[i])
    BY <1>3 DEF InLock
  <2> HIDE DEF t
  <2>3. Len(t) = 2 => t[1].pc = "yield" /\ ~InLock(t[2])
    BY <1>1, <1>3, <1>6, <2>1, <2>2 DEF CallStack
  <2>4. mtx <=> \E i \in DOMAIN t : InLock(t[i])
    BY <1>1, <1>4, <2>2 DEF CallStack
  <2> QED BY <1>1, <1>6, <2>3, <2>4 DEF CallStack
<1> HIDE DEF t
<1> QED BY <1>1, <1>3, <1>4, <1>5, <1>6, <1>7 DEF Slots, t

\* A stack that only forgot, or has new values of the flag and the db in an
\* empty stack.
LEMMA EmptySlots ==
  ASSUME NEW c, NEW sdb PROVE Slots(<< >>, FALSE, c, sdb)
<1>1. << >> \in Seq(Frame) /\ Len(<< >>) = 0 /\ DOMAIN << >> = {}
  OBVIOUS
<1> QED BY <1>1 DEF Slots, CallStack

\* The event loop calls a slot: into an empty stack, or over a yielded job.
LEMMA CallStep ==
  ASSUME CallInv, CanCall, NEW s, s = stack \/ s = Witnessed,
         NEW f \in Frame, stack' = Append(s, f), m_cancelled' \in BOOLEAN, mtx' \in BOOLEAN,
         m_cancelled' = m_cancelled \/ stack = << >>,
         FrameInv(f, m_cancelled', m_sdb'),
         \/ ~InLock(f) /\ mtx' = mtx /\ m_cancelled' = m_cancelled /\ m_sdb' = m_sdb
         \/ InLock(f) /\ stack = << >> /\ mtx' = TRUE
  PROVE  StackOK'
<1>1. /\ Slots(stack, mtx, m_cancelled, m_sdb) /\ mtx \in BOOLEAN
      /\ stack \in Seq(Frame) /\ Len(stack) \in Nat /\ Len(stack) < MaxDepth
      /\ DOMAIN stack = 1..Len(stack)
  BY StackParts DEF CallInv, TypeOK, CanCall
<1>2. Slots(s, mtx, m_cancelled, m_sdb) /\ Len(s) = Len(stack)
      /\ \A i \in DOMAIN stack : s[i].pc = stack[i].pc
  <2>1. CASE s = stack
    BY <1>1, <2>1
  <2>2. CASE s = Witnessed /\ m_cancelled' = m_cancelled
    BY <2>2, WitnessedKeeps
  <2>3. CASE s = Witnessed /\ stack = << >>
    <3>1. s = << >>
      BY <2>3 DEF Witnessed
    <3> QED BY <1>1, <2>3, <3>1
  <2> QED BY <2>1, <2>2, <2>3
<1>3. s \in Seq(Frame)
  BY <1>2 DEF Slots
<1>4. s = << >> <=> stack = << >>
  BY <1>1, <1>2, <1>3
<1>5. stack = << >> => ~mtx
  BY <1>1 DEF Slots, CallStack
<1>6. \/ s = << >> /\ InLock(f) /\ mtx' = TRUE
      \/ s = << >> /\ ~InLock(f) /\ mtx' = FALSE
      \/ /\ s # << >> /\ LastOf(s).pc = "yield" /\ ~InLock(f)
         /\ mtx' = mtx /\ m_cancelled' = m_cancelled /\ m_sdb' = m_sdb
  <2>1. CASE stack = << >>
    BY <1>1, <1>4, <1>5, <2>1
  <2>2. CASE stack # << >>
    <3>1. At("yield") /\ Len(stack) \in DOMAIN stack
      BY <1>1, <2>2 DEF CanCall
    <3>2. LastOf(s).pc = "yield"
      BY <1>2, <3>1 DEF At, Top, LastOf
    <3> QED BY <1>4, <2>2, <3>2
  <2> QED BY <2>1, <2>2
<1>7. Slots(stack', mtx', m_cancelled', m_sdb')
  <2>1. stack' = Append(s, f)
    OBVIOUS
  <2>2. Slots(Append(s, f), mtx', m_cancelled', m_sdb')
    <3>1. CASE s = << >> /\ InLock(f) /\ mtx' = TRUE
      BY <1>1, <1>2, <3>1, CallKeeps
    <3>2. CASE s = << >> /\ ~InLock(f) /\ mtx' = FALSE
      BY <1>1, <1>2, <3>2, CallKeeps
    <3>3. CASE /\ s # << >> /\ LastOf(s).pc = "yield" /\ ~InLock(f)
               /\ mtx' = mtx /\ m_cancelled' = m_cancelled /\ m_sdb' = m_sdb
      BY <1>1, <1>2, <3>3, CallKeeps
    <3> QED BY <1>6, <3>1, <3>2, <3>3
  <2> QED BY <2>1, <2>2
<1>8. stack' \in Seq(Frame) /\ Len(stack') = Len(stack) + 1
  BY <1>2, <1>3, AppendProperties
<1> QED BY <1>1, <1>7, <1>8, WorkerAssumption DEF StackOK

-----------------------------------------------------------------------------
(***************************************************************************)
(* Every action keeps Plain.                                               *)
(***************************************************************************)

LEMMA ChangeKeeps ==
  ASSUME Plain, NEW dev, NEW disc \in Discs \cup {None}, Change(dev, disc)
  PROVE  /\ drive' \in [Devices -> Discs \cup {None}]
         /\ noticed' \in BOOLEAN /\ missed' \in BOOLEAN
<1>1. drive' \in [Devices -> Discs \cup {None}]
  BY DEF Plain, Change
<1>2. missed' \in BOOLEAN
  BY Zenon DEF Plain, Change
<1> QED BY <1>1, <1>2 DEF Change

LEMMA AroundKeepsPlain ==
  ASSUME Plain,
         \/ \E dev \in Devices : \/ \E disc \in Discs \cup {None} : Swap(dev, disc)
                                 \/ ChangeDevice(dev)
         \/ Poll \/ Cancel \/ Eject \/ JobRefused
         \/ \E base \in Bases : Grab(base) \/ Encode(base)
  PROVE  Plain'
<1> USE WorkerAssumption DEF Plain, worker, world
<1>1. ASSUME NEW dev \in Devices, NEW disc \in Discs \cup {None}, Swap(dev, disc) PROVE Plain'
  <2>1. /\ drive' \in [Devices -> Discs \cup {None}]
        /\ noticed' \in BOOLEAN /\ missed' \in BOOLEAN
    BY <1>1, ChangeKeeps DEF Swap
  <2>2. swaps' \in 0..MaxSwaps
    BY <1>1 DEF Swap
  <2> QED BY <1>1, <2>1, <2>2 DEF Swap
<1>2. ASSUME NEW dev \in Devices, ChangeDevice(dev) PROVE Plain'
  BY <1>2 DEF ChangeDevice, ByWindow
<1>3. CASE Poll
  BY <1>3 DEF Poll
<1>4. CASE Cancel
  BY <1>4 DEF Cancel, ByWindow
<1>5. CASE Eject
  <2>1. /\ drive' \in [Devices -> Discs \cup {None}]
        /\ noticed' \in BOOLEAN /\ missed' \in BOOLEAN
    <3>1. CASE Disc # None
      BY <1>5, <3>1, ChangeKeeps DEF Eject
    <3>2. CASE Disc = None
      BY <1>5, <3>2 DEF Eject
    <3> QED BY <3>1, <3>2
  <2>2. calls' \in 0..MaxCalls
    BY <1>5 DEF Eject, ByWindow
  <2> QED BY <1>5, <2>1, <2>2 DEF Eject
<1>6. CASE JobRefused
  BY <1>6 DEF JobRefused, ByWindow, BusyCancel
<1>7. ASSUME NEW base \in Bases, Grab(base) PROVE Plain'
  <2>1. mtx' \in BOOLEAN /\ m_cancelled' \in BOOLEAN
    BY <1>7 DEF Grab, StartJob
  <2>2. calls' \in 0..MaxCalls
    BY <1>7 DEF Grab, ByWindow
  <2> QED BY <1>7, <2>1, <2>2 DEF Grab
<1>8. ASSUME NEW base \in Bases, Encode(base) PROVE Plain'
  <2>1. m_sdb' \in Db
    BY <1>8 DEF Encode
  <2>2. mtx' \in BOOLEAN /\ m_cancelled' \in BOOLEAN
    BY <1>8 DEF Encode, StartJob
  <2>3. calls' \in 0..MaxCalls
    BY <1>8 DEF Encode, ByWindow
  <2> QED BY <1>8, <2>1, <2>2, <2>3 DEF Encode
<1> QED BY <1>1, <1>2, <1>3, <1>4, <1>5, <1>6, <1>7, <1>8

LEMMA RefreshKeepsPlain ==
  ASSUME CallInv,
               PollDisc \/ OpenedDisc \/ RefreshLock \/ RefreshStatus \/ RefreshToc
               \/ RefreshQuery \/ RefreshOffline \/ Throw
  PROVE  Plain'
<1>1. Plain /\ (stack # << >> => Top.di \in {"Audio", "NoDisc"})
  BY CallParts, TopParts DEF Frame
<1>2. /\ TocRead \in Tocs /\ GetDiscStatus \in {"Audio", "NoDisc"} /\ None \in Tocs
      /\ Untagged \in Tags /\ Discs \subseteq Tags /\ Listed \subseteq Discs
  BY <1>1, DriveTypes, WorkerAssumption DEF Tags, Tocs
<1>3. ASSUME NEW di \in {"Audio", "NoDisc"}, Refreshed(di), stack # << >>
      PROVE  m_di' \in {"Audio", "NoDisc"}
  BY <1>1, <1>3 DEF Refreshed
<1> USE <1>1, <1>2 DEF Plain, world, At
<1>4. CASE PollDisc
  BY <1>4 DEF PollDisc, TocAfterPoll
<1>5. CASE OpenedDisc
  BY <1>5 DEF OpenedDisc
<1>6. CASE RefreshLock
  BY <1>3, <1>6 DEF RefreshLock
<1>7. CASE RefreshStatus
  BY <1>3, <1>7 DEF RefreshStatus
<1>8. CASE RefreshToc
  BY <1>3, <1>8 DEF RefreshToc
<1>9. CASE RefreshQuery
  <2>1. m_tags' \in Tags /\ cache' \subseteq Discs /\ m_toc' \in Tocs
    BY <1>9 DEF RefreshQuery
  <2> QED BY <1>3, <1>9, <2>1 DEF RefreshQuery
<1>10. CASE RefreshOffline
  BY <1>10 DEF RefreshOffline
<1>11. CASE Throw
  <2>1. mtx' \in BOOLEAN
    <3>1. mtx' = (mtx /\ ~InLock(Top))
      BY <1>11 DEF Throw
    <3> QED BY <3>1, Zenon
  <2> QED BY <1>11, <2>1 DEF Throw
<1> QED BY <1>4, <1>5, <1>6, <1>7, <1>8, <1>9, <1>10, <1>11

LEMMA LargerSize ==
  ASSUME NEW a \in Nat, NEW b \in Nat
  PROVE  Max({a, b}) \in Nat
BY DEF Max

\* A table of contents and as many sectors as were asked for make a db.
LEMMA DbOfSectors ==
  ASSUME NEW toc \in Tocs, NEW n \in Nat, NEW sectors \in [1..n -> Sector]
  PROVE  [toc |-> toc, sectors |-> sectors] \in Db
<1>1. sectors \in Seq(Sector)
  OBVIOUS
<1> QED BY <1>1 DEF Db

LEMMA JobKeepsPlain ==
  ASSUME CallInv,
               \/ GrabLoad \/ GrabToc \/ GrabNew \/ PassBegin \/ PassLoop
               \/ \E audio \in Data : ReadAudio(audio)
               \/ PassEnd \/ SaveEnd \/ GrabEnd \/ EncodeChunk \/ EncodeEnd \/ Resume
  PROVE  Plain'
<1>0. ASSUME stack # << >>, Top.pc \in {"open", "passed", "save"} PROVE Top.base \in Bases
  <2>1. Top.slot = "Grab" /\ FrameInv(Top, m_cancelled, m_sdb)
    BY <1>0, TopParts, WhoRuns
  <2> QED BY <2>1 DEF FrameInv, GrabInv
<1>1. Plain /\ (stack # << >> => Top \in Frame)
  BY CallParts, TopParts
<1>2. TocRead \in Tocs /\ SizeRead \in Nat /\ Junk \in Tocs
  BY <1>1, DriveTypes DEF Tocs
<1> USE <1>1 DEF Plain, worker, world, At
<1>3. CASE GrabLoad
  <2>1. Top.base \in Bases
    BY <1>0, <1>3 DEF GrabLoad
  <2>2. m_sdb' \in Db
    BY <1>3, <2>1 DEF GrabLoad
  <2> QED BY <1>3, <2>2 DEF GrabLoad
<1>4. CASE GrabToc
  BY <1>2, <1>4 DEF GrabToc
<1>5. CASE GrabNew
  <2> DEFINE sectors == [i \in 1..SizeRead |-> NewSector]
  <2>1. sectors \in [1..SizeRead -> Sector]
    BY NewSectorType
  <2>2. m_sdb' = [toc |-> m_toc, sectors |-> sectors]
    BY <1>5 DEF GrabNew
  <2> HIDE DEF sectors
  <2>3. m_sdb' \in Db
    BY <1>1, <1>2, <2>1, <2>2, DbOfSectors
  <2> QED BY <1>5, <2>3 DEF GrabNew
<1>6. CASE PassBegin
  <2> DEFINE n == Max({Len(m_sdb.sectors), SizeRead})
  <2>1. m_sdb.toc \in Tocs /\ m_sdb.sectors \in Seq(Sector) /\ Len(m_sdb.sectors) \in Nat
    BY DbParts
  <2>2. n \in Nat
    BY <1>2, <2>1, LargerSize
  <2>3. PICK toc \in TocOfPass(m_sdb.toc) :
          m_sdb' = [toc |-> toc, sectors |-> Resized(m_sdb.sectors, n, NewSector)]
    BY <1>6 DEF PassBegin
  <2>4. toc \in Tocs
    BY <1>2, <2>1 DEF TocOfPass
  <2> HIDE DEF n
  <2>5. Resized(m_sdb.sectors, n, NewSector) \in [1..n -> Sector]
    BY <2>1, <2>2, NewSectorType DEF Resized
  <2>6. m_sdb' \in Db
    BY <2>2, <2>3, <2>4, <2>5, DbOfSectors
  <2> QED BY <1>6, <2>6 DEF PassBegin
<1>7. CASE PassLoop
  BY <1>7 DEF PassLoop
<1>8. ASSUME NEW audio \in Data, ReadAudio(audio) PROVE Plain'
  <2> DEFINE k == Top.lba + 1
  <2>1. m_sdb' = [m_sdb EXCEPT !.sectors[k] = AddAudio(m_sdb.sectors[k], audio)]
    BY <1>8 DEF ReadAudio
  <2> HIDE DEF k
  <2>2. m_sdb' \in Db
    <3>1. CASE k \in DOMAIN m_sdb.sectors
      <4>1. m_sdb.sectors[k] \in Sector
        BY <3>1, DbParts
      <4>2. AddAudio(m_sdb.sectors[k], audio) \in Sector
        BY <4>1, AddAudioType
      <4>3. [m_sdb.sectors EXCEPT ![k] = AddAudio(m_sdb.sectors[k], audio)] \in Seq(Sector)
        BY <3>1, <4>2, DbParts
      <4> QED BY <2>1, <4>3 DEF Db
    <3>2. CASE k \notin DOMAIN m_sdb.sectors
      <4>1. m_sdb' = m_sdb
        BY <2>1, <3>2 DEF Db
      <4> QED BY <4>1
    <3> QED BY <3>1, <3>2
  <2> QED BY <1>8, <2>2 DEF ReadAudio
<1>9. CASE PassEnd
  <2>1. torn' \subseteq Bases
    BY <1>0, <1>9 DEF PassEnd
  <2> QED BY <1>9, <2>1 DEF PassEnd
<1>14. CASE SaveEnd
  <2>1. files' \in [Bases -> Db] /\ torn' \subseteq Bases
    BY <1>14 DEF SaveEnd
  <2> QED BY <1>14, <2>1 DEF SaveEnd
<1>10. CASE GrabEnd
  BY <1>10 DEF GrabEnd
<1>11. CASE EncodeChunk
  BY <1>11 DEF EncodeChunk
<1>12. CASE EncodeEnd
  BY <1>12 DEF EncodeEnd
<1>13. CASE Resume
  BY <1>13 DEF Resume
<1> QED BY <1>3, <1>4, <1>5, <1>6, <1>7, <1>8, <1>9, <1>10, <1>11, <1>12, <1>13, <1>14

-----------------------------------------------------------------------------
(***************************************************************************)
(* Every action keeps StackOK.                                             *)
(***************************************************************************)

LEMMA SwapKeepsStack ==
  ASSUME CallInv, stack' = Witnessed, UNCHANGED worker
  PROVE  StackOK'
<1>1. /\ Slots(Witnessed, mtx, m_cancelled, m_sdb) /\ Len(Witnessed) = Len(stack)
      /\ m_cancelled' = m_cancelled /\ mtx' = mtx /\ m_sdb' = m_sdb
  BY WitnessedKeeps DEF worker
<1> QED BY <1>1 DEF StackOK, Slots, CallInv, TypeOK

LEMMA CancelKeepsStack ==
  ASSUME CallInv, Cancel
  PROVE  StackOK'
<1> DEFINE t == [i \in DOMAIN stack |-> [stack[i] EXCEPT !.asked = TRUE]]
<1>1. /\ stack' = t /\ m_cancelled' = TRUE /\ mtx' = mtx /\ m_sdb' = m_sdb
      /\ stack \in Seq(Frame) /\ Len(stack) <= MaxDepth /\ mtx \in BOOLEAN
  BY DEF Cancel, CallInv, TypeOK
<1>2. CASE stack = << >>
  <2>1. t = << >> /\ ~mtx
    BY <1>2 DEF CallInv, Slots, CallStack
  <2>2. Slots(<< >>, FALSE, TRUE, m_sdb)
    BY EmptySlots
  <2> HIDE DEF t
  <2>3. mtx' = FALSE
    BY <1>1, <2>1
  <2> QED BY <1>1, <1>2, <2>1, <2>2, <2>3 DEF StackOK
<1>3. CASE stack # << >>
  <2>1. Top.pc = "yield"
    BY <1>3 DEF Cancel, ByWindow, CanCall, At
  <2>2. /\ Top \in Frame /\ Top.slot \in {"Grab", "Encode"} /\ Len(stack) = 1 /\ mtx
        /\ FrameInv(Top, m_cancelled, m_sdb)
    BY <1>3, <2>1, TopParts, WhoRuns DEF InLock
  <2> DEFINE f == [Top EXCEPT !.asked = TRUE]
  <2>3. f \in Frame /\ InLock(f)
    BY <2>1, <2>2 DEF Frame, InLock
  <2>4. FrameInv(f, TRUE, m_sdb)
    BY <2>1, <2>2 DEF FrameInv, GrabInv, EncodeInv, Phase, Frame
  <2>5. DOMAIN t = {1} /\ t[1] = f /\ DOMAIN stack = {1}
    BY <1>1, <2>2 DEF Top
  <2>6. t \in Seq(Frame) /\ Len(t) = 1
    <3>1. t \in [1..Len(stack) -> Frame] /\ Len(stack) \in Nat
      BY <2>2, <2>3, <2>5
    <3> HIDE DEF t
    <3>2. t \in Seq(Frame)
      BY <3>1
    <3>3. DOMAIN t = 1..Len(t) /\ Len(t) \in Nat
      BY <3>2
    <3> QED BY <2>5, <3>2, <3>3
  <2> HIDE DEF f, t
  <2>7. Slots(t, mtx', TRUE, m_sdb)
    <3>1. mtx' <=> \E i \in DOMAIN t : InLock(t[i])
      BY <1>1, <2>2, <2>3, <2>5
    <3>2. CallStack(t, mtx')
      BY <2>6, <3>1 DEF CallStack
    <3>3. \A i \in DOMAIN t : FrameInv(t[i], TRUE, m_sdb)
      BY <2>4, <2>5
    <3> QED BY <2>6, <3>2, <3>3 DEF Slots
  <2> QED BY <1>1, <2>2, <2>6, <2>7 DEF StackOK
<1> QED BY <1>2, <1>3

\* A job starts only on an empty stack: over a yielded job the lock is taken.
LEMMA FreeLockIsEmptyStack ==
  ASSUME CallInv, CanCall, ~Locked
  PROVE  stack = << >>
<1>1. ASSUME stack # << >> PROVE FALSE
  <2>1. InLock(Top)
    BY <1>1 DEF CanCall, At, InLock
  <2> QED BY <1>1, <2>1, TopParts DEF Locked
<1> QED BY <1>1

LEMMA EmptyIsShort == << >> \in Seq(Frame) /\ Len(<< >>) <= MaxDepth
BY WorkerAssumption

LEMMA GrabKeepsStack ==
  ASSUME CallInv, NEW base \in Bases, Grab(base)
  PROVE  StackOK'
<1>1. CanCall /\ ~Locked /\ m_cancelled' = FALSE /\ m_sdb' = m_sdb /\ stack = << >>
  BY FreeLockIsEmptyStack DEF Grab, ByWindow, StartJob
<1>2. CASE m_di = "Audio"
  <2> DEFINE f == [Idle("Grab", "open") EXCEPT !.base = base]
  <2>1. stack' = Append(stack, f) /\ mtx' = TRUE
    BY <1>2 DEF Grab, Call
  <2>2. base \in Tags
    BY WorkerAssumption DEF Tags
  <2>3. f \in Frame
    <3>1. Idle("Grab", "open") \in Frame
      BY IdleType
    <3> QED BY <2>2, <3>1 DEF Frame
  <2>4. InLock(f) /\ FrameInv(f, FALSE, m_sdb')
    BY DEF InLock, FrameInv, GrabInv, Phase, Idle, MaxPasses, minimumCommonCrcCount
  <2> HIDE DEF f
  <2>5. FrameInv(f, m_cancelled', m_sdb')
    BY <1>1, <2>4
  <2> QED BY <1>1, <2>1, <2>3, <2>4, <2>5, CallStep
<1>3. CASE m_di # "Audio"
  <2>1. stack' = << >> /\ mtx' = FALSE
    BY <1>1, <1>3 DEF Grab, Locked, CallInv, TypeOK
  <2>2. Slots(<< >>, FALSE, m_cancelled', m_sdb')
    BY EmptySlots
  <2>3. Slots(stack', mtx', m_cancelled', m_sdb')
    BY <2>1, <2>2
  <2> QED BY <2>1, <2>3, EmptyIsShort DEF StackOK
<1> QED BY <1>2, <1>3

LEMMA EncodeKeepsStack ==
  ASSUME CallInv, NEW base \in Bases, Encode(base)
  PROVE  StackOK'
<1>1. CanCall /\ ~Locked /\ m_cancelled' = FALSE /\ stack = << >>
  BY FreeLockIsEmptyStack DEF Encode, ByWindow, StartJob
<1>2. m_sdb' \in Db
  BY AroundKeepsPlain, CallParts DEF Plain
<1>3. CASE m_sdb'.sectors # << >>
  <2> DEFINE f == [Idle("Encode", "encode") EXCEPT !.base = base]
  <2>1. stack' = Append(stack, f) /\ mtx' = TRUE
    BY <1>3 DEF Encode, Call
  <2>2. base \in Tags
    BY WorkerAssumption DEF Tags
  <2>3. f \in Frame
    <3>1. Idle("Encode", "encode") \in Frame
      BY IdleType
    <3> QED BY <2>2, <3>1 DEF Frame
  <2>4. InLock(f) /\ FrameInv(f, FALSE, m_sdb')
    <3>1. Len(m_sdb'.sectors) \in Nat \ {0}
      BY <1>2, <1>3 DEF Db
    <3>2. SubSeq(Audio(m_sdb'), 1, 0) = << >>
      BY SubSeqEmpty
    <3> QED BY <3>1, <3>2 DEF InLock, FrameInv, EncodeInv, Phase, Idle
  <2> HIDE DEF f
  <2>5. FrameInv(f, m_cancelled', m_sdb')
    BY <1>1, <2>4
  <2> QED BY <1>1, <2>1, <2>3, <2>4, <2>5, CallStep
<1>4. CASE m_sdb'.sectors = << >>
  <2>1. stack' = << >> /\ mtx' = FALSE
    BY <1>1, <1>4 DEF Encode, Locked, CallInv, TypeOK
  <2>2. Slots(<< >>, FALSE, m_cancelled', m_sdb')
    BY EmptySlots
  <2>3. Slots(stack', mtx', m_cancelled', m_sdb')
    BY <2>1, <2>2
  <2> QED BY <2>1, <2>3, EmptyIsShort DEF StackOK
<1> QED BY <1>3, <1>4

LEMMA AroundKeepsStack ==
  ASSUME CallInv,
         \/ \E dev \in Devices : \/ \E disc \in Discs \cup {None} : Swap(dev, disc)
                                 \/ ChangeDevice(dev)
         \/ Poll \/ Cancel \/ Eject \/ JobRefused
         \/ \E base \in Bases : Grab(base) \/ Encode(base)
  PROVE  StackOK'
<1>0. ASSUME UNCHANGED <<stack, mtx, m_cancelled, m_sdb>> PROVE StackOK'
  BY <1>0, CallParts DEF StackOK
<1>1. ASSUME NEW dev \in Devices, NEW disc \in Discs \cup {None}, Swap(dev, disc) PROVE StackOK'
  BY <1>1, SwapKeepsStack DEF Swap
<1>2. ASSUME NEW dev \in Devices, ChangeDevice(dev) PROVE StackOK'
  <2> DEFINE f == Idle("ChangeDevice", "di")
  <2>1. /\ stack' = Append(Witnessed, f) /\ CanCall
        /\ mtx' = mtx /\ m_cancelled' = m_cancelled /\ m_sdb' = m_sdb
    BY <1>2 DEF ChangeDevice, ByWindow
  <2>2. f \in Frame /\ ~InLock(f) /\ FrameInv(f, m_cancelled', m_sdb')
    BY IdleType DEF InLock, FrameInv, Idle
  <2>3. mtx' \in BOOLEAN /\ m_cancelled' \in BOOLEAN
    BY <2>1 DEF CallInv, TypeOK
  <2> HIDE DEF f
  <2> QED BY <2>1, <2>2, <2>3, CallStep
<1>3. CASE Poll
  <2> DEFINE f == Idle("Poll", "di")
  <2>1. /\ stack' = Append(stack, f) /\ CanCall
        /\ mtx' = mtx /\ m_cancelled' = m_cancelled /\ m_sdb' = m_sdb
    BY <1>3 DEF Poll, Call, worker
  <2>2. f \in Frame /\ ~InLock(f) /\ FrameInv(f, m_cancelled', m_sdb')
    BY IdleType DEF InLock, FrameInv, Idle
  <2>3. mtx' \in BOOLEAN /\ m_cancelled' \in BOOLEAN
    BY <2>1 DEF CallInv, TypeOK
  <2> HIDE DEF f
  <2> QED BY <2>1, <2>2, <2>3, CallStep
<1>4. CASE Cancel
  BY <1>4, CancelKeepsStack
<1>5. CASE Eject
  <2>1. CASE Disc # None
    BY <1>5, <2>1, SwapKeepsStack DEF Eject
  <2>2. CASE Disc = None
    BY <1>0, <1>5, <2>2 DEF Eject, worker
  <2> QED BY <2>1, <2>2
<1>6. CASE JobRefused
  <2>1. stack' = stack /\ mtx' = mtx /\ m_cancelled' = m_cancelled /\ m_sdb' = m_sdb
    BY <1>6 DEF JobRefused, BusyCancel
  <2> QED BY <2>1, CallParts DEF StackOK
<1>7. ASSUME NEW base \in Bases, Grab(base) PROVE StackOK'
  BY <1>7, GrabKeepsStack
<1>8. ASSUME NEW base \in Bases, Encode(base) PROVE StackOK'
  BY <1>8, EncodeKeepsStack
<1> QED BY <1>1, <1>2, <1>3, <1>4, <1>5, <1>6, <1>7, <1>8

\* A frame of Poll or ChangeDevice that goes on within them.
LEMMA RefreshFrame ==
  ASSUME NEW f \in Frame, f.slot \in {"Poll", "ChangeDevice"},
         NEW pc \in {"lock", "status", "toc", "query"}, NEW c, NEW sdb
  PROVE  /\ [f EXCEPT !.pc = pc] \in Frame /\ [f EXCEPT !.pc = pc].pc = pc
         /\ FrameInv([f EXCEPT !.pc = pc], c, sdb)
<1> DEFINE g == [f EXCEPT !.pc = pc]
<1>1. g \in Frame /\ g.pc = pc /\ g.slot = f.slot
  BY DEF Frame
<1> HIDE DEF g
<1>2. FrameInv(g, c, sdb)
  BY <1>1 DEF FrameInv
<1> QED BY <1>1, <1>2 DEF g

LEMMA RefreshKeepsStack ==
  ASSUME CallInv,
               PollDisc \/ OpenedDisc \/ RefreshLock \/ RefreshStatus \/ RefreshToc
               \/ RefreshQuery \/ RefreshOffline \/ Throw
  PROVE  StackOK'
<1>1. /\ stack # << >> /\ m_cancelled' = m_cancelled /\ m_sdb' = m_sdb
      /\ Top.pc \in {"di", "lock", "status", "toc", "query"} \/ Throw
  BY DEF PollDisc, OpenedDisc, RefreshLock, RefreshStatus, RefreshToc,
         RefreshQuery, RefreshOffline, Throw, At
<1>2. Top \in Frame /\ GetDiscStatus \in {"Audio", "NoDisc"} /\ mtx \in BOOLEAN
  BY <1>1, TopParts, CallParts, DriveTypes DEF Plain
<1>3. Top.pc \in {"di", "lock", "status", "toc", "query"} =>
        Top.slot \in {"Poll", "ChangeDevice"}
  BY <1>1, TopParts, WhoRuns
<1>4. ASSUME PollDisc PROVE StackOK'
  <2>1. Top.pc = "di" /\ ~InLock(Top) /\ mtx' = mtx
    BY <1>4 DEF PollDisc, At, InLock
  <2>2. CASE Return
    BY <1>1, <2>1, <2>2, ReturnStep
  <2>3. ASSUME NEW di \in {"Audio", "NoDisc"}, Become([Top EXCEPT !.pc = "lock", !.di = di])
        PROVE  StackOK'
    <3> DEFINE f == [Top EXCEPT !.pc = "lock", !.di = di]
    <3>1. f \in Frame /\ f.pc = "lock" /\ FrameInv(f, m_cancelled, m_sdb)
      <4>1. Top \in Frame /\ Top.slot \in {"Poll", "ChangeDevice"}
        BY <1>2, <1>3, <2>1
      <4>2. f \in Frame /\ f.pc = "lock" /\ f.slot = Top.slot
        BY <4>1 DEF Frame
      <4> QED BY <4>1, <4>2 DEF FrameInv
    <3>2. ~InLock(f) /\ Become(f)
      BY <2>3, <3>1 DEF InLock
    <3> HIDE DEF f
    <3> QED BY <1>1, <2>1, <3>1, <3>2, FreeStep
  <2> QED BY <1>2, <1>4, <2>2, <2>3 DEF PollDisc
<1>5. ASSUME OpenedDisc PROVE StackOK'
  <2> DEFINE f == [Top EXCEPT !.pc = "lock"]
  <2>1. Top.pc = "di" /\ ~InLock(Top) /\ mtx' = mtx /\ Become(f)
    BY <1>5 DEF OpenedDisc, At, InLock, Goto
  <2>2. f \in Frame /\ f.pc = "lock" /\ FrameInv(f, m_cancelled, m_sdb)
    BY <1>2, <1>3, <2>1, RefreshFrame
  <2>3. ~InLock(f)
    BY <2>2 DEF InLock
  <2> HIDE DEF f
  <2> QED BY <1>1, <2>1, <2>2, <2>3, FreeStep
<1>6. ASSUME RefreshLock PROVE StackOK'
  <2>1. Top.pc = "lock" /\ ~InLock(Top)
    BY <1>6 DEF RefreshLock, At, InLock
  <2>2. CASE Locked
    <3>1. Return /\ mtx' = mtx
      BY <1>6, <2>2 DEF RefreshLock, Refreshed
    <3> QED BY <1>1, <2>1, <3>1, ReturnStep
  <2>3. CASE ~Locked
    <3> DEFINE f == [Top EXCEPT !.pc = "status"]
    <3>1. Become(f) /\ mtx' = TRUE /\ ~mtx
      BY <1>6, <2>3 DEF RefreshLock, Goto, Locked
    <3>2. f \in Frame /\ f.pc = "status" /\ FrameInv(f, m_cancelled, m_sdb)
      BY <1>2, <1>3, <2>1, RefreshFrame
    <3>3. InLock(f)
      BY <3>2 DEF InLock
    <3> HIDE DEF f
    <3> QED BY <1>1, <2>1, <3>1, <3>2, <3>3, FreeStep
  <2> QED BY <2>2, <2>3
<1>7. ASSUME RefreshStatus PROVE StackOK'
  <2>1. Top.pc = "status" /\ InLock(Top)
    BY <1>7 DEF RefreshStatus, At, InLock
  <2>2. CASE GetDiscStatus # "Audio"
    <3>1. Return /\ mtx' = FALSE
      BY <1>7, <2>2 DEF RefreshStatus, Refreshed
    <3> QED BY <1>1, <2>1, <3>1, ReturnStep
  <2>3. CASE GetDiscStatus = "Audio"
    <3> DEFINE f == [Top EXCEPT !.pc = "toc"]
    <3>1. Become(f) /\ mtx' = mtx
      BY <1>7, <2>3 DEF RefreshStatus, Goto
    <3>2. f \in Frame /\ f.pc = "toc" /\ FrameInv(f, m_cancelled, m_sdb')
      BY <1>2, <1>3, <2>1, RefreshFrame
    <3>3. InLock(f)
      BY <3>2 DEF InLock
    <3> HIDE DEF f
    <3> QED BY <1>1, <2>1, <3>1, <3>2, <3>3, LockedStep
  <2> QED BY <2>2, <2>3
<1>8. ASSUME RefreshToc PROVE StackOK'
  <2>1. Top.pc = "toc" /\ InLock(Top)
    BY <1>8 DEF RefreshToc, At, InLock
  <2>2. CASE TocRead \in cache
    <3>1. Return /\ mtx' = FALSE
      BY <1>8, <2>2 DEF RefreshToc, Refreshed
    <3> QED BY <1>1, <2>1, <3>1, ReturnStep
  <2>3. CASE TocRead \notin cache
    <3> DEFINE f == [Top EXCEPT !.pc = "query"]
    <3>1. Become(f) /\ mtx' = mtx
      BY <1>8, <2>3 DEF RefreshToc, Goto
    <3>2. f \in Frame /\ f.pc = "query" /\ FrameInv(f, m_cancelled, m_sdb')
      BY <1>2, <1>3, <2>1, RefreshFrame
    <3>3. InLock(f)
      BY <3>2 DEF InLock
    <3> HIDE DEF f
    <3> QED BY <1>1, <2>1, <3>1, <3>2, <3>3, LockedStep
  <2> QED BY <2>2, <2>3
<1>9. ASSUME RefreshQuery \/ RefreshOffline PROVE StackOK'
  <2>1. InLock(Top) /\ Return /\ mtx' = FALSE
    BY <1>9 DEF RefreshQuery, RefreshOffline, At, InLock, Refreshed
  <2> QED BY <1>1, <2>1, ReturnStep
<1>10. ASSUME Throw PROVE StackOK'
  <2>1. Return /\ mtx' = (mtx /\ ~InLock(Top))
    BY <1>10 DEF Throw
  <2>2. \/ InLock(Top) /\ mtx' = FALSE
        \/ ~InLock(Top) /\ mtx' = mtx
    BY <1>2, <2>1
  <2> QED BY <1>1, <2>1, <2>2, ReturnStep
<1> QED BY <1>4, <1>5, <1>6, <1>7, <1>8, <1>9, <1>10

\* The frame of a grab that goes on: what has to hold of its new form.
LEMMA GrabFrame ==
  ASSUME CallInv, stack # << >>, InLock(Top), Top.slot = "Grab",
         NEW f \in Frame, f.slot = "Grab", InLock(f), Become(f), GrabInv(f, m_cancelled),
         m_cancelled' = m_cancelled, mtx' = mtx
  PROVE  StackOK'
<1>1. FrameInv(f, m_cancelled, m_sdb')
  BY DEF FrameInv
<1> QED BY <1>1, LockedStep

LEMMA GrabKeepsInv ==
  ASSUME CallInv,
               \/ GrabLoad \/ GrabToc \/ GrabNew \/ PassBegin \/ PassLoop
               \/ \E audio \in Data : ReadAudio(audio)
               \/ PassEnd \/ SaveEnd
  PROVE  StackOK'
<1>1. /\ stack # << >> /\ m_cancelled' = m_cancelled /\ mtx' = mtx
      /\ Top.pc \in {"open", "size", "pass", "loop", "read", "passed", "save"}
  BY DEF GrabLoad, GrabToc, GrabNew, PassBegin, PassLoop, ReadAudio, PassEnd, SaveEnd,
         At, worker
<1>2. /\ Top \in Frame /\ Top.slot = "Grab" /\ InLock(Top) /\ GrabInv(Top, m_cancelled)
  <2>1. Top \in Frame /\ FrameInv(Top, m_cancelled, m_sdb)
    BY <1>1, TopParts
  <2>2. Top.slot = "Grab"
    BY <1>1, <2>1, WhoRuns
  <2> QED BY <1>1, <2>1, <2>2 DEF FrameInv, InLock
<1>3. ASSUME NEW f \in Frame, Become(f), f.slot = "Grab", InLock(f), GrabInv(f, m_cancelled)
      PROVE  StackOK'
  BY <1>1, <1>2, <1>3, GrabFrame
<1>4. CASE GrabLoad
  <2> DEFINE f == Pass
  <2>1. Become(f) /\ Top.pc = "open"
    BY <1>4 DEF GrabLoad, At
  <2>2. f \in Frame /\ f.slot = "Grab" /\ InLock(f)
    BY <1>2 DEF Pass, Frame, InLock
  <2>3. GrabInv(f, m_cancelled)
    BY <1>2, <2>1 DEF Pass, Frame, GrabInv, Phase
  <2> QED BY <1>3, <2>1, <2>2, <2>3
<1>5. CASE GrabToc
  <2> DEFINE f == [Top EXCEPT !.pc = "size"]
  <2>1. Become(f) /\ Top.pc = "open"
    BY <1>5 DEF GrabToc, At, Goto
  <2>2. f \in Frame /\ f.slot = "Grab" /\ InLock(f)
    BY <1>2 DEF Frame, InLock
  <2>3. GrabInv(f, m_cancelled)
    BY <1>2, <2>1 DEF Frame, GrabInv, Phase
  <2> QED BY <1>3, <2>1, <2>2, <2>3
<1>6. CASE GrabNew
  <2> DEFINE f == [Pass EXCEPT !.fresh = TRUE]
  <2>1. Become(f) /\ Top.pc = "size"
    BY <1>6 DEF GrabNew, At
  <2>2. f \in Frame /\ f.slot = "Grab" /\ InLock(f)
    BY <1>2 DEF Pass, Frame, InLock
  <2>3. GrabInv(f, m_cancelled)
    BY <1>2, <2>1 DEF Pass, Frame, GrabInv, Phase
  <2> QED BY <1>3, <2>1, <2>2, <2>3
<1>7. CASE PassBegin
  <2> DEFINE f == [Top EXCEPT !.pc = "loop", !.reader = m_cdda.serial,
                              !.lba = 0, !.nRead = 0, !.buf = Zeros]
  <2>1. Become(f) /\ Top.pc = "pass" /\ m_cdda.serial \in Nat /\ Zeros \in Data
    BY <1>7, StoreAssumption DEF PassBegin, At, CallInv, TypeOK
  <2>2. f \in Frame /\ f.slot = "Grab" /\ InLock(f)
    BY <1>2, <2>1 DEF Frame, InLock
  <2>3. GrabInv(f, m_cancelled)
    BY <1>2, <2>1 DEF Frame, GrabInv, Phase
  <2> QED BY <1>3, <2>1, <2>2, <2>3
<1>8. CASE PassLoop
  <2>1. Top.pc = "loop" /\ Top.nRead \in Nat /\ ProgressEvery \in Nat \ {0}
    BY <1>2, <1>8, WorkerAssumption DEF PassLoop, At, Frame
  <2>2. CASE Due = {}
    <3> DEFINE f == [Top EXCEPT !.pc = "yield", !.next = "passed"]
    <3>1. Become(f)
      BY <1>8, <2>2 DEF PassLoop
    <3>2. f \in Frame /\ f.slot = "Grab" /\ InLock(f)
      BY <1>2 DEF Frame, InLock
    <3>3. GrabInv(f, m_cancelled)
      BY <1>2, <2>1 DEF Frame, GrabInv, Phase
    <3> QED BY <1>3, <3>1, <3>2, <3>3
  <2>3. ASSUME Due # {} PROVE Min(Due) \in Nat
    <3>1. Due \subseteq Nat
      BY <1>2 DEF Due, Frame
    <3> QED BY <2>3, <3>1, Smallest DEF Min
  <2>4. CASE Due # {} /\ Top.nRead % ProgressEvery = 0
    <3> DEFINE f == [Top EXCEPT !.pc = "yield", !.next = "asked", !.lba = Min(Due)]
    <3>1. Become(f)
      BY <1>8, <2>4 DEF PassLoop
    <3>2. f \in Frame /\ f.slot = "Grab" /\ InLock(f)
      BY <1>2, <2>3, <2>4 DEF Frame, InLock
    <3>3. GrabInv(f, m_cancelled)
      BY <1>2, <2>1 DEF Frame, GrabInv, Phase
    <3> QED BY <1>3, <3>1, <3>2, <3>3
  <2>5. CASE Due # {} /\ Top.nRead % ProgressEvery # 0
    <3> DEFINE f == [Top EXCEPT !.pc = "read", !.lba = Min(Due)]
    <3>1. Become(f)
      BY <1>8, <2>5 DEF PassLoop
    <3>2. f \in Frame /\ f.slot = "Grab" /\ InLock(f)
      BY <1>2, <2>3, <2>5 DEF Frame, InLock
    <3>3. ~Top.asked
      <4>1. Top.asked => Top.nRead = 0
        BY <1>2, <2>1 DEF GrabInv
      <4>2. 0 % ProgressEvery = 0
        BY <2>1
      <4> QED BY <2>5, <4>1, <4>2
    <3>4. GrabInv(f, m_cancelled)
      BY <1>2, <2>1, <3>3 DEF Frame, GrabInv, Phase
    <3> QED BY <1>3, <3>1, <3>2, <3>4
  <2> QED BY <2>2, <2>4, <2>5
<1>9. ASSUME NEW audio \in Data, ReadAudio(audio) PROVE StackOK'
  <2> DEFINE f == [Top EXCEPT !.pc = "loop", !.lba = @ + 1, !.nRead = @ + 1, !.buf = audio]
  <2>1. Become(f) /\ Top.pc = "read"
    BY <1>9 DEF ReadAudio, At
  <2>2. f \in Frame /\ f.slot = "Grab" /\ InLock(f)
    <3>1. Top.lba + 1 \in Nat /\ Top.nRead + 1 \in Nat
      BY <1>2 DEF Frame
    <3> QED BY <1>2, <3>1 DEF Frame, InLock
  <2>3. GrabInv(f, m_cancelled)
    BY <1>2, <2>1 DEF Frame, GrabInv, Phase
  <2> QED BY <1>3, <2>1, <2>2, <2>3
<1>10. ASSUME Top.pc \in {"passed", "save"}, Become(NextPass(Top)) PROVE StackOK'
  <2> DEFINE pc == IF Top.nRead > 0 /\ Top.retry + 1 < MaxPasses THEN "pass" ELSE "done"
  <2> DEFINE f == NextPass(Top)
  <2>1. Become(f) /\ Top.retry \in 0..MaxPasses /\ Top.retry < MaxPasses /\ MaxPasses = 4
    BY <1>2, <1>10 DEF GrabInv, Frame, MaxPasses, minimumCommonCrcCount
  <2>2. /\ f = [Top EXCEPT !.retry = Top.retry + 1, !.pc = pc]
        /\ pc \in {"pass", "done"} /\ (pc = "pass" => Top.retry + 1 < MaxPasses)
    BY DEF NextPass
  <2>3. f \in Frame /\ f.slot = "Grab" /\ InLock(f)
    <3>1. Top.retry + 1 \in 0..MaxPasses
      BY <2>1
    <3> HIDE DEF pc, f
    <3> QED BY <1>2, <2>2, <3>1 DEF Frame, InLock
  <2>4. GrabInv(f, m_cancelled)
    <3> HIDE DEF pc, f
    <3> QED BY <1>2, <2>1, <2>2 DEF Frame, GrabInv, Phase
  <2> HIDE DEF f
  <2> QED BY <1>3, <2>1, <2>3, <2>4
<1>11. CASE PassEnd
  <2>1. Top.pc = "passed"
    BY <1>11 DEF PassEnd, At
  <2>2. CASE ~Saved(Top)
    BY <1>10, <1>11, <2>1, <2>2 DEF PassEnd
  <2>3. CASE Saved(Top)
    <3> DEFINE f == [Top EXCEPT !.pc = "save"]
    <3>1. Become(f) /\ Top.nRead > 0
      BY <1>11, <2>3 DEF PassEnd, Goto, Saved
    <3>2. f \in Frame /\ f.slot = "Grab" /\ InLock(f)
      BY <1>2 DEF Frame, InLock
    <3>3. GrabInv(f, m_cancelled)
      BY <1>2, <2>1, <3>1 DEF Frame, GrabInv, Phase
    <3> QED BY <1>3, <3>1, <3>2, <3>3
  <2> QED BY <2>2, <2>3
<1>12. CASE SaveEnd
  BY <1>10, <1>12 DEF SaveEnd, At
<1> QED BY <1>4, <1>5, <1>6, <1>7, <1>8, <1>9, <1>11, <1>12

\* What Encode has written of a db: its first m sectors.
LEMMA AudioPrefix ==
  ASSUME NEW sdb \in Db, NEW m \in Nat, m <= Len(sdb.sectors)
  PROVE  /\ SubSeq(Audio(sdb), 1, m) \in Seq(Data) /\ Len(SubSeq(Audio(sdb), 1, m)) = m
         /\ \A i \in 1..m : SubSeq(Audio(sdb), 1, m)[i] = sdb.sectors[i].data
<1> DEFINE a == Audio(sdb)
<1> DEFINE n == Len(sdb.sectors)
<1>1. n \in Nat /\ \A i \in 1..n : sdb.sectors[i] \in Sector
  BY DbParts
<1>2. a \in [1..n -> Data] /\ \A i \in 1..n : a[i] = sdb.sectors[i].data
  BY <1>1, DbParts DEF Audio, Sector
<1>3. m <= n
  OBVIOUS
<1> HIDE DEF a, n
<1>4. \A i \in 1..m : a[i] \in Data
  BY <1>1, <1>2, <1>3
<1>5. 1 \in Int /\ m \in Int /\ m - 1 + 1 = m
  OBVIOUS
<1>6. /\ SubSeq(a, 1, m) \in Seq(Data)
      /\ Len(SubSeq(a, 1, m)) = IF 1 <= m THEN m - 1 + 1 ELSE 0
      /\ \A i \in 1..(m - 1 + 1) : SubSeq(a, 1, m)[i] = a[1 + i - 1]
  BY <1>4, <1>5, SubSeqProperties
<1>7. ASSUME NEW i \in 1..m PROVE SubSeq(a, 1, m)[i] = sdb.sectors[i].data
  <2>1. i \in 1..(m - 1 + 1) /\ 1 + i - 1 = i /\ i \in 1..n
    BY <1>1, <1>3
  <2>2. SubSeq(a, 1, m)[i] = a[1 + i - 1]
    BY <1>6, <2>1
  <2> QED BY <1>2, <2>1, <2>2
<1> QED BY <1>6, <1>7 DEF a

\* What a sequence must be to be that.
LEMMA IsAudioPrefix ==
  ASSUME NEW sdb \in Db, NEW m \in Nat, m <= Len(sdb.sectors),
         NEW image \in Seq(Data \cup {None}), Len(image) = m,
         \A i \in 1..m : image[i] = sdb.sectors[i].data
  PROVE  image = SubSeq(Audio(sdb), 1, m)
<1> DEFINE t == SubSeq(Audio(sdb), 1, m)
<1>1. /\ t \in Seq(Data) /\ Len(t) = m
      /\ \A i \in 1..m : t[i] = sdb.sectors[i].data
  BY AudioPrefix
<1> HIDE DEF t
<1>2. t \in Seq(Data \cup {None})
  BY <1>1
<1>3. image = t
  BY <1>1, <1>2, SeqEqual
<1> QED BY <1>3 DEF t

\* Append always gets the whole buffer: the image grows by a chunk, of which the
\* first nrFrames sectors are the db's next ones.
LEMMA ImageGrows ==
  ASSUME NEW sdb \in Db, NEW lba \in Nat, lba < Len(sdb.sectors),
         lba = 0 \/ lba >= ChunkFrames,
         NEW image \in Seq(Data \cup {None}), image = SubSeq(Audio(sdb), 1, lba),
         NEW nrFrames \in Nat, nrFrames <= ChunkFrames, lba + nrFrames <= Len(sdb.sectors)
  PROVE  LET image2 == image \o ReadChunk(Buffer(image), sdb.sectors, lba, nrFrames)
         IN  /\ image2 \in Seq(Data \cup {None})
             /\ Len(image2) = lba + ChunkFrames
             /\ \A i \in 1..(lba + nrFrames) : image2[i] = sdb.sectors[i].data
<1> DEFINE Byte == Data \cup {None}
<1> DEFINE n == Len(sdb.sectors)
<1> DEFINE b == Buffer(image)
<1> DEFINE chunk == ReadChunk(b, sdb.sectors, lba, nrFrames)
<1> DEFINE image2 == image \o chunk
<1>1. n \in Nat /\ \A i \in 1..n : sdb.sectors[i] \in Sector
  BY DbParts
<1>2. Len(image) = lba /\ \A i \in 1..lba : image[i] = sdb.sectors[i].data
  BY AudioPrefix
<1>3. ChunkFrames \in Nat \ {0} /\ lba < n /\ lba + nrFrames <= n
  BY WorkerAssumption
<1>4. b \in [1..ChunkFrames -> Byte]
  <2>1. ASSUME NEW k \in 1..ChunkFrames, image # << >>
        PROVE  image[Len(image) - ChunkFrames + k] \in Byte
    <3>1. lba # 0
      BY <1>2, <2>1
    <3>2. Len(image) - ChunkFrames + k \in 1..Len(image)
      BY <1>2, <1>3, <3>1
    <3> QED BY <3>2
  <2>2. b = [k \in 1..ChunkFrames |-> IF image = << >> THEN None
                                      ELSE image[Len(image) - ChunkFrames + k]]
    BY DEF Buffer
  <2>3. None \in Byte
    OBVIOUS
  <2> HIDE DEF b, Byte
  <2> QED BY <2>1, <2>2, <2>3
<1> HIDE DEF b, n
<1>5. /\ chunk = [k \in 1..ChunkFrames |->
                    IF k <= nrFrames THEN sdb.sectors[lba + k].data ELSE b[k]]
  BY <1>4 DEF ReadChunk
<1> HIDE DEF chunk
<1>6. ASSUME NEW k \in 1..ChunkFrames, k <= nrFrames
      PROVE  chunk[k] = sdb.sectors[lba + k].data /\ chunk[k] \in Data
  <2>1. lba + k \in 1..n
    BY <1>1, <1>3, <1>6
  <2>2. sdb.sectors[lba + k].data \in Data
    BY <1>1, <2>1 DEF Sector
  <2> QED BY <1>5, <1>6, <2>2
<1>7. chunk \in [1..ChunkFrames -> Byte]
  <2>1. ASSUME NEW k \in 1..ChunkFrames PROVE chunk[k] \in Byte
    <3>1. CASE k <= nrFrames
      BY <1>6, <3>1
    <3>2. CASE ~(k <= nrFrames)
      <4>1. chunk[k] = b[k]
        BY <1>5, <3>2
      <4> QED BY <1>4, <4>1
    <3> QED BY <3>1, <3>2
  <2> HIDE DEF Byte
  <2> QED BY <1>5, <2>1
<1>8. chunk \in Seq(Byte) /\ Len(chunk) = ChunkFrames /\ image \in Seq(Byte)
  BY <1>3, <1>7
<1> HIDE DEF Byte
<1>9. /\ image2 \in Seq(Byte) /\ Len(image2) = lba + ChunkFrames
      /\ \A i \in 1..(lba + ChunkFrames) :
            image2[i] = IF i <= lba THEN image[i] ELSE chunk[i - lba]
  <2>1. /\ image \o chunk \in Seq(Byte) /\ Len(image \o chunk) = Len(image) + Len(chunk)
        /\ \A i \in 1..(Len(image) + Len(chunk)) :
              (image \o chunk)[i] = IF i <= Len(image) THEN image[i]
                                    ELSE chunk[i - Len(image)]
    <3>1. image \in Seq(Byte)
      BY <1>8
    <3>2. chunk \in Seq(Byte)
      BY <1>8
    <3> QED BY <3>1, <3>2, ConcatProperties, Zenon
  <2>2. Len(image) = lba /\ Len(chunk) = ChunkFrames
    BY <1>2, <1>8
  <2> QED BY <2>1, <2>2
<1>10. ASSUME NEW i \in 1..(lba + nrFrames) PROVE image2[i] = sdb.sectors[i].data
  <2>1. i \in 1..(lba + ChunkFrames)
    BY <1>3
  <2> HIDE DEF image2
  <2>2. CASE i <= lba
    BY <1>2, <1>9, <2>1, <2>2
  <2>3. CASE ~(i <= lba)
    <3>1. i - lba \in 1..ChunkFrames /\ i - lba <= nrFrames /\ lba + (i - lba) = i
      BY <1>3, <2>3
    <3>2. image2[i] = chunk[i - lba]
      BY <1>9, <2>1, <2>3
    <3> QED BY <1>6, <3>1, <3>2
  <2> QED BY <2>2, <2>3
<1> HIDE DEF image2
<1> QED BY <1>9, <1>10 DEF image2, chunk, b, Byte

\* A call of process(lba, nrFrames): the frame it leaves, for a chunk (which is
\* not the last) and for the run-out.
LEMMA EncodeKeepsInv ==
  ASSUME CallInv, EncodeChunk
  PROVE  StackOK'
<1> DEFINE n == Len(m_sdb.sectors)
<1> DEFINE full == HasFullChunk(Top.lba, n)
<1> DEFINE nrFrames == IF full THEN ChunkFrames ELSE n - Top.lba
<1> DEFINE image == Top.image \o ReadChunk(Buffer(Top.image), m_sdb.sectors, Top.lba, nrFrames)
<1> DEFINE goto == IF full THEN "encode" ELSE "encoded"
<1> DEFINE lba == IF full THEN Top.lba + ChunkFrames ELSE Top.lba
<1> DEFINE pc == IF Top.lba % YieldEvery = 0 THEN "yield" ELSE goto
<1> DEFINE f == [Top EXCEPT !.image = image, !.lba = lba, !.pc = pc, !.next = goto]
<1>1. /\ stack # << >> /\ Top.pc = "encode" /\ Become(f)
      /\ m_cancelled' = m_cancelled /\ mtx' = mtx /\ m_sdb' = m_sdb
  BY DEF EncodeChunk, At, worker
<1>2. Top \in Frame /\ Top.slot = "Encode" /\ InLock(Top) /\ EncodeInv(Top, m_cancelled, m_sdb)
  <2>1. Top \in Frame /\ FrameInv(Top, m_cancelled, m_sdb)
    BY <1>1, TopParts
  <2>2. Top.slot = "Encode"
    BY <1>1, <2>1, WhoRuns
  <2> QED BY <1>1, <2>1, <2>2 DEF FrameInv, InLock
<1>3. /\ Top.lba \in Nat /\ Top.lba < n /\ n \in Nat /\ m_sdb \in Db
      /\ Top.lba = 0 \/ Top.lba >= ChunkFrames
      /\ Top.image \in Seq(Data \cup {None}) /\ Top.image = SubSeq(Audio(m_sdb), 1, Top.lba)
      /\ (Top.asked <=> m_cancelled) /\ ChunkFrames \in Nat \ {0}
  BY <1>1, <1>2, DbParts, WorkerAssumption DEF EncodeInv, Phase, Frame, CallInv, TypeOK
<1>4. /\ nrFrames \in Nat /\ nrFrames <= ChunkFrames /\ Top.lba + nrFrames <= n
      /\ full => nrFrames = ChunkFrames /\ Top.lba + ChunkFrames < n
      /\ ~full => Top.lba + nrFrames = n /\ nrFrames > 0
  <2> HIDE DEF n
  <2> QED BY <1>3 DEF HasFullChunk
<1> HIDE DEF nrFrames
<1>5. /\ image \in Seq(Data \cup {None}) /\ Len(image) = Top.lba + ChunkFrames
      /\ \A i \in 1..(Top.lba + nrFrames) : image[i] = m_sdb.sectors[i].data
  <2> DEFINE i0 == Top.image
             lba0 == Top.lba
  <2>1. /\ i0 \in Seq(Data \cup {None}) /\ i0 = SubSeq(Audio(m_sdb), 1, lba0)
        /\ lba0 \in Nat /\ lba0 < Len(m_sdb.sectors) /\ m_sdb \in Db
        /\ lba0 = 0 \/ lba0 >= ChunkFrames
        /\ nrFrames \in Nat /\ nrFrames <= ChunkFrames
        /\ lba0 + nrFrames <= Len(m_sdb.sectors)
    BY <1>3, <1>4
  <2>2. image = i0 \o ReadChunk(Buffer(i0), m_sdb.sectors, lba0, nrFrames)
    OBVIOUS
  <2> HIDE DEF i0, lba0, image
  <2>3. /\ image \in Seq(Data \cup {None}) /\ Len(image) = lba0 + ChunkFrames
        /\ \A i \in 1..(lba0 + nrFrames) : image[i] = m_sdb.sectors[i].data
    BY <2>1, <2>2, ImageGrows
  <2> QED BY <2>3 DEF i0, lba0, image
<1>6. /\ goto \in {"encode", "encoded"} /\ pc \in {"yield", goto} /\ lba \in Nat
      /\ goto = "encoded" => ~full
      /\ goto = "encode" => full
  BY <1>3
<1>7. full => /\ image = SubSeq(Audio(m_sdb), 1, lba) /\ lba < n /\ lba >= ChunkFrames
  <2> SUFFICES ASSUME full
               PROVE  image = SubSeq(Audio(m_sdb), 1, lba) /\ lba < n /\ lba >= ChunkFrames
    OBVIOUS
  <2>1. lba = Top.lba + ChunkFrames /\ nrFrames = ChunkFrames /\ lba \in Nat /\ lba < n
    BY <1>3, <1>4
  <2> HIDE DEF image, lba, full, n
  <2>2. image = SubSeq(Audio(m_sdb), 1, lba)
    <3>1. /\ m_sdb \in Db /\ lba \in Nat /\ lba <= Len(m_sdb.sectors)
          /\ image \in Seq(Data \cup {None}) /\ Len(image) = lba
          /\ \A i \in 1..lba : image[i] = m_sdb.sectors[i].data
      BY <1>3, <1>5, <2>1 DEF n
    <3> QED BY <3>1, IsAudioPrefix
  <2> QED BY <1>3, <2>1, <2>2
<1>8. ~full => /\ Len(image) - n \in 0..(ChunkFrames - 1)
               /\ \A i \in 1..n : image[i] = m_sdb.sectors[i].data
  <2> HIDE DEF image, full, n
  <2> QED BY <1>3, <1>4, <1>5
<1>9. DOMAIN m_sdb.sectors = 1..n
  BY <1>3, DbParts
<1> HIDE DEF n, image, goto, pc, lba, full
<1>10. /\ f \in Frame /\ f.slot = "Encode" /\ f.pc = pc /\ f.next = goto /\ f.image = image
       /\ f.lba = lba /\ f.asked = Top.asked
  BY <1>2, <1>5, <1>6 DEF Frame
<1> HIDE DEF f
<1>11. InLock(f) /\ Phase(f) = goto
  BY <1>6, <1>10 DEF InLock, Phase
<1>12. EncodeInv(f, m_cancelled, m_sdb)
  <2>1. Phase(f) = "encoded" =>
          /\ Len(f.image) - n \in 0..(ChunkFrames - 1)
          /\ \A i \in DOMAIN m_sdb.sectors : f.image[i] = m_sdb.sectors[i].data
    BY <1>6, <1>8, <1>9, <1>10, <1>11
  <2>2. Phase(f) = "encode" => /\ f.lba < n /\ f.lba >= ChunkFrames
                               /\ f.image = SubSeq(Audio(m_sdb), 1, f.lba)
    BY <1>6, <1>7, <1>10, <1>11
  <2>3. f.asked <=> m_cancelled
    BY <1>3, <1>10
  <2> QED BY <1>6, <1>11, <2>1, <2>2, <2>3 DEF EncodeInv, n
<1>13. FrameInv(f, m_cancelled, m_sdb')
  BY <1>1, <1>10, <1>12 DEF FrameInv
<1> QED BY <1>1, <1>2, <1>10, <1>11, <1>13, LockedStep

LEMMA ResumeKeepsStack ==
  ASSUME CallInv, Resume
  PROVE  StackOK'
<1> DEFINE f == Resumed(Top)
<1>1. /\ stack # << >> /\ Top.pc = "yield" /\ Become(f) /\ InLock(Top)
      /\ m_cancelled' = m_cancelled /\ mtx' = mtx /\ m_sdb' = m_sdb
  BY DEF Resume, At, worker, InLock
<1>2. Top \in Frame /\ FrameInv(Top, m_cancelled, m_sdb) /\ Top.slot \in {"Grab", "Encode"}
  BY <1>1, TopParts, WhoRuns
<1>3. /\ f \in Frame /\ InLock(f) /\ FrameInv(f, m_cancelled, m_sdb')
  <2>1. CASE Top.slot = "Grab"
    <3>1. GrabInv(Top, m_cancelled) /\ Top.next \in {"asked", "passed"}
      BY <1>1, <1>2, <2>1 DEF FrameInv, GrabInv, Phase, Frame
    <3>2. f.pc \in {"passed", "read"} /\ (f.pc = "read" => ~m_cancelled)
      BY <1>2, <3>1 DEF Resumed, Frame
    <3>3. f \in Frame /\ f = [Top EXCEPT !.pc = f.pc]
      BY <1>2, <3>1 DEF Resumed, Frame
    <3>4. f.slot = "Grab" /\ InLock(f)
      BY <1>2, <2>1, <3>2, <3>3 DEF Frame, InLock
    <3>5. GrabInv(f, m_cancelled)
      <4> HIDE DEF f
      <4>1. f.base = Top.base /\ f.retry = Top.retry /\ f.asked = Top.asked
        BY <1>2, <3>3 DEF Frame
      <4> QED BY <1>1, <3>1, <3>2, <4>1 DEF GrabInv, Phase
    <3> QED BY <3>3, <3>4, <3>5 DEF FrameInv
  <2>2. CASE Top.slot = "Encode"
    <3>1. EncodeInv(Top, m_cancelled, m_sdb) /\ Top.next \in {"encode", "encoded"}
      BY <1>1, <1>2, <2>2 DEF FrameInv, EncodeInv, Phase, Frame
    <3>2. f = [Top EXCEPT !.pc = Top.next]
      BY <3>1 DEF Resumed
    <3> HIDE DEF f
    <3>3. /\ f \in Frame /\ f.pc = Top.next /\ f.slot = "Encode" /\ f.image = Top.image
          /\ f.lba = Top.lba /\ f.asked = Top.asked
      BY <1>2, <2>2, <3>1, <3>2 DEF Frame
    <3>4. InLock(f) /\ Phase(f) = Phase(Top)
      BY <1>1, <3>1, <3>3 DEF InLock, Phase
    <3>5. EncodeInv(f, m_cancelled, m_sdb)
      BY <3>1, <3>3, <3>4 DEF EncodeInv
    <3> QED BY <1>1, <3>3, <3>4, <3>5 DEF FrameInv
  <2> QED BY <1>2, <2>1, <2>2
<1> HIDE DEF f
<1> QED BY <1>1, <1>3, LockedStep

-----------------------------------------------------------------------------
(***************************************************************************)
(* The theorems.                                                           *)
(***************************************************************************)

LEMMA InitCallInv == Init => CallInv
<1> SUFFICES ASSUME Init PROVE CallInv
  OBVIOUS
<1>1. NoDb \in Db
  BY DEF NoDb, Db, Tocs
<1>2. Plain
  <2>1. files \in [Bases -> Db] /\ m_sdb \in Db /\ torn \subseteq Bases
    BY <1>1 DEF Init
  <2>2. m_cdda \in [dev : Devices \cup {None}, serial : Nat] /\ m_toc \in Tocs /\ m_tags \in Tags
    BY DEF Init, Tocs, Tags
  <2>3. calls \in 0..MaxCalls /\ swaps \in 0..MaxSwaps
    BY WorkerAssumption DEF Init
  <2> QED BY <2>1, <2>2, <2>3 DEF Init, Plain
<1>3. Slots(stack, mtx, m_cancelled, m_sdb)
  BY EmptySlots DEF Init
<1>4. stack \in Seq(Frame) /\ Len(stack) <= MaxDepth
  BY EmptyIsShort DEF Init
<1> QED BY <1>2, <1>3, <1>4, CallParts DEF StackOK

LEMMA NextCallInv == CallInv /\ [Next]_vars => CallInv'
<1> SUFFICES ASSUME CallInv, [Next]_vars PROVE Plain' /\ StackOK'
  BY CallParts DEF CallInv, TypeOK, Plain, StackOK
<1>1. Plain /\ StackOK
  BY CallParts
<1>2. ASSUME \/ \E dev \in Devices : \/ \E disc \in Discs \cup {None} : Swap(dev, disc)
                                     \/ ChangeDevice(dev)
             \/ Poll \/ Cancel \/ Eject \/ JobRefused
             \/ \E base \in Bases : Grab(base) \/ Encode(base)
      PROVE  Plain' /\ StackOK'
  BY <1>1, <1>2, AroundKeepsPlain, AroundKeepsStack
<1>3. ASSUME PollDisc \/ OpenedDisc \/ RefreshLock \/ RefreshStatus \/ RefreshToc
               \/ RefreshQuery \/ RefreshOffline \/ Throw
      PROVE  Plain' /\ StackOK'
  BY <1>3, RefreshKeepsPlain, RefreshKeepsStack
<1>4. ASSUME \/ GrabLoad \/ GrabToc \/ GrabNew \/ PassBegin \/ PassLoop
             \/ \E audio \in Data : ReadAudio(audio)
             \/ PassEnd \/ SaveEnd
      PROVE  Plain' /\ StackOK'
  BY <1>4, JobKeepsPlain, GrabKeepsInv
<1>5. ASSUME GrabEnd \/ EncodeEnd PROVE Plain' /\ StackOK'
  <2>1. /\ stack # << >> /\ InLock(Top) /\ Return /\ mtx' = FALSE
        /\ m_cancelled' = m_cancelled /\ m_sdb' = m_sdb
    BY <1>5 DEF GrabEnd, EncodeEnd, At, InLock
  <2> QED BY <1>5, <2>1, JobKeepsPlain, ReturnStep
<1>6. CASE EncodeChunk
  BY <1>6, JobKeepsPlain, EncodeKeepsInv
<1>7. CASE Resume
  BY <1>7, JobKeepsPlain, ResumeKeepsStack
<1>8. CASE UNCHANGED vars
  BY <1>1, <1>8 DEF vars, worker, world, Plain, StackOK
<1>9. CASE Kill
  <2>1. NoDb \in Db /\ None \in Tocs /\ Untagged \in Tags
    BY DEF NoDb, Db, Tocs, Tags
  <2>2. m_cdda' \in [dev : Devices \cup {None}, serial : Nat] /\ cache' \subseteq Discs
    BY <1>1, <1>9 DEF Plain, Kill
  <2>3. Plain'
    BY <1>1, <1>9, <2>1, <2>2 DEF Plain, Kill
  <2>4. stack' = << >> /\ mtx' = FALSE
    BY <1>9 DEF Kill
  <2>5. Slots(<< >>, FALSE, m_cancelled', m_sdb')
    BY EmptySlots
  <2> QED BY <2>3, <2>4, <2>5, EmptyIsShort DEF StackOK
<1> QED BY <1>2, <1>3, <1>4, <1>5, <1>6, <1>7, <1>8, <1>9 DEF Next, SlotStep

-----------------------------------------------------------------------------
(***************************************************************************)
(* The frame of a grab: what a step does to it.                            *)
(***************************************************************************)

\* The steps of a grab, the return of processEvents to it among them.
GrabStep ==
  \/ GrabLoad \/ GrabToc \/ GrabNew \/ PassBegin \/ PassLoop
  \/ \E audio \in Data : ReadAudio(audio)
  \/ PassEnd \/ SaveEnd \/ Resume

\* A frame that only learned of a cancel or of a change of disc or device.
SameJob(f, g) ==
  \/ g = f /\ UNCHANGED <<drive, m_cdda>>
  \/ g = [f EXCEPT !.disturbed = TRUE]
  \/ g = [f EXCEPT !.asked = TRUE] /\ UNCHANGED <<drive, m_cdda>>

LEMMA BecomeFrames ==
  ASSUME CallInv, stack # << >>, NEW f \in Frame, Become(f)
  PROVE  /\ DOMAIN stack' = DOMAIN stack /\ stack'[Len(stack)] = f
         /\ \A k \in DOMAIN stack : k # Len(stack) => stack'[k] = stack[k]
<1>1. stack \in Seq(Frame) /\ stack' = Replaced(stack, f)
  BY DEF CallInv, TypeOK, Become, Below, Replaced
<1>2. /\ stack' \in Seq(Frame) /\ Len(stack') = Len(stack) /\ stack'[Len(stack)] = f
      /\ \A k \in 1..(Len(stack) - 1) : stack'[k] = stack[k]
  BY <1>1, ReplacedParts
<1>3. DOMAIN stack = 1..Len(stack) /\ DOMAIN stack' = 1..Len(stack') /\ Len(stack) \in Nat
  BY <1>1, <1>2
<1> QED BY <1>2, <1>3

LEMMA ReturnFrames ==
  ASSUME CallInv, stack # << >>, Return, NEW k \in DOMAIN stack'
  PROVE  k \in DOMAIN stack /\ k # Len(stack) /\ stack'[k] = stack[k]
<1>1. stack \in Seq(Frame) /\ stack' = SubSeq(stack, 1, Len(stack) - 1)
  BY DEF CallInv, TypeOK, Return, Below
<1>2. /\ stack' \in Seq(Frame) /\ Len(stack') = Len(stack) - 1
      /\ \A i \in 1..(Len(stack) - 1) : stack'[i] = stack[i]
  BY <1>1, BelowParts
<1>3. DOMAIN stack = 1..Len(stack) /\ DOMAIN stack' = 1..Len(stack') /\ Len(stack) \in Nat
  BY <1>1, <1>2
<1> QED BY <1>2, <1>3

LEMMA CallFrames ==
  ASSUME NEW s \in Seq(Frame), NEW f \in Frame, NEW k \in DOMAIN Append(s, f)
  PROVE  \/ k \in DOMAIN s /\ Append(s, f)[k] = s[k]
         \/ k = Len(s) + 1 /\ Append(s, f)[k] = f
<1> DEFINE t == Append(s, f)
<1>1. /\ t \in Seq(Frame) /\ Len(t) = Len(s) + 1 /\ t[Len(s) + 1] = f
      /\ \A i \in 1..Len(s) : t[i] = s[i]
  BY AppendProperties
<1> HIDE DEF t
<1>2. k \in 1..Len(t) /\ DOMAIN s = 1..Len(s) /\ Len(s) \in Nat
  BY <1>1 DEF t
<1> QED BY <1>1, <1>2 DEF t

\* The frame of a grab is alone on the stack while it runs.
LEMMA GrabIsAlone ==
  ASSUME CallInv, stack # << >>,
         Top.pc \in {"open", "size", "pass", "loop", "yield", "read", "passed", "save",
                     "done", "encode", "encoded"}
  PROVE  /\ Len(stack) = 1 /\ DOMAIN stack = {1} /\ Top = stack[1] /\ Top \in Frame
         /\ Top.pc \notin {"yield", "encode", "encoded"} => Top.slot = "Grab"
         /\ Top.pc \in {"encode", "encoded"} => Top.slot = "Encode"
         /\ Top.slot = "Grab" => GrabInv(Top, m_cancelled)
<1>1. Top \in Frame /\ FrameInv(Top, m_cancelled, m_sdb) /\ InLock(Top) /\ Len(stack) = 1
  BY TopParts DEF InLock
<1>2. stack \in Seq(Frame) /\ DOMAIN stack = 1..Len(stack)
  BY DEF CallInv, TypeOK
<1>3. /\ Top.pc \notin {"yield", "encode", "encoded"} => Top.slot = "Grab"
      /\ Top.pc \in {"encode", "encoded"} => Top.slot = "Encode"
  BY <1>1, WhoRuns
<1> QED BY <1>1, <1>2, <1>3 DEF Top, FrameInv

LEMMA AloneBecomes ==
  ASSUME Len(stack) = 1, NEW f, Become(f)
  PROVE  stack' = <<f>>
<1>1. stack' = Append(SubSeq(stack, 1, 0), f)
  BY DEF Become, Below
<1>2. SubSeq(stack, 1, 0) = << >>
  BY SubSeqEmpty
<1>3. Append(<< >>, f) = <<f>>
  OBVIOUS
<1> QED BY <1>1, <1>2, <1>3

Fate(k) ==
  \/ \E base \in Bases : Grab(base) /\ stack'[k] = [Idle("Grab", "open") EXCEPT !.base = base]
  \/ k \in DOMAIN stack /\ SameJob(stack[k], stack'[k]) /\ UNCHANGED <<m_sdb, files, torn>>
  \/ /\ stack # << >> /\ k = 1 /\ Len(stack) = 1 /\ Top.slot = "Grab"
     /\ GrabStep

LEMMA AroundFate ==
  ASSUME CallInv, NEW k \in DOMAIN stack', stack'[k].slot = "Grab",
         \/ \E dev \in Devices : \/ \E disc \in Discs \cup {None} : Swap(dev, disc)
                                 \/ ChangeDevice(dev)
         \/ Poll \/ Cancel \/ Eject \/ JobRefused
         \/ \E base \in Bases : Grab(base) \/ Encode(base)
  PROVE  Fate(k)
<1>0. stack \in Seq(Frame)
  BY DEF CallInv, TypeOK
<1>1. ASSUME stack' = Witnessed, UNCHANGED <<m_sdb, files, torn>> PROVE Fate(k)
  BY <1>1 DEF Fate, SameJob, Witnessed
<1>2. ASSUME stack' = stack, UNCHANGED <<m_sdb, files, torn, drive, m_cdda>> PROVE Fate(k)
  BY <1>2 DEF Fate, SameJob
<1>3. ASSUME NEW dev \in Devices, NEW disc \in Discs \cup {None}, Swap(dev, disc) PROVE Fate(k)
  BY <1>1, <1>3 DEF Swap, worker
<1>4. ASSUME NEW dev \in Devices, ChangeDevice(dev) PROVE Fate(k)
  <2> DEFINE f == Idle("ChangeDevice", "di")
  <2>1. f \in Frame /\ f.slot # "Grab"
    BY IdleType DEF Idle
  <2>2. Witnessed \in Seq(Frame) /\ DOMAIN Witnessed = DOMAIN stack
    BY <1>4, WitnessedKeeps DEF Slots, ChangeDevice, Witnessed
  <2>3. stack' = Append(Witnessed, f) /\ UNCHANGED <<m_sdb, files, torn>>
    BY <1>4 DEF ChangeDevice
  <2> HIDE DEF f
  <2>4. k \in DOMAIN stack /\ stack'[k] = Witnessed[k]
    BY <2>1, <2>2, <2>3, CallFrames
  <2> QED BY <2>3, <2>4 DEF Fate, SameJob, Witnessed
<1>5. CASE Poll
  <2> DEFINE f == Idle("Poll", "di")
  <2>1. f \in Frame /\ f.slot # "Grab"
    BY IdleType DEF Idle
  <2>2. stack' = Append(stack, f) /\ UNCHANGED <<m_sdb, files, torn, drive, m_cdda>>
    BY <1>5 DEF Poll, Call, worker, world
  <2> HIDE DEF f
  <2>3. k \in DOMAIN stack /\ stack'[k] = stack[k]
    BY <1>0, <2>1, <2>2, CallFrames
  <2> QED BY <2>2, <2>3 DEF Fate, SameJob
<1>6. CASE Cancel
  BY <1>6 DEF Cancel, Fate, SameJob
<1>7. CASE Eject
  BY <1>1, <1>2, <1>7 DEF Eject, worker
<1>8. CASE JobRefused
  BY <1>2, <1>8 DEF JobRefused
<1>9. ASSUME NEW base \in Bases, Grab(base) PROVE Fate(k)
  <2> DEFINE f == [Idle("Grab", "open") EXCEPT !.base = base]
  <2>1. stack = << >> /\ (stack' = Append(stack, f) \/ stack' = stack)
    BY <1>9, FreeLockIsEmptyStack DEF Grab, ByWindow, Call
  <2> HIDE DEF f
  <2>2. stack' = <<f>>
    BY <2>1
  <2>3. stack'[k] = f
    BY <2>2
  <2> QED BY <1>9, <2>3 DEF Fate, f
<1>10. ASSUME NEW base \in Bases, Encode(base) PROVE Fate(k)
  <2> DEFINE f == [Idle("Encode", "encode") EXCEPT !.base = base]
  <2>1. stack = << >> /\ (stack' = Append(stack, f) \/ stack' = stack)
    BY <1>10, FreeLockIsEmptyStack DEF Encode, ByWindow, Call
  <2>2. f.slot = "Encode"
    BY DEF Idle
  <2> HIDE DEF f
  <2>3. stack' = <<f>>
    BY <2>1
  <2> QED BY <2>2, <2>3
<1> QED BY <1>3, <1>4, <1>5, <1>6, <1>7, <1>8, <1>9, <1>10

\* A step by which the running slot, which is not a grab, goes on or returns.
LEMMA OthersKeep ==
  ASSUME CallInv, stack # << >>, NEW k \in DOMAIN stack', stack'[k].slot = "Grab",
         \/ Return
         \/ \E f \in Frame : f.slot # "Grab" /\ Become(f)
  PROVE  k \in DOMAIN stack /\ stack'[k] = stack[k]
<1>1. CASE Return
  BY <1>1, ReturnFrames
<1>2. ASSUME NEW f \in Frame, f.slot # "Grab", Become(f)
      PROVE  k \in DOMAIN stack /\ stack'[k] = stack[k]
  BY <1>2, BecomeFrames
<1> QED BY <1>1, <1>2

\* The other slots leave a grab's frame alone, and so does its own return.
LEMMA SlotKeeps ==
  ASSUME CallInv, NEW k \in DOMAIN stack', stack'[k].slot = "Grab",
         \/ PollDisc \/ OpenedDisc \/ RefreshLock \/ RefreshStatus \/ RefreshToc
         \/ RefreshQuery \/ RefreshOffline \/ Throw
         \/ GrabEnd \/ EncodeChunk \/ EncodeEnd
  PROVE  k \in DOMAIN stack /\ stack'[k] = stack[k]
<1>1. CASE PollDisc \/ OpenedDisc \/ RefreshLock \/ RefreshStatus \/ RefreshToc
           \/ RefreshQuery \/ RefreshOffline \/ Throw
  <2>1. stack # << >>
    BY <1>1 DEF PollDisc, OpenedDisc, RefreshLock, RefreshStatus, RefreshToc,
       RefreshQuery, RefreshOffline, Throw, At
  <2>2. CASE Return
    BY <2>1, <2>2, OthersKeep
  <2>3. CASE ~Return
    <3>1. Top \in Frame /\ Top.pc \in {"di", "lock", "status", "toc", "query"}
      BY <1>1, <2>1, <2>3, TopParts DEF PollDisc, OpenedDisc, RefreshLock, RefreshStatus,
         RefreshToc, RefreshQuery, RefreshOffline, Throw, At
    <3>2. Top.slot # "Grab"
      BY <2>1, <3>1, TopParts, WhoRuns
    <3>3. PICK pc \in {"lock", "status", "toc", "query"}, di \in {"Audio", "NoDisc"} :
            Become([Top EXCEPT !.pc = pc, !.di = di])
      <4>1. ASSUME NEW pc \in {"lock", "status", "toc", "query"}, Goto(pc)
            PROVE  Become([Top EXCEPT !.pc = pc, !.di = Top.di])
        <5>1. [Top EXCEPT !.pc = pc] = [Top EXCEPT !.pc = pc, !.di = Top.di]
          BY <3>1 DEF Frame
        <5> QED BY <4>1, <5>1 DEF Goto
      <4>2. Top.di \in {"Audio", "NoDisc"}
        BY <3>1 DEF Frame
      <4>3. \/ Goto("lock") \/ Goto("status") \/ Goto("toc") \/ Goto("query")
            \/ Become([Top EXCEPT !.pc = "lock", !.di = "Audio"])
        BY <1>1, <2>3 DEF PollDisc, OpenedDisc, RefreshLock, RefreshStatus, RefreshToc,
           RefreshQuery, RefreshOffline, Throw, Refreshed
      <4> QED BY <4>1, <4>2, <4>3
    <3> DEFINE f == [Top EXCEPT !.pc = pc, !.di = di]
    <3>4. f \in Frame /\ f.slot # "Grab"
      BY <3>1, <3>2 DEF Frame
    <3> HIDE DEF f
    <3>5. Become(f)
      BY <3>3 DEF f
    <3> QED BY <2>1, <3>4, <3>5, OthersKeep
  <2> QED BY <2>2, <2>3
<1>2. CASE GrabEnd \/ EncodeEnd
  BY <1>2, OthersKeep DEF GrabEnd, EncodeEnd, At
<1>3. CASE EncodeChunk
  <2>1. stack # << >> /\ Top.pc = "encode"
    BY <1>3 DEF EncodeChunk, At
  <2>2. Len(stack) = 1 /\ DOMAIN stack = {1} /\ Top \in Frame /\ Top.slot = "Encode"
    BY <2>1, GrabIsAlone
  <2> DEFINE n == Len(m_sdb.sectors)
             full == HasFullChunk(Top.lba, n)
             nrFrames == IF full THEN ChunkFrames ELSE n - Top.lba
             goto == IF full THEN "encode" ELSE "encoded"
             f == [Top EXCEPT
                     !.image = @ \o ReadChunk(Buffer(@), m_sdb.sectors, Top.lba, nrFrames),
                     !.lba   = IF full THEN @ + ChunkFrames ELSE @,
                     !.pc    = IF Top.lba % YieldEvery = 0 THEN "yield" ELSE goto,
                     !.next  = goto]
  <2>3. Become(f)
    BY <1>3 DEF EncodeChunk
  <2>4. f.slot = "Encode"
    BY <2>2 DEF Frame
  <2> HIDE DEF f
  <2>5. stack' = <<f>>
    BY <2>2, <2>3, AloneBecomes
  <2> QED BY <2>4, <2>5
<1> QED BY <1>1, <1>2, <1>3

LEMMA SlotFate ==
  ASSUME CallInv, SlotStep \/ Resume, NEW k \in DOMAIN stack', stack'[k].slot = "Grab"
  PROVE  Fate(k)
<1>1. CASE \/ PollDisc \/ OpenedDisc \/ RefreshLock \/ RefreshStatus \/ RefreshToc
           \/ RefreshQuery \/ RefreshOffline \/ Throw
           \/ GrabEnd \/ EncodeChunk \/ EncodeEnd
  <2>1. UNCHANGED <<m_sdb, files, torn, drive, m_cdda>>
    BY <1>1 DEF PollDisc, OpenedDisc, RefreshLock, RefreshStatus, RefreshToc,
       RefreshQuery, RefreshOffline, Throw, GrabEnd, EncodeChunk, EncodeEnd, worker, world
  <2> QED BY <1>1, <2>1, SlotKeeps DEF Fate, SameJob
<1>2. CASE GrabStep
  <2>1. /\ stack # << >>
        /\ Top.pc \in {"open", "size", "pass", "loop", "yield", "read", "passed", "save"}
    BY <1>2 DEF GrabStep, GrabLoad, GrabToc, GrabNew, PassBegin, PassLoop, ReadAudio,
       PassEnd, SaveEnd, Resume, At
  <2>2. /\ Len(stack) = 1 /\ DOMAIN stack = {1} /\ Top \in Frame
        /\ Top.pc # "yield" => Top.slot = "Grab"
    BY <2>1, GrabIsAlone
  <2>3. \E f : Become(f)
    BY <1>2 DEF GrabStep, GrabLoad, GrabToc, GrabNew, PassBegin, PassLoop,
       ReadAudio, PassEnd, SaveEnd, Resume, Goto
  <2>4. k = 1
    BY <2>2, <2>3, AloneBecomes
  <2>5. CASE Top.slot = "Grab"
    BY <1>2, <2>1, <2>2, <2>4, <2>5 DEF Fate
  <2>6. CASE Top.slot # "Grab"
    <3>1. Resume /\ Become(Resumed(Top))
      BY <1>2, <2>2, <2>6 DEF GrabStep, GrabLoad, GrabToc, GrabNew, PassBegin, PassLoop,
         ReadAudio, PassEnd, SaveEnd, Resume, At
    <3>2. Resumed(Top).slot = Top.slot
      BY <2>2 DEF Resumed, Frame
    <3>3. stack' = <<Resumed(Top)>>
      BY <2>2, <3>1, AloneBecomes
    <3> QED BY <2>4, <2>6, <3>2, <3>3
  <2> QED BY <2>5, <2>6
<1> QED BY <1>1, <1>2 DEF SlotStep, GrabStep

LEMMA FrameFate ==
  ASSUME CallInv, [Next]_vars, NEW k \in DOMAIN stack', stack'[k].slot = "Grab"
  PROVE  Fate(k)
<1>1. CASE UNCHANGED vars
  BY <1>1 DEF vars, worker, world, Fate, SameJob
<1>2. CASE SlotStep \/ Resume
  BY <1>2, SlotFate
<1>3. CASE Next /\ ~SlotStep /\ ~Resume /\ ~Kill
  BY <1>3, AroundFate DEF Next
<1>4. CASE Kill
  <2>1. stack' = << >>
    BY <1>4 DEF Kill
  <2> QED BY <2>1
<1> QED BY <1>1, <1>2, <1>3, <1>4

-----------------------------------------------------------------------------
(***************************************************************************)
(* What a grab has read and not saved.                                     *)
(***************************************************************************)

LEMMA ReadsType ==
  ASSUME NEW sectors \in Seq(Sector), NEW saved \in Seq(Sector)
  PROVE  /\ \A i \in DOMAIN sectors : sum(sectors[i].checks) \in Nat
         /\ \A i \in DOMAIN sectors : NotSaved(sectors, saved, i) \in Int
<1>1. ASSUME NEW s \in Seq(Sector), NEW i \in DOMAIN s PROVE sum(s[i].checks) \in Nat
  <2>1. s[i] \in Sector
    OBVIOUS
  <2>2. s[i].checks \in occurences_t(Checks)
    BY <2>1 DEF Sector
  <2> QED BY <2>2, SumType
<1> QED BY <1>1 DEF NotSaved

LEMMA SavedIsSaved ==
  ASSUME NEW sectors \in Seq(Sector), NEW i \in DOMAIN sectors
  PROVE  NotSaved(sectors, sectors, i) = 0
BY ReadsType DEF NotSaved

\* A read is one more of its sector only.
LEMMA ReadIsUnsaved ==
  ASSUME NEW sectors \in Seq(Sector), NEW saved \in Seq(Sector),
         NEW k \in DOMAIN sectors, NEW audio \in Data,
         NEW i \in DOMAIN sectors
  PROVE  NotSaved([sectors EXCEPT ![k] = AddAudio(sectors[k], audio)], saved, i)
           = NotSaved(sectors, saved, i) + (IF i = k THEN 1 ELSE 0)
<1> DEFINE s == AddAudio(sectors[k], audio)
<1> DEFINE before == sum(sectors[i].checks)
<1> DEFINE after == sum([sectors EXCEPT ![k] = s][i].checks)
<1>1. before \in Nat /\ NotSaved(sectors, saved, i) \in Int
  BY ReadsType
<1>2. after = before + (IF i = k THEN 1 ELSE 0)
  <2>1. CASE i # k
    BY <1>1, <2>1
  <2>2. CASE i = k
    <3>1. sectors[k].checks \in occurences_t(Checks) /\ CrcOf[audio] \in Checks
      <4>1. sectors[k] \in Sector
        OBVIOUS
      <4> QED BY <4>1, StoreAssumption DEF Sector
    <3>2. s.checks = push_back(sectors[k].checks, CrcOf[audio])
      BY DEF AddAudio
    <3>3. sum(s.checks) = sum(sectors[k].checks) + 1
      BY <3>1, <3>2, PushBackSum
    <3> HIDE DEF s
    <3>4. [sectors EXCEPT ![k] = s][i] = s
      BY <2>2
    <3> QED BY <2>2, <3>3, <3>4
  <2> QED BY <2>1, <2>2
<1> DEFINE file == IF i \in DOMAIN saved THEN sum(saved[i].checks) ELSE 0
<1>3. file \in Nat
  BY ReadsType
<1>4. /\ NotSaved(sectors, saved, i) = before - file
      /\ NotSaved([sectors EXCEPT ![k] = s], saved, i) = after - file
  BY DEF NotSaved
<1> HIDE DEF before, after, file
<1>5. after - file = before - file + (IF i = k THEN 1 ELSE 0)
  BY <1>1, <1>2, <1>3
<1> QED BY <1>4, <1>5

LEMMA NewIsSaved ==
  ASSUME NEW sectors \in Seq(Sector), NEW saved \in Seq(Sector), NEW i \in DOMAIN sectors,
         sectors[i] = NewSector, Len(saved) < i
  PROVE  NotSaved(sectors, saved, i) = 0
<1>1. sum(sectors[i].checks) = 0
  BY SumOfNone DEF NewSector
<1>2. i \notin DOMAIN saved
  OBVIOUS
<1> QED BY <1>1, <1>2 DEF NotSaved

LEMMA LargerIsLarger ==
  ASSUME NEW a \in Nat, NEW b \in Nat
  PROVE  Max({a, b}) >= a /\ Max({a, b}) \in {a, b}
<1>1. \E x \in {a, b} : \A y \in {a, b} : x >= y
  OBVIOUS
<1> QED BY <1>1 DEF Max

LEMMA SameJobParts ==
  ASSUME NEW f \in Frame, NEW g, SameJob(f, g)
  PROVE  /\ g.slot = f.slot /\ g.pc = f.pc /\ g.next = f.next /\ g.base = f.base
         /\ g.lba = f.lba /\ g.nRead = f.nRead /\ g.retry = f.retry
         /\ g.reader = f.reader /\ g.fresh = f.fresh
         /\ Phase(g) = Phase(f)
BY DEF SameJob, Frame, Phase

LEMMA FileStep ==
  ASSUME CallInv, CallInv', stack # << >>, Len(stack) = 1, Top.slot = "Grab", GrabStep,
         FileInv(Top, m_sdb.sectors, files[Top.base])
  PROVE  \E f : /\ Become(f)
                /\ FileInv(f, m_sdb'.sectors, files'[f.base])
<1> DEFINE file == files[Top.base]
<1>1. /\ Top \in Frame /\ GrabInv(Top, m_cancelled) /\ Top.base \in Bases
      /\ Top.retry \in Nat /\ Top.lba \in Nat /\ Top.nRead \in Nat
  <2>1. Top \in Frame /\ GrabInv(Top, m_cancelled)
    BY TopParts DEF FrameInv
  <2> QED BY <2>1 DEF Frame, GrabInv
<1>2. /\ m_sdb \in Db /\ m_sdb.sectors \in Seq(Sector) /\ m_sdb' \in Db
      /\ m_sdb'.sectors \in Seq(Sector) /\ files \in [Bases -> Db]
      /\ file \in Db /\ file.sectors \in Seq(Sector) /\ SizeRead \in Nat
  <2>1. m_sdb \in Db /\ m_sdb' \in Db /\ files \in [Bases -> Db] /\ Plain
    BY CallParts DEF CallInv, TypeOK
  <2> QED BY <1>1, <2>1, DbParts, DriveTypes
<1> HIDE DEF file
<1>3. FileInv(Top, m_sdb.sectors, file)
  BY DEF file
<1>4. CASE GrabLoad
  <2> DEFINE f == Pass
  <2>1. Become(f) /\ m_sdb' = file /\ files' = files
    BY <1>4 DEF GrabLoad, file
  <2>2. f.base = Top.base /\ Phase(f) = "pass"
    BY <1>1 DEF Pass, Frame, Phase
  <2> HIDE DEF f
  <2>3. \A i \in DOMAIN file.sectors : NotSaved(file.sectors, file.sectors, i) = 0
    BY <1>2, SavedIsSaved
  <2>4. FileInv(f, file.sectors, file)
    BY <1>2, <2>2, <2>3 DEF FileInv
  <2> QED BY <2>1, <2>2, <2>4 DEF file
<1>5. CASE GrabToc
  <2> DEFINE f == [Top EXCEPT !.pc = "size"]
  <2>1. Become(f) /\ m_sdb' = m_sdb /\ files' = files /\ file = NoDb
    BY <1>5 DEF GrabToc, Goto, file
  <2>2. f.base = Top.base /\ Phase(f) = "size"
    BY <1>1 DEF Frame, Phase
  <2> HIDE DEF f
  <2>3. FileInv(f, m_sdb.sectors, file)
    BY <2>1, <2>2 DEF FileInv
  <2> QED BY <2>1, <2>2, <2>3 DEF file
<1>6. CASE GrabNew
  <2> DEFINE f == [Pass EXCEPT !.fresh = TRUE]
  <2> DEFINE new == [i \in 1..SizeRead |-> NewSector]
  <2>1. Become(f) /\ m_sdb'.sectors = new /\ files' = files /\ Top.pc = "size"
    BY <1>6 DEF GrabNew, At
  <2>2. f.base = Top.base /\ Phase(f) = "pass"
    BY <1>1 DEF Pass, Frame, Phase
  <2>3. file = NoDb /\ Len(file.sectors) = 0
    BY <1>3, <2>1 DEF FileInv, Phase, NoDb
  <2>4. new \in Seq(Sector) /\ Len(new) \in Nat
    BY <1>2, <2>1
  <2>5. ASSUME NEW i \in DOMAIN new PROVE NotSaved(new, file.sectors, i) = 0
    <3>1. new[i] = NewSector /\ Len(file.sectors) < i
      BY <2>3
    <3> HIDE DEF new
    <3> QED BY <1>2, <2>4, <3>1, NewIsSaved
  <2> HIDE DEF f, new
  <2>6. FileInv(f, new, file)
    BY <2>2, <2>3, <2>4, <2>5 DEF FileInv
  <2> QED BY <2>1, <2>2, <2>6 DEF file
<1>7. CASE PassBegin
  <2> DEFINE f == [Top EXCEPT !.pc = "loop", !.reader = m_cdda.serial,
                              !.lba = 0, !.nRead = 0, !.buf = Zeros]
  <2> DEFINE n == Max({Len(m_sdb.sectors), SizeRead})
  <2> DEFINE new == Resized(m_sdb.sectors, n, NewSector)
  <2>1. Become(f) /\ m_sdb'.sectors = new /\ files' = files /\ Top.pc = "pass"
    BY <1>7 DEF PassBegin, At
  <2>2. f.base = Top.base /\ Phase(f) = "loop"
    BY <1>1 DEF Frame, Phase
  <2>3. /\ Len(file.sectors) <= Len(m_sdb.sectors)
        /\ \A i \in DOMAIN m_sdb.sectors : NotSaved(m_sdb.sectors, file.sectors, i) = 0
    BY <1>3, <2>1 DEF FileInv, Phase
  <2>4. n \in Nat /\ n >= Len(m_sdb.sectors)
    BY <1>2, LargerSize, LargerIsLarger
  <2> HIDE DEF n
  <2>5. new \in Seq(Sector) /\ DOMAIN new = 1..n /\ Len(new) = n
    <3>1. new \in Seq(Sector)
      BY <1>2, <2>1
    <3>2. DOMAIN new = 1..n
      BY DEF Resized
    <3> HIDE DEF new
    <3> QED BY <2>4, <3>1, <3>2
  <2>6. ASSUME NEW i \in DOMAIN new PROVE NotSaved(new, file.sectors, i) = 0
    <3>1. new[i] = IF i <= Len(m_sdb.sectors) THEN m_sdb.sectors[i] ELSE NewSector
      BY <2>5 DEF Resized
    <3> HIDE DEF new
    <3>2. i \in Nat \ {0}
      BY <2>5
    <3>3. CASE i <= Len(m_sdb.sectors)
      <4>1. i \in DOMAIN m_sdb.sectors
        BY <1>2, <3>2, <3>3
      <4> QED BY <2>3, <3>1, <3>3, <4>1 DEF NotSaved
    <3>4. CASE ~(i <= Len(m_sdb.sectors))
      <4>1. Len(file.sectors) < i
        BY <1>2, <2>3, <3>2, <3>4
      <4> QED BY <1>2, <2>5, <3>1, <3>4, <4>1, NewIsSaved
    <3> QED BY <3>3, <3>4
  <2> HIDE DEF f, new
  <2>7. Len(file.sectors) <= Len(new)
    BY <1>2, <2>3, <2>4, <2>5
  <2>8. FileInv(f, new, file)
    BY <2>2, <2>6, <2>7 DEF FileInv
  <2> QED BY <2>1, <2>2, <2>8 DEF file
<1>8. CASE PassLoop
  <2>1. /\ Top.pc = "loop" /\ m_sdb' = m_sdb /\ files' = files
        /\ Due # {} => Min(Due) \in Nat /\ Top.lba <= Min(Due)
    <3>1. Due \subseteq Nat /\ \A x \in Due : Top.lba <= x
      BY <1>1, <1>2 DEF Due
    <3>2. Due # {} => Min(Due) \in Due
      BY <3>1, Smallest DEF Min
    <3> QED BY <1>8, <3>1, <3>2 DEF PassLoop, At, worker
  <2>2. \E f : /\ Become(f) /\ f.base = Top.base /\ f.nRead = Top.nRead
               /\ Phase(f) \in {"passed", "asked", "read"}
               /\ f.lba \in Nat /\ Top.lba <= f.lba
    <3>1. CASE Due = {}
      <4> DEFINE f == [Top EXCEPT !.pc = "yield", !.next = "passed"]
      <4>1. Become(f)
        BY <1>8, <3>1 DEF PassLoop
      <4>2. /\ f.base = Top.base /\ f.nRead = Top.nRead /\ Phase(f) = "passed"
            /\ f.lba = Top.lba
        BY <1>1 DEF Frame, Phase
      <4> HIDE DEF f
      <4>3. f.lba \in Nat /\ Top.lba <= f.lba
        BY <1>1, <4>2
      <4> QED BY <4>1, <4>2, <4>3
    <3>2. CASE Due # {} /\ Top.nRead % ProgressEvery = 0
      <4> DEFINE f == [Top EXCEPT !.pc = "yield", !.next = "asked", !.lba = Min(Due)]
      <4>1. Become(f)
        BY <1>8, <3>2 DEF PassLoop
      <4>2. /\ f.base = Top.base /\ f.nRead = Top.nRead /\ Phase(f) = "asked"
            /\ f.lba = Min(Due)
        BY <1>1 DEF Frame, Phase
      <4> QED BY <2>1, <3>2, <4>1, <4>2
    <3>3. CASE Due # {} /\ Top.nRead % ProgressEvery # 0
      <4> DEFINE f == [Top EXCEPT !.pc = "read", !.lba = Min(Due)]
      <4>1. Become(f)
        BY <1>8, <3>3 DEF PassLoop
      <4>2. /\ f.base = Top.base /\ f.nRead = Top.nRead /\ Phase(f) = "read"
            /\ f.lba = Min(Due)
        BY <1>1 DEF Frame, Phase
      <4> QED BY <2>1, <3>3, <4>1, <4>2
    <3> QED BY <3>1, <3>2, <3>3
  <2>3. PICK f : /\ Become(f) /\ f.base = Top.base /\ f.nRead = Top.nRead
                 /\ Phase(f) \in {"passed", "asked", "read"}
                 /\ f.lba \in Nat /\ Top.lba <= f.lba
    BY <2>2
  <2>4. \A i \in DOMAIN m_sdb.sectors : f.lba < i => Top.lba < i
    BY <1>1, <1>2, <2>3
  <2>5. FileInv(f, m_sdb.sectors, file)
    BY <1>3, <2>1, <2>3, <2>4 DEF FileInv, Phase
  <2> QED BY <2>1, <2>3, <2>5 DEF file
<1>9. ASSUME NEW audio \in Data, ReadAudio(audio)
      PROVE  \E f : Become(f) /\ FileInv(f, m_sdb'.sectors, files'[f.base])
  <2> DEFINE f == [Top EXCEPT !.pc = "loop", !.lba = @ + 1, !.nRead = @ + 1, !.buf = audio]
  <2> DEFINE k == Top.lba + 1
  <2> DEFINE old == m_sdb.sectors
  <2> DEFINE new == [old EXCEPT ![k] = AddAudio(old[k], audio)]
  <2>1. Become(f) /\ m_sdb'.sectors = new /\ files' = files /\ Top.pc = "read"
    BY <1>2, <1>9 DEF ReadAudio, At, Db
  <2>2. f.base = Top.base /\ Phase(f) = "loop" /\ f.lba = k /\ f.nRead = Top.nRead + 1
    BY <1>1 DEF Frame, Phase
  <2> HIDE DEF f
  <2>3. /\ Len(file.sectors) <= Len(old)
        /\ \A i \in DOMAIN old : NotSaved(old, file.sectors, i) \in {0, 1}
        /\ \A i \in DOMAIN old : Top.lba < i => NotSaved(old, file.sectors, i) = 0
    BY <1>3, <2>1 DEF FileInv, Phase
  <2>4. k \in Nat /\ k = Top.lba + 1
    BY <1>1
  <2>5. DOMAIN new = DOMAIN old /\ Len(new) = Len(old) /\ old \in Seq(Sector)
    BY <1>2
  <2>6. ASSUME NEW i \in DOMAIN old
        PROVE  /\ NotSaved(new, file.sectors, i) \in {0, 1}
               /\ k < i => NotSaved(new, file.sectors, i) = 0
    <3>1. i \in Nat /\ NotSaved(old, file.sectors, i) \in {0, 1}
          /\ (k <= i => NotSaved(old, file.sectors, i) = 0)
      BY <1>1, <2>3, <2>5
    <3>2. CASE k \in DOMAIN old
      <4>1. NotSaved(new, file.sectors, i)
              = NotSaved(old, file.sectors, i) + (IF i = k THEN 1 ELSE 0)
        BY <1>2, <2>5, <3>2, ReadIsUnsaved
      <4> HIDE DEF k, old, new
      <4> QED BY <2>4, <3>1, <4>1
    <3>3. CASE k \notin DOMAIN old
      <4>1. new = old
        BY <2>5, <3>3
      <4> HIDE DEF k, old, new
      <4> QED BY <2>4, <3>1, <4>1
    <3> QED BY <3>2, <3>3
  <2> HIDE DEF k, old, new
  <2>7. f.nRead # 0
    BY <1>1, <2>2
  <2>8. FileInv(f, new, file)
    BY <2>2, <2>3, <2>5, <2>6, <2>7 DEF FileInv
  <2> QED BY <2>1, <2>2, <2>8 DEF file
<1>10. CASE PassEnd
  <2>1. m_sdb' = m_sdb /\ Top.pc = "passed" /\ files' = files
    BY <1>10 DEF PassEnd, At, worker
  <2>2. CASE Saved(Top)
    <3> DEFINE f == [Top EXCEPT !.pc = "save"]
    <3>1. Become(f)
      BY <1>10, <2>2 DEF PassEnd, Goto
    <3>2. /\ f.base = Top.base /\ f.lba = Top.lba /\ f.nRead = Top.nRead
          /\ Phase(f) = "save"
      BY <1>1 DEF Frame, Phase
    <3> HIDE DEF f
    <3>3. FileInv(f, m_sdb.sectors, file)
      BY <1>3, <2>1, <3>2 DEF FileInv, Phase
    <3> QED BY <2>1, <3>1, <3>2, <3>3 DEF file
  <2>3. CASE ~Saved(Top)
    <3> DEFINE f == NextPass(Top)
    <3>1. Become(f) /\ Top.nRead = 0
      BY <1>1, <1>10, <2>3 DEF PassEnd, Saved
    <3>2. f.base = Top.base /\ Phase(f) \in {"pass", "done"}
      BY <1>1 DEF NextPass, Frame, Phase
    <3> HIDE DEF f
    <3>3. FileInv(f, m_sdb.sectors, file)
      BY <1>3, <2>1, <3>1, <3>2 DEF FileInv, Phase
    <3> QED BY <2>1, <3>1, <3>2, <3>3 DEF file
  <2> QED BY <2>2, <2>3
<1>12. CASE SaveEnd
  <2> DEFINE f == NextPass(Top)
  <2>1. /\ Become(f) /\ m_sdb' = m_sdb /\ files' = [files EXCEPT ![Top.base] = m_sdb]
    BY <1>12 DEF SaveEnd, worker
  <2>2. f.base = Top.base /\ Phase(f) \in {"pass", "done"}
    BY <1>1 DEF NextPass, Frame, Phase
  <2> HIDE DEF f
  <2>3. files'[Top.base] = m_sdb
    BY <1>1, <1>2, <2>1
  <2>4. \A i \in DOMAIN m_sdb.sectors : NotSaved(m_sdb.sectors, m_sdb.sectors, i) = 0
    BY <1>2, SavedIsSaved
  <2>5. FileInv(f, m_sdb.sectors, m_sdb)
    BY <1>2, <2>2, <2>4 DEF FileInv
  <2> QED BY <2>1, <2>2, <2>3, <2>5
<1>11. CASE Resume
  <2> DEFINE f == Resumed(Top)
  <2>1. Become(f) /\ m_sdb' = m_sdb /\ files' = files /\ Top.pc = "yield"
    BY <1>11 DEF Resume, At, worker
  <2>2. Top.next \in {"asked", "passed"} /\ Phase(Top) = Top.next
    BY <1>1, <2>1 DEF GrabInv, Phase, Frame
  <2>3. /\ f.base = Top.base /\ f.lba = Top.lba /\ f.nRead = Top.nRead
        /\ Phase(f) \in {"passed", "read"}
    BY <1>1, <2>2 DEF Resumed, Frame, Phase
  <2> HIDE DEF f
  <2>4. FileInv(f, m_sdb.sectors, file)
    BY <1>3, <2>2, <2>3 DEF FileInv
  <2> QED BY <2>1, <2>3, <2>4 DEF file
<1> QED BY <1>4, <1>5, <1>6, <1>7, <1>8, <1>9, <1>10, <1>11, <1>12 DEF GrabStep

\* Only Save leaves the file of a running grab torn, and only while it is in it.
LEMMA TornStep ==
  ASSUME CallInv, stack # << >>, Len(stack) = 1, Top.slot = "Grab", GrabStep, TornInv(Top)
  PROVE  \E f : Become(f) /\ (f.base \in torn' => f.pc \in {"open", "save"})
<1>1. Top \in Frame
  BY TopParts
<1>2. CASE GrabLoad
  <2>1. Become(Pass) /\ torn' = torn /\ Top.base \notin torn
    BY <1>2 DEF GrabLoad, world
  <2> QED BY <1>1, <2>1 DEF Pass, Frame
<1>3. CASE GrabToc
  <2> DEFINE f == [Top EXCEPT !.pc = "size"]
  <2>1. Become(f) /\ torn' = torn /\ Top.base \notin torn
    BY <1>3 DEF GrabToc, Goto, world
  <2> QED BY <1>1, <2>1 DEF Frame
<1>4. ASSUME Top.pc \notin {"open", "save"}, torn' = torn,
             NEW f, Become(f), f.base = Top.base
      PROVE  \E g : Become(g) /\ (g.base \in torn' => g.pc \in {"open", "save"})
  BY <1>4 DEF TornInv
<1>5. CASE GrabNew
  <2> DEFINE f == [Pass EXCEPT !.fresh = TRUE]
  <2>1. Become(f) /\ torn' = torn /\ Top.pc = "size"
    BY <1>5 DEF GrabNew, At, world
  <2>2. f.base = Top.base
    BY <1>1 DEF Pass, Frame
  <2> QED BY <1>4, <2>1, <2>2
<1>6. CASE PassBegin
  <2> DEFINE f == [Top EXCEPT !.pc = "loop", !.reader = m_cdda.serial,
                              !.lba = 0, !.nRead = 0, !.buf = Zeros]
  <2>1. Become(f) /\ torn' = torn /\ Top.pc = "pass"
    BY <1>6 DEF PassBegin, At, world
  <2>2. f.base = Top.base
    BY <1>1 DEF Frame
  <2> QED BY <1>4, <2>1, <2>2
<1>7. CASE PassLoop
  <2> DEFINE f == IF Due = {}
                  THEN [Top EXCEPT !.pc = "yield", !.next = "passed"]
                  ELSE IF Top.nRead % ProgressEvery = 0
                  THEN [Top EXCEPT !.pc = "yield", !.next = "asked", !.lba = Min(Due)]
                  ELSE [Top EXCEPT !.pc = "read", !.lba = Min(Due)]
  <2>1. Become(f) /\ torn' = torn /\ Top.pc = "loop"
    BY <1>7 DEF PassLoop, At, world
  <2>2. f.base = Top.base
    BY <1>1 DEF Frame
  <2> QED BY <1>4, <2>1, <2>2
<1>8. ASSUME NEW audio \in Data, ReadAudio(audio)
      PROVE  \E f : Become(f) /\ (f.base \in torn' => f.pc \in {"open", "save"})
  <2> DEFINE f == [Top EXCEPT !.pc = "loop", !.lba = @ + 1, !.nRead = @ + 1, !.buf = audio]
  <2>1. Become(f) /\ torn' = torn /\ Top.pc = "read"
    BY <1>8 DEF ReadAudio, At, world
  <2>2. f.base = Top.base
    BY <1>1 DEF Frame
  <2> QED BY <1>4, <2>1, <2>2
<1>9. CASE PassEnd
  <2>1. CASE Saved(Top)
    <3> DEFINE f == [Top EXCEPT !.pc = "save"]
    <3>1. Become(f)
      BY <1>9, <2>1 DEF PassEnd, Goto
    <3>2. f.pc = "save"
      BY <1>1 DEF Frame
    <3> QED BY <3>1, <3>2
  <2>2. CASE ~Saved(Top)
    <3>1. Become(NextPass(Top)) /\ torn' = torn /\ Top.pc = "passed"
      BY <1>9, <2>2 DEF PassEnd, At
    <3>2. NextPass(Top).base = Top.base
      BY <1>1 DEF NextPass, Frame
    <3> QED BY <1>4, <3>1, <3>2
  <2> QED BY <2>1, <2>2
<1>10. CASE SaveEnd
  <2>1. Become(NextPass(Top)) /\ torn' = torn \ {Top.base}
    BY <1>10 DEF SaveEnd
  <2>2. NextPass(Top).base = Top.base
    BY <1>1 DEF NextPass, Frame
  <2> QED BY <2>1, <2>2
<1>11. CASE Resume
  <2>1. Become(Resumed(Top)) /\ torn' = torn /\ Top.pc = "yield"
    BY <1>11 DEF Resume, At, world
  <2>2. Resumed(Top).base = Top.base
    BY <1>1 DEF Resumed, Frame
  <2> QED BY <1>4, <2>1, <2>2
<1> QED BY <1>2, <1>3, <1>5, <1>6, <1>7, <1>8, <1>9, <1>10, <1>11 DEF GrabStep

LEMMA NextSavedInv ==
  ASSUME CallInv, CallInv', SavedInv, [Next]_vars
  PROVE  SavedInv'
<1> SUFFICES ASSUME NEW k \in DOMAIN stack', stack'[k].slot = "Grab"
             PROVE  /\ stack'[k].base \in torn' => stack'[k].pc \in {"open", "save"}
                    /\ FileInv(stack'[k], m_sdb'.sectors, files'[stack'[k].base])
  BY DEF SavedInv, TornInv
<1>1. Fate(k)
  BY FrameFate
<1>2. ASSUME NEW base \in Bases,
             stack'[k] = [Idle("Grab", "open") EXCEPT !.base = base]
      PROVE  /\ stack'[k].pc = "open"
             /\ FileInv(stack'[k], m_sdb'.sectors, files'[stack'[k].base])
  <2>1. stack'[k].pc = "open" /\ Phase(stack'[k]) = "open"
    BY <1>2 DEF Idle, Phase
  <2> QED BY <2>1 DEF FileInv
<1>3. CASE k \in DOMAIN stack /\ SameJob(stack[k], stack'[k]) /\ UNCHANGED <<m_sdb, files, torn>>
  <2>1. stack[k] \in Frame
    BY <1>3 DEF CallInv, TypeOK
  <2> DEFINE f == stack[k]
             g == stack'[k]
  <2>2. /\ g.slot = f.slot /\ g.pc = f.pc /\ g.base = f.base
        /\ g.lba = f.lba /\ g.nRead = f.nRead /\ Phase(g) = Phase(f)
    BY <1>3, <2>1, SameJobParts
  <2>3. TornInv(f) /\ FileInv(f, m_sdb.sectors, files[f.base])
    BY <1>3, <2>2 DEF SavedInv
  <2> HIDE DEF f, g
  <2>5. g.base \in torn' => g.pc \in {"open", "save"}
    BY <1>3, <2>2, <2>3 DEF TornInv
  <2>4. FileInv(g, m_sdb.sectors, files[f.base])
    BY <2>2, <2>3 DEF FileInv
  <2> QED BY <1>3, <2>2, <2>4, <2>5 DEF g
<1>4. CASE stack # << >> /\ k = 1 /\ Len(stack) = 1 /\ Top.slot = "Grab" /\ GrabStep
  <2>1. Top = stack[1] /\ 1 \in DOMAIN stack
    BY <1>4 DEF Top, CallInv, TypeOK
  <2>2. TornInv(Top) /\ FileInv(Top, m_sdb.sectors, files[Top.base])
    BY <1>4, <2>1 DEF SavedInv
  <2>3. PICK f : Become(f) /\ FileInv(f, m_sdb'.sectors, files'[f.base])
    BY <1>4, <2>2, FileStep
  <2>4. stack' = <<f>>
    BY <1>4, <2>3, AloneBecomes
  <2>5. PICK g : Become(g) /\ (g.base \in torn' => g.pc \in {"open", "save"})
    BY <1>4, <2>2, TornStep
  <2>6. stack' = <<g>>
    BY <1>4, <2>5, AloneBecomes
  <2>7. stack'[k] = f /\ stack'[k] = g
    BY <1>4, <2>4, <2>6
  <2> QED BY <2>3, <2>5, <2>7
<1> QED BY <1>1, <1>2, <1>3, <1>4 DEF Fate

-----------------------------------------------------------------------------
(***************************************************************************)
(* A grab that is left alone.                                              *)
(***************************************************************************)

LEMMA CountOfOne ==
  ASSUME NEW n \in Nat \ {0}, NEW c \in Checks
  PROVE  /\ MostCommonCount(<<[first |-> n, second |-> c]>>) = n
         /\ MostCommonValue(<<[first |-> n, second |-> c]>>, NoCheck) = c
         /\ push_back(<<[first |-> n, second |-> c]>>, c)
              = <<[first |-> n + 1, second |-> c]>>
<1> DEFINE o == [first |-> n, second |-> c]
<1>1. o \in occurence_t(Checks) /\ o.first = n /\ o.second = c
  BY DEF occurence_t
<1> HIDE DEF o
<1>2. <<o>> \in occurences_t(Checks) /\ DOMAIN <<o>> = {1} /\ <<o>>[1] = o /\ <<o>> # << >>
  BY <1>1 DEF occurences_t
<1> DEFINE l == <<o>>
<1> HIDE DEF l
<1>3. l \in occurences_t(Checks) /\ DOMAIN l = {1} /\ l[1] = o /\ l # << >>
  BY <1>2 DEF l
<1>4. IsMaxElement(l, 1)
  BY <1>1, <1>3 DEF IsMaxElement
<1>5. MostCommonIndex(l) = 1
  BY <1>3, <1>4, MostCommonIndexUnique
<1>6. MostCommonCount(l) = n /\ MostCommonValue(l, NoCheck) = c
  BY <1>1, <1>3, <1>5 DEF MostCommonCount, MostCommonValue
<1>7. push_back(l, c) = [l EXCEPT ![1].first = @ + 1]
  <2>1. Distinct(l)
    BY <1>3 DEF Distinct
  <2> QED BY <1>1, <1>3, <2>1, PushBackOld
<1>8. [l EXCEPT ![1].first = @ + 1] = <<[first |-> n + 1, second |-> c]>>
  <2>1. [o EXCEPT !.first = @ + 1] = [first |-> n + 1, second |-> c]
    BY DEF o
  <2>2. [l EXCEPT ![1].first = @ + 1] = <<[o EXCEPT !.first = @ + 1]>>
    BY <1>3 DEF l
  <2> QED BY <2>1, <2>2
<1> QED BY <1>3, <1>6, <1>7, <1>8 DEF l, o

\* A sector that always gave the same audio: how often it counts as seen, and
\* what one more such read makes of it.
LEMMA HeardOnlyCount ==
  ASSUME NEW d \in Data, NEW n \in {0, 1, 2}, NEW s, HeardOnly(s, d, n)
  PROVE  /\ MostCommonCount(s.checks) = n
         /\ n # 0 => s.data = d
<1>1. CASE n = 0
  BY <1>1 DEF HeardOnly, NewSector, MostCommonCount
<1>2. CASE n # 0
  <2>1. CrcOf[d] \in Checks
    BY StoreAssumption
  <2>2. s.checks = <<[first |-> n, second |-> CrcOf[d]]>> /\ s.data = d
    BY <1>2 DEF HeardOnly
  <2>3. n \in Nat \ {0}
    BY <1>2
  <2>4. MostCommonCount(<<[first |-> n, second |-> CrcOf[d]]>>) = n
    BY <2>1, <2>3, CountOfOne
  <2> QED BY <1>2, <2>2, <2>4
<1> QED BY <1>1, <1>2

LEMMA HeardOnceMore ==
  ASSUME NEW d \in Data, NEW n \in {0, 1}, NEW s, HeardOnly(s, d, n)
  PROVE  HeardOnly(AddAudio(s, d), d, n + 1)
<1> DEFINE c == CrcOf[d]
<1>1. c \in Checks
  BY StoreAssumption
<1> HIDE DEF c
<1> DEFINE seen == push_back(s.checks, c)
<1>2. CASE n = 0
  <2>1. s.checks = << >> /\ << >> \in occurences_t(Checks)
    BY <1>2 DEF HeardOnly, NewSector, occurences_t
  <2>2. seen = <<[first |-> 1, second |-> c]>>
    <3>1. Entries(<< >>, c) = {}
      BY DEF Entries
    <3>2. Append(<< >>, [first |-> 1, second |-> c]) = <<[first |-> 1, second |-> c]>>
      OBVIOUS
    <3> QED BY <2>1, <3>1, <3>2 DEF push_back
  <2>3. MostCommonCount(seen) = 1
    <3>1. MostCommonCount(<<[first |-> 1, second |-> c]>>) = 1
      <4>1. 1 \in Nat \ {0} /\ 2 \in Nat \ {0}
        OBVIOUS
      <4> QED BY <1>1, <4>1, CountOfOne
    <3> QED BY <2>2, <3>1
  <2> HIDE DEF seen
  <2>4. AddAudio(s, d) = [data |-> d, check |-> c, checks |-> seen]
    BY <2>3 DEF AddAudio, c, seen
  <2> QED BY <1>2, <2>2, <2>4 DEF HeardOnly, c
<1>3. CASE n = 1
  <2>1. /\ s.checks = <<[first |-> 1, second |-> c]>> /\ s.data = d /\ s.check = c
    BY <1>3 DEF HeardOnly, c
  <2>2. seen = <<[first |-> 2, second |-> c]>>
    <3>1. push_back(<<[first |-> 1, second |-> c]>>, c) = <<[first |-> 1 + 1, second |-> c]>>
      BY <1>1, CountOfOne
    <3> QED BY <2>1, <3>1
  <2>3. MostCommonCount(seen) = 2 /\ MostCommonValue(seen, NoCheck) = c
    <3>1. /\ MostCommonCount(<<[first |-> 2, second |-> c]>>) = 2
          /\ MostCommonValue(<<[first |-> 2, second |-> c]>>, NoCheck) = c
      <4>1. 1 \in Nat \ {0} /\ 2 \in Nat \ {0}
        OBVIOUS
      <4> QED BY <1>1, <4>1, CountOfOne
    <3> QED BY <2>2, <3>1
  <2> HIDE DEF seen
  <2>4. AddAudio(s, d) = [data |-> d, check |-> c, checks |-> seen]
    BY <2>1, <2>3 DEF AddAudio, c, seen
  <2> QED BY <1>3, <2>2, <2>4 DEF HeardOnly, c
<1> QED BY <1>2, <1>3

Capped(n) == IF n < 2 THEN n ELSE 2

LEMMA ReadsValue ==
  ASSUME NEW f, f.retry \in Nat, NEW i
  PROVE  /\ Phase(f) \in {"passed", "save"} => Reads(f, i) = Capped(f.retry + 1)
         /\ Phase(f) \in {"loop", "asked", "read"} =>
              Reads(f, i) = IF i <= f.lba THEN Capped(f.retry + 1) ELSE Capped(f.retry)
         /\ Phase(f) \in {"pass", "done"} => Reads(f, i) = Capped(f.retry)
         /\ Capped(f.retry) \in {0, 1, 2} /\ Capped(f.retry + 1) \in {0, 1, 2}
BY DEF Reads, Capped, minimumCommonCrcCount

LEMMA DiscOfSize ==
  ASSUME CallInv
  PROVE  /\ SizeRead \in Nat /\ (SizeRead = 0 \/ Disc \in Data)
         /\ m_sdb.sectors \in Seq(Sector) /\ Len(m_sdb.sectors) \in Nat
         /\ DOMAIN m_sdb.sectors = 1..Len(m_sdb.sectors)
<1>1. Disc \in Discs \cup {None} /\ SizeRead \in Nat /\ m_sdb \in Db
  BY CallParts, DriveTypes DEF Plain
<1>2. Disc \in Discs => Disc \in Data
  BY WorkerAssumption
<1> QED BY <1>1, <1>2, DbParts DEF SizeRead

\* What StraightInv says of the running grab.
LEMMA StraightParts ==
  ASSUME CallInv, stack # << >>, Top.slot = "Grab",
         StraightInv(Top, m_sdb.sectors, Disc, SizeRead, m_cdda.serial)
  PROVE  /\ Len(m_sdb.sectors) = SizeRead /\ DOMAIN m_sdb.sectors = 1..SizeRead
         /\ \A i \in 1..SizeRead : /\ HeardOnly(m_sdb.sectors[i], Disc, Reads(Top, i))
                                   /\ MostCommonCount(m_sdb.sectors[i].checks) = Reads(Top, i)
<1>1. /\ SizeRead \in Nat /\ (SizeRead = 0 \/ Disc \in Data)
      /\ DOMAIN m_sdb.sectors = 1..Len(m_sdb.sectors)
  BY DiscOfSize
<1>2. Top \in Frame /\ GrabInv(Top, m_cancelled)
  BY TopParts DEF FrameInv
<1>3. /\ Len(m_sdb.sectors) = SizeRead
      /\ \A i \in 1..SizeRead : HeardOnly(m_sdb.sectors[i], Disc, Reads(Top, i))
  BY DEF StraightInv
<1>4. ASSUME NEW i \in 1..SizeRead
      PROVE  MostCommonCount(m_sdb.sectors[i].checks) = Reads(Top, i)
  <2>1. Disc \in Data
    BY <1>1, <1>4
  <2>2. Reads(Top, i) \in {0, 1, 2}
    BY <1>2 DEF Reads, minimumCommonCrcCount, Frame
  <2> QED BY <1>3, <2>1, <2>2, HeardOnlyCount
<1> QED BY <1>1, <1>3, <1>4

LEMMA CleanStep ==
  ASSUME CallInv, Noise = {}, stack # << >>, Len(stack) = 1, Top.slot = "Grab", GrabStep,
         CleanFrame(Top, m_sdb.sectors, Disc, SizeRead, m_cdda.serial)
  PROVE  \E f : /\ Become(f)
                /\ CleanFrame(f, m_sdb'.sectors, Disc, SizeRead, m_cdda.serial)
<1> DEFINE old == m_sdb.sectors
<1> DEFINE n == SizeRead
<1> DEFINE r == Top.retry
<1> DEFINE Clean(f) == CleanFrame(f, m_sdb'.sectors, Disc, SizeRead, m_cdda.serial)
<1>1. /\ Top \in Frame /\ GrabInv(Top, m_cancelled)
      /\ r \in Nat /\ Top.lba \in Nat /\ Top.nRead \in Nat
      /\ Top.asked \in BOOLEAN /\ Top.fresh \in BOOLEAN /\ Top.disturbed \in BOOLEAN
  <2>1. Top \in Frame /\ GrabInv(Top, m_cancelled)
    BY TopParts DEF FrameInv
  <2> QED BY <2>1 DEF Frame
<1>2. /\ n \in Nat /\ (n = 0 \/ Disc \in Data)
      /\ old \in Seq(Sector) /\ Len(old) \in Nat /\ DOMAIN old = 1..Len(old)
  BY DiscOfSize
<1>3. /\ Phase(Top) \in {"open", "size"} => r = 0 /\ ~Top.fresh
      /\ Straight(Top) => StraightInv(Top, old, Disc, n, m_cdda.serial)
  BY DEF CleanFrame
<1>4. ASSUME Straight(Top)
      PROVE  /\ StraightInv(Top, old, Disc, n, m_cdda.serial)
             /\ Len(old) = n /\ DOMAIN old = 1..n
             /\ \A i \in 1..n : /\ HeardOnly(old[i], Disc, Reads(Top, i))
                                /\ MostCommonCount(old[i].checks) = Reads(Top, i)
  BY <1>3, <1>4, StraightParts
<1>5. CASE GrabLoad
  <2> DEFINE f == Pass
  <2>1. Become(f) /\ Top.pc = "open"
    BY <1>5 DEF GrabLoad, At
  <2>2. Phase(f) = "pass" /\ ~f.fresh
    BY <1>1, <1>3, <2>1 DEF Pass, Frame, Phase
  <2> HIDE DEF f
  <2> QED BY <2>1, <2>2 DEF CleanFrame, Straight
<1>6. CASE GrabToc
  <2> DEFINE f == [Top EXCEPT !.pc = "size"]
  <2>1. Become(f) /\ Top.pc = "open"
    BY <1>6 DEF GrabToc, Goto, At
  <2>2. f.retry = 0 /\ ~f.fresh
    BY <1>1, <1>3, <2>1 DEF Frame, Phase
  <2> HIDE DEF f
  <2> QED BY <2>1, <2>2 DEF CleanFrame, Straight
<1>7. CASE GrabNew
  <2> DEFINE f == [Pass EXCEPT !.fresh = TRUE]
  <2> DEFINE new == [i \in 1..n |-> NewSector]
  <2>1. Become(f) /\ m_sdb'.sectors = new /\ Top.pc = "size"
    BY <1>7 DEF GrabNew, At
  <2>2. Phase(f) = "pass" /\ f.retry = 0
    BY <1>1, <1>3, <2>1 DEF Pass, Frame, Phase
  <2> HIDE DEF f
  <2>3. Len(new) = n
    <3>1. new \in Seq({NewSector}) /\ DOMAIN new = 1..n
      BY <1>2
    <3> HIDE DEF new
    <3> QED BY <1>2, <3>1
  <2>4. ASSUME NEW i \in 1..n PROVE HeardOnly(new[i], Disc, Reads(f, i))
    <3>1. Reads(f, i) = 0
      BY <2>2, ReadsValue DEF Capped
    <3> QED BY <3>1 DEF HeardOnly
  <2> HIDE DEF new, n
  <2>5. StraightInv(f, new, Disc, n, m_cdda.serial)
    BY <2>2, <2>3, <2>4 DEF StraightInv
  <2>6. Clean(f)
    BY <2>1, <2>2, <2>5 DEF CleanFrame, n
  <2> QED BY <2>1, <2>6
<1>8. CASE PassBegin
  <2> DEFINE f == [Top EXCEPT !.pc = "loop", !.reader = m_cdda.serial,
                              !.lba = 0, !.nRead = 0, !.buf = Zeros]
  <2> DEFINE new == Resized(old, Max({Len(old), n}), NewSector)
  <2>1. Become(f) /\ m_sdb'.sectors = new /\ Top.pc = "pass"
    BY <1>8 DEF PassBegin, At
  <2>2. /\ Phase(f) = "loop" /\ f.retry = r /\ f.lba = 0 /\ f.nRead = 0
        /\ f.reader = m_cdda.serial /\ (Straight(f) => Straight(Top))
    BY <1>1 DEF Frame, Phase, Straight
  <2> HIDE DEF f
  <2>3. ASSUME Straight(f) PROVE StraightInv(f, new, Disc, n, m_cdda.serial)
    <3>1. /\ Len(old) = n /\ DOMAIN old = 1..n
          /\ \A i \in 1..n : HeardOnly(old[i], Disc, Reads(Top, i))
      BY <1>4, <2>2, <2>3
    <3>2. Max({Len(old), n}) = n
      BY <1>2, <3>1, LargerIsLarger
    <3>3. new = old
      <4>1. new = [i \in 1..n |-> IF i <= Len(old) THEN old[i] ELSE NewSector]
        BY <3>2 DEF Resized
      <4>3. old = [i \in 1..n |-> old[i]]
        BY <1>2, <3>1
      <4>4. [i \in 1..n |-> IF i <= Len(old) THEN old[i] ELSE NewSector]
              = [i \in 1..n |-> old[i]]
        <5> HIDE DEF new, old
        <5> QED BY <1>2, <3>1
      <4> HIDE DEF new, old
      <4> QED BY <4>1, <4>3, <4>4
    <3>4. ASSUME NEW i \in 1..n PROVE Reads(f, i) = Reads(Top, i)
      <4>1. Reads(Top, i) = Capped(r)
        BY <1>1, <2>1, ReadsValue DEF Phase
      <4>2. Reads(f, i) = Capped(r)
        <5>1. ~(i <= 0)
          BY <1>2
        <5> QED BY <1>1, <2>2, <5>1, ReadsValue
      <4> QED BY <4>1, <4>2
    <3> HIDE DEF new
    <3> QED BY <2>2, <3>1, <3>3, <3>4 DEF StraightInv
  <2> HIDE DEF new, n
  <2>4. Clean(f)
    BY <2>1, <2>2, <2>3 DEF CleanFrame, n
  <2> QED BY <2>1, <2>4
<1>9. CASE PassLoop
  <2>1. Top.pc = "loop" /\ m_sdb' = m_sdb /\ Phase(Top) = "loop"
    BY <1>9 DEF PassLoop, At, worker, Phase
  <2>2. ASSUME Straight(Top), NEW i \in 1..n
        PROVE  /\ i <= Top.lba => Reads(Top, i) = Capped(r + 1)
               /\ ~(i <= Top.lba) => /\ Reads(Top, i) = Capped(r)
                                     /\ i - 1 \in Due <=> r < 2
    <3>1. Reads(Top, i) = IF i <= Top.lba THEN Capped(r + 1) ELSE Capped(r)
      BY <1>1, <2>1, ReadsValue
    <3>2. ASSUME ~(i <= Top.lba) PROVE i - 1 \in Due <=> r < 2
      <4>1. MostCommonCount(old[i].checks) = Capped(r) /\ Len(old) = n
        BY <1>4, <2>2, <3>1, <3>2
      <4>2. i - 1 \in Top.lba..(Len(old) - 1) /\ (i - 1) + 1 = i
        BY <1>1, <1>2, <3>2, <4>1
      <4>3. i - 1 \in Due <=> ~(Capped(r) >= 2)
        BY <4>1, <4>2 DEF Due, IsSettled, minimumCommonCrcCount
      <4> QED BY <1>1, <4>3 DEF Capped
    <3> QED BY <3>1, <3>2
  <2>3. CASE Due = {}
    <3> DEFINE f == [Top EXCEPT !.pc = "yield", !.next = "passed"]
    <3>1. Become(f)
      BY <1>9, <2>3 DEF PassLoop
    <3>2. /\ Phase(f) = "passed" /\ f.retry = r /\ f.lba = Top.lba /\ f.nRead = Top.nRead
          /\ f.reader = Top.reader /\ (Straight(f) => Straight(Top))
      BY <1>1 DEF Frame, Phase, Straight
    <3> HIDE DEF f
    <3>3. ASSUME Straight(f) PROVE StraightInv(f, old, Disc, n, m_cdda.serial)
      <4>1. StraightInv(Top, old, Disc, n, m_cdda.serial)
        BY <1>4, <3>2, <3>3
      <4>2. ASSUME NEW i \in 1..n PROVE Reads(f, i) = Reads(Top, i)
        <5>1. Reads(f, i) = Capped(r + 1)
          BY <1>1, <3>2, ReadsValue
        <5>2. ~(i <= Top.lba) => r >= 2
          BY <1>1, <2>2, <2>3, <3>2, <3>3, <4>2
        <5>3. r >= 2 => Capped(r) = Capped(r + 1)
          BY <1>1 DEF Capped
        <5> QED BY <2>2, <3>2, <3>3, <5>1, <5>2, <5>3
      <4>3. n <= Top.lba \/ r >= 2
        <5>1. SUFFICES ASSUME ~(n <= Top.lba) PROVE r >= 2
          OBVIOUS
        <5>2. Top.lba + 1 \in 1..n /\ ~(Top.lba + 1 <= Top.lba)
          BY <1>1, <1>2, <5>1
        <5> QED BY <1>1, <2>2, <2>3, <3>2, <3>3, <5>2
      <4> HIDE DEF n, old
      <4> QED BY <2>1, <3>2, <4>1, <4>2, <4>3 DEF StraightInv, minimumCommonCrcCount
    <3>4. Clean(f)
      BY <2>1, <3>2, <3>3 DEF CleanFrame
    <3> QED BY <3>1, <3>4
  <2>4. ASSUME Due # {}, NEW f \in Frame, Become(f), Phase(f) \in {"asked", "read"},
               f = [Top EXCEPT !.pc = f.pc, !.next = f.next, !.lba = Min(Due)]
        PROVE  Clean(f)
    <3>1. /\ f.retry = r /\ f.lba = Min(Due) /\ f.nRead = Top.nRead
          /\ f.reader = Top.reader /\ (Straight(f) => Straight(Top))
      BY <1>1, <2>4 DEF Frame, Straight
    <3>2. ASSUME Straight(f) PROVE StraightInv(f, old, Disc, n, m_cdda.serial)
      <4>1. StraightInv(Top, old, Disc, n, m_cdda.serial) /\ Len(old) = n
        BY <1>4, <3>1, <3>2
      <4> DEFINE m == Min(Due)
      <4>2. m \in Due /\ \A x \in Due : m <= x
        <5>1. Due \subseteq Nat
          BY <1>1, <1>2 DEF Due
        <5> QED BY <2>4, <5>1, Smallest DEF Min
      <4>3. m \in Nat /\ Top.lba <= m /\ m < n
        BY <1>1, <1>2, <4>1, <4>2 DEF Due
      <4> HIDE DEF m
      <4>4. r < 2
        <5>1. m + 1 \in 1..n /\ ~(m + 1 <= Top.lba) /\ (m + 1) - 1 = m
          BY <1>1, <1>2, <4>3
        <5>2. (m + 1) - 1 \in Due <=> r < 2
          BY <2>2, <3>1, <3>2, <5>1
        <5> QED BY <4>2, <5>1, <5>2
      <4>5. m = Top.lba
        <5>1. Top.lba + 1 \in 1..n /\ ~(Top.lba + 1 <= Top.lba) /\ (Top.lba + 1) - 1 = Top.lba
          BY <1>1, <1>2, <4>3
        <5>2. (Top.lba + 1) - 1 \in Due
          BY <2>2, <3>1, <3>2, <4>4, <5>1
        <5> QED BY <1>1, <4>2, <4>3, <5>1, <5>2
      <4>6. ASSUME NEW i \in 1..n PROVE Reads(f, i) = Reads(Top, i)
        BY <1>1, <2>1, <2>4, <3>1, <4>5, ReadsValue DEF m
      <4>7. f.lba = Top.lba /\ f.lba < n
        BY <3>1, <4>3, <4>5 DEF m
      <4> HIDE DEF n, old
      <4> QED BY <2>1, <2>4, <3>1, <4>1, <4>4, <4>6, <4>7 DEF StraightInv, minimumCommonCrcCount
    <3> QED BY <2>1, <2>4, <3>2 DEF CleanFrame
  <2>5. Due # {} => Min(Due) \in Nat
    <3>1. Due \subseteq Nat
      BY <1>1, <1>2 DEF Due
    <3> QED BY <3>1, Smallest DEF Min
  <2>6. CASE Due # {} /\ Top.nRead % ProgressEvery = 0
    <3> DEFINE f == [Top EXCEPT !.pc = "yield", !.next = "asked", !.lba = Min(Due)]
    <3>1. Become(f)
      BY <1>9, <2>6 DEF PassLoop
    <3>2. f \in Frame /\ Phase(f) = "asked" /\ f.pc = "yield" /\ f.next = "asked"
      BY <1>1, <2>5, <2>6 DEF Frame, Phase
    <3>3. f = [Top EXCEPT !.pc = f.pc, !.next = f.next, !.lba = Min(Due)]
      BY <3>2
    <3> HIDE DEF f
    <3> QED BY <2>4, <2>6, <3>1, <3>2, <3>3
  <2>7. CASE Due # {} /\ Top.nRead % ProgressEvery # 0
    <3> DEFINE f == [Top EXCEPT !.pc = "read", !.lba = Min(Due)]
    <3>1. Become(f)
      BY <1>9, <2>7 DEF PassLoop
    <3>2. f \in Frame /\ Phase(f) = "read" /\ f.pc = "read" /\ f.next = Top.next
      BY <1>1, <2>5, <2>7 DEF Frame, Phase
    <3>3. f = [Top EXCEPT !.pc = f.pc, !.next = f.next, !.lba = Min(Due)]
      BY <1>1, <3>2 DEF Frame
    <3> HIDE DEF f
    <3> QED BY <2>4, <2>7, <3>1, <3>2, <3>3
  <2> QED BY <2>3, <2>6, <2>7
<1>10. ASSUME NEW audio \in Data, ReadAudio(audio)
       PROVE  \E f : Become(f) /\ Clean(f)
  <2> DEFINE f == [Top EXCEPT !.pc = "loop", !.lba = @ + 1, !.nRead = @ + 1, !.buf = audio]
  <2> DEFINE k == Top.lba + 1
  <2> DEFINE new == [old EXCEPT ![k] = AddAudio(old[k], audio)]
  <2>1. Become(f) /\ m_sdb'.sectors = new /\ Top.pc = "read" /\ Phase(Top) = "read"
    BY <1>10 DEF ReadAudio, At, Phase, CallInv, TypeOK, Db
  <2>2. /\ Phase(f) = "loop" /\ f.retry = r /\ f.lba = k /\ f.nRead = Top.nRead + 1
        /\ f.reader = Top.reader /\ (Straight(f) => Straight(Top))
    BY <1>1 DEF Frame, Phase, Straight
  <2> HIDE DEF f
  <2>3. ASSUME Straight(f) PROVE StraightInv(f, new, Disc, n, m_cdda.serial)
    <3>1. /\ StraightInv(Top, old, Disc, n, m_cdda.serial)
          /\ Len(old) = n /\ DOMAIN old = 1..n
          /\ \A i \in 1..n : HeardOnly(old[i], Disc, Reads(Top, i))
      BY <1>4, <2>2, <2>3
    <3>2. Top.lba < n /\ r < 2 /\ Top.nRead = Top.lba /\ Top.reader = m_cdda.serial
      BY <2>1, <3>1 DEF StraightInv, minimumCommonCrcCount
    <3>3. audio = Disc /\ Disc \in Data
      <4>1. audio \in Heard /\ Top.lba < SizeRead
        BY <1>10, <3>2 DEF ReadAudio
      <4> QED BY <1>1, <1>2, <3>2, <4>1 DEF Heard
    <3>4. k \in 1..n /\ k = Top.lba + 1
      BY <1>1, <1>2, <3>2
    <3>5. DOMAIN new = 1..n /\ Len(new) = n
      BY <1>2, <3>1, <3>4
    <3>6. ASSUME NEW i \in 1..n PROVE HeardOnly(new[i], Disc, Reads(f, i))
      <4>1. Reads(Top, i) = IF i <= Top.lba THEN Capped(r + 1) ELSE Capped(r)
        BY <1>1, <2>1, ReadsValue
      <4>2. Reads(f, i) = IF i <= k THEN Capped(r + 1) ELSE Capped(r)
        BY <1>1, <2>2, ReadsValue
      <4>3. CASE i # k
        <5>1. new[i] = old[i]
          BY <3>1, <3>6, <4>3
        <5>2. i <= k <=> i <= Top.lba
          BY <1>1, <1>2, <3>4, <4>3
        <5> QED BY <3>1, <4>1, <4>2, <5>1, <5>2
      <4>4. CASE i = k
        <5>1. new[k] = AddAudio(old[k], Disc)
          BY <3>1, <3>3, <3>4
        <5>2. ~(k <= Top.lba) /\ k <= k
          BY <1>1, <3>4
        <5>3. Capped(r) = r /\ Capped(r + 1) = r + 1 /\ r \in {0, 1}
          BY <1>1, <3>2 DEF Capped
        <5>4. HeardOnly(old[k], Disc, r)
          BY <3>1, <3>4, <4>1, <4>4, <5>2, <5>3
        <5>5. HeardOnly(AddAudio(old[k], Disc), Disc, r + 1)
          BY <3>3, <5>3, <5>4, HeardOnceMore
        <5> QED BY <4>2, <4>4, <5>1, <5>2, <5>3, <5>5
      <4> QED BY <4>3, <4>4
    <3>7. f.nRead = f.lba /\ f.reader = m_cdda.serial
      BY <2>2, <3>2, <3>4
    <3> HIDE DEF new, k, n, old
    <3> QED BY <2>2, <3>5, <3>6, <3>7 DEF StraightInv
  <2> HIDE DEF new, k
  <2>4. Clean(f)
    BY <2>1, <2>2, <2>3 DEF CleanFrame
  <2> QED BY <2>1, <2>4
<1>11. ASSUME Top.pc \in {"passed", "save"}, Become(NextPass(Top)), m_sdb' = m_sdb
       PROVE  \E f : Become(f) /\ Clean(f)
  <2> DEFINE pc == IF Top.nRead > 0 /\ r + 1 < MaxPasses THEN "pass" ELSE "done"
  <2> DEFINE f == NextPass(Top)
  <2>1. Become(f) /\ m_sdb' = m_sdb /\ Phase(Top) \in {"passed", "save"}
    BY <1>11 DEF Phase
  <2>2. /\ f.pc = pc /\ f.retry = r + 1 /\ (Straight(f) => Straight(Top))
        /\ Phase(f) = pc
    BY <1>1 DEF NextPass, Frame, Phase, Straight
  <2> HIDE DEF f
  <2>3. ASSUME Straight(f) PROVE StraightInv(f, old, Disc, n, m_cdda.serial)
    <3>1. StraightInv(Top, old, Disc, n, m_cdda.serial)
      BY <1>4, <2>2, <2>3
    <3>2. ASSUME NEW i \in 1..n PROVE Reads(f, i) = Reads(Top, i)
      <4>1. Reads(Top, i) = Capped(r + 1)
        BY <1>1, <2>1, ReadsValue
      <4>2. Reads(f, i) = Capped(r + 1)
        BY <1>1, <2>2, ReadsValue
      <4> QED BY <4>1, <4>2
    <3>3. /\ r < 2 => Top.nRead = Top.lba
          /\ n <= Top.lba \/ r >= 2
      BY <2>1, <3>1 DEF StraightInv, minimumCommonCrcCount
    <3>4. pc = "done" => n = 0 \/ r + 1 >= 2
      BY <1>1, <1>2, <3>3 DEF MaxPasses, minimumCommonCrcCount
    <3>5. pc \in {"pass", "done"}
      OBVIOUS
    <3> HIDE DEF n, old, pc
    <3> QED BY <2>2, <3>1, <3>2, <3>4, <3>5 DEF StraightInv, minimumCommonCrcCount
  <2>4. Clean(f)
    BY <2>1, <2>2, <2>3 DEF CleanFrame
  <2> QED BY <2>1, <2>4
<1>13. CASE PassEnd
  <2>1. Top.pc = "passed" /\ m_sdb' = m_sdb
    BY <1>13 DEF PassEnd, At, worker
  <2>2. CASE ~Saved(Top)
    BY <1>11, <1>13, <2>1, <2>2 DEF PassEnd
  <2>3. CASE Saved(Top)
    <3> DEFINE f == [Top EXCEPT !.pc = "save"]
    <3>1. Become(f)
      BY <1>13, <2>3 DEF PassEnd, Goto
    <3>2. /\ Phase(f) = "save" /\ Phase(Top) = "passed" /\ f.retry = r /\ f.lba = Top.lba
          /\ f.nRead = Top.nRead /\ f.reader = Top.reader /\ (Straight(f) => Straight(Top))
      BY <1>1, <2>1 DEF Frame, Phase, Straight
    <3> HIDE DEF f
    <3>3. ASSUME Straight(f) PROVE StraightInv(f, old, Disc, n, m_cdda.serial)
      <4>1. StraightInv(Top, old, Disc, n, m_cdda.serial)
        BY <1>4, <3>2, <3>3
      <4>2. ASSUME NEW i \in 1..n PROVE Reads(f, i) = Reads(Top, i)
        BY <1>1, <3>2, ReadsValue
      <4> HIDE DEF n, old
      <4> QED BY <3>2, <4>1, <4>2 DEF StraightInv
    <3>4. Clean(f)
      BY <2>1, <3>2, <3>3 DEF CleanFrame
    <3> QED BY <3>1, <3>4
  <2> QED BY <2>2, <2>3
<1>14. CASE SaveEnd
  BY <1>11, <1>14 DEF SaveEnd, At, worker
<1>12. CASE Resume
  <2> DEFINE f == Resumed(Top)
  <2>1. Become(f) /\ m_sdb' = m_sdb /\ Top.pc = "yield"
    BY <1>12 DEF Resume, At, worker
  <2>2. Top.next \in {"asked", "passed"} /\ Phase(Top) = Top.next /\ (Top.asked <=> m_cancelled)
    BY <1>1, <2>1 DEF GrabInv, Phase, Frame
  <2>3. /\ f.retry = r /\ f.lba = Top.lba /\ f.nRead = Top.nRead /\ f.reader = Top.reader
        /\ (Straight(f) <=> Straight(Top)) /\ f.asked = Top.asked
        /\ Phase(f) \in {"passed", "read"}
        /\ ~m_cancelled => \/ Phase(Top) = "asked" /\ Phase(f) = "read"
                           \/ Phase(Top) = "passed" /\ Phase(f) = "passed"
    BY <1>1, <2>2 DEF Resumed, Frame, Phase, Straight
  <2> HIDE DEF f
  <2>4. ASSUME Straight(f) PROVE StraightInv(f, old, Disc, n, m_cdda.serial)
    <3>1. StraightInv(Top, old, Disc, n, m_cdda.serial)
      BY <1>4, <2>3, <2>4
    <3>2. \/ Phase(Top) = "asked" /\ Phase(f) = "read"
          \/ Phase(Top) = "passed" /\ Phase(f) = "passed"
      BY <2>2, <2>3, <2>4 DEF Straight
    <3>3. ASSUME NEW i \in 1..n PROVE Reads(f, i) = Reads(Top, i)
      BY <1>1, <2>3, <3>2, ReadsValue
    <3> HIDE DEF n, old
    <3> QED BY <2>3, <3>1, <3>2, <3>3 DEF StraightInv
  <2>5. Clean(f)
    BY <2>1, <2>3, <2>4 DEF CleanFrame
  <2> QED BY <2>1, <2>5
<1> QED BY <1>5, <1>6, <1>7, <1>8, <1>9, <1>10, <1>12, <1>13, <1>14 DEF GrabStep

LEMMA NextCleanInv ==
  ASSUME CallInv, Noise = {}, CleanInv, [Next]_vars
  PROVE  CleanInv'
<1> SUFFICES ASSUME NEW k \in DOMAIN stack', stack'[k].slot = "Grab"
             PROVE  CleanFrame(stack'[k], m_sdb'.sectors, Disc', SizeRead', m_cdda'.serial)
  BY DEF CleanInv
<1>1. Fate(k)
  BY FrameFate
<1>0. ASSUME UNCHANGED <<drive, m_cdda>>
      PROVE  Disc' = Disc /\ SizeRead' = SizeRead /\ m_cdda'.serial = m_cdda.serial
  BY <1>0 DEF Disc, SizeRead
<1>2. ASSUME NEW base \in Bases,
             stack'[k] = [Idle("Grab", "open") EXCEPT !.base = base]
      PROVE  CleanFrame(stack'[k], m_sdb'.sectors, Disc', SizeRead', m_cdda'.serial)
  <2>1. stack'[k].retry = 0 /\ ~stack'[k].fresh
    BY <1>2 DEF Idle
  <2> QED BY <2>1 DEF CleanFrame, Straight
<1>3. CASE k \in DOMAIN stack /\ SameJob(stack[k], stack'[k]) /\ UNCHANGED <<m_sdb, files, torn>>
  <2> DEFINE f == stack[k]
             g == stack'[k]
  <2>1. f \in Frame
    BY <1>3 DEF CallInv, TypeOK
  <2>2. /\ f.slot = "Grab" /\ g.retry = f.retry /\ g.fresh = f.fresh
        /\ Phase(g) = Phase(f) /\ SameJob(f, g)
    BY <1>3, <2>1, SameJobParts
  <2>3. CleanFrame(f, m_sdb.sectors, Disc, SizeRead, m_cdda.serial)
    BY <1>3, <2>2 DEF CleanInv
  <2> HIDE DEF f, g
  <2>4. CASE g = f /\ UNCHANGED <<drive, m_cdda>>
    BY <1>0, <1>3, <2>3, <2>4 DEF g
  <2>5. CASE g = [f EXCEPT !.disturbed = TRUE] \/ g = [f EXCEPT !.asked = TRUE]
    <3>1. ~Straight(g)
      BY <2>1, <2>5 DEF Frame, Straight
    <3> QED BY <2>2, <2>3, <3>1 DEF CleanFrame, g
  <2> QED BY <2>2, <2>4, <2>5 DEF SameJob
<1>4. CASE stack # << >> /\ k = 1 /\ Len(stack) = 1 /\ Top.slot = "Grab" /\ GrabStep
  <2>1. Top = stack[1] /\ 1 \in DOMAIN stack
    BY <1>4 DEF Top, CallInv, TypeOK
  <2>2. CleanFrame(Top, m_sdb.sectors, Disc, SizeRead, m_cdda.serial)
    BY <1>4, <2>1 DEF CleanInv
  <2>3. PICK f : Become(f) /\ CleanFrame(f, m_sdb'.sectors, Disc, SizeRead, m_cdda.serial)
    BY <1>4, <2>2, CleanStep
  <2>4. stack' = <<f>>
    BY <1>4, <2>3, AloneBecomes
  <2>5. UNCHANGED <<drive, m_cdda>>
    BY <1>4 DEF GrabStep, GrabLoad, GrabToc, GrabNew, PassBegin, PassLoop, ReadAudio,
       PassEnd, SaveEnd, Resume, worker, world
  <2> QED BY <1>0, <1>4, <2>3, <2>4, <2>5
<1> QED BY <1>1, <1>2, <1>3, <1>4 DEF Fate

-----------------------------------------------------------------------------
(***************************************************************************)
(* The toc in memory, with one device.                                     *)
(***************************************************************************)

\* A frame of which TocFrame says nothing.
Quiet(f) == f.slot \in {"Grab", "Encode"} /\ f.pc \notin {"toc", "query", "open", "size"}

LEMMA QuietFrame ==
  ASSUME stack' # << >> => Quiet(Top')
  PROVE  (stack # << >> => TocFrame(Top))'
BY DEF Quiet, TocFrame

LEMMA TopOfBecome ==
  ASSUME CallInv, stack # << >>, NEW f \in Frame, Become(f)
  PROVE  stack' # << >> /\ Top' = f
<1>1. stack \in Seq(Frame) /\ stack' = Replaced(stack, f)
  BY DEF CallInv, TypeOK, Become, Below, Replaced
<1>2. stack' \in Seq(Frame) /\ Len(stack') = Len(stack) /\ stack'[Len(stack)] = f
  BY <1>1, ReplacedParts
<1>3. stack' # << >>
  BY <1>1, <1>2
<1> QED BY <1>2, <1>3 DEF Top

LEMMA TopOfReturn ==
  ASSUME CallInv, stack # << >>, Return
  PROVE  stack' # << >> => Quiet(Top')
<1> SUFFICES ASSUME stack' # << >> PROVE Quiet(Top')
  OBVIOUS
<1>1. /\ stack \in Seq(Frame) /\ stack' = SubSeq(stack, 1, Len(stack) - 1)
      /\ CallStack(stack, mtx) /\ \A i \in DOMAIN stack : FrameInv(stack[i], m_cancelled, m_sdb)
  BY DEF CallInv, TypeOK, Slots, Return, Below
<1>2. /\ stack' \in Seq(Frame) /\ Len(stack') = Len(stack) - 1
      /\ \A i \in 1..(Len(stack) - 1) : stack'[i] = stack[i]
  BY <1>1, BelowParts
<1>3. Len(stack) \in {1, 2} /\ Len(stack') # 0 /\ DOMAIN stack = 1..Len(stack)
  <2>1. /\ Len(stack) \in Nat /\ DOMAIN stack = 1..Len(stack)
        /\ Len(stack') \in Nat /\ (Len(stack') = 0 => stack' = << >>)
    BY <1>1, <1>2, EmptySeq
  <2>2. Len(stack) <= 2
    BY <1>1 DEF CallStack
  <2> HIDE DEF Below
  <2> QED BY <1>2, <2>1, <2>2
<1>4. Len(stack) = 2 /\ Top' = stack[1] /\ 1 \in DOMAIN stack
  BY <1>2, <1>3 DEF Top
<1>5. stack[1].pc = "yield" /\ stack[1] \in Frame /\ FrameInv(stack[1], m_cancelled, m_sdb)
  BY <1>1, <1>4 DEF CallStack
<1>6. stack[1].slot \in {"Grab", "Encode"}
  BY <1>5, WhoRuns
<1> QED BY <1>4, <1>5, <1>6 DEF Quiet

LEMMA TopOfCall ==
  ASSUME NEW s \in Seq(Frame), NEW f \in Frame, stack' = Append(s, f)
  PROVE  stack' # << >> /\ Top' = f
<1>1. stack' \in Seq(Frame) /\ Len(stack') = Len(s) + 1 /\ stack'[Len(s) + 1] = f
  BY AppendProperties
<1>2. stack' # << >>
  BY <1>1
<1> QED BY <1>1, <1>2 DEF Top

LEMMA TopOfSame ==
  ASSUME CallInv, stack' \in Seq(Frame), DOMAIN stack' = DOMAIN stack,
         \A i \in DOMAIN stack : /\ stack'[i].slot = stack[i].slot
                                 /\ stack'[i].pc = stack[i].pc
                                 /\ stack'[i].di = stack[i].di
  PROVE  /\ stack' = << >> <=> stack = << >>
         /\ stack # << >> => /\ Top'.slot = Top.slot /\ Top'.pc = Top.pc
                             /\ Top'.di = Top.di
<1>1. stack \in Seq(Frame)
  BY DEF CallInv, TypeOK
<1>2. /\ DOMAIN stack = 1..Len(stack) /\ DOMAIN stack' = 1..Len(stack')
      /\ Len(stack) \in Nat /\ Len(stack') \in Nat
  BY <1>1
<1>3. Len(stack) = Len(stack')
  BY <1>2
<1>4. stack # << >> => Len(stack) \in DOMAIN stack
  BY <1>1, <1>2
<1> QED BY <1>1, <1>2, <1>3, <1>4 DEF Top

\* The frames learn of a change of disc or of a cancel, and nothing else.
LEMMA TopOfWitnessed ==
  ASSUME CallInv, CallInv',
         \/ stack' = Witnessed
         \/ stack' = [i \in DOMAIN stack |-> [stack[i] EXCEPT !.asked = TRUE]]
  PROVE  /\ stack' = << >> <=> stack = << >>
         /\ stack # << >> => /\ Top'.slot = Top.slot /\ Top'.pc = Top.pc
                             /\ Top'.di = Top.di
<1>1. stack' \in Seq(Frame) /\ DOMAIN stack' = DOMAIN stack /\ stack \in Seq(Frame)
  BY DEF CallInv, TypeOK, Witnessed
<1>2. ASSUME NEW i \in DOMAIN stack
      PROVE  /\ stack'[i].slot = stack[i].slot /\ stack'[i].pc = stack[i].pc
             /\ stack'[i].di = stack[i].di
  <2>1. stack[i] \in Frame
    BY <1>1
  <2>2. \/ stack'[i] = [stack[i] EXCEPT !.disturbed = TRUE]
        \/ stack'[i] = [stack[i] EXCEPT !.asked = TRUE]
    BY DEF Witnessed
  <2> QED BY <2>1, <2>2 DEF Frame
<1> QED BY <1>1, <1>2, TopOfSame

LEMMA TheDevice ==
  ASSUME CallInv, OneDevice
  PROVE  \E d \in Devices : /\ Devices = {d} /\ d # None /\ m_cdda.dev \in {None, d}
                            /\ None # Junk
                            /\ drive \in [{d} -> Discs \cup {None}]
BY WorkerAssumption DEF CallInv, TypeOK, OneDevice

LEMMA AroundTocInv ==
  ASSUME CallInv, CallInv', OneDevice, TocInv,
         \/ \E dev \in Devices : \/ \E disc \in Discs \cup {None} : Swap(dev, disc)
                                 \/ ChangeDevice(dev)
         \/ Poll \/ Cancel \/ Eject \/ JobRefused
         \/ \E base \in Bases : Grab(base) \/ Encode(base)
  PROVE  TocInv'
<1>0. stack \in Seq(Frame)
  BY DEF CallInv, TypeOK
<1>1. PICK d \in Devices : /\ Devices = {d} /\ d # None /\ m_cdda.dev \in {None, d}
                           /\ drive \in [{d} -> Discs \cup {None}]
  BY TheDevice
<1>2. ASSUME UNCHANGED <<drive, m_cdda>> PROVE Disc' = Disc
  BY <1>2 DEF Disc
<1>3. ASSUME NEW dev \in Devices, NEW disc \in Discs \cup {None}, Swap(dev, disc) PROVE TocInv'
  <2>1. /\ dev = d /\ drive' = [drive EXCEPT ![d] = disc] /\ noticed' = FALSE
        /\ missed' = (missed \/ ~noticed) /\ None \in {disc, drive[d]}
        /\ m_toc' = m_toc /\ m_di' = m_di /\ m_cdda' = m_cdda /\ stack' = Witnessed
    BY <1>1, <1>3 DEF Swap, Change, worker
  <2>2. /\ stack' = << >> <=> stack = << >>
        /\ stack # << >> => /\ Top'.slot = Top.slot /\ Top'.pc = Top.pc
                            /\ Top'.di = Top.di
    BY <2>1, TopOfWitnessed
  <2>3. Disc' # None => m_cdda.dev = d /\ Disc = None
    BY <1>1, <2>1 DEF Disc
  <2>4. ~(m_toc' # None /\ Disc' # None /\ ~missed')
    BY <2>1, <2>3 DEF TocInv
  <2>5. (stack # << >> => TocFrame(Top))'
    BY <2>1, <2>2 DEF TocInv, TocFrame
  <2> QED BY <2>1, <2>2, <2>4, <2>5 DEF TocInv
<1>4. ASSUME NEW dev \in Devices, ChangeDevice(dev) PROVE TocInv'
  <2> DEFINE f == Idle("ChangeDevice", "di")
  <2>1. /\ m_cdda.dev = None /\ m_cdda'.dev # None /\ m_toc' = m_toc /\ m_di' = m_di
        /\ stack' = Append(Witnessed, f)
    BY <1>1, <1>4 DEF ChangeDevice, CallInv, TypeOK
  <2>2. m_toc = None /\ m_di = "NoDisc" /\ stack = << >>
    BY <2>1 DEF TocInv
  <2>3. Witnessed = << >> /\ << >> \in Seq(Frame)
    BY <2>2 DEF Witnessed
  <2>4. f \in Frame /\ f.slot = "ChangeDevice" /\ f.pc = "di"
    BY IdleType DEF Idle
  <2> HIDE DEF f
  <2>5. stack' # << >> /\ Top' = f
    BY <2>1, <2>3, <2>4, TopOfCall
  <2>6. (stack # << >> => TocFrame(Top))'
    BY <2>1, <2>2, <2>4, <2>5 DEF TocFrame
  <2> QED BY <2>1, <2>2, <2>6 DEF TocInv
<1>5. CASE Poll
  <2> DEFINE f == Idle("Poll", "di")
  <2>1. /\ UNCHANGED <<drive, m_cdda, m_toc, m_di, noticed, missed>> /\ m_cdda.dev # None
        /\ stack' = Append(stack, f)
    BY <1>5 DEF Poll, Call, worker, world
  <2>2. f \in Frame /\ f.slot = "Poll" /\ f.pc = "di"
    BY IdleType DEF Idle
  <2> HIDE DEF f
  <2>3. stack' # << >> /\ Top' = f
    BY <1>0, <2>1, <2>2, TopOfCall
  <2>4. (stack # << >> => TocFrame(Top))'
    BY <2>2, <2>3 DEF TocFrame
  <2> QED BY <1>2, <2>1, <2>4 DEF TocInv
<1>6. CASE Cancel
  <2>1. /\ UNCHANGED <<drive, m_cdda, m_toc, m_di, noticed, missed>> /\ m_cdda.dev # None
        /\ stack' = [i \in DOMAIN stack |-> [stack[i] EXCEPT !.asked = TRUE]]
    BY <1>6 DEF Cancel
  <2>2. /\ stack' = << >> <=> stack = << >>
        /\ stack # << >> => /\ Top'.slot = Top.slot /\ Top'.pc = Top.pc
                            /\ Top'.di = Top.di
    BY <2>1, TopOfWitnessed
  <2>3. (stack # << >> => TocFrame(Top))'
    BY <1>2, <2>1, <2>2 DEF TocInv, TocFrame
  <2> QED BY <1>2, <2>1, <2>2, <2>3 DEF TocInv
<1>7. CASE Eject
  <2>1. CASE Disc # None
    <3>1. /\ m_cdda.dev = d /\ drive' = [drive EXCEPT ![d] = None] /\ noticed' = FALSE
          /\ m_toc' = m_toc /\ m_di' = m_di /\ m_cdda' = m_cdda /\ stack' = Witnessed
      BY <1>1, <1>7, <2>1 DEF Eject, Change, worker
    <3>2. /\ stack' = << >> <=> stack = << >>
          /\ stack # << >> => /\ Top'.slot = Top.slot /\ Top'.pc = Top.pc
                              /\ Top'.di = Top.di
      BY <3>1, TopOfWitnessed
    <3>3. Disc' = None
      BY <1>1, <3>1 DEF Disc
    <3>4. (stack # << >> => TocFrame(Top))'
      BY <3>1, <3>2 DEF TocInv, TocFrame
    <3> QED BY <1>1, <3>1, <3>2, <3>3, <3>4 DEF TocInv
  <2>2. CASE Disc = None
    <3>1. UNCHANGED <<drive, m_cdda, m_toc, m_di, noticed, missed, stack>>
      BY <1>7, <2>2 DEF Eject, worker
    <3> QED BY <1>2, <3>1 DEF TocInv, TocFrame, Top
  <2> QED BY <2>1, <2>2
<1>8. CASE JobRefused
  BY <1>2, <1>8 DEF JobRefused, TocInv, TocFrame, Top
<1>9. ASSUME NEW base \in Bases, Grab(base) PROVE TocInv'
  <2> DEFINE f == [Idle("Grab", "open") EXCEPT !.base = base]
  <2>1. /\ UNCHANGED <<drive, m_cdda, m_toc, m_di, noticed, missed>> /\ m_cdda.dev # None
        /\ stack = << >>
        /\ stack' = stack \/ (stack' = Append(stack, f) /\ m_di = "Audio")
    BY <1>9, FreeLockIsEmptyStack DEF Grab, ByWindow, Call
  <2>2. f \in Frame /\ f.slot = "Grab" /\ f.pc = "open"
    <3>1. Idle("Grab", "open") \in Frame /\ base \in Tags
      BY IdleType, WorkerAssumption DEF Tags
    <3>2. f.slot = "Grab" /\ f.pc = "open"
      BY DEF Idle
    <3> QED BY <3>1, <3>2 DEF Frame
  <2> HIDE DEF f
  <2>3. (stack # << >> => TocFrame(Top))'
    <3>1. CASE stack' = stack
      BY <2>1, <3>1
    <3>2. CASE stack' = Append(stack, f) /\ m_di = "Audio"
      <4>1. Top' = f
        BY <1>0, <2>2, <3>2, TopOfCall
      <4> QED BY <2>1, <2>2, <3>2, <4>1 DEF TocFrame
    <3> QED BY <2>1, <3>1, <3>2
  <2> QED BY <1>2, <2>1, <2>3 DEF TocInv
<1>10. ASSUME NEW base \in Bases, Encode(base) PROVE TocInv'
  <2> DEFINE f == [Idle("Encode", "encode") EXCEPT !.base = base]
  <2>1. /\ UNCHANGED <<drive, m_cdda, m_toc, m_di, noticed, missed>> /\ m_cdda.dev # None
        /\ stack = << >>
        /\ stack' = stack \/ stack' = Append(stack, f)
    BY <1>10, FreeLockIsEmptyStack DEF Encode, ByWindow, Call
  <2>2. f \in Frame /\ f.slot = "Encode" /\ f.pc = "encode"
    <3>1. Idle("Encode", "encode") \in Frame /\ base \in Tags
      BY IdleType, WorkerAssumption DEF Tags
    <3>2. f.slot = "Encode" /\ f.pc = "encode"
      BY DEF Idle
    <3> QED BY <3>1, <3>2 DEF Frame
  <2> HIDE DEF f
  <2>3. stack' # << >> => Quiet(Top')
    <3>1. CASE stack' = stack
      BY <2>1, <3>1
    <3>2. CASE stack' = Append(stack, f)
      <4>1. Top' = f
        BY <1>0, <2>2, <3>2, TopOfCall
      <4> QED BY <2>2, <4>1 DEF Quiet
    <3> QED BY <2>1, <3>1, <3>2
  <2>4. (stack # << >> => TocFrame(Top))'
    BY <2>3, QuietFrame
  <2> QED BY <1>2, <2>1, <2>4 DEF TocInv
<1> QED BY <1>3, <1>4, <1>5, <1>6, <1>7, <1>8, <1>9, <1>10

\* What the steps of the running slot have in common.
LEMMA RunningParts ==
  ASSUME CallInv, OneDevice, TocInv, stack # << >>
  PROVE  /\ Top \in Frame /\ TocFrame(Top) /\ m_cdda.dev # None
         /\ Top.pc \in {"di", "lock", "status", "toc", "query"}
              => Top.slot \in {"Poll", "ChangeDevice"}
         /\ Top.pc \in {"open", "size"} => Top.slot = "Grab"
         /\ Top.slot = "Grab" => Top.pc \notin {"toc", "query"}
         /\ Top.slot = "Encode" => Top.pc \notin {"toc", "query", "open", "size"}
         /\ m_di \in {"Audio", "NoDisc"} /\ None # Junk
<1>1. Top \in Frame /\ FrameInv(Top, m_cancelled, m_sdb)
  BY TopParts
<1>2. m_di \in {"Audio", "NoDisc"} /\ None # Junk
  BY TheDevice DEF CallInv, TypeOK
<1> QED BY <1>1, <1>2, WhoRuns DEF TocInv

LEMMA RefreshTocInv ==
  ASSUME CallInv, CallInv', OneDevice, TocInv,
         \/ PollDisc \/ OpenedDisc \/ RefreshLock \/ RefreshStatus \/ RefreshToc
         \/ RefreshQuery \/ RefreshOffline \/ Throw
  PROVE  TocInv'
<1>0. stack # << >> /\ UNCHANGED <<drive, m_cdda, missed>> /\ Disc' = Disc
  BY DEF PollDisc, OpenedDisc, RefreshLock, RefreshStatus, RefreshToc,
     RefreshQuery, RefreshOffline, Throw, At, Disc, world
<1>1. /\ Top \in Frame /\ TocFrame(Top) /\ m_cdda.dev # None
      /\ Top.pc \in {"di", "lock", "status", "toc", "query"}
           => Top.slot \in {"Poll", "ChangeDevice"}
      /\ m_di \in {"Audio", "NoDisc"} /\ None # Junk
  BY <1>0, RunningParts
<1>2. ASSUME Return PROVE (stack # << >> => TocFrame(Top))'
  BY <1>0, <1>2, TopOfReturn, QuietFrame
<1>3. ASSUME NEW pc \in {"lock", "status", "toc", "query"}, Goto(pc)
      PROVE  Top' = [Top EXCEPT !.pc = pc]
  <2>1. [Top EXCEPT !.pc = pc] \in Frame
    BY <1>1 DEF Frame
  <2> QED BY <1>0, <1>3, <2>1, TopOfBecome DEF Goto
<1>4. /\ m_toc # None => m_di = "Audio"
      /\ m_di = "Audio" => Disc # None \/ ~noticed
      /\ m_toc # None /\ Disc # None /\ ~missed => m_toc = Disc
  BY DEF TocInv
<1>5. SUFFICES /\ m_toc' # None => m_di' = "Audio"
               /\ m_di' = "Audio" => Disc # None \/ ~noticed'
               /\ m_toc' # None /\ Disc # None /\ ~missed => m_toc' = Disc
               /\ (stack # << >> => TocFrame(Top))'
  BY <1>0, <1>1 DEF TocInv
<1>6. CASE PollDisc
  <2>1. /\ Top.slot = "Poll" /\ noticed' = TRUE
        /\ m_toc' = IF GetDiscStatus = m_di THEN m_toc ELSE TocAfterPoll(GetDiscStatus)
        /\ IF GetDiscStatus # m_di /\ GetDiscStatus = "Audio"
           THEN /\ Become([Top EXCEPT !.pc = "lock", !.di = GetDiscStatus])
                /\ UNCHANGED m_di
           ELSE Return /\ m_di' = GetDiscStatus
    BY <1>6 DEF PollDisc
  <2>2. CASE GetDiscStatus # m_di /\ GetDiscStatus = "Audio"
    <3>1. [Top EXCEPT !.pc = "lock", !.di = GetDiscStatus] \in Frame
      BY <1>1, <2>2 DEF Frame
    <3>2. Top' = [Top EXCEPT !.pc = "lock", !.di = GetDiscStatus]
      BY <1>0, <2>1, <2>2, <3>1, TopOfBecome
    <3>3. Top'.slot = "Poll" /\ Top'.pc = "lock" /\ Top'.di = "Audio"
      BY <1>1, <2>1, <2>2, <3>2 DEF Frame
    <3>4. Disc # None
      BY <2>2 DEF GetDiscStatus
    <3>5. TocFrame(Top)'
      BY <1>0, <3>3, <3>4 DEF TocFrame
    <3> QED BY <1>1, <1>4, <2>1, <2>2, <3>4, <3>5 DEF TocAfterPoll
  <2>3. CASE ~(GetDiscStatus # m_di /\ GetDiscStatus = "Audio")
    BY <1>2, <1>4, <2>1, <2>3 DEF GetDiscStatus, TocAfterPoll
  <2> QED BY <2>2, <2>3
<1>7. CASE OpenedDisc
  <2>1. /\ Top.slot = "ChangeDevice" /\ Goto("lock") /\ m_di' = GetDiscStatus
        /\ m_toc' = m_toc /\ noticed' = noticed
    BY <1>7 DEF OpenedDisc, world
  <2>2. Top' = [Top EXCEPT !.pc = "lock"]
    BY <1>3, <2>1
  <2>3. Top'.slot = "ChangeDevice" /\ Top'.pc = "lock"
    BY <1>1, <2>1, <2>2 DEF Frame
  <2>4. m_toc = None
    BY <1>1, <2>1 DEF TocFrame
  <2> QED BY <2>1, <2>3, <2>4 DEF TocFrame, GetDiscStatus
<1>8. CASE RefreshLock
  <2>1. /\ Top.pc = "lock" /\ m_toc' = m_toc /\ noticed' = noticed
        /\ \/ Refreshed(m_di)
           \/ Goto("status") /\ m_di' = m_di
    BY <1>8 DEF RefreshLock, At, world
  <2>2. CASE Refreshed(m_di)
    BY <1>1, <1>2, <1>4, <2>1, <2>2 DEF Refreshed, TocFrame
  <2>3. CASE Goto("status") /\ m_di' = m_di
    <3>1. Top' = [Top EXCEPT !.pc = "status"]
      BY <1>3, <2>3
    <3>2. Top'.pc = "status" /\ Top'.slot = Top.slot /\ Top'.di = Top.di
      BY <1>1, <3>1 DEF Frame
    <3>3. TocFrame(Top)'
      BY <1>0, <1>1, <2>1, <3>2 DEF TocFrame
    <3> QED BY <1>4, <2>1, <2>3, <3>3
  <2> QED BY <2>1, <2>2, <2>3
<1>9. CASE RefreshStatus
  <2>1. /\ Top.pc = "status" /\ m_toc' = m_toc /\ noticed' = noticed
        /\ \/ GetDiscStatus = "Audio" /\ m_di' = "Audio" /\ Goto("toc")
           \/ GetDiscStatus # "Audio" /\ Refreshed(GetDiscStatus)
    BY <1>9 DEF RefreshStatus, At, world
  <2>2. CASE GetDiscStatus # "Audio" /\ Refreshed(GetDiscStatus)
    BY <1>1, <1>2, <1>4, <2>1, <2>2 DEF Refreshed, TocFrame, GetDiscStatus
  <2>3. CASE GetDiscStatus = "Audio" /\ m_di' = "Audio" /\ Goto("toc")
    <3>1. Top' = [Top EXCEPT !.pc = "toc"]
      BY <1>3, <2>3
    <3>2. Top'.pc = "toc" /\ Top'.slot = Top.slot /\ Top'.di = Top.di
      BY <1>1, <3>1 DEF Frame
    <3>3. Disc # None
      BY <2>3 DEF GetDiscStatus
    <3>4. TocFrame(Top)'
      BY <1>0, <1>1, <2>1, <2>3, <3>2, <3>3 DEF TocFrame
    <3> QED BY <1>4, <2>1, <2>3, <3>3, <3>4
  <2> QED BY <2>1, <2>2, <2>3
<1>10. CASE RefreshToc
  <2>1. /\ Top.pc = "toc" /\ m_toc' = m_toc /\ noticed' = noticed
        /\ \/ Refreshed(m_di)
           \/ Goto("query") /\ m_di' = m_di
    BY <1>10 DEF RefreshToc, At, world
  <2>2. CASE Refreshed(m_di)
    BY <1>1, <1>2, <1>4, <2>1, <2>2 DEF Refreshed, TocFrame
  <2>3. CASE Goto("query") /\ m_di' = m_di
    <3>1. Top' = [Top EXCEPT !.pc = "query"]
      BY <1>3, <2>3
    <3>2. Top'.pc = "query" /\ Top'.slot = Top.slot /\ Top'.di = Top.di
      BY <1>1, <3>1 DEF Frame
    <3>3. TocFrame(Top)'
      BY <1>0, <1>1, <2>1, <2>3, <3>2 DEF TocFrame
    <3> QED BY <1>4, <2>1, <2>3, <3>3
  <2> QED BY <2>1, <2>2, <2>3
<1>11. CASE RefreshQuery \/ RefreshOffline
  <2>1. /\ Top.pc = "query" /\ m_toc' = TocRead /\ noticed' = noticed /\ Return
        /\ m_di' = m_di \/ (Top.slot = "Poll" /\ m_di' = Top.di)
    BY <1>11 DEF RefreshQuery, RefreshOffline, Refreshed, At, world
  <2>2. m_di = "Audio" /\ m_di' = "Audio" /\ (Disc # None \/ ~noticed)
    BY <1>1, <2>1 DEF TocFrame
  <2> QED BY <1>1, <1>2, <2>1, <2>2 DEF TocRead
<1>12. CASE Throw
  BY <1>2, <1>4, <1>12 DEF Throw, world
<1> QED BY <1>6, <1>7, <1>8, <1>9, <1>10, <1>11, <1>12

LEMMA JobTocInv ==
  ASSUME CallInv, CallInv', OneDevice, TocInv,
         \/ GrabLoad \/ GrabToc \/ GrabNew \/ PassBegin \/ PassLoop
         \/ \E audio \in Data : ReadAudio(audio)
         \/ PassEnd \/ SaveEnd \/ GrabEnd \/ EncodeChunk \/ EncodeEnd \/ Resume
  PROVE  TocInv'
<1>0. /\ stack # << >> /\ UNCHANGED <<drive, m_cdda, noticed, missed, m_di>>
      /\ Disc' = Disc
  BY DEF GrabLoad, GrabToc, GrabNew, PassBegin, PassLoop, ReadAudio, PassEnd, SaveEnd,
     GrabEnd, EncodeChunk, EncodeEnd, Resume, At, Disc, world, worker
<1>1. /\ Top \in Frame /\ TocFrame(Top) /\ m_cdda.dev # None
      /\ Top.pc \in {"open", "size"} => Top.slot = "Grab"
      /\ None # Junk /\ FrameInv(Top, m_cancelled, m_sdb)
  BY <1>0, RunningParts, TopParts
<1>2. /\ m_toc # None => m_di = "Audio"
      /\ m_di = "Audio" => Disc # None \/ ~noticed
      /\ m_toc # None /\ Disc # None /\ ~missed => m_toc = Disc
  BY DEF TocInv
<1>3. CASE GrabToc
  <2>1. /\ Top.pc = "open" /\ Goto("size")
        /\ m_toc' = IF m_toc = None THEN TocRead ELSE m_toc
    BY <1>3 DEF GrabToc, At
  <2>2. [Top EXCEPT !.pc = "size"] \in Frame
    BY <1>1 DEF Frame
  <2>3. Top' = [Top EXCEPT !.pc = "size"]
    BY <1>0, <2>1, <2>2, TopOfBecome DEF Goto
  <2>4. Top'.slot = "Grab" /\ Top'.pc = "size"
    BY <1>1, <2>1, <2>3 DEF Frame
  <2>5. m_toc' # None
    BY <1>1, <2>1 DEF TocRead
  <2>6. TocFrame(Top)'
    BY <2>4, <2>5 DEF TocFrame
  <2>7. m_di = "Audio"
    BY <1>1, <2>1 DEF TocFrame
  <2>8. Disc # None /\ ~missed => m_toc' = Disc
    BY <1>2, <2>1 DEF TocRead
  <2> QED BY <1>0, <1>1, <1>2, <2>6, <2>7, <2>8 DEF TocInv
<1>4. ASSUME m_toc' = m_toc, stack' # << >> => Quiet(Top') PROVE TocInv'
  BY <1>0, <1>1, <1>2, <1>4, QuietFrame DEF TocInv
<1>5. Top.pc \in {"open", "size", "pass", "loop", "yield", "read", "passed", "save",
                  "done", "encode", "encoded"}
  BY DEF GrabLoad, GrabToc, GrabNew, PassBegin, PassLoop, ReadAudio, PassEnd, SaveEnd,
     GrabEnd, EncodeChunk, EncodeEnd, Resume, At
<1>6. /\ Len(stack) = 1 /\ Top.slot \in {"Grab", "Encode"} /\ m_cdda.dev # None
  BY <1>0, <1>1, <1>5, GrabIsAlone, WhoRuns
<1>7. ASSUME NEW f, Become(f), m_toc' = m_toc, f.slot = Top.slot,
             f.pc \notin {"toc", "query", "open", "size"}
      PROVE  TocInv'
  <2>1. stack' = <<f>>
    BY <1>6, <1>7, AloneBecomes
  <2>2. Top' = f
    BY <2>1 DEF Top
  <2> QED BY <1>4, <1>6, <1>7, <2>2 DEF Quiet
<1>8. CASE GrabEnd \/ EncodeEnd
  <2>1. Return /\ m_toc' = m_toc
    BY <1>8 DEF GrabEnd, EncodeEnd
  <2> QED BY <1>0, <1>4, <2>1, TopOfReturn
<1>9. CASE GrabLoad
  <2>1. Become(Pass) /\ m_toc' = m_toc
    BY <1>9 DEF GrabLoad
  <2>2. Pass.slot = Top.slot /\ Pass.pc = "pass"
    BY <1>1 DEF Pass, Frame
  <2> QED BY <1>7, <2>1, <2>2
<1>10. CASE GrabNew
  <2> DEFINE f == [Pass EXCEPT !.fresh = TRUE]
  <2>1. Become(f) /\ m_toc' = m_toc
    BY <1>10 DEF GrabNew
  <2>2. f.slot = Top.slot /\ f.pc = "pass"
    BY <1>1 DEF Pass, Frame
  <2> HIDE DEF f
  <2> QED BY <1>7, <2>1, <2>2
<1>11. CASE PassBegin
  <2> DEFINE f == [Top EXCEPT !.pc = "loop", !.reader = m_cdda.serial,
                              !.lba = 0, !.nRead = 0, !.buf = Zeros]
  <2>1. Become(f) /\ m_toc' = m_toc
    BY <1>11 DEF PassBegin
  <2>2. f.slot = Top.slot /\ f.pc = "loop"
    BY <1>1 DEF Frame
  <2> HIDE DEF f
  <2> QED BY <1>7, <2>1, <2>2
<1>12. CASE PassLoop
  <2> DEFINE f == IF Due = {}
                  THEN [Top EXCEPT !.pc = "yield", !.next = "passed"]
                  ELSE IF Top.nRead % ProgressEvery = 0
                  THEN [Top EXCEPT !.pc = "yield", !.next = "asked", !.lba = Min(Due)]
                  ELSE [Top EXCEPT !.pc = "read", !.lba = Min(Due)]
  <2>1. Become(f) /\ m_toc' = m_toc
    BY <1>12 DEF PassLoop, worker
  <2>2. f.slot = Top.slot /\ f.pc \in {"yield", "read"}
    BY <1>1 DEF Frame
  <2> HIDE DEF f
  <2> QED BY <1>7, <2>1, <2>2
<1>13. ASSUME NEW audio \in Data, ReadAudio(audio) PROVE TocInv'
  <2> DEFINE f == [Top EXCEPT !.pc = "loop", !.lba = @ + 1, !.nRead = @ + 1,
                              !.buf = audio]
  <2>1. Become(f) /\ m_toc' = m_toc
    BY <1>13 DEF ReadAudio
  <2>2. f.slot = Top.slot /\ f.pc = "loop"
    BY <1>1 DEF Frame
  <2> HIDE DEF f
  <2> QED BY <1>7, <2>1, <2>2
<1>14. ASSUME Become(NextPass(Top)), m_toc' = m_toc PROVE TocInv'
  <2>1. NextPass(Top).slot = Top.slot /\ NextPass(Top).pc \in {"pass", "done"}
    BY <1>1 DEF NextPass, Frame
  <2> QED BY <1>7, <1>14, <2>1
<1>17. CASE PassEnd
  <2> DEFINE f == [Top EXCEPT !.pc = "save"]
  <2>1. m_toc' = m_toc /\ (Become(f) \/ Become(NextPass(Top)))
    BY <1>17 DEF PassEnd, Goto, worker
  <2>2. f.slot = Top.slot /\ f.pc = "save"
    BY <1>1 DEF Frame
  <2> HIDE DEF f
  <2> QED BY <1>7, <1>14, <2>1, <2>2
<1>18. CASE SaveEnd
  BY <1>14, <1>18 DEF SaveEnd, worker
<1>15. CASE EncodeChunk
  <2> DEFINE n == Len(m_sdb.sectors)
             full == HasFullChunk(Top.lba, n)
             nrFrames == IF full THEN ChunkFrames ELSE n - Top.lba
             goto == IF full THEN "encode" ELSE "encoded"
             f == [Top EXCEPT
                     !.image = @ \o ReadChunk(Buffer(@), m_sdb.sectors, Top.lba, nrFrames),
                     !.lba   = IF full THEN @ + ChunkFrames ELSE @,
                     !.pc    = IF Top.lba % YieldEvery = 0 THEN "yield" ELSE goto,
                     !.next  = goto]
  <2>1. Become(f) /\ m_toc' = m_toc
    BY <1>15 DEF EncodeChunk, worker
  <2>2. f.slot = Top.slot /\ f.pc \in {"yield", "encode", "encoded"}
    BY <1>1 DEF Frame
  <2> HIDE DEF f
  <2> QED BY <1>7, <2>1, <2>2
<1>16. CASE Resume
  <2> DEFINE f == Resumed(Top)
  <2>1. Become(f) /\ m_toc' = m_toc
    BY <1>16 DEF Resume, worker
  <2>2. f.slot = Top.slot /\ f.pc \notin {"toc", "query", "open", "size"}
    BY <1>1 DEF Frame, Resumed
  <2> HIDE DEF f
  <2> QED BY <1>7, <2>1, <2>2
<1> QED BY <1>3, <1>8, <1>9, <1>10, <1>11, <1>12, <1>13, <1>15, <1>16, <1>17,
       <1>18

LEMMA NextTocInv ==
  ASSUME CallInv, CallInv', OneDevice, TocInv, [Next]_vars
  PROVE  TocInv'
<1>1. CASE UNCHANGED vars
  BY <1>1 DEF vars, worker, world, TocInv, TocFrame, Top, Disc
<1>2. CASE SlotStep \/ Resume
  BY <1>2, RefreshTocInv, JobTocInv DEF SlotStep
<1>3. CASE Next /\ ~SlotStep /\ ~Resume /\ ~Kill
  BY <1>3, AroundTocInv DEF Next
<1>4. CASE Kill
  BY <1>4 DEF Kill, TocInv
<1> QED BY <1>1, <1>2, <1>3, <1>4

-----------------------------------------------------------------------------
LEMMA InitHolds == Init => IInv
<1> SUFFICES ASSUME Init PROVE IInv
  OBVIOUS
<1>1. CallInv
  BY InitCallInv
<1>2. DOMAIN stack = {} /\ stack = << >>
  BY DEF Init
<1>3. SavedInv /\ CleanInv
  BY <1>2 DEF SavedInv, CleanInv
<1>4. TocInv
  <2>1. m_cdda.dev = None /\ m_toc = None /\ m_di = "NoDisc"
    BY DEF Init
  <2> QED BY <1>2, <2>1 DEF TocInv
<1> QED BY <1>1, <1>3, <1>4 DEF IInv

LEMMA NextKeeps == IInv /\ [Next]_vars => IInv'
<1> SUFFICES ASSUME IInv, [Next]_vars PROVE IInv'
  OBVIOUS
<1>1. CallInv /\ SavedInv /\ (Noise = {} => CleanInv) /\ (OneDevice => TocInv)
  BY DEF IInv
<1>2. CallInv'
  BY <1>1, NextCallInv
<1>3. SavedInv'
  BY <1>1, <1>2, NextSavedInv
<1>4. Noise = {} => CleanInv'
  BY <1>1, NextCleanInv
<1>5. OneDevice => TocInv'
  BY <1>1, <1>2, NextTocInv
<1> QED BY <1>2, <1>3, <1>4, <1>5 DEF IInv

-----------------------------------------------------------------------------
\* CallInv holds in every state, whatever the event loop nests and however often
\* the disc is changed: the types, that at most one of at most two slots on
\* the call stack is in its locked part, and what holds of each slot there.
THEOREM CallInvariant == Spec => []CallInv
<1> QED BY InitCallInv, NextCallInv, PTL DEF Spec

\* The call stack is never more than two slots deep (CddaWorker.cc:148): the
\* slots the event loop may call inside a job give up at the lock.
THEOREM AtMostTwoDeep == Spec => [](Len(stack) <= 2)
<1>1. CallInv => Len(stack) <= 2
  BY DEF CallInv, Slots, CallStack
<1> QED BY <1>1, CallInvariant, PTL

\* CoopMutex and TryLocker: the lock is held exactly while one slot is in its
\* locked part.
THEOREM LockIsOneJobs == Spec => []LockIsTheJobs
<1>1. ASSUME CallInv PROVE LockIsTheJobs
  <2>1. stack \in Seq(Frame) /\ CallStack(stack, mtx) /\ DOMAIN stack = 1..Len(stack)
    <3>1. stack \in Seq(Frame) /\ CallStack(stack, mtx)
      BY <1>1 DEF CallInv, Slots
    <3> QED BY <3>1, StackParts
  <2>2. Holders \subseteq {1}
    <3>1. Len(stack) \in {0, 1, 2}
      BY <2>1, StackParts DEF CallStack
    <3> QED BY <2>1, <3>1 DEF Holders, CallStack
  <2>3. Cardinality(Holders) <= 1
    <3>1. IsFiniteSet({1}) /\ Cardinality({1}) = 1
      BY FS_Singleton
    <3> QED BY <2>2, <3>1, FS_Subset
  <2>4. mtx <=> Holders # {}
    BY <2>1 DEF CallStack, Holders
  <2> QED BY <2>3, <2>4 DEF LockIsTheJobs
<1> QED BY <1>1, CallInvariant, PTL

\* Once Cancel was called during a grab no sector is read any more, whatever
\* other slots are called (CddaWorker.cc:124 and sectorDb.cc:298).
THEOREM CancelIsHonoured == Spec => []CancelHonoured
<1>1. ASSUME CallInv, At("read") PROVE ~Top.asked
  <2>1. /\ stack # << >> /\ Top.pc = "read"
    BY <1>1 DEF At
  <2>2. Top \in Frame /\ FrameInv(Top, m_cancelled, m_sdb)
    BY <1>1, <2>1, TopParts
  <2>3. Top.slot = "Grab"
    BY <2>1, <2>2, WhoRuns
  <2> QED BY <2>1, <2>2, <2>3 DEF FrameInv, GrabInv
<1>2. CallInv => CancelHonoured
  BY <1>1 DEF CancelHonoured
<1> QED BY <1>2, CallInvariant, PTL

\* What Encode wrote when it was not cancelled begins with the whole db in order,
\* for every size, chunk and db, although the loop lets other slots run between
\* two chunks; the rest of the last buffer follows it, less than a chunk
\* (CddaWorker.cc:212-249).
THEOREM EncodedIsWholeDb == Spec => []EncodeIsWholeDb
<1>1. ASSUME CallInv, At("encoded")
      PROVE  /\ Len(Top.image) - Len(m_sdb.sectors) \in 0..(ChunkFrames - 1)
             /\ \A i \in DOMAIN m_sdb.sectors : Top.image[i] = m_sdb.sectors[i].data
  <2>1. /\ stack # << >> /\ Top.pc = "encoded"
    BY <1>1 DEF At
  <2>2. Top \in Frame /\ FrameInv(Top, m_cancelled, m_sdb)
    BY <1>1, <2>1, TopParts
  <2>3. Top.slot = "Encode"
    BY <2>1, <2>2, WhoRuns
  <2> QED BY <2>1, <2>2, <2>3 DEF FrameInv, EncodeInv, Phase
<1>2. CallInv => EncodeIsWholeDb
  BY <1>1 DEF EncodeIsWholeDb
<1> QED BY <1>2, CallInvariant, PTL

\* While a job is suspended no step but the death of both changes its db.
LEMMA SuspendedDb ==
  ASSUME CallInv, Next, Len(stack) > 1, stack' # << >>
  PROVE  m_sdb' = m_sdb
<1>1. stack # << >> /\ mtx /\ ~InLock(Top)
  <2>1. /\ stack \in Seq(Frame) /\ CallStack(stack, mtx) /\ DOMAIN stack = 1..Len(stack)
        /\ Len(stack) \in Nat
    BY StackParts DEF CallInv, Slots
  <2>2. Len(stack) = 2 /\ 1 \in DOMAIN stack
    BY <2>1 DEF CallStack
  <2>3. InLock(stack[1]) /\ ~InLock(stack[2])
    BY <2>1, <2>2 DEF CallStack, InLock
  <2>4. stack # << >>
    BY <2>2
  <2> QED BY <2>1, <2>2, <2>3, <2>4 DEF CallStack, Top
<1>2. /\ ~GrabLoad /\ ~GrabNew /\ ~PassBegin
      /\ \A audio \in Data : ~ReadAudio(audio)
      /\ \A base \in Bases : ~Encode(base)
  BY <1>1 DEF GrabLoad, GrabNew, PassBegin, ReadAudio, Encode, Locked, At, InLock
<1>3. ASSUME SlotStep PROVE m_sdb' = m_sdb
  BY <1>2, <1>3 DEF SlotStep, PollDisc, OpenedDisc, RefreshLock, RefreshStatus,
     RefreshToc, RefreshQuery, RefreshOffline, Throw, GrabToc, PassLoop, PassEnd,
     SaveEnd, GrabEnd, EncodeChunk, EncodeEnd, worker
<1>4. ASSUME ~SlotStep PROVE m_sdb' = m_sdb
  BY <1>2, <1>4 DEF Next, Swap, ChangeDevice, Poll, Cancel, Eject, JobRefused,
     Grab, Resume, Kill, worker
<1> QED BY <1>3, <1>4

\* While a job is suspended in processEvents no slot changes its db.
THEOREM SuspendedDbIsKept == Spec => SuspendedJobKeepsDb
<1>1. CallInv /\ [Next]_vars =>
        [Len(stack) > 1 /\ Len(stack') > 1 => m_sdb' = m_sdb]_vars
  <2>1. Len(stack') > 1 => stack' # << >>
    OBVIOUS
  <2> QED BY <2>1, SuspendedDb
<1> QED BY <1>1, CallInvariant, PTL DEF Spec, SuspendedJobKeepsDb

\* A grab that ends cancelled was cancelled while it ran: StartJob resets the
\* flag, and no slot but Cancel sets it.
THEOREM CancelledIsAsked == Spec => CancelIsForThisJob
<1>1. ASSUME CallInv, GrabEnd, m_cancelled PROVE Top.asked
  <2>1. /\ stack # << >> /\ Top.pc = "done"
    BY <1>1 DEF GrabEnd, At
  <2>2. Top \in Frame /\ FrameInv(Top, m_cancelled, m_sdb)
    BY <1>1, <2>1, TopParts
  <2>3. Top.slot = "Grab"
    BY <2>1, <2>2, WhoRuns
  <2> QED BY <1>1, <2>2, <2>3 DEF FrameInv, GrabInv
<1>2. CallInv /\ [Next]_vars => [GrabEnd /\ m_cancelled => Top.asked]_vars
  BY <1>1
<1> QED BY <1>2, CallInvariant, PTL DEF Spec, CancelIsForThisJob

\* IInv holds in every state: CallInv; what each grab has read and not saved;
\* if misreads are errors only, how far each undisturbed grab has come; and with
\* one device, what the toc, the status and the running slot know of the disc.
THEOREM InductiveInvariant == Spec => []IInv
<1> QED BY InitHolds, NextKeeps, PTL DEF Spec

\* What a kill or an exception costs a grab: inside a pass one read of each sector
\* at most, since the file is whole and every pass before was saved; inside Save
\* the file, whatever passes it held. At no other time is the file torn, but when
\* a grab finds it so.
THEOREM AtMostOneLost == Spec => []AtMostOnePassUnsaved
<1>3. ASSUME IInv, NEW k \in DOMAIN stack, stack[k].slot = "Grab",
             stack[k].base \in torn
      PROVE  stack[k].pc \in {"open", "save"}
  BY <1>3 DEF IInv, SavedInv, TornInv
<1>1. ASSUME IInv, NEW k \in DOMAIN stack, stack[k].slot = "Grab",
             stack[k].pc \in {"loop", "yield", "read", "passed", "save"},
             NEW i \in DOMAIN m_sdb.sectors
      PROVE  Unsaved(stack[k].base, i) \in {0, 1}
  <2>1. /\ FileInv(stack[k], m_sdb.sectors, files[stack[k].base])
        /\ GrabInv(stack[k], m_cancelled) /\ stack[k] \in Frame
    BY <1>1 DEF IInv, SavedInv, CallInv, Slots, FrameInv
  <2>2. Phase(stack[k]) \in {"loop", "asked", "read", "passed", "save"}
    BY <1>1, <2>1 DEF GrabInv, Phase, Frame
  <2> QED BY <2>1, <2>2 DEF FileInv, Unsaved
<1>2. IInv => AtMostOnePassUnsaved
  BY <1>1, <1>3 DEF AtMostOnePassUnsaved
<1> QED BY <1>2, InductiveInvariant, PTL

\* What a grab that ends has in its frame.
LEMMA EndParts ==
  ASSUME IInv, GrabEnd
  PROVE  /\ 1 \in DOMAIN stack /\ Top = stack[1] /\ Top \in Frame
         /\ Top.pc = "done" /\ Top.slot = "Grab" /\ Phase(Top) = "done"
         /\ GrabInv(Top, m_cancelled)
<1>1. stack # << >> /\ Top.pc = "done"
  BY DEF GrabEnd, At
<1> QED BY <1>1, GrabIsAlone DEF IInv, Phase

\* At the end of a grab, a cancelled one too, the file is whole and every read of
\* every sector is in it (CddaWorker.cc:189 saves after each pass).
THEOREM EndedIsSaved == Spec => GrabEndsSaved
<1>1. ASSUME IInv, GrabEnd, NEW i \in DOMAIN m_sdb.sectors
      PROVE  Unsaved(Top.base, i) = 0
  <2>1. FileInv(Top, m_sdb.sectors, files[Top.base]) /\ Phase(Top) = "done"
    BY <1>1, EndParts DEF IInv, SavedInv
  <2> QED BY <2>1 DEF FileInv, Unsaved
<1>3. ASSUME IInv, GrabEnd PROVE Top.base \notin torn
  <2>1. TornInv(Top) /\ Top.pc = "done"
    BY <1>3, EndParts DEF IInv, SavedInv
  <2> QED BY <2>1 DEF TornInv
<1>2. IInv /\ [Next]_vars =>
        [GrabEnd => /\ Top.base \notin torn
                    /\ \A i \in DOMAIN m_sdb.sectors : Unsaved(Top.base, i) = 0]_vars
  BY <1>1, <1>3
<1> QED BY <1>2, InductiveInvariant, PTL DEF Spec, GrabEndsSaved

\* A grab that nobody disturbed, of a disc without misreads, ends with every
\* sector heard twice and with the disc's audio, for every size of the disc and
\* whatever slots ran inside it.
THEOREM UndisturbedIsTheDisc == Spec => UndisturbedGrab
<1>1. ASSUME IInv, GrabEnd, Top.fresh, ~Top.disturbed, ~m_cancelled, Noise = {},
             NEW i \in DOMAIN m_sdb.sectors
      PROVE  /\ m_sdb.sectors[i].data = Disc
             /\ MostCommonCount(m_sdb.sectors[i].checks) = minimumCommonCrcCount
  <2>1. /\ CleanFrame(Top, m_sdb.sectors, Disc, SizeRead, m_cdda.serial)
        /\ Phase(Top) = "done" /\ Top.slot = "Grab" /\ Top \in Frame /\ stack # << >>
        /\ GrabInv(Top, m_cancelled)
    BY <1>1, EndParts DEF IInv, CleanInv, GrabEnd, At
  <2>2. StraightInv(Top, m_sdb.sectors, Disc, SizeRead, m_cdda.serial)
    BY <1>1, <2>1 DEF CleanFrame, Straight, GrabInv
  <2>3. /\ i \in 1..SizeRead /\ SizeRead \in Nat /\ Disc \in Data
    BY <1>1, <2>1, <2>2, DiscOfSize, StraightParts DEF IInv
  <2>4. Top.retry >= 2 /\ Top.retry \in Nat
    BY <2>1, <2>2, <2>3 DEF StraightInv, minimumCommonCrcCount, Frame, MaxPasses
  <2>5. Reads(Top, i) = 2
    BY <2>1, <2>4, ReadsValue DEF Capped
  <2>6. HeardOnly(m_sdb.sectors[i], Disc, 2)
    BY <2>2, <2>3, <2>5 DEF StraightInv
  <2> QED BY <2>3, <2>6, HeardOnlyCount DEF minimumCommonCrcCount
<1>2. IInv /\ [Next]_vars =>
        [GrabEnd /\ Top.fresh /\ ~Top.disturbed /\ ~m_cancelled /\ Noise = {} =>
           \A i \in DOMAIN m_sdb.sectors :
              /\ m_sdb.sectors[i].data = Disc
              /\ MostCommonCount(m_sdb.sectors[i].checks) = minimumCommonCrcCount]_vars
  BY <1>1
<1> QED BY <1>2, InductiveInvariant, PTL DEF Spec, UndisturbedGrab

\* With one device "Poll() invalidates this: if it's there, we can use it"
\* (CddaWorker.cc:166) is true as long as Poll sees each change of disc before
\* the next: the toc of a new db is that of the disc in the drive.
THEOREM TocOfTheDisc ==
  ASSUME OneDevice
  PROVE  Spec => TocIsCurrent
<1>1. ASSUME IInv, GrabNew, Disc # None, ~missed PROVE m_toc = Disc
  <2>1. TocInv /\ stack # << >> /\ Top.pc = "size"
    BY <1>1 DEF IInv, GrabNew, At
  <2> QED BY <1>1, <2>1 DEF TocInv, TocFrame
<1>2. IInv /\ [Next]_vars => [GrabNew /\ Disc # None /\ ~missed => m_toc = Disc]_vars
  BY <1>1
<1> QED BY <1>2, InductiveInvariant, PTL DEF Spec, TocIsCurrent

-----------------------------------------------------------------------------
(***************************************************************************)
(* What the sectors promise, in memory and in the files.                   *)
(***************************************************************************)

\* SectorInv of every sector there is.
VotesInv == /\ SectorsInv(m_sdb.sectors)
            /\ \A base \in Bases : SectorsInv(files[base].sectors)

\* A step that only moves dbs between memory and files.
LEMMA MovedKeep ==
  ASSUME CallInv, VotesInv,
         m_sdb' = m_sdb \/ (\E base \in Bases : m_sdb' = files[base]),
         \/ files' = files
         \/ \E base \in Bases : files' = [files EXCEPT ![base] = m_sdb]
  PROVE  VotesInv'
<1>1. files \in [Bases -> Db]
  BY DEF CallInv, TypeOK
<1>2. SectorsInv(m_sdb'.sectors)
  BY DEF VotesInv
<1>3. ASSUME NEW base \in Bases PROVE SectorsInv(files'[base].sectors)
  <2>1. files'[base] = files[base] \/ files'[base] = m_sdb
    BY <1>1, <1>3
  <2> QED BY <1>3, <2>1 DEF VotesInv
<1> QED BY <1>2, <1>3 DEF VotesInv

\* A step of a grab, ReadAudio of a sector that is not there included.
LEMMA GrabKeepsVotes ==
  ASSUME CallInv, VotesInv, GrabStep
  PROVE  VotesInv'
<1>1. /\ m_sdb \in Db /\ m_sdb.sectors \in Seq(Sector) /\ Len(m_sdb.sectors) \in Nat
      /\ SizeRead \in Nat /\ files \in [Bases -> Db]
      /\ SectorsInv(m_sdb.sectors)
  BY CallParts, DbParts, DriveTypes DEF CallInv, TypeOK, VotesInv
<1>2. ASSUME SectorsInv(m_sdb'.sectors), files' = files PROVE VotesInv'
  BY <1>2 DEF VotesInv
<1>3. CASE GrabLoad
  <2>1. Top.base \in Bases
    <3>1. stack # << >> /\ Top.pc = "open"
      BY <1>3 DEF GrabLoad, At
    <3> QED BY <3>1, GrabIsAlone DEF GrabInv
  <2> QED BY <1>3, <2>1, MovedKeep DEF GrabLoad
<1>4. CASE GrabNew
  <2> DEFINE new == [i \in 1..SizeRead |-> NewSector]
  <2>1. m_sdb'.sectors = new /\ files' = files
    BY <1>4 DEF GrabNew
  <2>2. SectorsInv(new)
    BY <1>1, NewSectorInv DEF SectorsInv
  <2> QED BY <1>2, <2>1, <2>2
<1>5. CASE PassBegin
  <2> DEFINE n == Max({Len(m_sdb.sectors), SizeRead})
  <2>1. n \in Nat
    BY <1>1, LargerSize
  <2>2. m_sdb'.sectors = Resized(m_sdb.sectors, n, NewSector) /\ files' = files
    BY <1>5 DEF PassBegin
  <2> HIDE DEF n
  <2> QED BY <1>1, <1>2, <2>1, <2>2, ResizedInv
<1>6. ASSUME NEW audio \in Data, ReadAudio(audio) PROVE VotesInv'
  <2> DEFINE k == Top.lba + 1
             new == [m_sdb.sectors EXCEPT ![k] = AddAudio(m_sdb.sectors[k], audio)]
  <2>1. m_sdb'.sectors = new /\ files' = files
    BY <1>1, <1>6 DEF ReadAudio, Db
  <2> HIDE DEF k
  <2>2. CASE k \in DOMAIN m_sdb.sectors
    <3>1. m_sdb.sectors[k] \in Sector /\ SectorInv(m_sdb.sectors[k])
      BY <1>1, <2>2 DEF SectorsInv
    <3>2. /\ AddAudio(m_sdb.sectors[k], audio) \in Sector
          /\ SectorInv(AddAudio(m_sdb.sectors[k], audio))
      BY <3>1, AddAudioSectorInv
    <3>3. new \in Seq(Sector) /\ DOMAIN new = DOMAIN m_sdb.sectors
      BY <1>1, <2>2, <3>2
    <3>4. SectorsInv(new)
      BY <1>1, <3>2, <3>3 DEF SectorsInv
    <3> QED BY <1>2, <2>1, <3>4
  <2>3. CASE k \notin DOMAIN m_sdb.sectors
    <3>1. new = m_sdb.sectors
      BY <1>1, <2>3
    <3> QED BY <1>1, <1>2, <2>1, <3>1
  <2> QED BY <2>2, <2>3
<1>7. CASE SaveEnd
  <2>1. Top.base \in Bases
    <3>1. stack # << >> /\ Top.pc = "save"
      BY <1>7 DEF SaveEnd, At
    <3> QED BY <3>1, GrabIsAlone DEF GrabInv
  <2> QED BY <1>7, <2>1, MovedKeep DEF SaveEnd, worker
<1>8. CASE GrabToc \/ PassLoop \/ PassEnd \/ Resume
  BY <1>8, MovedKeep DEF GrabToc, PassLoop, PassEnd, Resume, worker
<1> QED BY <1>3, <1>4, <1>5, <1>6, <1>7, <1>8 DEF GrabStep

\* Encode moves a db, the other slots leave all of them alone.
LEMMA NextVotesInv ==
  ASSUME CallInv, VotesInv, [Next]_vars
  PROVE  VotesInv'
<1>1. CASE GrabStep
  BY <1>1, GrabKeepsVotes
<1>2. ASSUME NEW base \in Bases, Encode(base) PROVE VotesInv'
  <2>1. m_sdb' \in {m_sdb, files[base]} /\ files' = files
    BY <1>2 DEF Encode
  <2> QED BY <2>1, MovedKeep
<1>3. CASE \/ PollDisc \/ OpenedDisc \/ RefreshLock \/ RefreshStatus \/ RefreshToc
           \/ RefreshQuery \/ RefreshOffline \/ Throw
           \/ GrabEnd \/ EncodeChunk \/ EncodeEnd \/ UNCHANGED vars
  <2>1. m_sdb' = m_sdb /\ files' = files
    BY <1>3 DEF PollDisc, OpenedDisc, RefreshLock, RefreshStatus, RefreshToc,
       RefreshQuery, RefreshOffline, Throw, GrabEnd, EncodeChunk, EncodeEnd, worker,
       world, vars
  <2> QED BY <2>1, MovedKeep
<1>4. CASE \/ \E dev \in Devices : \/ \E disc \in Discs \cup {None} : Swap(dev, disc)
                                   \/ ChangeDevice(dev)
           \/ Poll \/ Cancel \/ Eject \/ JobRefused
           \/ \E base \in Bases : Grab(base)
  <2>1. m_sdb' = m_sdb /\ files' = files
    BY <1>4 DEF Swap, ChangeDevice, Poll, Cancel, Eject, JobRefused, Grab, worker
  <2> QED BY <2>1, MovedKeep
<1>5. CASE Kill
  <2>1. m_sdb' = NoDb /\ files' = files
    BY <1>5 DEF Kill
  <2>2. SectorsInv(NoDb.sectors)
    BY DEF SectorsInv, NoDb
  <2> QED BY <2>1, <2>2 DEF VotesInv
<1> QED BY <1>1, <1>2, <1>3, <1>4, <1>5 DEF Next, SlotStep, GrabStep

\* The sectors of the worker keep what sectorDb.h promises, in memory and in all
\* files: however grabs and encodings follow on each other, and though a pass may
\* read on with a db that another disc has left under its name.
THEOREM WorkerKeepsMostCommon ==
  Spec => [](/\ \A i \in DOMAIN m_sdb.sectors : Plurality(m_sdb.sectors[i])
             /\ \A base \in Bases : \A i \in DOMAIN files[base].sectors :
                  Plurality(files[base].sectors[i]))
<1>1. Init => VotesInv
  <2> SUFFICES ASSUME Init PROVE VotesInv
    OBVIOUS
  <2>1. SectorsInv(NoDb.sectors)
    BY DEF SectorsInv, NoDb
  <2> QED BY <2>1 DEF Init, VotesInv
<1>2. CallInv /\ VotesInv /\ [Next]_vars => VotesInv'
  BY NextVotesInv
<1>3. VotesInv => /\ \A i \in DOMAIN m_sdb.sectors : Plurality(m_sdb.sectors[i])
                  /\ \A base \in Bases : \A i \in DOMAIN files[base].sectors :
                       Plurality(files[base].sectors[i])
  <2>1. ASSUME NEW sectors, SectorsInv(sectors), NEW i \in DOMAIN sectors
        PROVE  Plurality(sectors[i])
    <3>1. sectors[i] \in Sector /\ SectorInv(sectors[i])
      BY <2>1 DEF SectorsInv
    <3> QED BY <3>1, SectorInvPlurality
  <2> QED BY <2>1 DEF VotesInv
<1> QED BY <1>1, <1>2, <1>3, CallInvariant, PTL DEF Spec

-----------------------------------------------------------------------------
(***************************************************************************)
(* Why a job ends: each of its steps brings its end nearer, and nothing    *)
(* that runs in between, or around it, takes it back.                      *)
(***************************************************************************)

\* Where a pass is in a db of n sectors.
Within(f, n) ==
  /\ Phase(f) \in {"asked", "read"}    => f.lba < n
  /\ Phase(f) \in {"loop", "passed"} => f.lba <= n

WithinInv ==
  \A k \in DOMAIN stack :
    stack[k].slot = "Grab" => Within(stack[k], Len(m_sdb.sectors))

\* The passes a grab has left, and what comes before the next one begins.
Rounds(f) ==
  IF f.slot # "Grab" THEN 0
  ELSE 4 * (MaxPasses - f.retry)
         + (IF f.pc = "open" THEN 3 ELSE IF f.pc = "size" THEN 2
            ELSE IF f.pc = "pass" THEN 1 ELSE 0)

\* The steps left in a pass, an encoding or a refresh of the toc.
PassSteps(f, n) ==
  IF f.pc = "loop" THEN 4 * (n - f.lba) + 4
  ELSE IF f.pc = "yield" /\ f.next = "asked" THEN 4 * (n - f.lba) + 3
  ELSE IF f.pc = "read" THEN 4 * (n - f.lba) + 2
  ELSE IF f.pc = "yield" THEN 3 ELSE IF f.pc = "passed" THEN 2
  ELSE IF f.pc = "save" THEN 1 ELSE 0

EncodeSteps(f, n) ==
  IF f.pc = "encode" THEN 2 * (n - f.lba)
  ELSE IF f.pc = "yield" /\ f.next = "encode" THEN 2 * (n - f.lba) + 1
  ELSE IF f.pc = "yield" THEN 1 ELSE 0

RefreshSteps(f) ==
  IF f.pc = "di" THEN 4 ELSE IF f.pc = "lock" THEN 3
  ELSE IF f.pc = "status" THEN 2 ELSE IF f.pc = "toc" THEN 1 ELSE 0

Steps(f, n) == IF f.slot = "Grab" THEN PassSteps(f, n)
               ELSE IF f.slot = "Encode" THEN EncodeSteps(f, n)
               ELSE RefreshSteps(f)

\* Frame f with a db of n sectors is nearer to its end than g was with l.
Nearer(f, n, g, l) ==
  \/ Rounds(f) < Rounds(g)
  \/ Rounds(f) = Rounds(g) /\ Steps(f, n) < Steps(g, l)

\* A frame that stayed where it is.
Unmoved(f, g) == /\ g.slot = f.slot /\ g.pc = f.pc /\ g.next = f.next
                 /\ g.lba = f.lba /\ g.retry = f.retry

\* A step of a grab stays in the db and is one nearer to the end.
LEMMA GrabNearer ==
  ASSUME CallInv, CallInv', stack # << >>, Len(stack) = 1, Top.slot = "Grab", GrabStep,
         Within(Top, Len(m_sdb.sectors))
  PROVE  \E f : /\ Become(f) /\ f.slot = "Grab"
                /\ Within(f, Len(m_sdb'.sectors))
                /\ Nearer(f, Len(m_sdb'.sectors), Top, Len(m_sdb.sectors))
<1> DEFINE l == Len(m_sdb.sectors)
           n == Len(m_sdb'.sectors)
<1>1. /\ Top \in Frame /\ GrabInv(Top, m_cancelled)
      /\ Top.retry \in Nat /\ Top.retry <= 4 /\ Top.lba \in Nat /\ Top.nRead \in Nat
  <2>1. Top \in Frame /\ GrabInv(Top, m_cancelled)
    BY TopParts DEF FrameInv
  <2> QED BY <2>1 DEF Frame, MaxPasses, minimumCommonCrcCount
<1>2. /\ m_sdb \in Db /\ m_sdb.sectors \in Seq(Sector) /\ l \in Nat /\ n \in Nat
  BY DbParts DEF CallInv, TypeOK
<1> HIDE DEF l, n
<1>3. Within(Top, l)
  BY DEF l
<1>4. SUFFICES \E f : Become(f) /\ f.slot = "Grab" /\ Within(f, n) /\ Nearer(f, n, Top, l)
  BY DEF l, n
<1> USE DEF MaxPasses, minimumCommonCrcCount
<1>5. CASE GrabLoad \/ GrabNew
  <2>1. PICK f \in {Pass, [Pass EXCEPT !.fresh = TRUE]} : Become(f)
    BY <1>5 DEF GrabLoad, GrabNew
  <2>2. f.slot = "Grab" /\ f.pc = "pass" /\ f.retry = Top.retry
    BY <1>1, <2>1 DEF Pass, Frame
  <2>3. Top.pc \in {"open", "size"}
    BY <1>5 DEF GrabLoad, GrabNew, At
  <2>4. Within(f, n)
    BY <2>2 DEF Within, Phase
  <2>5. Rounds(f) < Rounds(Top)
    BY <1>1, <2>2, <2>3 DEF Rounds
  <2> QED BY <2>1, <2>2, <2>4, <2>5 DEF Nearer
<1>6. CASE GrabToc
  <2> DEFINE f == [Top EXCEPT !.pc = "size"]
  <2>1. Become(f) /\ Top.pc = "open"
    BY <1>6 DEF GrabToc, Goto, At
  <2>2. f.slot = "Grab" /\ f.pc = "size" /\ f.retry = Top.retry
    BY <1>1 DEF Frame
  <2> HIDE DEF f
  <2>3. Within(f, n)
    BY <2>2 DEF Within, Phase
  <2>4. Rounds(f) < Rounds(Top)
    BY <1>1, <2>1, <2>2 DEF Rounds
  <2> QED BY <2>1, <2>2, <2>3, <2>4 DEF Nearer
<1>7. CASE PassBegin
  <2> DEFINE f == [Top EXCEPT !.pc = "loop", !.reader = m_cdda.serial,
                              !.lba = 0, !.nRead = 0, !.buf = Zeros]
  <2>1. Become(f) /\ Top.pc = "pass"
    BY <1>7 DEF PassBegin, At
  <2>2. f.slot = "Grab" /\ f.pc = "loop" /\ f.retry = Top.retry /\ f.lba = 0
    BY <1>1 DEF Frame
  <2> HIDE DEF f
  <2>3. Within(f, n)
    BY <1>2, <2>2 DEF Within, Phase
  <2>4. Rounds(f) < Rounds(Top)
    BY <1>1, <2>1, <2>2 DEF Rounds
  <2> QED BY <2>1, <2>2, <2>3, <2>4 DEF Nearer
<1>8. CASE PassLoop
  <2>1. /\ Top.pc = "loop" /\ n = l /\ Top.lba <= l
        /\ Due # {} => Min(Due) \in Nat /\ Top.lba <= Min(Due) /\ Min(Due) < l
    <3>1. Due \subseteq Nat /\ \A x \in Due : Top.lba <= x /\ x < l
      BY <1>1, <1>2 DEF Due, l
    <3>2. Due # {} => Min(Due) \in Due
      BY <3>1, Smallest DEF Min
    <3>3. Top.pc = "loop" /\ n = l
      BY <1>8 DEF PassLoop, At, worker, n, l
    <3> QED BY <1>3, <3>1, <3>2, <3>3 DEF Within, Phase
  <2>2. CASE Due = {}
    <3> DEFINE f == [Top EXCEPT !.pc = "yield", !.next = "passed"]
    <3>1. Become(f)
      BY <1>8, <2>2 DEF PassLoop
    <3>2. /\ f.slot = "Grab" /\ f.pc = "yield" /\ f.next = "passed"
          /\ f.retry = Top.retry /\ f.lba = Top.lba
      BY <1>1 DEF Frame
    <3> HIDE DEF f
    <3>3. Within(f, n)
      BY <2>1, <3>2 DEF Within, Phase
    <3>4. Rounds(f) = Rounds(Top)
      BY <1>1, <2>1, <3>2 DEF Rounds
    <3>5. Steps(f, n) < Steps(Top, l)
      BY <1>1, <1>2, <2>1, <3>2 DEF Steps, PassSteps
    <3> QED BY <3>1, <3>2, <3>3, <3>4, <3>5 DEF Nearer
  <2>3. CASE Due # {}
    <3> DEFINE g == [Top EXCEPT !.pc = "yield", !.next = "asked", !.lba = Min(Due)]
               h == [Top EXCEPT !.pc = "read", !.lba = Min(Due)]
    <3>1. Become(g) \/ Become(h)
      BY <1>8, <2>3 DEF PassLoop
    <3>2. /\ g.slot = "Grab" /\ g.pc = "yield" /\ g.next = "asked"
          /\ g.retry = Top.retry /\ g.lba = Min(Due)
          /\ h.slot = "Grab" /\ h.pc = "read"
          /\ h.retry = Top.retry /\ h.lba = Min(Due)
      BY <1>1 DEF Frame
    <3> HIDE DEF g, h
    <3>3. Within(g, n) /\ Within(h, n)
      BY <2>1, <2>3, <3>2 DEF Within, Phase
    <3>4. Rounds(g) = Rounds(Top) /\ Rounds(h) = Rounds(Top)
      BY <1>1, <2>1, <3>2 DEF Rounds
    <3>5. Steps(g, n) < Steps(Top, l) /\ Steps(h, n) < Steps(Top, l)
      BY <1>1, <1>2, <2>1, <2>3, <3>2 DEF Steps, PassSteps
    <3> QED BY <3>1, <3>2, <3>3, <3>4, <3>5 DEF Nearer
  <2> QED BY <2>2, <2>3
<1>9. ASSUME NEW audio \in Data, ReadAudio(audio)
      PROVE  \E f : Become(f) /\ f.slot = "Grab" /\ Within(f, n) /\ Nearer(f, n, Top, l)
  <2> DEFINE f == [Top EXCEPT !.pc = "loop", !.lba = @ + 1, !.nRead = @ + 1, !.buf = audio]
  <2>1. Become(f) /\ Top.pc = "read"
    BY <1>9 DEF ReadAudio, At
  <2>2. n = l
    <3>1. m_sdb'.sectors = [m_sdb.sectors EXCEPT ![Top.lba + 1] = AddAudio(@, audio)]
      BY <1>2, <1>9 DEF ReadAudio, Db
    <3> QED BY <1>2, <3>1 DEF n, l
  <2>3. f.slot = "Grab" /\ f.pc = "loop" /\ f.retry = Top.retry /\ f.lba = Top.lba + 1
    BY <1>1 DEF Frame
  <2> HIDE DEF f
  <2>4. Top.lba < l
    BY <1>3, <2>1 DEF Within, Phase
  <2>5. Within(f, n)
    BY <1>1, <1>2, <2>2, <2>3, <2>4 DEF Within, Phase
  <2>6. Rounds(f) = Rounds(Top)
    BY <1>1, <2>1, <2>3 DEF Rounds
  <2>7. Steps(f, n) < Steps(Top, l)
    BY <1>1, <1>2, <2>1, <2>2, <2>3, <2>4 DEF Steps, PassSteps
  <2> QED BY <2>1, <2>3, <2>5, <2>6, <2>7 DEF Nearer
<1>10. ASSUME Top.pc \in {"passed", "save"}, Become(NextPass(Top))
       PROVE  \E f : Become(f) /\ f.slot = "Grab" /\ Within(f, n) /\ Nearer(f, n, Top, l)
  <2> DEFINE f == NextPass(Top)
  <2>1. f.slot = "Grab" /\ f.pc \in {"pass", "done"} /\ f.retry = Top.retry + 1
    BY <1>1 DEF NextPass, Frame
  <2>2. Top.retry < 4
    BY <1>1, <1>10 DEF GrabInv
  <2>3. Become(f)
    BY <1>10
  <2> HIDE DEF f
  <2>4. Within(f, n)
    BY <2>1 DEF Within, Phase
  <2>5. Rounds(f) < Rounds(Top)
    BY <1>1, <1>10, <2>1, <2>2 DEF Rounds
  <2> QED BY <2>1, <2>3, <2>4, <2>5 DEF Nearer
<1>12. CASE PassEnd
  <2> DEFINE f == [Top EXCEPT !.pc = "save"]
  <2>1. Top.pc = "passed" /\ (Become(f) \/ Become(NextPass(Top)))
    BY <1>12 DEF PassEnd, At, Goto
  <2>2. f.slot = "Grab" /\ f.pc = "save" /\ f.retry = Top.retry
    BY <1>1 DEF Frame
  <2> HIDE DEF f
  <2>3. Within(f, n)
    BY <2>2 DEF Within, Phase
  <2>4. Rounds(f) = Rounds(Top)
    BY <1>1, <2>1, <2>2 DEF Rounds
  <2>5. Steps(f, n) < Steps(Top, l)
    BY <2>1, <2>2 DEF Steps, PassSteps
  <2> QED BY <1>10, <2>1, <2>2, <2>3, <2>4, <2>5 DEF Nearer
<1>13. CASE SaveEnd
  BY <1>10, <1>13 DEF SaveEnd, At
<1>11. CASE Resume
  <2> DEFINE f == Resumed(Top)
  <2>1. Become(f) /\ n = l /\ Top.pc = "yield"
    BY <1>11 DEF Resume, At, worker, n, l
  <2>2. Top.next \in {"asked", "passed"} /\ Phase(Top) = Top.next
    BY <1>1, <2>1 DEF GrabInv, Phase, Frame
  <2>3. /\ f.slot = "Grab" /\ f.lba = Top.lba /\ f.retry = Top.retry
        /\ f.pc \in {"passed", "read"}
        /\ Top.next = "passed" => f.pc = "passed"
    BY <1>1, <2>2 DEF Resumed, Frame
  <2>4. Top.lba <= l /\ (Top.next = "asked" => Top.lba < l)
    BY <1>1, <1>2, <1>3, <2>2 DEF Within
  <2> HIDE DEF f
  <2>5. Within(f, n)
    BY <1>1, <1>2, <2>1, <2>2, <2>3, <2>4 DEF Within, Phase
  <2>6. Rounds(f) = Rounds(Top)
    BY <1>1, <2>1, <2>3 DEF Rounds
  <2>7. Steps(f, n) < Steps(Top, l)
    BY <1>1, <1>2, <2>1, <2>2, <2>3, <2>4 DEF Steps, PassSteps
  <2> QED BY <2>1, <2>3, <2>5, <2>6, <2>7 DEF Nearer
<1> QED BY <1>5, <1>6, <1>7, <1>8, <1>9, <1>11, <1>12, <1>13 DEF GrabStep

\* Only the steps of a grab move it or its db.
LEMMA NextWithinInv ==
  ASSUME CallInv, CallInv', WithinInv, [Next]_vars
  PROVE  WithinInv'
<1> SUFFICES ASSUME NEW k \in DOMAIN stack', stack'[k].slot = "Grab"
             PROVE  Within(stack'[k], Len(m_sdb'.sectors))
  BY DEF WithinInv
<1>1. Fate(k)
  BY FrameFate
<1>2. ASSUME NEW base \in Bases,
             stack'[k] = [Idle("Grab", "open") EXCEPT !.base = base]
      PROVE  Within(stack'[k], Len(m_sdb'.sectors))
  <2>1. Phase(stack'[k]) = "open"
    BY <1>2 DEF Idle, Phase
  <2> QED BY <2>1 DEF Within
<1>3. CASE k \in DOMAIN stack /\ SameJob(stack[k], stack'[k])
                /\ UNCHANGED <<m_sdb, files, torn>>
  <2> DEFINE f == stack[k]
             g == stack'[k]
  <2>1. f \in Frame
    BY <1>3 DEF CallInv, TypeOK
  <2>2. g.slot = f.slot /\ g.lba = f.lba /\ Phase(g) = Phase(f)
    BY <1>3, <2>1, SameJobParts
  <2>3. Within(f, Len(m_sdb.sectors))
    BY <1>3, <2>2 DEF WithinInv
  <2> HIDE DEF f, g
  <2>4. Within(g, Len(m_sdb.sectors))
    BY <2>2, <2>3 DEF Within
  <2> QED BY <1>3, <2>4 DEF g
<1>4. CASE stack # << >> /\ k = 1 /\ Len(stack) = 1 /\ Top.slot = "Grab" /\ GrabStep
  <2>1. Top = stack[1] /\ 1 \in DOMAIN stack
    BY <1>4 DEF Top, CallInv, TypeOK
  <2>2. Within(Top, Len(m_sdb.sectors))
    BY <1>4, <2>1 DEF WithinInv
  <2>3. PICK f : Become(f) /\ Within(f, Len(m_sdb'.sectors))
    BY <1>4, <2>2, GrabNearer
  <2>4. stack' = <<f>>
    BY <1>4, <2>3, AloneBecomes
  <2> QED BY <1>4, <2>3, <2>4
<1> QED BY <1>1, <1>2, <1>3, <1>4 DEF Fate

\* Refine is never past the end of the db, whatever ran during its yields and
\* whatever the disc in the drive is (sectorDb.cc:289).
THEOREM AlwaysWithin == Spec => []WithinInv
<1>1. Init => WithinInv
  BY DEF Init, WithinInv
<1>2. CallInv /\ WithinInv /\ [Next]_vars => WithinInv'
  BY NextCallInv, NextWithinInv
<1> QED BY <1>1, <1>2, CallInvariant, PTL DEF Spec

\* What a pass reads is stored in a sector that is there, so at(lba) of AddAudio
\* never throws (sectorDb.cc:243): the db does not shrink under a pass that goes on
\* after a yield.
THEOREM ReadsWithinDb ==
  Spec => [](At("read") => Top.lba + 1 \in DOMAIN m_sdb.sectors)
<1>1. ASSUME CallInv, WithinInv, At("read") PROVE Top.lba + 1 \in DOMAIN m_sdb.sectors
  <2>1. stack # << >> /\ Top.pc = "read"
    BY <1>1 DEF At
  <2>2. Top \in Frame /\ Top.slot = "Grab" /\ Top = stack[1] /\ 1 \in DOMAIN stack
    BY <1>1, <2>1, GrabIsAlone
  <2>3. Within(Top, Len(m_sdb.sectors))
    BY <1>1, <2>2 DEF WithinInv
  <2>4. Top.lba < Len(m_sdb.sectors) /\ Top.lba \in Nat
    BY <2>1, <2>2, <2>3 DEF Within, Phase, Frame
  <2>5. m_sdb.sectors \in Seq(Sector)
    BY <1>1, DbParts DEF CallInv, TypeOK
  <2> QED BY <2>4, <2>5
<1>2. CallInv /\ WithinInv => (At("read") => Top.lba + 1 \in DOMAIN m_sdb.sectors)
  BY <1>1
<1> QED BY <1>2, CallInvariant, AlwaysWithin, PTL

\* A step of Encode's loop, and the return of processEvents to it.
LEMMA EncodeNearer ==
  ASSUME CallInv, stack # << >>, Top.slot = "Encode", EncodeChunk \/ Resume
  PROVE  \E f : /\ Become(f) /\ m_sdb' = m_sdb
                /\ Nearer(f, Len(m_sdb.sectors), Top, Len(m_sdb.sectors))
<1> DEFINE n == Len(m_sdb.sectors)
<1>1. /\ Top \in Frame /\ EncodeInv(Top, m_cancelled, m_sdb)
      /\ Top.lba \in Nat /\ n \in Nat
  <2>1. Top \in Frame /\ EncodeInv(Top, m_cancelled, m_sdb)
    BY TopParts DEF FrameInv
  <2>2. m_sdb.sectors \in Seq(Sector)
    BY DbParts DEF CallInv, TypeOK
  <2> QED BY <2>1, <2>2 DEF Frame
<1>2. /\ Phase(Top) \in {"encode", "encoded"}
      /\ Phase(Top) = "encode" => Top.lba < n
  BY <1>1 DEF EncodeInv
<1> HIDE DEF n
<1>3. SUFFICES \E f : Become(f) /\ m_sdb' = m_sdb /\ Nearer(f, n, Top, n)
  BY DEF n
<1>4. CASE EncodeChunk
  <2> DEFINE full == HasFullChunk(Top.lba, n)
             nrFrames == IF full THEN ChunkFrames ELSE n - Top.lba
             goto == IF full THEN "encode" ELSE "encoded"
             pc == IF Top.lba % YieldEvery = 0 THEN "yield" ELSE goto
             image == Top.image \o ReadChunk(Buffer(Top.image), m_sdb.sectors,
                                             Top.lba, nrFrames)
             lba == IF full THEN Top.lba + ChunkFrames ELSE Top.lba
             f == [Top EXCEPT !.image = image, !.lba = lba, !.pc = pc, !.next = goto]
  <2>1. Become(f) /\ m_sdb' = m_sdb /\ Top.pc = "encode"
    <3>1. Become([Top EXCEPT
                    !.image = @ \o ReadChunk(Buffer(@), m_sdb.sectors, Top.lba, nrFrames),
                    !.lba   = IF full THEN @ + ChunkFrames ELSE @,
                    !.pc    = IF Top.lba % YieldEvery = 0 THEN "yield" ELSE goto,
                    !.next  = goto])
      BY <1>4 DEF EncodeChunk, n
    <3>2. m_sdb' = m_sdb /\ Top.pc = "encode"
      BY <1>4 DEF EncodeChunk, At, worker
    <3> QED BY <1>1, <3>1, <3>2 DEF Frame
  <2>2. /\ goto = (IF full THEN "encode" ELSE "encoded") /\ pc \in {"yield", goto}
        /\ ChunkFrames \in Nat \ {0}
        /\ full => lba = Top.lba + ChunkFrames /\ lba < n
    BY <1>1, WorkerAssumption DEF HasFullChunk
  <2> HIDE DEF full, goto, pc, image, lba
  <2>3. f.slot = "Encode" /\ f.pc = pc /\ f.next = goto /\ f.lba = lba
    BY <1>1 DEF Frame
  <2> HIDE DEF f
  <2>4. Top.lba < n
    BY <1>2, <2>1 DEF Phase
  <2>5. Rounds(f) = Rounds(Top)
    BY <2>3 DEF Rounds
  <2>6. EncodeSteps(Top, n) = 2 * (n - Top.lba)
    BY <2>1 DEF EncodeSteps
  <2>7. EncodeSteps(f, n) < EncodeSteps(Top, n)
    <3>1. CASE full
      <4>1. f.next = "encode" /\ f.pc \in {"yield", "encode"} /\ f.lba = Top.lba + ChunkFrames
        BY <2>2, <2>3, <3>1
      <4>2. EncodeSteps(f, n) \in {2 * (n - f.lba), 2 * (n - f.lba) + 1}
        BY <4>1 DEF EncodeSteps
      <4> QED BY <1>1, <2>2, <2>6, <4>1, <4>2
    <3>2. CASE ~full
      <4>1. f.next = "encoded" /\ f.pc \in {"yield", "encoded"}
        BY <2>2, <2>3, <3>2
      <4>2. EncodeSteps(f, n) \in {0, 1}
        BY <4>1 DEF EncodeSteps
      <4> QED BY <1>1, <2>4, <2>6, <4>2
    <3> QED BY <3>1, <3>2
  <2>8. Steps(f, n) < Steps(Top, n)
    BY <2>3, <2>7 DEF Steps
  <2> QED BY <2>1, <2>5, <2>8 DEF Nearer
<1>5. CASE Resume
  <2> DEFINE f == Resumed(Top)
  <2>1. Become(f) /\ m_sdb' = m_sdb /\ Top.pc = "yield"
    BY <1>5 DEF Resume, At, worker
  <2>2. Top.next \in {"encode", "encoded"} /\ (Top.next = "encode" => Top.lba < n)
    BY <1>2, <2>1 DEF Phase
  <2>3. f.slot = "Encode" /\ f.pc = Top.next /\ f.lba = Top.lba
    BY <1>1, <2>2 DEF Resumed, Frame
  <2> HIDE DEF f
  <2>4. Rounds(f) = Rounds(Top)
    BY <2>3 DEF Rounds
  <2>5. EncodeSteps(f, n) < EncodeSteps(Top, n)
    BY <1>1, <2>1, <2>2, <2>3 DEF EncodeSteps
  <2>6. Steps(f, n) < Steps(Top, n)
    BY <2>3, <2>5 DEF Steps
  <2> QED BY <2>1, <2>4, <2>6 DEF Nearer
<1> QED BY <1>4, <1>5

\* A step of Poll, of ChangeDevice or of RefreshToc inside them.
LEMMA RefreshNearer ==
  ASSUME CallInv, ~Return,
         \/ PollDisc \/ OpenedDisc \/ RefreshLock \/ RefreshStatus \/ RefreshToc
         \/ RefreshQuery \/ RefreshOffline \/ Throw
  PROVE  /\ stack # << >>
         /\ \E f : /\ Become(f) /\ m_sdb' = m_sdb
                   /\ Nearer(f, Len(m_sdb.sectors), Top, Len(m_sdb.sectors))
<1>1. stack # << >> /\ m_sdb' = m_sdb
  BY DEF PollDisc, OpenedDisc, RefreshLock, RefreshStatus, RefreshToc,
     RefreshQuery, RefreshOffline, Throw, At
<1>2. Top \in Frame /\ FrameInv(Top, m_cancelled, m_sdb)
  BY <1>1, TopParts
<1>3. ASSUME NEW f, Become(f), f.slot = Top.slot,
             \/ Top.pc = "di" /\ f.pc = "lock"
             \/ Top.pc = "lock" /\ f.pc = "status"
             \/ Top.pc = "status" /\ f.pc = "toc"
             \/ Top.pc = "toc" /\ f.pc = "query"
      PROVE  \E g : Become(g) /\ Nearer(g, Len(m_sdb.sectors), Top, Len(m_sdb.sectors))
  <2>1. Top.slot \in {"Poll", "ChangeDevice"}
    BY <1>2, <1>3, WhoRuns
  <2>2. RefreshSteps(f) < RefreshSteps(Top)
    BY <1>3 DEF RefreshSteps
  <2>3. Nearer(f, Len(m_sdb.sectors), Top, Len(m_sdb.sectors))
    BY <1>3, <2>1, <2>2 DEF Nearer, Rounds, Steps
  <2> QED BY <1>3, <2>3
<1>4. CASE \E pc \in {"lock", "status", "toc", "query"} :
             /\ Goto(pc)
             /\ \/ Top.pc = "di" /\ pc = "lock"
                \/ Top.pc = "lock" /\ pc = "status"
                \/ Top.pc = "status" /\ pc = "toc"
                \/ Top.pc = "toc" /\ pc = "query"
  <2>1. PICK pc : /\ Goto(pc)
                  /\ \/ Top.pc = "di" /\ pc = "lock"
                     \/ Top.pc = "lock" /\ pc = "status"
                     \/ Top.pc = "status" /\ pc = "toc"
                     \/ Top.pc = "toc" /\ pc = "query"
    BY <1>4
  <2> DEFINE f == [Top EXCEPT !.pc = pc]
  <2>2. Become(f)
    BY <2>1 DEF Goto
  <2>3. f.slot = Top.slot /\ f.pc = pc
    BY <1>2 DEF Frame
  <2> HIDE DEF f
  <2> QED BY <1>1, <1>3, <2>1, <2>2, <2>3
<1>5. CASE Top.pc = "di" /\ \E di : Become([Top EXCEPT !.pc = "lock", !.di = di])
  <2>1. PICK di : Become([Top EXCEPT !.pc = "lock", !.di = di])
    BY <1>5
  <2> DEFINE f == [Top EXCEPT !.pc = "lock", !.di = di]
  <2>2. f.slot = Top.slot /\ f.pc = "lock"
    BY <1>2 DEF Frame
  <2>3. Become(f)
    BY <2>1
  <2> HIDE DEF f
  <2> QED BY <1>1, <1>3, <1>5, <2>2, <2>3
<1>6. CASE PollDisc
  BY <1>5, <1>6 DEF PollDisc, At
<1>7. CASE OpenedDisc \/ RefreshLock \/ RefreshStatus \/ RefreshToc
  BY <1>4, <1>7 DEF OpenedDisc, RefreshLock, RefreshStatus, RefreshToc, Refreshed, At
<1>8. ~(RefreshQuery \/ RefreshOffline \/ Throw)
  BY DEF RefreshQuery, RefreshOffline, Throw, Refreshed
<1> QED BY <1>6, <1>7, <1>8

\* The slot that runs, or is returned to, goes on: it ends or is nearer to it.
LEMMA TopNearer ==
  ASSUME CallInv, CallInv', WithinInv, SlotStep \/ Resume
  PROVE  /\ stack # << >>
         /\ \/ Return
            \/ \E f : /\ Become(f)
                      /\ Nearer(f, Len(m_sdb'.sectors), Top, Len(m_sdb.sectors))
<1>1. CASE \/ PollDisc \/ OpenedDisc \/ RefreshLock \/ RefreshStatus \/ RefreshToc
           \/ RefreshQuery \/ RefreshOffline \/ Throw
  <2>1. stack # << >>
    BY <1>1 DEF PollDisc, OpenedDisc, RefreshLock, RefreshStatus, RefreshToc,
       RefreshQuery, RefreshOffline, Throw, At
  <2>2. CASE ~Return
    <3>1. PICK f : /\ Become(f) /\ m_sdb' = m_sdb
                   /\ Nearer(f, Len(m_sdb.sectors), Top, Len(m_sdb.sectors))
      BY <1>1, <2>2, RefreshNearer
    <3> QED BY <2>1, <3>1
  <2> QED BY <2>1, <2>2
<1>2. CASE GrabEnd \/ EncodeEnd
  BY <1>2 DEF GrabEnd, EncodeEnd, At
<1>3. ASSUME EncodeChunk \/ Resume, stack # << >>, Top.slot = "Encode"
      PROVE  \E f : Become(f) /\ Nearer(f, Len(m_sdb'.sectors), Top, Len(m_sdb.sectors))
  <2>1. PICK f : /\ Become(f) /\ m_sdb' = m_sdb
                 /\ Nearer(f, Len(m_sdb.sectors), Top, Len(m_sdb.sectors))
    BY <1>3, EncodeNearer
  <2> QED BY <2>1
<1>4. CASE EncodeChunk
  <2>1. stack # << >> /\ Top.pc = "encode"
    BY <1>4 DEF EncodeChunk, At
  <2> QED BY <1>3, <1>4, <2>1, GrabIsAlone
<1>5. CASE GrabStep
  <2>1. /\ stack # << >>
        /\ Top.pc \in {"open", "size", "pass", "loop", "yield", "read", "passed", "save"}
    BY <1>5 DEF GrabStep, GrabLoad, GrabToc, GrabNew, PassBegin, PassLoop, ReadAudio,
       PassEnd, SaveEnd, Resume, At
  <2>2. /\ Len(stack) = 1 /\ 1 \in DOMAIN stack /\ Top = stack[1] /\ Top \in Frame
        /\ Top.pc # "yield" => Top.slot = "Grab"
    BY <2>1, GrabIsAlone
  <2>3. CASE Top.slot = "Grab"
    <3>1. Within(Top, Len(m_sdb.sectors))
      BY <2>2, <2>3 DEF WithinInv
    <3>2. PICK f : /\ Become(f)
                   /\ Nearer(f, Len(m_sdb'.sectors), Top, Len(m_sdb.sectors))
      BY <1>5, <2>1, <2>2, <2>3, <3>1, GrabNearer
    <3> QED BY <2>1, <3>2
  <2>4. CASE Top.slot # "Grab"
    <3>1. Top.pc = "yield"
      BY <2>2, <2>4
    <3>2. Resume
      BY <1>5, <3>1 DEF GrabStep, GrabLoad, GrabToc, GrabNew, PassBegin, PassLoop,
         ReadAudio, PassEnd, SaveEnd, At
    <3>3. Top.slot = "Encode"
      BY <2>1, <2>2, <2>4, <3>1, TopParts, WhoRuns
    <3> QED BY <1>3, <2>1, <3>2, <3>3
  <2> QED BY <2>3, <2>4
<1> QED BY <1>1, <1>2, <1>4, <1>5 DEF SlotStep, GrabStep

\* Whatever the window and the drive do, and whatever the event loop calls, the
\* slots in execution stay where they are, and so does the db.
LEMMA AroundStays ==
  ASSUME CallInv, NEW k \in DOMAIN stack, k \in DOMAIN stack',
         \/ \E dev \in Devices : \/ \E disc \in Discs \cup {None} : Swap(dev, disc)
                                 \/ ChangeDevice(dev)
         \/ Poll \/ Cancel \/ Eject \/ JobRefused
         \/ \E base \in Bases : Grab(base) \/ Encode(base)
         \/ UNCHANGED vars
  PROVE  Unmoved(stack[k], stack'[k]) /\ m_sdb' = m_sdb
<1>0. stack \in Seq(Frame) /\ stack[k] \in Frame
  BY DEF CallInv, TypeOK
<1>1. ASSUME stack' = Witnessed \/ stack' = stack, m_sdb' = m_sdb
      PROVE  Unmoved(stack[k], stack'[k]) /\ m_sdb' = m_sdb
  <2>1. stack'[k] = stack[k] \/ stack'[k] = [stack[k] EXCEPT !.disturbed = TRUE]
    BY <1>1 DEF Witnessed
  <2> QED BY <1>0, <1>1, <2>1 DEF Unmoved, Frame
<1>2. ASSUME NEW s \in Seq(Frame), s = Witnessed \/ s = stack, NEW f \in Frame,
             stack' = Append(s, f), m_sdb' = m_sdb, DOMAIN s = DOMAIN stack
      PROVE  Unmoved(stack[k], stack'[k]) /\ m_sdb' = m_sdb
  <2>1. stack'[k] = s[k]
    <3>1. k \in 1..Len(s) /\ Len(s) \in Nat
      BY <1>2
    <3> QED BY <1>2, <3>1, CallFrames
  <2>2. stack'[k] = stack[k] \/ stack'[k] = [stack[k] EXCEPT !.disturbed = TRUE]
    BY <1>2, <2>1 DEF Witnessed
  <2> QED BY <1>0, <1>2, <2>2 DEF Unmoved, Frame
<1>3. ASSUME NEW dev \in Devices, ChangeDevice(dev)
      PROVE  Unmoved(stack[k], stack'[k]) /\ m_sdb' = m_sdb
  <2> DEFINE f == Idle("ChangeDevice", "di")
  <2>1. f \in Frame
    BY IdleType
  <2>2. Witnessed \in Seq(Frame) /\ DOMAIN Witnessed = DOMAIN stack
    BY <1>3, WitnessedKeeps DEF Slots, ChangeDevice, Witnessed
  <2>3. stack' = Append(Witnessed, f) /\ m_sdb' = m_sdb
    BY <1>3 DEF ChangeDevice
  <2> HIDE DEF f
  <2> QED BY <1>2, <2>1, <2>2, <2>3
<1>4. CASE Poll
  <2> DEFINE f == Idle("Poll", "di")
  <2>1. f \in Frame
    BY IdleType
  <2>2. stack' = Append(stack, f) /\ m_sdb' = m_sdb
    BY <1>4 DEF Poll, Call, worker
  <2> HIDE DEF f
  <2> QED BY <1>0, <1>2, <2>1, <2>2
<1>5. CASE Cancel
  <2>1. stack'[k] = [stack[k] EXCEPT !.asked = TRUE] /\ m_sdb' = m_sdb
    BY <1>5 DEF Cancel
  <2> QED BY <1>0, <2>1 DEF Unmoved, Frame
<1>6. CASE \/ \E dev \in Devices : \E disc \in Discs \cup {None} : Swap(dev, disc)
           \/ Eject \/ JobRefused \/ UNCHANGED vars
  <2>1. (stack' = Witnessed \/ stack' = stack) /\ m_sdb' = m_sdb
    BY <1>6 DEF Swap, Eject, JobRefused, vars, worker
  <2> QED BY <1>1, <2>1
<1>7. CASE \E base \in Bases : Grab(base) \/ Encode(base)
  <2>1. stack = << >>
    BY <1>7, FreeLockIsEmptyStack DEF Grab, Encode, ByWindow
  <2> QED BY <2>1
<1> QED BY <1>3, <1>4, <1>5, <1>6, <1>7
\* A slot below the one that runs stays where it is.
LEMMA BelowStays ==
  ASSUME CallInv, stack # << >>, NEW k \in DOMAIN stack, k # Len(stack), NEW f, Become(f)
  PROVE  stack'[k] = stack[k]
<1> DEFINE T == Frame \cup {f}
<1>1. /\ stack \in Seq(Frame) /\ DOMAIN stack = 1..Len(stack) /\ Len(stack) \in Nat
      /\ stack' = Append(Below, f)
  BY StackParts DEF CallInv, TypeOK, Become
<1>2. /\ Below \in Seq(Frame) /\ Len(Below) = Len(stack) - 1
      /\ \A i \in 1..(Len(stack) - 1) : Below[i] = stack[i]
  BY <1>1, BelowParts DEF Below
<1>3. Below \in Seq(T) /\ f \in T
  BY <1>2
<1> HIDE DEF T
<1>4. k \in 1..Len(Below)
  BY <1>1, <1>2
<1>5. Append(Below, f)[k] = Below[k]
  BY <1>3, <1>4, AppendProperties
<1> QED BY <1>1, <1>2, <1>4, <1>5

\* The slot that runs, if it goes on.
LEMMA BecomesTop ==
  ASSUME CallInv, CallInv', stack # << >>, NEW f, Become(f)
  PROVE  stack'[Len(stack)] = f
<1> DEFINE T == Frame \cup {f}
<1>1. stack \in Seq(Frame) /\ stack' = Append(Below, f) /\ Len(stack) \in Nat
  BY StackParts DEF CallInv, TypeOK, Become
<1>2. Below \in Seq(Frame) /\ Len(Below) = Len(stack) - 1
  BY <1>1, BelowParts DEF Below
<1>3. Below \in Seq(T) /\ f \in T
  BY <1>2
<1> HIDE DEF T
<1>4. Append(Below, f)[Len(Below) + 1] = f
  BY <1>3, AppendProperties
<1> QED BY <1>1, <1>2, <1>4

\* A slot below the one that runs is suspended.
LEMMA BelowIsSuspended ==
  ASSUME CallInv, Next, stack' # << >>, NEW k \in DOMAIN stack, k # Len(stack)
  PROVE  m_sdb' = m_sdb
<1>1. stack \in Seq(Frame) /\ DOMAIN stack = 1..Len(stack) /\ Len(stack) \in Nat
  BY StackParts DEF CallInv, Slots
<1>2. Len(stack) > 1
  BY <1>1
<1> QED BY <1>2, SuspendedDb

\* Every job comes to its end by itself: a step of the slot that runs, or to which
\* processEvents returns, leaves it or brings it nearer to its end, which is
\* finitely many steps away; whatever else happens (a disc or a device that
\* changes, a click, Poll, a slot that runs inside) takes none of it back.
THEOREM JobsComeToAnEnd ==
  Spec => /\ [](\A k \in DOMAIN stack :
                  Rounds(stack[k]) \in Nat /\ Steps(stack[k], Len(m_sdb.sectors)) \in Nat)
          /\ [][\A k \in DOMAIN stack \cap DOMAIN stack' :
                  \/ Nearer(stack'[k], Len(m_sdb'.sectors), stack[k], Len(m_sdb.sectors))
                  \/ /\ Unmoved(stack[k], stack'[k]) /\ m_sdb' = m_sdb
                     /\ ~(k = Len(stack) /\ (SlotStep \/ Resume))]_vars
<1>1. ASSUME CallInv, WithinInv, NEW k \in DOMAIN stack
      PROVE  Rounds(stack[k]) \in Nat /\ Steps(stack[k], Len(m_sdb.sectors)) \in Nat
  <2> DEFINE f == stack[k]
             n == Len(m_sdb.sectors)
  <2>1. f \in Frame /\ FrameInv(f, m_cancelled, m_sdb) /\ n \in Nat
    <3>1. m_sdb.sectors \in Seq(Sector)
      BY <1>1, DbParts DEF CallInv, TypeOK
    <3> QED BY <1>1, <3>1 DEF CallInv, Slots, TypeOK
  <2>2. f.lba \in Nat /\ f.retry \in Nat /\ f.retry <= 4
    BY <2>1 DEF Frame, MaxPasses, minimumCommonCrcCount
  <2>3. f.slot = "Grab" => Within(f, n) /\ GrabInv(f, m_cancelled)
    BY <1>1, <2>1 DEF WithinInv, FrameInv
  <2>4. f.slot = "Encode" => EncodeInv(f, m_cancelled, m_sdb)
    BY <2>1 DEF FrameInv
  <2> HIDE DEF f
  <2>5. Rounds(f) \in Nat
    BY <2>2 DEF Rounds, MaxPasses, minimumCommonCrcCount
  <2>6. f.slot = "Grab" => PassSteps(f, n) \in Nat
    <3> HIDE DEF n
    <3> QED BY <2>1, <2>2, <2>3 DEF PassSteps, Within, Phase
  <2>7. f.slot = "Encode" => EncodeSteps(f, n) \in Nat
    <3>1. f.slot = "Encode" /\ Phase(f) = "encode" => f.lba < n
      BY <2>4 DEF EncodeInv
    <3> HIDE DEF n
    <3> QED BY <2>1, <2>2, <3>1 DEF EncodeSteps, Phase
  <2>8. RefreshSteps(f) \in Nat
    BY DEF RefreshSteps
  <2>9. Steps(f, n) \in Nat
    BY <2>6, <2>7, <2>8 DEF Steps
  <2> QED BY <2>5, <2>9 DEF f
<1>2. ASSUME CallInv, CallInv', WithinInv, Next, NEW k \in DOMAIN stack, k \in DOMAIN stack'
      PROVE  \/ Nearer(stack'[k], Len(m_sdb'.sectors), stack[k], Len(m_sdb.sectors))
             \/ /\ Unmoved(stack[k], stack'[k]) /\ m_sdb' = m_sdb
                /\ ~(k = Len(stack) /\ (SlotStep \/ Resume))
  <2>0. stack # << >> /\ stack' # << >>
    BY <1>2
  <2>1. CASE SlotStep \/ Resume
    <3>1. stack # << >>
      BY <2>0
    <3>2. CASE Return
      <4>1. k # Len(stack) /\ stack'[k] = stack[k]
        BY <1>2, <3>1, <3>2, ReturnFrames
      <4> QED BY <1>2, <2>0, <4>1, BelowIsSuspended DEF Unmoved
    <3>3. ASSUME NEW f, Become(f),
                 Nearer(f, Len(m_sdb'.sectors), Top, Len(m_sdb.sectors))
          PROVE  \/ Nearer(stack'[k], Len(m_sdb'.sectors), stack[k], Len(m_sdb.sectors))
                 \/ /\ Unmoved(stack[k], stack'[k]) /\ m_sdb' = m_sdb
                    /\ ~(k = Len(stack) /\ (SlotStep \/ Resume))
      <4>1. CASE k = Len(stack)
        BY <1>2, <3>1, <3>3, <4>1, BecomesTop DEF Top
      <4>2. CASE k # Len(stack)
        BY <1>2, <2>0, <3>1, <3>3, <4>2, BelowStays, BelowIsSuspended DEF Unmoved
      <4> QED BY <4>1, <4>2
    <3> QED BY <1>2, <2>1, <3>2, <3>3, TopNearer
  <2>2. CASE ~(SlotStep \/ Resume)
    <3>1. ~Kill
      BY <2>0 DEF Kill
    <3> QED BY <1>2, <2>2, <3>1, AroundStays DEF Next
  <2> QED BY <2>1, <2>2
<1>3. CallInv /\ WithinInv =>
        \A k \in DOMAIN stack :
          Rounds(stack[k]) \in Nat /\ Steps(stack[k], Len(m_sdb.sectors)) \in Nat
  BY <1>1
<1>4. CallInv /\ CallInv' /\ WithinInv /\ [Next]_vars =>
        [\A k \in DOMAIN stack \cap DOMAIN stack' :
           \/ Nearer(stack'[k], Len(m_sdb'.sectors), stack[k], Len(m_sdb.sectors))
           \/ /\ Unmoved(stack[k], stack'[k]) /\ m_sdb' = m_sdb
              /\ ~(k = Len(stack) /\ (SlotStep \/ Resume))]_vars
  BY <1>2
<1> QED BY <1>3, <1>4, CallInvariant, AlwaysWithin, PTL DEF Spec
=============================================================================
