----------------------------- MODULE WindowProofs -----------------------------
(***************************************************************************)
(* Proofs about Window: the composition is the worker with a window around *)
(* it, so that all that is proved of the worker alone holds here; what the *)
(* window shows follows the worker's tags; and Abort is prompt.            *)
(***************************************************************************)
EXTENDS Window, CddaWorkerProofs

\* What the window posts.
Posts == [slot : {"ChangeDevice"}, arg : Devices]
         \cup [slot : {"Grab", "Encode"}, arg : Tags]
         \cup [slot : {"Eject", "Cancel"}, arg : {None}]

\* The tags the window will show when it has seen all messages.
Newest == IF toWindow = << >> THEN shown.tags ELSE toWindow[Len(toWindow)]

Posted == toWorker \in Seq(Posts)

Seen ==
  /\ toWindow \in Seq(Tags) /\ Newest = m_tags
  /\ shown \in [tags : Tags, rows : Nat, view : Nat]
  /\ shown.view = shown.rows /\ shown.rows = NrTracks[shown.tags]

\* What f, a grab's frame, has read since the Abort that is still posted, n
\* sectors: not more than since it last looked, and none in another pass.
CancelPosted == \E i \in DOMAIN toWorker : toWorker[i].slot = "Cancel"

Since(f, posted, n) ==
  \/ f.asked
  \/ /\ posted
     /\ f.pc = "read" => n <= f.nRead % ProgressEvery
     /\ f.pc = "loop" => f.nRead % ProgressEvery = 0 \/ n <= f.nRead % ProgressEvery
     /\ f.pc \notin {"loop", "read", "yield"} => n = 0

AbortInv ==
  waited # NoAbort =>
    /\ waited \in 0..ProgressEvery
    /\ Grabbing(stack)
    /\ \A k \in DOMAIN stack :
         stack[k].slot = "Grab" => Since(stack[k], CancelPosted, waited)

WindowInv == IInv /\ Posted /\ Seen /\ AbortInv

-----------------------------------------------------------------------------
LEMMA DeliverIsNext ==
  ASSUME Posted, Deliver
  PROVE  Next
<1> DEFINE call == Head(toWorker)
<1>1. call \in Posts
  BY DEF Posted, Deliver
<1> HIDE DEF call
<1>2. /\ call.slot = "ChangeDevice" => call.arg \in Devices
      /\ call.slot \in {"Grab", "Encode"} => call.arg \in Bases
  BY <1>1, WindowAssumption DEF Posts
<1>3. \/ call.slot = "ChangeDevice" /\ ChangeDevice(call.arg)
      \/ Cancel \/ JobRefused \/ Eject
      \/ call.slot = "Grab" /\ Grab(call.arg)
      \/ call.slot = "Encode" /\ Encode(call.arg)
  BY DEF Deliver, call
<1> QED BY <1>2, <1>3 DEF Next

\* The composition never writes to the worker but by its own steps.
LEMMA StepsOfWorker ==
  ASSUME Posted, WindowNext
  PROVE  [Next]_vars
<1>1. ASSUME OnGrab \/ OnEncode \/ OnAbort \/ OnEject \/ (\E dev \in Devices : OnDevice(dev))
             \/ OnTocChange \/ Close \/ Finish
      PROVE  UNCHANGED vars
  BY <1>1 DEF OnGrab, OnEncode, OnAbort, OnEject, OnDevice, Click, OnTocChange, Close, Finish
<1>2. ASSUME Deliver PROVE Next
  BY <1>2, DeliverIsNext
<1>3. ASSUME SlotRuns PROVE Next
  BY <1>3 DEF SlotRuns, NewToc, Next, SlotStep
<1>4. ASSUME TimerPolls \/ DiscChanges \/ Resumes PROVE Next
  BY <1>4 DEF TimerPolls, DiscChanges, Resumes, Next
<1> QED BY <1>1, <1>2, <1>3, <1>4 DEF WindowNext

\* The queue to the worker.
LEMMA ClickPosts ==
  ASSUME Posted, NEW slot, NEW arg, [slot |-> slot, arg |-> arg] \in Posts, Click(slot, arg)
  PROVE  Posted'
<1>1. toWorker' = Append(toWorker, [slot |-> slot, arg |-> arg])
  BY DEF Click
<1> QED BY <1>1, AppendProperties DEF Posted

LEMMA PostedKept ==
  ASSUME WindowInv, WindowNext
  PROVE  Posted'
<1>1. shown.tags \in Tags /\ Posted
  BY DEF WindowInv, Seen
<1>2. CASE OnGrab
  BY <1>1, <1>2, ClickPosts DEF OnGrab, BaseName, Posts
<1>3. CASE OnEncode
  BY <1>1, <1>3, ClickPosts DEF OnEncode, BaseName, Posts
<1>4. CASE OnEject
  BY <1>1, <1>4, ClickPosts DEF OnEject, Posts
<1>5. CASE OnAbort
  BY <1>1, <1>5, ClickPosts DEF OnAbort, Posts
<1>6. ASSUME NEW dev \in Devices, OnDevice(dev) PROVE Posted'
  BY <1>1, <1>6, ClickPosts DEF OnDevice, Posts
<1>7. ASSUME toWorker' = toWorker PROVE Posted'
  BY <1>1, <1>7 DEF Posted
<1>8. ASSUME OnTocChange \/ Close \/ SlotRuns \/ TimerPolls \/ DiscChanges \/ Resumes \/ Finish
      PROVE  toWorker' = toWorker
  BY <1>8 DEF OnTocChange, Close, SlotRuns, NewToc, TimerPolls, DiscChanges, Resumes,
     Finish, Silently, queues
<1>9. CASE Deliver
  <2>1. toWorker # << >> /\ toWorker' = Tail(toWorker)
    BY <1>9 DEF Deliver
  <2> QED BY <1>1, <2>1, HeadTailProperties DEF Posted
<1> QED BY <1>2, <1>3, <1>4, <1>5, <1>6, <1>7, <1>8, <1>9 DEF WindowNext

-----------------------------------------------------------------------------
\* The queue to the window.  A message is sent with every change of m_tags.
LEMMA TagsAreSent ==
  ASSUME WindowNext
  PROVE  \/ toWindow' = Append(toWindow, m_tags') /\ shown' = shown
         \/ m_tags' = m_tags /\ toWindow' = toWindow /\ shown' = shown
         \/ m_tags' = m_tags /\ OnTocChange
<1>1. CASE OnGrab \/ OnEncode \/ OnAbort \/ OnEject \/ (\E dev \in Devices : OnDevice(dev))
           \/ Close \/ Finish
  BY <1>1 DEF OnGrab, OnEncode, OnAbort, OnEject, OnDevice, Click, Close, Finish,
     vars, worker, queues, window
<1>2. CASE OnTocChange
  BY <1>2 DEF OnTocChange, vars, worker
<1>3. CASE Deliver
  BY <1>3 DEF Deliver, ChangeDevice, Cancel, Grab, JobRefused, Encode, Eject, worker, window
<1>4. CASE SlotRuns
  <2>1. CASE NewToc
    BY <2>1 DEF NewToc, window
  <2>2. ASSUME ~NewToc PROVE m_tags' = m_tags /\ toWindow' = toWindow /\ shown' = shown
    BY <1>4, <2>2 DEF SlotRuns, Silently, queues, window, worker,
       PollDisc, OpenedDisc, RefreshLock, RefreshStatus, RefreshOffline, Throw, RefreshToc,
       GrabLoad, GrabToc, GrabNew, PassBegin, PassLoop, PassEnd, SaveEnd, GrabEnd,
       ReadAudio, EncodeChunk, EncodeEnd
  <2> QED BY <2>1, <2>2
<1>5. CASE TimerPolls \/ DiscChanges \/ Resumes
  BY <1>5 DEF TimerPolls, DiscChanges, Resumes, Silently, queues, window, worker,
     Poll, Swap, Resume
<1> QED BY <1>1, <1>2, <1>3, <1>4, <1>5 DEF WindowNext

LEMMA SeenKept ==
  ASSUME WindowInv, m_tags' \in Tags, WindowNext
  PROVE  Seen'
<1>1. /\ toWindow \in Seq(Tags) /\ Newest = m_tags
      /\ shown \in [tags : Tags, rows : Nat, view : Nat]
      /\ shown.view = shown.rows /\ shown.rows = NrTracks[shown.tags]
  BY DEF WindowInv, Seen
<1>2. CASE toWindow' = Append(toWindow, m_tags') /\ shown' = shown
  <2> DEFINE q == Append(toWindow, m_tags')
  <2>1. q \in Seq(Tags) /\ q # << >> /\ q[Len(q)] = m_tags'
    <3>1. /\ q \in Seq(Tags) /\ q # << >> /\ Len(q) = Len(toWindow) + 1
          /\ q[Len(toWindow) + 1] = m_tags'
      BY <1>1, AppendProperties
    <3> HIDE DEF q
    <3> QED BY <3>1
  <2>2. toWindow' = q
    BY <1>2
  <2> HIDE DEF q
  <2> QED BY <1>1, <1>2, <2>1, <2>2 DEF Seen, Newest
<1>3. CASE m_tags' = m_tags /\ toWindow' = toWindow /\ shown' = shown
  BY <1>1, <1>3 DEF Seen, Newest
<1>4. CASE m_tags' = m_tags /\ OnTocChange
  <2> DEFINE tags == Head(toWindow)
  <2> DEFINE q == Tail(toWindow)
  <2>1. toWindow # << >> /\ toWindow' = q /\ shown' = SetTracks(shown, tags)
    BY <1>4 DEF OnTocChange
  <2>2. tags \in Tags /\ NrTracks[tags] \in Nat
    BY <1>1, <2>1, WindowAssumption
  <2>3. /\ shown' \in [tags : Tags, rows : Nat, view : Nat] /\ shown'.tags = tags
        /\ shown'.view = shown'.rows /\ shown'.rows = NrTracks[shown'.tags]
    <3> HIDE DEF tags
    <3>1. shown.view - shown.rows + NrTracks[tags] = NrTracks[tags]
      BY <1>1, <2>2
    <3> QED BY <2>1, <2>2, <3>1 DEF SetTracks
  <2>4. toWindow[Len(toWindow)] = m_tags /\ Len(toWindow) \in Nat \ {0}
    BY <1>1, <2>1 DEF Newest
  <2>5. q \in Seq(Tags) /\ (IF q = << >> THEN tags ELSE q[Len(q)]) = m_tags
    <3>1. /\ q \in Seq(Tags) /\ Len(q) = Len(toWindow) - 1 /\ tags = toWindow[1]
          /\ \A i \in 1..Len(q) : q[i] = toWindow[i + 1]
      BY <1>1, <2>1, HeadTailProperties
    <3> HIDE DEF q, tags
    <3>2. CASE q = << >>
      <4>1. Len(toWindow) = 1
        BY <2>4, <3>1, <3>2
      <4> QED BY <2>4, <3>1, <3>2, <4>1
    <3>3. CASE q # << >>
      <4>1. Len(q) \in 1..Len(q) /\ Len(q) + 1 = Len(toWindow)
        BY <2>4, <3>1, <3>3
      <4>2. q[Len(q)] = toWindow[Len(q) + 1]
        BY <3>1, <4>1
      <4> QED BY <2>4, <3>1, <3>3, <4>1, <4>2
    <3> QED BY <3>2, <3>3
  <2> HIDE DEF q, tags
  <2> QED BY <1>4, <2>1, <2>3, <2>5 DEF Seen, Newest
<1> QED BY <1>2, <1>3, <1>4, TagsAreSent

-----------------------------------------------------------------------------
(***************************************************************************)
(* The sectors read after Abort.                                           *)
(***************************************************************************)
LEMMA NextRemainder ==
  ASSUME NEW p \in Nat \ {0}, NEW n \in Nat
  PROVE  /\ n % p \in Nat /\ n % p < p
         /\ (n + 1) % p = 0 \/ (n + 1) % p = (n % p) + 1
<1> DEFINE r == n % p
           q == n \div p
<1>1. r \in Nat /\ r < p /\ q \in Nat /\ n = p * q + r
  OBVIOUS
<1>2. ASSUME NEW a \in Nat, NEW b \in Nat, b < p PROVE (p * a + b) % p = b
  BY <1>2
<1> HIDE DEF r, q
<1>3. CASE r + 1 = p
  <2>1. n + 1 = p * (q + 1) + 0 /\ q + 1 \in Nat /\ 0 \in Nat /\ 0 < p
    BY <1>1, <1>3
  <2>2. (n + 1) % p = 0
    BY <1>2, <2>1
  <2> QED BY <2>2
<1>4. CASE r + 1 < p
  <2>1. n + 1 = p * q + (r + 1) /\ r + 1 \in Nat
    BY <1>1, <1>4
  <2>2. (n + 1) % p = r + 1
    BY <1>1, <1>2, <1>4, <2>1
  <2> QED BY <2>2 DEF r
<1>5. r + 1 = p \/ r + 1 < p
  BY <1>1
<1>6. n % p \in Nat /\ n % p < p
  BY <1>1 DEF r
<1> QED BY <1>3, <1>4, <1>5, <1>6

\* The frames of grabs go on where they are, and a Cancel stays posted until
\* they know of it.
LEMMA SinceKept ==
  ASSUME CallInv, AbortInv, waited' = NoAbort \/ (waited' = waited /\ Grabbing(stack'))
                                              \/ (waited' = waited /\ stack' = stack),
         CancelPosted => CancelPosted' \/ \A k \in DOMAIN stack' : stack'[k].asked,
         \A k \in DOMAIN stack' : stack'[k].slot = "Grab" =>
           /\ k \in DOMAIN stack
           /\ \/ stack'[k] = stack[k]
              \/ stack'[k] = [stack[k] EXCEPT !.disturbed = TRUE]
              \/ stack'[k] = [stack[k] EXCEPT !.asked = TRUE]
  PROVE  AbortInv'
<1> SUFFICES ASSUME waited' # NoAbort PROVE AbortInv'
  BY DEF AbortInv
<1>1. /\ waited' = waited /\ Grabbing(stack') /\ waited \in 0..ProgressEvery
      /\ \A k \in DOMAIN stack :
           stack[k].slot = "Grab" => Since(stack[k], CancelPosted, waited)
  BY DEF AbortInv
<1>2. ASSUME NEW k \in DOMAIN stack', stack'[k].slot = "Grab"
      PROVE  Since(stack'[k], CancelPosted', waited)
  <2> DEFINE f == stack[k]
             g == stack'[k]
  <2>1. f \in Frame /\ k \in DOMAIN stack
    BY <1>2 DEF CallInv, TypeOK
  <2>2. \/ g = f \/ g = [f EXCEPT !.disturbed = TRUE] \/ g = [f EXCEPT !.asked = TRUE]
    BY <1>2
  <2>3. CancelPosted => CancelPosted' \/ g.asked
    BY <1>2
  <2> HIDE DEF f, g
  <2>4. g.slot = f.slot /\ g.pc = f.pc /\ g.nRead = f.nRead /\ (f.asked => g.asked)
    BY <2>1, <2>2 DEF Frame
  <2>5. Since(f, CancelPosted, waited)
    BY <1>1, <1>2, <2>1, <2>4 DEF f, g
  <2>6. Since(g, CancelPosted', waited)
    BY <2>3, <2>4, <2>5 DEF Since
  <2> QED BY <2>6 DEF g
<1> QED BY <1>1, <1>2 DEF AbortInv

LEMMA AppendKeepsCancel ==
  ASSUME Posted, NEW post \in Posts, toWorker' = Append(toWorker, post)
  PROVE  /\ CancelPosted => CancelPosted'
         /\ post.slot = "Cancel" => CancelPosted'
<1>1. /\ toWorker' \in Seq(Posts) /\ Len(toWorker') = Len(toWorker) + 1
      /\ toWorker'[Len(toWorker) + 1] = post
      /\ \A i \in 1..Len(toWorker) : toWorker'[i] = toWorker[i]
  BY AppendProperties DEF Posted
<1>2. /\ DOMAIN toWorker = 1..Len(toWorker) /\ DOMAIN toWorker' = 1..Len(toWorker')
      /\ Len(toWorker) \in Nat
  BY <1>1 DEF Posted
<1> QED BY <1>1, <1>2 DEF CancelPosted

LEMMA ClickAbortInv ==
  ASSUME WindowInv,
         \/ OnGrab \/ OnEncode \/ OnAbort \/ OnEject \/ (\E dev \in Devices : OnDevice(dev))
         \/ OnTocChange \/ Close \/ Finish
  PROVE  AbortInv'
<1>1. CallInv /\ AbortInv /\ Posted /\ shown.tags \in Tags
  BY DEF WindowInv, IInv, Seen
<1>2. stack' = stack
  BY DEF OnGrab, OnEncode, OnAbort, OnEject, OnDevice, Click, OnTocChange, Close, Finish, vars
<1>3. ASSUME waited' = waited, CancelPosted => CancelPosted' PROVE AbortInv'
  BY <1>1, <1>2, <1>3, SinceKept
<1>4. CASE OnGrab \/ OnEncode \/ OnEject \/ (\E dev \in Devices : OnDevice(dev))
  <2>1. waited' = waited /\ \E post \in Posts : toWorker' = Append(toWorker, post)
    BY <1>1, <1>4 DEF OnGrab, OnEncode, OnEject, OnDevice, Click, BaseName, Posts
  <2> QED BY <1>1, <1>3, <2>1, AppendKeepsCancel
<1>5. CASE OnTocChange \/ Close \/ Finish
  <2>1. waited' = waited /\ toWorker' = toWorker
    BY <1>5 DEF OnTocChange, Close, Finish, queues
  <2> QED BY <1>3, <2>1 DEF CancelPosted
<1>6. CASE OnAbort
  <2> DEFINE post == [slot |-> "Cancel", arg |-> None]
  <2>1. post \in Posts /\ post.slot = "Cancel" /\ toWorker' = Append(toWorker, post)
    BY <1>6 DEF OnAbort, Click, Posts
  <2> HIDE DEF post
  <2>2. CancelPosted'
    BY <1>1, <2>1, AppendKeepsCancel
  <2>3. CASE waited' = waited
    BY <1>3, <2>2, <2>3
  <2>4. CASE waited' = 0 /\ Grabbing(stack)
    <3>1. ASSUME NEW k \in DOMAIN stack, stack[k].slot = "Grab"
          PROVE  Since(stack[k], TRUE, 0)
      <4>1. stack[k] \in Frame
        BY <1>1 DEF CallInv, TypeOK
      <4>2. stack[k].nRead % ProgressEvery \in Nat
        BY <4>1, WorkerAssumption, NextRemainder DEF Frame
      <4> QED BY <4>2 DEF Since
    <3>2. 0 \in 0..ProgressEvery
      BY WorkerAssumption
    <3> QED BY <1>2, <2>2, <2>4, <3>1, <3>2 DEF AbortInv
  <2> QED BY <1>6, <2>3, <2>4 DEF OnAbort
<1> QED BY <1>4, <1>5, <1>6

LEMMA CountZero ==
  ASSUME AbortInv, Count(0)
  PROVE  waited' = NoAbort \/ (waited' = waited /\ Grabbing(stack'))
<1>1. waited # NoAbort => waited \in Nat
  BY WorkerAssumption DEF AbortInv
<1> QED BY <1>1 DEF Count

LEMMA TailKeepsCancel ==
  ASSUME Posted, toWorker # << >>, toWorker' = Tail(toWorker), Head(toWorker).slot # "Cancel",
         CancelPosted
  PROVE  CancelPosted'
<1>1. PICK i \in DOMAIN toWorker : toWorker[i].slot = "Cancel"
  BY DEF CancelPosted
<1>2. /\ toWorker' \in Seq(Posts) /\ Len(toWorker') = Len(toWorker) - 1
      /\ Head(toWorker) = toWorker[1]
      /\ \A j \in 1..Len(toWorker') : toWorker'[j] = toWorker[j + 1]
  BY HeadTailProperties DEF Posted
<1>3. i \in 1..Len(toWorker) /\ i # 1 /\ Len(toWorker) \in Nat
  BY <1>1, <1>2 DEF Posted
<1>4. i - 1 \in 1..Len(toWorker') /\ (i - 1) + 1 = i
  BY <1>2, <1>3
<1>5. toWorker'[i - 1] = toWorker[i]
  BY <1>2, <1>4
<1>6. i - 1 \in DOMAIN toWorker'
  BY <1>2, <1>4
<1> QED BY <1>1, <1>5, <1>6 DEF CancelPosted

LEMMA DeliverAbortInv ==
  ASSUME WindowInv, Deliver
  PROVE  AbortInv'
<1> DEFINE call == Head(toWorker)
<1>1. CallInv /\ AbortInv /\ Posted /\ call \in Posts /\ calls \in Nat
  BY DEF WindowInv, IInv, CallInv, TypeOK, Posted, Deliver
<1>2. waited' = NoAbort \/ (waited' = waited /\ Grabbing(stack'))
  BY <1>1, CountZero DEF Deliver
<1>3. /\ calls' = calls + 1
      /\ \/ \E dev \in Devices : ChangeDevice(dev)
         \/ call.slot = "Cancel" /\ Cancel
         \/ JobRefused \/ Eject
         \/ \E base \in Bases : Grab(base) \/ Encode(base)
  <2>1. /\ call.slot = "ChangeDevice" => call.arg \in Devices
        /\ call.slot \in {"Grab", "Encode"} => call.arg \in Bases
    BY <1>1, WindowAssumption DEF Posts
  <2>2. \/ call.slot = "ChangeDevice" /\ ChangeDevice(call.arg)
        \/ call.slot = "Cancel" /\ Cancel
        \/ JobRefused \/ Eject
        \/ call.slot = "Grab" /\ Grab(call.arg)
        \/ call.slot = "Encode" /\ Encode(call.arg)
    BY DEF Deliver
  <2>3. calls' = calls + 1
    BY <2>2 DEF ChangeDevice, Cancel, JobRefused, Eject, Grab, Encode, ByWindow
  <2> HIDE DEF call
  <2> QED BY <2>1, <2>2, <2>3
<1>4. CASE stack = << >>
  <2>1. waited = NoAbort
    BY <1>1, <1>4 DEF AbortInv, Grabbing
  <2> QED BY <1>2, <2>1 DEF AbortInv
<1>5. CASE stack # << >>
  <2>1. ASSUME NEW k \in DOMAIN stack', stack'[k].slot = "Grab"
        PROVE  /\ k \in DOMAIN stack
               /\ \/ stack'[k] = stack[k]
                  \/ stack'[k] = [stack[k] EXCEPT !.disturbed = TRUE]
                  \/ stack'[k] = [stack[k] EXCEPT !.asked = TRUE]
    <3>1. Fate(k)
      BY <1>1, <1>3, <2>1, AroundFate
    <3>2. ~GrabStep
      <4>1. GrabStep => calls' = calls
        BY DEF GrabStep, GrabLoad, GrabToc, GrabNew, PassBegin, PassLoop, ReadAudio, PassEnd,
           SaveEnd, Resume, world
      <4> QED BY <1>1, <1>3, <4>1
    <3>3. \A base \in Bases : ~Grab(base)
      BY <1>1, <1>5, FreeLockIsEmptyStack DEF Grab, ByWindow
    <3> QED BY <3>1, <3>2, <3>3 DEF Fate, SameJob
  <2>2. CancelPosted => CancelPosted' \/ \A k \in DOMAIN stack' : stack'[k].asked
    <3>1. toWorker # << >> /\ toWorker' = Tail(toWorker)
      BY DEF Deliver
    <3>2. CASE call.slot # "Cancel"
      BY <1>1, <3>1, <3>2, TailKeepsCancel
    <3>3. CASE call.slot = "Cancel"
      <4>1. stack' = [i \in DOMAIN stack |-> [stack[i] EXCEPT !.asked = TRUE]]
        BY <3>3 DEF Deliver, Cancel
      <4>2. \A i \in DOMAIN stack : stack[i] \in Frame
        BY <1>1 DEF CallInv, TypeOK
      <4> QED BY <4>1, <4>2 DEF Frame
    <3> QED BY <3>2, <3>3
  <2> QED BY <1>1, <1>2, <2>1, <2>2, SinceKept
<1> QED BY <1>4, <1>5

LEMMA OutsideAbortInv ==
  ASSUME WindowInv, TimerPolls \/ DiscChanges
  PROVE  AbortInv'
<1>1. CallInv /\ AbortInv /\ stack \in Seq(Frame)
  BY DEF WindowInv, IInv, CallInv, TypeOK
<1>2. /\ waited' = NoAbort \/ (waited' = waited /\ Grabbing(stack'))
      /\ CancelPosted' = CancelPosted
  BY <1>1, CountZero DEF TimerPolls, DiscChanges, Silently, queues, CancelPosted
<1>3. ASSUME NEW k \in DOMAIN stack', stack'[k].slot = "Grab"
      PROVE  /\ k \in DOMAIN stack
             /\ \/ stack'[k] = stack[k]
                \/ stack'[k] = [stack[k] EXCEPT !.disturbed = TRUE]
  <2>1. CASE TimerPolls
    <3> DEFINE f == Idle("Poll", "di")
    <3>1. stack' = Append(stack, f)
      BY <2>1 DEF TimerPolls, Poll, Call
    <3>2. f \in Frame /\ f.slot = "Poll"
      BY IdleType DEF Idle
    <3> HIDE DEF f
    <3> QED BY <1>1, <1>3, <3>1, <3>2, CallFrames
  <2>2. CASE DiscChanges
    BY <1>3, <2>2 DEF DiscChanges, Swap, Witnessed
  <2> QED BY <2>1, <2>2
<1> QED BY <1>1, <1>2, <1>3, SinceKept

LEMMA OtherSlotsAbortInv ==
  ASSUME WindowInv, Count(0), toWorker' = toWorker,
         \/ PollDisc \/ OpenedDisc \/ RefreshLock \/ RefreshStatus \/ RefreshToc
         \/ RefreshQuery \/ RefreshOffline \/ Throw
         \/ GrabEnd \/ EncodeChunk \/ EncodeEnd
  PROVE  AbortInv'
<1>1. CallInv /\ AbortInv
  BY DEF WindowInv, IInv
<1>2. CancelPosted' = CancelPosted
  BY DEF CancelPosted
<1>3. ASSUME NEW k \in DOMAIN stack', stack'[k].slot = "Grab"
      PROVE  k \in DOMAIN stack /\ stack'[k] = stack[k]
  BY <1>1, <1>3, SlotKeeps
<1> QED BY <1>1, <1>2, <1>3, CountZero, SinceKept

\* A grab reads at most ProgressEvery sectors until it lets the event loop run,
\* which comes back to it when nothing is posted any more.
LEMMA GrabAbortInv ==
  ASSUME WindowInv,
         \/ Resumes
         \/ /\ GrabLoad \/ GrabToc \/ GrabNew \/ PassBegin \/ PassLoop \/ PassEnd
               \/ SaveEnd
            /\ Silently(0)
         \/ (\E audio \in Data : ReadAudio(audio)) /\ Silently(1)
  PROVE  AbortInv'
<1>0. GrabStep /\ CancelPosted' = CancelPosted /\ \E n \in {0, 1} : Count(n)
  BY DEF GrabStep, Resumes, Silently, queues, CancelPosted
<1>1. CallInv /\ AbortInv /\ stack # << >>
      /\ Top.pc \in {"open", "size", "pass", "loop", "yield", "read", "passed", "save"}
  BY <1>0 DEF WindowInv, IInv, GrabStep, GrabLoad, GrabToc, GrabNew, PassBegin, PassLoop,
     ReadAudio, PassEnd, SaveEnd, Resume, At
<1>2. /\ Len(stack) = 1 /\ DOMAIN stack = {1} /\ Top = stack[1] /\ Top \in Frame
      /\ Top.pc # "yield" => Top.slot = "Grab"
      /\ Top.slot = "Grab" => GrabInv(Top, m_cancelled)
  BY <1>1, GrabIsAlone
<1>3. ProgressEvery \in Nat \ {0}
  BY WorkerAssumption
<1>4. CancelPosted' = CancelPosted
  BY <1>0
<1>5. ASSUME NEW f, Become(f), waited' # NoAbort
      PROVE  f.slot = "Grab" /\ stack' = <<f>>
  <2>1. stack' = <<f>>
    BY <1>2, <1>5, AloneBecomes
  <2>2. Grabbing(stack')
    BY <1>0, <1>5 DEF Count
  <2> QED BY <2>1, <2>2 DEF Grabbing
<1>6. SUFFICES ASSUME waited' # NoAbort, waited # NoAbort PROVE AbortInv'
  BY <1>0 DEF AbortInv, Count
<1>7. waited \in 0..ProgressEvery
  BY <1>1, <1>6 DEF AbortInv
<1>8. ASSUME NEW f, Become(f), waited' = waited, f.slot = Top.slot,
             Top.slot = "Grab" => Since(f, CancelPosted, waited)
      PROVE  AbortInv'
  <2>1. f.slot = "Grab" /\ stack' = <<f>>
    BY <1>5, <1>6, <1>8
  <2>2. Grabbing(stack') /\ DOMAIN stack' = {1} /\ stack'[1] = f
    BY <2>1 DEF Grabbing
  <2> QED BY <1>4, <1>7, <1>8, <2>1, <2>2 DEF AbortInv
<1>9. Top.slot = "Grab" => Since(Top, CancelPosted, waited)
  BY <1>1, <1>2, <1>6 DEF AbortInv
<1>10. Silently(0) => waited' = waited
  BY <1>6, <1>7, <1>3 DEF Silently, Count
<1>11. CASE Resumes
  <2> DEFINE f == Resumed(Top)
  <2>1. Become(f) /\ waited' = waited /\ ~CancelPosted
    BY <1>10, <1>11 DEF Resumes, Resume, NothingPosted, CancelPosted
  <2>2. f.slot = Top.slot /\ f.asked = Top.asked
    BY <1>2 DEF Resumed, Frame
  <2> HIDE DEF f
  <2> QED BY <1>8, <1>9, <2>1, <2>2 DEF Since
<1>12. CASE GrabLoad /\ Silently(0)
  <2> DEFINE f == Pass
  <2>1. Become(f) /\ Top.pc = "open"
    BY <1>12 DEF GrabLoad, At
  <2>2. f.slot = Top.slot /\ f.asked = Top.asked /\ f.pc = "pass"
    BY <1>2 DEF Pass, Frame
  <2>3. waited' = waited
    BY <1>10, <1>12
  <2> HIDE DEF f
  <2> QED BY <1>2, <1>8, <1>9, <2>1, <2>2, <2>3 DEF Since
<1>13. CASE GrabToc /\ Silently(0)
  <2> DEFINE f == [Top EXCEPT !.pc = "size"]
  <2>1. Become(f) /\ Top.pc = "open"
    BY <1>13 DEF GrabToc, At, Goto
  <2>2. f.slot = Top.slot /\ f.asked = Top.asked /\ f.pc = "size"
    BY <1>2 DEF Frame
  <2>3. waited' = waited
    BY <1>10, <1>13
  <2> HIDE DEF f
  <2> QED BY <1>2, <1>8, <1>9, <2>1, <2>2, <2>3 DEF Since
<1>14. CASE GrabNew /\ Silently(0)
  <2> DEFINE f == [Pass EXCEPT !.fresh = TRUE]
  <2>1. Become(f) /\ Top.pc = "size"
    BY <1>14 DEF GrabNew, At
  <2>2. f.slot = Top.slot /\ f.asked = Top.asked /\ f.pc = "pass"
    BY <1>2 DEF Pass, Frame
  <2>3. waited' = waited
    BY <1>10, <1>14
  <2> HIDE DEF f
  <2> QED BY <1>2, <1>8, <1>9, <2>1, <2>2, <2>3 DEF Since
<1>15. CASE PassBegin /\ Silently(0)
  <2> DEFINE f == [Top EXCEPT !.pc = "loop", !.reader = m_cdda.serial,
                              !.lba = 0, !.nRead = 0, !.buf = Zeros]
  <2>1. Become(f) /\ Top.pc = "pass"
    BY <1>15 DEF PassBegin, At
  <2>2. f.slot = Top.slot /\ f.asked = Top.asked /\ f.pc = "loop" /\ f.nRead = 0
    BY <1>2 DEF Frame
  <2>3. waited' = waited
    BY <1>10, <1>15
  <2>4. 0 % ProgressEvery = 0
    BY <1>3
  <2> HIDE DEF f
  <2> QED BY <1>2, <1>8, <1>9, <2>1, <2>2, <2>3, <2>4 DEF Since
<1>16. CASE PassLoop /\ Silently(0)
  <2> DEFINE f == IF Due = {}
                  THEN [Top EXCEPT !.pc = "yield", !.next = "passed"]
                  ELSE IF Top.nRead % ProgressEvery = 0
                  THEN [Top EXCEPT !.pc = "yield", !.next = "asked", !.lba = Min(Due)]
                  ELSE [Top EXCEPT !.pc = "read", !.lba = Min(Due)]
  <2>1. Become(f) /\ Top.pc = "loop"
    BY <1>16 DEF PassLoop, At
  <2>2. /\ f.slot = Top.slot /\ f.asked = Top.asked /\ f.nRead = Top.nRead
        /\ f.pc = "yield" \/ (f.pc = "read" /\ f.nRead % ProgressEvery # 0)
    BY <1>2 DEF Frame
  <2>3. waited' = waited
    BY <1>10, <1>16
  <2> HIDE DEF f
  <2> QED BY <1>2, <1>8, <1>9, <2>1, <2>2, <2>3 DEF Since
<1>17. ASSUME Top.pc \in {"passed", "save"}, Become(NextPass(Top)), waited' = waited
       PROVE  AbortInv'
  <2> DEFINE f == NextPass(Top)
  <2>1. f.slot = Top.slot /\ f.asked = Top.asked /\ f.pc \in {"pass", "done"}
    BY <1>2 DEF NextPass, Frame
  <2>2. Become(f)
    BY <1>17
  <2> HIDE DEF f
  <2> QED BY <1>2, <1>8, <1>9, <1>17, <2>1, <2>2 DEF Since
<1>19. CASE PassEnd /\ Silently(0)
  <2> DEFINE f == [Top EXCEPT !.pc = "save"]
  <2>1. Top.pc = "passed" /\ (Become(f) \/ Become(NextPass(Top)))
    BY <1>19 DEF PassEnd, At, Goto
  <2>2. f.slot = Top.slot /\ f.asked = Top.asked /\ f.pc = "save"
    BY <1>2 DEF Frame
  <2>3. waited' = waited
    BY <1>10, <1>19
  <2> HIDE DEF f
  <2>4. CASE Become(f)
    BY <1>2, <1>8, <1>9, <2>1, <2>2, <2>3, <2>4 DEF Since
  <2> QED BY <1>17, <2>1, <2>3, <2>4
<1>20. CASE SaveEnd /\ Silently(0)
  BY <1>10, <1>17, <1>20 DEF SaveEnd, At
<1>18. CASE (\E audio \in Data : ReadAudio(audio)) /\ Silently(1)
  <2>1. PICK audio \in Data : ReadAudio(audio)
    BY <1>18
  <2> DEFINE f == [Top EXCEPT !.pc = "loop", !.lba = @ + 1, !.nRead = @ + 1,
                              !.buf = audio]
  <2>2. Become(f) /\ Top.pc = "read" /\ Top.slot = "Grab"
    BY <1>2, <2>1 DEF ReadAudio, At
  <2>3. /\ f.slot = "Grab" /\ f.asked = Top.asked /\ f.pc = "loop"
        /\ f.nRead = Top.nRead + 1 /\ Top.nRead \in Nat
    BY <1>2, <2>2 DEF Frame
  <2>4. waited' = waited + 1
    BY <1>6, <1>18 DEF Silently, Count
  <2> HIDE DEF f
  <2>5. ~Top.asked
    BY <1>2, <2>2 DEF GrabInv
  <2>6. CancelPosted /\ waited <= Top.nRead % ProgressEvery
    BY <1>9, <2>2, <2>5 DEF Since
  <2>7. /\ Top.nRead % ProgressEvery \in Nat /\ Top.nRead % ProgressEvery < ProgressEvery
        /\ \/ f.nRead % ProgressEvery = 0
           \/ f.nRead % ProgressEvery = (Top.nRead % ProgressEvery) + 1
    BY <1>3, <2>3, NextRemainder
  <2> DEFINE r == Top.nRead % ProgressEvery
             s == f.nRead % ProgressEvery
  <2>8. r \in Nat /\ r < ProgressEvery /\ (s = 0 \/ s = r + 1) /\ waited <= r
    BY <2>6, <2>7
  <2> HIDE DEF r, s
  <2>9. waited + 1 \in 0..ProgressEvery /\ (s = 0 \/ waited + 1 <= s)
    BY <1>3, <1>7, <2>8
  <2>10. Since(f, CancelPosted, waited')
    BY <2>3, <2>4, <2>6, <2>9 DEF Since, s
  <2>11. stack' = <<f>>
    BY <1>5, <1>6, <2>2
  <2>12. Grabbing(stack') /\ DOMAIN stack' = {1} /\ stack'[1] = f
    BY <2>3, <2>11 DEF Grabbing
  <2> QED BY <1>4, <2>4, <2>9, <2>10, <2>12 DEF AbortInv
<1> QED BY <1>11, <1>12, <1>13, <1>14, <1>15, <1>16, <1>18, <1>19, <1>20

LEMMA AbortKept ==
  ASSUME WindowInv, WindowNext
  PROVE  AbortInv'
<1>1. CASE \/ OnGrab \/ OnEncode \/ OnAbort \/ OnEject
           \/ (\E dev \in Devices : OnDevice(dev))
           \/ OnTocChange \/ Close \/ Finish
  BY <1>1, ClickAbortInv
<1>2. CASE Deliver
  BY <1>2, DeliverAbortInv
<1>3. CASE TimerPolls \/ DiscChanges
  BY <1>3, OutsideAbortInv
<1>4. CASE Resumes
  BY <1>4, GrabAbortInv
<1>5. CASE SlotRuns
  <2>1. CASE NewToc
    BY <2>1, OtherSlotsAbortInv DEF NewToc
  <2>2. CASE /\ \/ PollDisc \/ OpenedDisc \/ RefreshLock \/ RefreshStatus \/ RefreshOffline
                \/ Throw \/ RefreshToc \/ GrabEnd \/ EncodeChunk \/ EncodeEnd
             /\ Silently(0)
    BY <2>2, OtherSlotsAbortInv DEF Silently, queues
  <2>3. CASE \/ /\ GrabLoad \/ GrabToc \/ GrabNew \/ PassBegin \/ PassLoop \/ PassEnd
                   \/ SaveEnd
                /\ Silently(0)
             \/ (\E audio \in Data : ReadAudio(audio)) /\ Silently(1)
    BY <2>3, GrabAbortInv
  <2> QED BY <1>5, <2>1, <2>2, <2>3 DEF SlotRuns
<1> QED BY <1>1, <1>2, <1>3, <1>4, <1>5 DEF WindowNext

-----------------------------------------------------------------------------
LEMMA WindowInitHolds == WindowInit => WindowInv
<1> SUFFICES ASSUME WindowInit PROVE WindowInv
  OBVIOUS
<1>1. IInv
  BY InitHolds DEF WindowInit
<1>2. Posted
  <2>1. [slot |-> "ChangeDevice", arg |-> device] \in Posts
    BY WindowAssumption DEF WindowInit, Posts
  <2> QED BY <2>1 DEF WindowInit, Posted
<1>3. Seen
  BY WindowAssumption DEF WindowInit, Init, Seen, Newest, Tags
<1>4. AbortInv
  BY DEF WindowInit, AbortInv
<1> QED BY <1>1, <1>2, <1>3, <1>4 DEF WindowInv

LEMMA WindowNextKeeps == WindowInv /\ [WindowNext]_windowVars => WindowInv' /\ [Next]_vars
<1> SUFFICES ASSUME WindowInv, [WindowNext]_windowVars PROVE WindowInv' /\ [Next]_vars
  OBVIOUS
<1>1. CASE WindowNext
  <2>1. [Next]_vars
    BY <1>1, StepsOfWorker DEF WindowInv
  <2>2. IInv'
    BY <2>1, NextKeeps DEF WindowInv
  <2>3. m_tags' \in Tags
    BY <2>2 DEF IInv, CallInv, TypeOK
  <2> QED BY <1>1, <2>1, <2>2, <2>3, PostedKept, SeenKept, AbortKept DEF WindowInv
<1>2. CASE UNCHANGED windowVars
  <2>1. UNCHANGED vars /\ UNCHANGED <<toWorker, toWindow, shown, m_tags, stack, waited>>
    BY <1>2 DEF windowVars, vars, worker, queues, window
  <2>2. IInv'
    BY <2>1, NextKeeps DEF WindowInv
  <2> QED BY <2>1, <2>2 DEF WindowInv, Posted, Seen, Newest, AbortInv, CancelPosted
<1> QED BY <1>1, <1>2

-----------------------------------------------------------------------------
\* With its window around it the worker does nothing it would not do alone:
\* every theorem about CddaWorker's Spec holds of the composition.
THEOREM WorkerInWindow == WindowSpec => Spec
<1>1. WindowInit => Init
  BY DEF WindowInit
<1> QED BY <1>1, WindowInitHolds, WindowNextKeeps, PTL DEF WindowSpec, Spec

\* When the window has seen all messages it shows the worker's tags, and the
\* track table has the rows of those tags (MainWindow.cc:135 and
\* TrackTableModel.cc:27), whatever was posted or thrown in between.
THEOREM WindowShowsWorkers == WindowSpec => []ShownIsWorkers
<1>1. WindowInv => ShownIsWorkers
  BY DEF WindowInv, Seen, Newest, ShownIsWorkers
<1> QED BY <1>1, WindowInitHolds, WindowNextKeeps, PTL DEF WindowSpec

\* Abort during a grab: not more than ProgressEvery sectors are read after the
\* click (sectorDb.cc:298 asks every 256 reads), for every number of sectors
\* and whatever was posted before the Cancel.
THEOREM AbortIsInTime == WindowSpec => []AbortIsPrompt
<1>1. WindowInv => AbortIsPrompt
  BY WorkerAssumption DEF WindowInv, AbortInv, AbortIsPrompt
<1> QED BY <1>1, WindowInitHolds, WindowNextKeeps, PTL DEF WindowSpec
=============================================================================
