-------------------------------- MODULE Window --------------------------------
(***************************************************************************)
(* MainWindow and the worker's thread together.  They share nothing but    *)
(* two queues of signals: what the buttons and the device box ask for goes *)
(* to the worker, with the base name of the tags the window shows at that  *)
(* moment; the tags of a new disc come back.  The worker's thread takes    *)
(* calls from its queue when it is idle or in processEvents(), in order.   *)
(* Closing the window quits the thread's event loop and waits for it.      *)
(*                                                                         *)
(* Labels, progress and status messages are left out.  waited is a history *)
(* variable: the sectors read since Abort was clicked during a grab.       *)
(***************************************************************************)
EXTENDS CddaWorker

CONSTANTS
  NrTracks,   \* tracks in the tags of a disc
  FirstDevice \* the first that GetDevices finds

ASSUME WindowAssumption ==
  /\ FirstDevice \in Devices
  /\ NrTracks \in [Tags -> Nat]
  /\ NrTracks[Untagged] = 0
  /\ Tags \subseteq Bases

VARIABLES
  toWorker, \* the thread's event queue: slots to call, with their argument
  toWindow, \* tags the window has not seen yet
  device,   \* what the device box shows
  shown,    \* m_tags; m_trackTable's tracks and the rows its view has
  closing,  \* the window is being destroyed and waits
  gone,     \* the thread has finished
  waited

NoAbort == -1

queues     == <<toWorker, toWindow>>
window     == <<device, shown, closing>>
windowVars == <<vars, queues, window, gone, waited>>

-----------------------------------------------------------------------------
\* Mutated forms, used only to show that the properties depend on the code.

\* The thread does not end before the window has seen all tags.
Leaves_WhenSeen == closing /\ toWindow = << >>

\* processEvents() leaves calls in the queue.
NothingPosted_Any == TRUE

\* The rows of the old disc stay in the view.
SetTracks_KeepsRows(s, tags) ==
  [tags |-> tags, rows |-> NrTracks[tags], view |-> s.view + NrTracks[tags]]

-----------------------------------------------------------------------------
\* The constructor and StartCddaThread: the first call is that for the device
\* the box shows.
WindowInit ==
  /\ Init
  /\ device = FirstDevice
  /\ toWorker = <<[slot |-> "ChangeDevice", arg |-> device]>>
  /\ toWindow = << >>
  /\ shown = [tags |-> Untagged, rows |-> 0, view |-> 0]
  /\ closing = FALSE /\ gone = FALSE
  /\ waited = NoAbort

\* BaseName: artist, title and UPC, or the id of tags that have none.
BaseName == shown.tags

Click(slot, arg) ==
  /\ ~closing
  /\ calls + Len(toWorker) < MaxCalls
  /\ toWorker' = Append(toWorker, [slot |-> slot, arg |-> arg])
  /\ UNCHANGED <<vars, toWindow, shown, closing, gone>>

OnGrab   == Click("Grab", BaseName) /\ UNCHANGED <<device, waited>>
OnEncode == Click("Encode", BaseName) /\ UNCHANGED <<device, waited>>
OnEject  == Click("Eject", None) /\ UNCHANGED <<device, waited>>

Grabbing(slots) == \E i \in DOMAIN slots : slots[i].slot = "Grab"

OnAbort ==
  /\ Click("Cancel", None)
  /\ waited' = IF waited = NoAbort /\ Grabbing(stack) THEN 0 ELSE waited
  /\ UNCHANGED device

OnDevice(dev) ==
  /\ dev # device
  /\ device' = dev
  /\ Click("ChangeDevice", dev)
  /\ UNCHANGED waited

\* TrackTableModel::SetTracks takes all old rows from the view and gives it
\* the new ones.
SetTracks(s, tags) ==
  [tags |-> tags, rows |-> NrTracks[tags],
   view |-> s.view - s.rows + NrTracks[tags]]

OnTocChange ==
  /\ ~closing
  /\ toWindow # << >>
  /\ shown' = SetTracks(shown, Head(toWindow))
  /\ toWindow' = Tail(toWindow)
  /\ UNCHANGED <<vars, toWorker, device, closing, gone, waited>>

\* ~MainWindow: quit() and wait().
Close ==
  /\ ~closing
  /\ closing' = TRUE
  /\ UNCHANGED <<vars, queues, device, shown, gone, waited>>

-----------------------------------------------------------------------------
\* The worker's thread.

\* n more sectors have been read.
Count(n) ==
  waited' = IF waited # NoAbort /\ Grabbing(stack') THEN waited + n ELSE NoAbort

\* The next call of the queue.
Deliver ==
  /\ ~gone
  /\ toWorker # << >>
  /\ LET call == Head(toWorker)
     IN  \/ call.slot = "ChangeDevice" /\ ChangeDevice(call.arg)
         \/ call.slot = "Cancel" /\ Cancel
         \/ call.slot = "Grab" /\ (Grab(call.arg) \/ JobRefused)
         \/ call.slot = "Encode" /\ (Encode(call.arg) \/ JobRefused)
         \/ call.slot = "Eject" /\ Eject
  /\ toWorker' = Tail(toWorker)
  /\ Count(0)
  /\ UNCHANGED <<toWindow, window, gone>>

\* NewToc is emitted at the end of RefreshToc, not when it throws.
NewToc ==
  /\ (RefreshToc /\ TocRead \in cache) \/ RefreshQuery
  /\ toWindow' = Append(toWindow, m_tags')
  /\ Count(0)
  /\ UNCHANGED <<toWorker, window, gone>>

Silently(n) == Count(n) /\ UNCHANGED <<queues, window, gone>>

SlotRuns ==
  \/ NewToc
  \/ (PollDisc \/ OpenedDisc \/ RefreshLock \/ RefreshStatus \/ RefreshOffline
      \/ Throw \/ (RefreshToc /\ TocRead \notin cache)) /\ Silently(0)
  \/ (GrabLoad \/ GrabToc \/ GrabNew \/ PassBegin \/ PassLoop \/ PassEnd
      \/ SaveEnd \/ GrabEnd) /\ Silently(0)
  \/ (\E audio \in Data : ReadAudio(audio)) /\ Silently(1)
  \/ (EncodeChunk \/ EncodeEnd) /\ Silently(0)

TimerPolls == ~gone /\ Poll /\ Silently(0)

DiscChanges ==
  \E dev \in Devices, disc \in Discs \cup {None} : Swap(dev, disc) /\ Silently(0)

\* processEvents() returns when nothing is left in the queue.
NothingPosted == toWorker = << >>
Resumes       == NothingPosted /\ Resume /\ Silently(0)

\* The event loop ends between two slots; what is still posted is dropped.
Leaves == closing
Finish ==
  /\ ~gone
  /\ stack = << >>
  /\ Leaves
  /\ gone' = TRUE
  /\ UNCHANGED <<vars, queues, window, waited>>

WindowNext ==
  \/ OnGrab \/ OnEncode \/ OnAbort \/ OnEject
  \/ \E dev \in Devices : OnDevice(dev)
  \/ OnTocChange \/ Close
  \/ Deliver \/ SlotRuns \/ TimerPolls \/ DiscChanges \/ Resumes \/ Finish

\* The thread runs on: a slot to its end, and, although Poll's timer comes
\* again and again in between, the posted calls, the suspended job and the
\* event loop's look at its exit flag.
WindowSpec ==
  /\ WindowInit /\ [][WindowNext]_windowVars
  /\ WF_windowVars(SlotRuns)
  /\ SF_windowVars(Deliver) /\ SF_windowVars(Resumes) /\ SF_windowVars(Finish)

-----------------------------------------------------------------------------
\* Closing the window comes to an end, whatever job runs, is suspended or is
\* still posted: the waiting window holds nothing the thread needs.
CloseEnds == closing ~> gone

\* When the window has seen all messages it shows the worker's tags, also
\* after exceptions and refused refreshes, and the rows of the track table are
\* those tags' tracks.
ShownIsWorkers ==
  /\ toWindow = << >> => shown.tags = m_tags
  /\ shown.view = shown.rows /\ shown.rows = NrTracks[shown.tags]

\* Abort during a grab: not more sectors are read than lie between two
\* progress calls, whatever calls were posted before it.
AbortIsPrompt == waited # NoAbort => waited <= ProgressEvery
=============================================================================
