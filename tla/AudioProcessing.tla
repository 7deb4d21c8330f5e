-------------------------- MODULE AudioProcessing ---------------------------
(***************************************************************************)
(* WebRTC's audio processing module as zMeet drives it: zm_apm.cc over     *)
(* audio_processing_impl.cc over the far-end half of echo_canceller3.cc.   *)
(*                                                                         *)
(* A render thread brings far-end frames, a capture thread brings mic      *)
(* frames (zm_apm.h allows one of each; zMeet itself calls both from one   *)
(* queue).  Two mutexes, always taken in the order mutex_render_,          *)
(* mutex_capture_, guard the formats and the submodules; the far-end       *)
(* frames cross over in the canceller's render_transfer_queue_, a          *)
(* SwapQueue, without a lock.                                              *)
(*                                                                         *)
(* A far-end frame is its number; what a frame sounds like, and the        *)
(* submodules zMeet leaves off, are left out.                              *)
(***************************************************************************)
EXTENDS Naturals, Sequences

CONSTANTS
  MaxFrames,       \* bound: frames of each direction
  TransferSize,    \* kRenderTransferQueueSizeFrames (100 in the code)
  DefaultFormat,   \* ApmFormatState: 16 kHz mono
  StreamFormat,    \* what zm_apm_create was asked for: 48 kHz mono
  NoFrame

ASSUME SizesAssumption == MaxFrames \in Nat /\ TransferSize \in Nat \ {0}
\* EchoCanceller.swift always asks for 48 kHz, which is not the default.
ASSUME FormatAssumption == StreamFormat # DefaultFormat

VARIABLES
  users,           \* "oneQueue" (zMeet's use) or "twoThreads"
  mutexRender, mutexCapture,     \* who holds it, or "free"
  apiFormat,       \* formats_.api_format, one stream per direction
  echoStateKnown,  \* submodule_states_.echo_controller_enabled_
  canceller,       \* which EchoCanceller3 submodules_ holds, by number
  renderPc, capturePc,           \* where each thread is in its call
  processingConfig,              \* MaybeInitializeCapture's copy of apiFormat
  rendered, captured,            \* calls that returned
  statsQueue,      \* ApmStatsReporter's queue of one entry
  cachedStats,     \* ApmStatsReporter::cached_stats_
  stats,           \* ZMApm::stats: the capture frame they describe
  slots, numElements, nextWrite, nextRead, input, output, producer, consumer,
  received         \* the canceller's render_transfer_queue_

transferVars == <<slots, numElements, nextWrite, nextRead, input, output,
                  producer, consumer, received>>
moduleVars == <<apiFormat, echoStateKnown, canceller>>
statsVars == <<statsQueue, cachedStats, stats>>
renderVars == <<renderPc, rendered>>
captureVars == <<capturePc, processingConfig, captured>>
vars == <<users, mutexRender, mutexCapture, moduleVars, renderVars,
          captureVars, statsVars, transferVars>>

Frame == 1 .. MaxFrames
Format == {DefaultFormat, StreamFormat}
Streams == [capture : Format, render : Format]

\* The canceller's render_transfer_queue_.
Queue == INSTANCE SwapQueue WITH
  Message <- Frame, Size <- TransferSize, Nothing <- NoFrame

TypeOK ==
  /\ users \in {"oneQueue", "twoThreads"}
  /\ mutexRender \in {"free", "render", "capture"}
  /\ mutexCapture \in {"free", "render", "capture"}
  /\ apiFormat \in Streams
  /\ echoStateKnown \in BOOLEAN
  /\ canceller \in 1 .. 3
  /\ renderPc \in {"idle", "initialize", "insert", "inserting"}
  /\ capturePc \in {"idle", "lockRender", "initialize", "process", "drain",
                    "stats"}
  /\ processingConfig \in Streams
  /\ rendered \in 0 .. MaxFrames
  /\ captured \in 0 .. MaxFrames
  /\ statsQueue \in {<< >>} \cup {<<f>> : f \in Frame}
  /\ cachedStats \in Frame \cup {NoFrame}
  /\ stats \in Frame \cup {NoFrame}
  /\ Queue!TypeOK

\* zm_apm_create: the constructor initialized everything with the canceller
\* off, and ApplyConfig then created the canceller without telling
\* submodule_states_.
Init ==
  /\ users \in {"oneQueue", "twoThreads"}
  /\ mutexRender = "free"
  /\ mutexCapture = "free"
  /\ apiFormat = [capture |-> DefaultFormat, render |-> DefaultFormat]
  /\ echoStateKnown = FALSE
  /\ canceller = 1
  /\ renderPc = "idle"
  /\ capturePc = "idle"
  /\ processingConfig = apiFormat
  /\ rendered = 0
  /\ captured = 0
  /\ statsQueue = << >>
  /\ cachedStats = NoFrame
  /\ stats = NoFrame
  /\ Queue!Init

\* EchoAligner.process: one render call, then one capture call, never both.
MayRender == users = "oneQueue" => capturePc = "idle" /\ rendered = captured
MayCapture == users = "oneQueue" => renderPc = "idle" /\ rendered > captured

-----------------------------------------------------------------------------
(* InitializeLocked, with both mutexes held.                                *)

\* SubmoduleStates::Update compares with what it saw last; the constructor
\* already used up first_update_.
SubmodulesChanged == ~echoStateKnown
UpdateActiveSubmoduleStates == echoStateKnown' = TRUE

\* A new EchoCanceller3 has a new, empty transfer queue: what was queued is
\* gone.
InitializeEchoController ==
  /\ canceller' = canceller + 1
  /\ slots' = [s \in DOMAIN slots |-> NoFrame]
  /\ numElements' = 0
  /\ nextWrite' = 0
  /\ nextRead' = 0
  /\ input' = NoFrame
  /\ output' = NoFrame
  /\ UNCHANGED <<producer, consumer, received>>

\* Mutant: submodule_states_ are left for the next capture call.
InitializeLockedOnly(config) ==
  /\ apiFormat' = config
  /\ InitializeEchoController
  /\ UNCHANGED echoStateKnown

InitializeLocked(config) ==
  /\ UpdateActiveSubmoduleStates
  /\ apiFormat' = config
  /\ InitializeEchoController

-----------------------------------------------------------------------------
(* zm_apm_process_reverse, all of it under mutex_render_.                   *)

ProcessReverseStream ==
  /\ renderPc = "idle" /\ rendered < MaxFrames /\ MayRender
  /\ mutexRender = "free"
  /\ mutexRender' = "render"
  /\ renderPc' = IF apiFormat.render = StreamFormat THEN "insert"
                 ELSE "initialize"
  /\ UNCHANGED <<users, mutexCapture, moduleVars, rendered, captureVars,
                 statsVars, transferVars>>

\* The format differs: take mutex_capture_ too, initialize, release it.
MaybeInitializeRender ==
  /\ renderPc = "initialize"
  /\ mutexCapture = "free"
  /\ InitializeLocked([apiFormat EXCEPT !.render = StreamFormat])
  /\ renderPc' = "insert"
  /\ UNCHANGED <<users, mutexRender, mutexCapture, rendered, captureVars,
                 statsVars>>

\* ProcessRenderStreamLocked reads submodule_states_ and hands the frame to
\* the canceller's RenderWriter, which ignores the result of Insert.
AnalyzeRender ==
  /\ renderPc = "insert"
  /\ Queue!InsertLoad(rendered + 1)
  /\ renderPc' = "inserting"
  /\ UNCHANGED <<users, mutexRender, mutexCapture, moduleVars, rendered,
                 captureVars, statsVars>>

RenderWriterInsert ==
  /\ renderPc = "inserting"
  /\ \/ Queue!InsertSwap
     \/ Queue!InsertAdd
     \/ Queue!InsertAdvance
  /\ UNCHANGED <<users, mutexRender, mutexCapture, moduleVars, renderVars,
                 captureVars, statsVars>>

ReverseReturns ==
  /\ renderPc = "inserting" /\ producer = "idle"
  /\ mutexRender' = "free"
  /\ renderPc' = "idle"
  /\ rendered' = rendered + 1
  /\ UNCHANGED <<users, mutexCapture, moduleVars, captureVars, statsVars,
                 transferVars>>

-----------------------------------------------------------------------------
(* zm_apm_process_capture.                                                  *)

\* Mutant: the inner scope that releases the lock is gone.
MaybeInitializeCaptureHoldingLock ==
  /\ capturePc = "idle" /\ captured < MaxFrames /\ MayCapture
  /\ mutexCapture = "free"
  /\ processingConfig' = apiFormat
  /\ IF SubmodulesChanged \/ apiFormat.capture # StreamFormat
     THEN capturePc' = "lockRender" /\ mutexCapture' = "capture"
     ELSE capturePc' = "process" /\ UNCHANGED mutexCapture
  /\ UpdateActiveSubmoduleStates
  /\ UNCHANGED <<users, mutexRender, apiFormat, canceller, renderVars,
                 captured, statsVars, transferVars>>

\* mutex_capture_ is taken, and released at once, to look at the formats and
\* to bring submodule_states_ up to date.
MaybeInitializeCapture ==
  /\ capturePc = "idle" /\ captured < MaxFrames /\ MayCapture
  /\ mutexCapture = "free"
  /\ processingConfig' = apiFormat
  /\ capturePc' = IF SubmodulesChanged \/ apiFormat.capture # StreamFormat
                  THEN "lockRender" ELSE "process"
  /\ UpdateActiveSubmoduleStates
  /\ UNCHANGED <<users, mutexRender, mutexCapture, apiFormat, canceller,
                 renderVars, captured, statsVars, transferVars>>

\* Mutant: the render lock is not taken.
ReinitializationUnlocked ==
  /\ capturePc = "lockRender"
  /\ capturePc' = "initialize"
  /\ UNCHANGED <<users, mutexRender, mutexCapture, moduleVars, renderVars,
                 processingConfig, captured, statsVars, transferVars>>

ReinitializationLocksRender ==
  /\ capturePc = "lockRender"
  /\ mutexRender = "free"
  /\ mutexRender' = "capture"
  /\ capturePc' = "initialize"
  /\ UNCHANGED <<users, mutexCapture, moduleVars, renderVars,
                 processingConfig, captured, statsVars, transferVars>>

\* Mutant: the copy made before the locks were released is used.
ReinitializeCaptureFromCopy ==
  /\ capturePc = "initialize"
  /\ mutexCapture = "free"
  /\ InitializeLocked([processingConfig EXCEPT !.capture = StreamFormat])
  /\ processingConfig' = apiFormat'
  /\ mutexRender' = "free"
  /\ capturePc' = "process"
  /\ UNCHANGED <<users, mutexCapture, renderVars, captured, statsVars>>

\* The render format is read again: it may have changed while no mutex was
\* held.
ReinitializeCapture ==
  /\ capturePc = "initialize"
  /\ mutexCapture = "free"
  /\ InitializeLocked([apiFormat EXCEPT !.capture = StreamFormat])
  /\ processingConfig' = apiFormat'
  /\ mutexRender' = "free"
  /\ capturePc' = "process"
  /\ UNCHANGED <<users, mutexCapture, renderVars, captured, statsVars>>

ProcessStream ==
  /\ capturePc = "process"
  /\ mutexCapture = "free"
  /\ mutexCapture' = "capture"
  /\ capturePc' = "drain"
  /\ UNCHANGED <<users, mutexRender, moduleVars, renderVars,
                 processingConfig, captured, statsVars, transferVars>>

\* EchoCanceller3::ProcessCapture first moves every queued far-end frame to
\* the canceller.
EmptyRenderQueue ==
  /\ capturePc = "drain"
  /\ \/ Queue!RemoveLoad
     \/ Queue!RemoveSwap
     \/ Queue!RemoveSubtract
     \/ Queue!RemoveAdvance
  /\ UNCHANGED <<users, mutexRender, mutexCapture, moduleVars, renderVars,
                 captureVars, statsVars>>

\* The frame is processed and its statistics are queued, unless the one-slot
\* queue is full.
UpdateStatistics ==
  /\ capturePc = "drain" /\ consumer = "idle" /\ numElements = 0
  /\ statsQueue' = IF statsQueue = << >> THEN <<captured + 1>> ELSE statsQueue
  /\ mutexCapture' = "free"
  /\ capturePc' = "stats"
  /\ UNCHANGED <<users, mutexRender, moduleVars, renderVars,
                 processingConfig, captured, cachedStats, stats,
                 transferVars>>

\* Mutant: the cache is read before the queue is emptied into it.
GetStatisticsStale ==
  /\ capturePc = "stats"
  /\ cachedStats' = IF statsQueue = << >> THEN cachedStats
                    ELSE Head(statsQueue)
  /\ statsQueue' = << >>
  /\ stats' = cachedStats
  /\ captured' = captured + 1
  /\ capturePc' = "idle"
  /\ UNCHANGED <<users, mutexRender, mutexCapture, moduleVars, renderVars,
                 processingConfig, transferVars>>

\* zm_apm_process_capture takes the statistics over on every frame.
GetStatistics ==
  /\ capturePc = "stats"
  /\ cachedStats' = IF statsQueue = << >> THEN cachedStats
                    ELSE Head(statsQueue)
  /\ statsQueue' = << >>
  /\ stats' = cachedStats'
  /\ captured' = captured + 1
  /\ capturePc' = "idle"
  /\ UNCHANGED <<users, mutexRender, mutexCapture, moduleVars, renderVars,
                 processingConfig, transferVars>>

-----------------------------------------------------------------------------
RenderStep == MaybeInitializeRender \/ AnalyzeRender \/ RenderWriterInsert
                \/ ReverseReturns
CaptureStep == ReinitializationLocksRender \/ ReinitializeCapture
                 \/ ProcessStream \/ EmptyRenderQueue \/ UpdateStatistics
                 \/ GetStatistics

Next == ProcessReverseStream \/ MaybeInitializeCapture \/ RenderStep
          \/ CaptureStep

\* A call that began goes on; nothing makes anyone begin one.
Fairness == WF_vars(RenderStep) /\ WF_vars(CaptureStep)

Spec == Init /\ [][Next]_vars /\ Fairness

-----------------------------------------------------------------------------
(* Properties                                                               *)

(* Whatever the two threads do, and although the canceller and its queue   *)
(* are replaced under them, far-end frames reach the canceller through a   *)
(* bounded first-in first-out queue: none twice, none out of order, none   *)
(* from a canceller that is gone (swap_queue.h under AnalyzeRender,        *)
(* EmptyRenderQueue and InitializeEchoController).                         *)
ImplementsRenderTransfer == Queue!ImplementsBoundedQueue

(* Once a call of each direction has returned, the canceller is never      *)
(* replaced again, so it keeps what it has learnt of the echo path and no  *)
(* queued frame is thrown away (MaybeInitializeRender and                  *)
(* MaybeInitializeCapture decide under one lock what they do under two).   *)
CancellerSurvives ==
  [][rendered > 0 /\ captured > 0 => canceller' = canceller]_vars

(* submodule_states_ is written under mutex_capture_ alone in              *)
(* MaybeInitializeCapture and read under mutex_render_ alone in            *)
(* ProcessRenderStreamLocked; still, it never changes under a render call  *)
(* that reads it, because the first render frame already brought it up to  *)
(* date.                                                                   *)
SubmoduleStatesAreStable ==
  [][echoStateKnown' # echoStateKnown
       => renderPc \notin {"insert", "inserting"}]_vars

(* Between capture calls ZMApm::stats are those of the latest capture      *)
(* frame (zm_apm.h: "as of the latest zm_apm_process_capture call"),       *)
(* although the queue they come through keeps the oldest unread entry.     *)
StatsAreLatest ==
  capturePc = "idle" /\ captured > 0 => stats = captured

(* Used as zMeet uses it, the canceller has just been given the far-end    *)
(* frame that belongs to the capture frame it processes ("AEC3 needs these *)
(* calls strictly paired", EchoCanceller.swift).  Only the first far-end   *)
(* frame never arrives: the first capture call replaces the canceller that *)
(* holds it.                                                               *)
FramesArePaired ==
  users = "oneQueue" /\ capturePc = "stats"
    => received = IF captured = 0 THEN NoFrame ELSE captured + 1

(* What the capture side hands on belongs to the frame it is handed on     *)
(* with: the statistics, and the far-end frame of the canceller, taken     *)
(* from a slot that the render thread is not writing.                      *)
CaptureIsUpToDate ==
  /\ TypeOK
  /\ StatsAreLatest
  /\ FramesArePaired
  /\ Queue!SlotsAreNotShared

(* Every call returns: the two mutexes never leave both threads waiting.   *)
CallsReturn ==
  /\ renderPc # "idle" ~> renderPc = "idle"
  /\ capturePc # "idle" ~> capturePc = "idle"
=============================================================================
