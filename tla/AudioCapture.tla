---------------------------- MODULE AudioCapture ----------------------------
(***************************************************************************)
(* The recorder itself (SCKAudioRecorder): what RecordingLifecycle calls   *)
(* recorder.start() and recorder.stop(), thread by thread.                 *)
(*                                                                         *)
(*  - the capture queue, a serial FIFO queue: the samples the stream       *)
(*    delivers, the writes of the mix, failure reports and the pieces of   *)
(*    start() and stop() that touch the shared state are jobs on it;       *)
(*  - the start Task, which sets up the stream and may still be at it when *)
(*    stop() cancels it;                                                   *)
(*  - the render thread, whose tap hands blocks of the mix to the queue,   *)
(*    at most Capacity of them at a time (MixWriteBackpressure);           *)
(*  - the stream and its delegate, on threads of their own;                *)
(*  - stop(), called by the user's stop and by the failure handler, both   *)
(*    of which may be in it at once.                                       *)
(*                                                                         *)
(* A sample is a number.  It goes from the stream through the echo         *)
(* pipeline, which may hold it, and a player's queue into a block of the   *)
(* mix, which goes into the file: the variables below are where it can be. *)
(***************************************************************************)
EXTENDS Integers, Sequences, FiniteSets, FiniteSetsExt

CONSTANTS
  MaxRecordings,     \* bound: recordings ever started
  MaxSamples,        \* bound: samples the stream delivers to the first recording
  MaxLaterSamples,   \* bound: samples it delivers to each later one
  Capacity,          \* blocks of the mix that may wait for the disk; 64 in the code
  EngineMayStop,     \* the audio engine may stop by itself
  DiskMayFail,       \* writing a block of the mix, or a track, may fail
  CallbackMayLag     \* the stream's death may be reported after the next start

ASSUME BoundsAssumption == /\ MaxRecordings \in Nat
                           /\ MaxSamples \in Nat /\ MaxLaterSamples \in Nat
                           /\ Capacity \in Nat \ {0}

Samples == 1..MaxSamples
Players == {"system", "mic"}
Callers == {"user", "handler"}     \* who calls stop()

VARIABLES
  recording,        \* how many recordings have been started: the current one
  phase,            \* idle, starting (in start()), started (start() has returned)
  queue,            \* jobs on the capture queue: <<what, of what>>
  isStopping,
  didReportFailure,
  reported,         \* failures delivered, as <<recording it was delivered to, recording it is of>>
  startTask,        \* none, content, starting, aborting, done
  cancelled,        \* startTask.cancel() was called
  stream,           \* is self.stream set
  capture,          \* the SCStream: off, on, dead
  died,             \* recordings whose stream died, the delegate not told yet
  delivered,        \* samples the stream has put on the queue
  unreadable,       \* history: samples that could not be read or converted
  echo,             \* is the echo pipeline up
  echoHeld,         \* mic samples it holds
  tracks,           \* samples written to mic.m4a and system.m4a
  trackErrors,      \* history: samples whose track could not be opened or written
  engine,           \* off, on, stopped (by itself, nodes still attached)
  scheduled,        \* samples in each player's queue
  inHand,           \* what the block the tap was admitted with and has not enqueued is of
  pending, dropped, \* mixWriteBackpressure
  file,             \* samples in the mix
  writeErrors,      \* samples whose block could not be written
  call,             \* where each caller of stop() is
  gate,             \* its DrainGate: players left, is the continuation unused
  resumes,          \* how often that continuation was resumed
  drained,          \* did its players drain in time
  diagnostics       \* the dropped blocks it returned

startVars    == <<startTask, cancelled, stream>>
streamVars   == <<capture, died, delivered, unreadable>>
queueVars    == <<isStopping, didReportFailure, reported>>
echoVars     == <<echo, echoHeld, tracks, trackErrors>>
engineVars   == <<engine, scheduled>>
mixVars      == <<inHand, pending, dropped, file, writeErrors>>
stopVars     == <<call, gate, resumes, drained, diagnostics>>
vars == <<recording, phase, queue, queueVars, startVars, streamVars, echoVars,
          engineVars, mixVars, stopVars>>

enqueue(what, of) == queue' = Append(queue, <<what, of>>)

\* The next job on the queue is a `what`.
Serving(what) == queue # << >> /\ Head(queue)[1] = what
argument      == Head(queue)[2]

InStop(c) == call[c] \notin {"idle", "returned"}

Goes(c, to) == call' = [call EXCEPT ![c] = to]

-----------------------------------------------------------------------------
(***************************************************************************)
(* MixWriteBackpressure.                                                   *)
(***************************************************************************)

atCapacity == pending >= Capacity

\* Mutant: the write releases on its way out and in its error path, unfloored.
ReleaseTwice == pending' = pending - 2

releaseSlot == pending' = Max({0, pending - 1})

\* Mutant: such a block gives its slot back but is not counted.
DropUncounted == releaseSlot /\ UNCHANGED dropped

releaseDropping == releaseSlot /\ dropped' = dropped + 1

resetBackpressure == pending' = 0 /\ dropped' = 0

-----------------------------------------------------------------------------
(***************************************************************************)
(* start().                                                                *)
(***************************************************************************)

\* SessionManager starts a recording when none is on and no stop() is running.
\* start() first waits for its turn on the queue.
Start ==
  /\ recording < MaxRecordings
  /\ \/ phase = "idle"
     \/ phase = "started" /\ \E c \in Callers : call[c] = "returned"
  /\ \A c \in Callers : ~InStop(c)
  /\ CallbackMayLag \/ died = {}
  /\ phase' = "starting"
  /\ recording' = recording + 1
  /\ enqueue("reset", recording')
  /\ call' = [c \in Callers |-> "idle"]
  /\ UNCHANGED <<queueVars, startVars, streamVars, echoVars, engineVars, mixVars,
                 gate, resumes, drained, diagnostics>>

\* Mutant: the next recording inherits that a failure was reported.
ResetKeepsReport == isStopping' = FALSE /\ UNCHANGED didReportFailure

resetFlags == didReportFailure' = FALSE /\ isStopping' = FALSE

ResetRuns ==
  /\ Serving("reset")
  /\ queue' = Tail(queue)
  /\ resetFlags
  /\ phase' = "setup"
  /\ UNCHANGED <<recording, reported, startVars, streamVars, echoVars, engineVars,
                 mixVars, stopVars>>

\* The file, the tap and the engine come up; the rest of start() cannot fail.
\* The echo pipeline may be off, or not come up.
StartEngine ==
  /\ phase = "setup"
  /\ phase' = "started"
  /\ resetBackpressure
  /\ engine' = "on" /\ scheduled' = [p \in Players |-> {}]
  /\ echo' \in BOOLEAN /\ echoHeld' = {} /\ tracks' = {} /\ trackErrors' = {}
  /\ startTask' = "content" /\ cancelled' = FALSE
  /\ capture' = "off" /\ delivered' = {} /\ unreadable' = {}
  /\ file' = {} /\ writeErrors' = {}
  /\ gate' = [c \in Callers |-> [left |-> {}, waiting |-> FALSE]]
  /\ resumes' = [c \in Callers |-> 0]
  /\ drained' = [c \in Callers |-> FALSE]
  /\ diagnostics' = [c \in Callers |-> 0]
  /\ UNCHANGED <<recording, queue, queueVars, stream, died, inHand, call>>

\* Opening the file or starting the engine throws: rollbackFailedStart.
StartFails ==
  /\ phase = "setup"
  /\ phase' = "idle"
  /\ resetBackpressure
  /\ engine' = "off" /\ scheduled' = [p \in Players |-> {}]
  /\ echo' = FALSE
  /\ UNCHANGED <<recording, queue, queueVars, startVars, streamVars, echoHeld, tracks,
                 trackErrors, inHand, file, writeErrors, stopVars>>

-----------------------------------------------------------------------------
(***************************************************************************)
(* The start Task: startStream, with what it throws reported.              *)
(***************************************************************************)

StartTaskThrows ==
  /\ startTask' = "done"
  /\ enqueue("report", recording)

\* SCShareableContent.current returned.  A cancelled Task gives up here, one
\* that goes on publishes the stream and starts it.
ContentArrives ==
  /\ startTask = "content"
  /\ \/ cancelled /\ startTask' = "done" /\ UNCHANGED <<queue, stream>>
     \/ ~cancelled /\ startTask' = "starting" /\ stream' = TRUE /\ UNCHANGED queue
     \/ StartTaskThrows /\ UNCHANGED stream
  /\ UNCHANGED <<recording, phase, queueVars, cancelled, streamVars, echoVars,
                 engineVars, mixVars, stopVars>>

\* startCapture returned or threw, in which case the delegate may be told as
\* well.  When it returned, a Task cancelled meanwhile stops the stream again.
afterStartCapture ==
  /\ startTask' = IF cancelled THEN "aborting" ELSE "done"
  /\ UNCHANGED <<queue, stream>>

CaptureStarts ==
  /\ startTask = "starting"
  /\ \/ capture' = "on" /\ afterStartCapture /\ UNCHANGED died
     \/ /\ StartTaskThrows /\ UNCHANGED <<capture, stream>>
        /\ died' \in {died, died \cup {recording}}
  /\ UNCHANGED <<recording, phase, queueVars, cancelled, delivered, unreadable,
                 echoVars, engineVars, mixVars, stopVars>>

\* ...whether or not that goes well.
StartAborted ==
  /\ startTask = "aborting"
  /\ startTask' = "done" /\ stream' = FALSE
  /\ capture' = IF capture = "on" THEN "off" ELSE capture
  /\ UNCHANGED <<recording, phase, queue, queueVars, cancelled, died, delivered,
                 unreadable, echoVars, engineVars, mixVars, stopVars>>

-----------------------------------------------------------------------------
(***************************************************************************)
(* The stream and its delegate.                                            *)
(***************************************************************************)

Deliver(n, kind) ==
  /\ capture = "on"
  /\ n \in Samples \ delivered
  /\ recording = 1 \/ n <= MaxLaterSamples
  /\ delivered' = delivered \cup {n}
  /\ enqueue(kind, n)
  /\ UNCHANGED <<recording, phase, queueVars, startVars, capture, died, unreadable,
                 echoVars, engineVars, mixVars, stopVars>>

StreamDies ==
  /\ capture = "on"
  /\ capture' = "dead" /\ died' = died \cup {recording}
  /\ UNCHANGED <<recording, phase, queue, queueVars, startVars, delivered, unreadable,
                 echoVars, engineVars, mixVars, stopVars>>

\* stream(_:didStopWithError:), on a thread of the system's.
DidStopWithError(r) ==
  /\ r \in died
  /\ died' = died \ {r}
  /\ enqueue("report", r)
  /\ UNCHANGED <<recording, phase, queueVars, startVars, capture, delivered, unreadable,
                 echoVars, engineVars, mixVars, stopVars>>

\* reportCaptureFailure, once it is its turn on the queue.
reportCaptureFailure(r) ==
  IF isStopping \/ didReportFailure
    THEN UNCHANGED <<didReportFailure, reported>>
    ELSE /\ didReportFailure' = TRUE
         /\ reported' = Append(reported, <<recording, r>>)

ReportRuns ==
  /\ Serving("report")
  /\ queue' = Tail(queue)
  /\ reportCaptureFailure(argument)
  /\ UNCHANGED <<recording, phase, isStopping, startVars, streamVars, echoVars,
                 engineVars, mixVars, stopVars>>

-----------------------------------------------------------------------------
(***************************************************************************)
(* Samples, on the queue: tracks, echo pipeline, players.                  *)
(***************************************************************************)

\* What of the two tracks' next buffers is not written: "a track-file failure
\* must never abort the recording", so errors are dropped (`try?`), and a file
\* that could not be opened takes nothing at all.
FailedTrackWrites(system, mic) ==
  IF DiskMayFail THEN {{}, system, mic, system \cup mic} ELSE {{}}

\* emitMic(mic) and the system sample's own write and schedule: each goes to its
\* track, if that can be written, and to its player in any case.
schedule(system, mic) ==
  /\ scheduled' = [scheduled EXCEPT !["system"] = @ \cup system, !["mic"] = @ \cup mic]
  /\ \E lost \in FailedTrackWrites(system, mic) :
       /\ tracks' = tracks \cup ((system \cup mic) \ lost)
       /\ trackErrors' = trackErrors \cup lost

\* What the echo pipeline lets go of when asked: nothing yet, or what it holds.
Releases(held) == {{}, held}

\* A sample buffer that is not valid, cannot be copied out of or does not
\* convert: its callback returns without a trace.
UnreadableSampleRuns ==
  /\ Serving("audio") \/ Serving("microphone")
  /\ queue' = Tail(queue)
  /\ unreadable' = unreadable \cup {argument}
  /\ UNCHANGED <<recording, phase, queueVars, startVars, capture, died, delivered,
                 echoVars, engineVars, mixVars, stopVars>>

SystemSampleRuns ==
  /\ Serving("audio")
  /\ queue' = Tail(queue)
  /\ \E cleaned \in Releases(echoHeld) :
       /\ schedule({argument}, cleaned)
       /\ echoHeld' = echoHeld \ cleaned
  /\ UNCHANGED <<recording, phase, queueVars, startVars, streamVars, echo, engine,
                 mixVars, stopVars>>

MicSampleRuns ==
  /\ Serving("microphone")
  /\ queue' = Tail(queue)
  /\ IF echo
       THEN \E cleaned \in Releases(echoHeld \cup {argument}) :
              /\ schedule({}, cleaned)
              /\ echoHeld' = (echoHeld \cup {argument}) \ cleaned
       ELSE schedule({}, {argument}) /\ UNCHANGED echoHeld
  /\ UNCHANGED <<recording, phase, queueVars, startVars, streamVars, echo, engine,
                 mixVars, stopVars>>

\* The echo poll, between two jobs of the queue.
EchoPoll ==
  /\ echo /\ echoHeld # {}
  /\ schedule({}, echoHeld) /\ echoHeld' = {}
  /\ UNCHANGED <<recording, phase, queue, queueVars, startVars, streamVars, echo,
                 engine, mixVars, stopVars>>

-----------------------------------------------------------------------------
(***************************************************************************)
(* The render thread.                                                      *)
(***************************************************************************)

\* A block of the mix with what some of the players had queued.  The tap asks
\* for a slot; past the cap the block is dropped and counted.
Render(ps) ==
  /\ engine = "on" /\ inHand = {}
  /\ \A p \in ps : scheduled[p] # {}
  /\ LET block == UNION {scheduled[p] : p \in ps}
     IN IF atCapacity
          THEN dropped' = dropped + 1 /\ UNCHANGED <<inHand, pending>>
          ELSE pending' = pending + 1 /\ inHand' = block /\ UNCHANGED dropped
  /\ scheduled' = [p \in Players |-> IF p \in ps THEN {} ELSE scheduled[p]]
  /\ UNCHANGED <<recording, phase, queue, queueVars, startVars, streamVars, echoVars,
                 engine, file, writeErrors, stopVars>>

TapEnqueues ==
  /\ inHand # {}
  /\ enqueue("write", inHand) /\ inHand' = {}
  /\ UNCHANGED <<recording, phase, queueVars, startVars, streamVars, echoVars,
                 engineVars, pending, dropped, file, writeErrors, stopVars>>

CopyFails ==
  /\ inHand # {}
  /\ releaseDropping /\ inHand' = {}
  /\ UNCHANGED <<recording, phase, queue, queueVars, startVars, streamVars, echoVars,
                 engineVars, file, writeErrors, stopVars>>

\* The block is in the file, or its write error in the log.
WriteRuns ==
  /\ Serving("write")
  /\ queue' = Tail(queue)
  /\ releaseSlot
  /\ \/ file' = file \cup argument /\ UNCHANGED writeErrors
     \/ DiskMayFail /\ writeErrors' = writeErrors \cup argument /\ UNCHANGED file
  /\ UNCHANGED <<recording, phase, queueVars, startVars, streamVars, echoVars,
                 engineVars, inHand, dropped, stopVars>>

\* The engine stops, as it does when the output device changes.
EngineStops ==
  /\ EngineMayStop
  /\ engine = "on"
  /\ engine' = "stopped"
  /\ UNCHANGED <<recording, phase, queue, queueVars, startVars, streamVars, echoVars,
                 scheduled, mixVars, stopVars>>

-----------------------------------------------------------------------------
(***************************************************************************)
(* stop().                                                                 *)
(***************************************************************************)

\* The failure handler stops a recording whose failure it was told of.  Both
\* go through SessionManager.stop(), which calls the recorder while the record
\* says recording: also when another stop() has returned, but the manager that
\* called it has not saved yet.
MayStop(c) ==
  /\ phase = "started"
  /\ c = "handler" => \E i \in DOMAIN reported : reported[i][1] = recording

Stop(c) ==
  /\ call[c] = "idle" /\ MayStop(c)
  /\ Goes(c, "marking") /\ enqueue("mark", c)
  /\ UNCHANGED <<recording, phase, queueVars, startVars, streamVars, echoVars,
                 engineVars, mixVars, gate, resumes, drained, diagnostics>>

MarkRuns ==
  /\ Serving("mark")
  /\ queue' = Tail(queue)
  /\ isStopping' = TRUE
  /\ Goes(argument, "cancelling")
  /\ UNCHANGED <<recording, phase, didReportFailure, reported, startVars, streamVars,
                 echoVars, engineVars, mixVars, gate, resumes, drained, diagnostics>>

CancelStart(c) ==
  /\ call[c] = "cancelling"
  /\ cancelled' = (cancelled \/ startTask # "none")
  /\ Goes(c, "awaiting")
  /\ UNCHANGED <<recording, phase, queue, queueVars, startTask, stream, streamVars,
                 echoVars, engineVars, mixVars, gate, resumes, drained, diagnostics>>

\* Mutant: stop() does not wait for the start Task.
AlwaysOver == TRUE

startTaskIsOver == startTask \in {"none", "done"}

\* What is left to stop() is the stream, if the start Task published one.
StartTaskOver(c) ==
  /\ call[c] = "awaiting"
  /\ startTaskIsOver
  /\ Goes(c, IF stream THEN "stopping" ELSE "stopped")
  /\ UNCHANGED <<recording, phase, queue, queueVars, startVars, streamVars,
                 echoVars, engineVars, mixVars, gate, resumes, drained, diagnostics>>

\* stopCapture returned, or threw because the stream had ended or ended of that
\* (stop() lets go of the stream either way); it may take the stream's own way
\* of failing with it, whose delegate call is then still to come.
StopCapture(c) ==
  /\ call[c] = "stopping"
  /\ stream' = FALSE
  /\ capture' = IF capture = "on" THEN "off" ELSE capture
  /\ died' \in {died, IF capture = "on" THEN died \cup {recording} ELSE died}
  /\ Goes(c, "stopped")
  /\ UNCHANGED <<recording, phase, queue, queueVars, startTask, cancelled, delivered,
                 unreadable, echoVars, engineVars, mixVars, gate, resumes, drained, diagnostics>>

\* The barrier, and behind it the flush.
Barrier(c) ==
  /\ call[c] = "stopped"
  /\ Goes(c, "barrier") /\ enqueue("barrier", c)
  /\ UNCHANGED <<recording, phase, queueVars, startVars, streamVars, echoVars,
                 engineVars, mixVars, gate, resumes, drained, diagnostics>>

BarrierRuns ==
  /\ Serving("barrier")
  /\ queue' = Tail(queue)
  /\ Goes(argument, "flush")
  /\ UNCHANGED <<recording, phase, queueVars, startVars, streamVars, echoVars,
                 engineVars, mixVars, gate, resumes, drained, diagnostics>>

Flush(c) ==
  /\ call[c] = "flush"
  /\ Goes(c, "flushing") /\ enqueue("flush", c)
  /\ UNCHANGED <<recording, phase, queueVars, startVars, streamVars, echoVars,
                 engineVars, mixVars, gate, resumes, drained, diagnostics>>

\* Mutant: the mic the pipeline still holds goes down with it.
FlushForgetsTail == echoHeld' = {} /\ UNCHANGED <<scheduled, tracks, trackErrors>>

\* echo.finish(), its tail emitted.
flushTail == schedule({}, echoHeld) /\ echoHeld' = {}

FlushRuns ==
  /\ Serving("flush")
  /\ queue' = Tail(queue)
  /\ flushTail
  /\ echo' = FALSE
  /\ Goes(argument, "drain")
  /\ UNCHANGED <<recording, phase, queueVars, startVars, streamVars, engine, mixVars,
                 gate, resumes, drained, diagnostics>>

\* drainPlayers: a marker goes on each player, unless the engine has stopped.
\* (A caller that finds the nodes detached finds the engine not running.)
Drain(c) ==
  /\ call[c] = "drain"
  /\ IF engine = "on"
       THEN /\ gate' = [gate EXCEPT ![c] = [left |-> Players, waiting |-> TRUE]]
            /\ Goes(c, "draining")
       ELSE Goes(c, "tearing") /\ UNCHANGED gate
  /\ UNCHANGED <<recording, phase, queue, queueVars, startVars, streamVars, echoVars,
                 engineVars, mixVars, resumes, drained, diagnostics>>

resume(c, inTime) ==
  /\ resumes' = [resumes EXCEPT ![c] = @ + 1]
  /\ drained' = [drained EXCEPT ![c] = inTime]
  /\ Goes(c, "tearing")

\* DrainGate.arrive: a player has played its marker, and so all before it, or
\* was stopped, which calls back too.
arrive(c, p) ==
  LET left == gate[c].left \ {p}
      last == left = {}
  IN /\ gate' = [gate EXCEPT ![c] = [left |-> left, waiting |-> @.waiting /\ ~last]]
     /\ IF last /\ gate[c].waiting
          THEN resume(c, TRUE)
          ELSE UNCHANGED <<call, resumes, drained>>

Arrive(c, p) ==
  /\ p \in gate[c].left
  /\ \/ engine = "off"
     \/ engine = "on" /\ scheduled[p] = {}
  /\ arrive(c, p)
  /\ UNCHANGED <<recording, phase, queue, queueVars, startVars, streamVars, echoVars,
                 engineVars, mixVars, diagnostics>>

\* Mutant: the timeout gives the continuation up without resuming it.
ExpireForgets(c) ==
  gate' = [gate EXCEPT ![c].waiting = FALSE] /\ UNCHANGED <<call, resumes, drained>>

\* DrainGate.expire.
expire(c) ==
  /\ gate' = [gate EXCEPT ![c].waiting = FALSE]
  /\ resume(c, FALSE)

\* Its timer went off; past the last arrival it finds no continuation.
Expire(c) ==
  /\ gate[c].waiting
  /\ expire(c)
  /\ UNCHANGED <<recording, phase, queue, queueVars, startVars, streamVars, echoVars,
                 engineVars, mixVars, diagnostics>>

\* The tap comes off, the players stop and the nodes are detached; the block
\* in the tap's hands, if any, was enqueued before.
TearDown(c) ==
  /\ call[c] = "tearing" /\ inHand = {}
  /\ engine' = "off" /\ scheduled' = [p \in Players |-> {}]
  /\ Goes(c, "closing") /\ enqueue("close", c)
  /\ UNCHANGED <<recording, phase, queueVars, startVars, streamVars, echoVars, mixVars,
                 gate, resumes, drained, diagnostics>>

\* The files are closed, the count of dropped blocks read.
CloseRuns ==
  /\ Serving("close")
  /\ queue' = Tail(queue)
  /\ diagnostics' = [diagnostics EXCEPT ![argument] = dropped]
  /\ Goes(argument, "returned")
  /\ UNCHANGED <<recording, phase, queueVars, startVars, streamVars, echoVars,
                 engineVars, mixVars, gate, resumes, drained>>

-----------------------------------------------------------------------------

Init ==
  /\ recording = 0 /\ phase = "idle" /\ queue = << >>
  /\ isStopping = FALSE /\ didReportFailure = FALSE /\ reported = << >>
  /\ startTask = "none" /\ cancelled = FALSE /\ stream = FALSE
  /\ capture = "off" /\ died = {} /\ delivered = {} /\ unreadable = {}
  /\ echo = FALSE /\ echoHeld = {} /\ tracks = {} /\ trackErrors = {}
  /\ engine = "off" /\ scheduled = [p \in Players |-> {}]
  /\ inHand = {} /\ pending = 0 /\ dropped = 0 /\ file = {} /\ writeErrors = {}
  /\ call = [c \in Callers |-> "idle"]
  /\ gate = [c \in Callers |-> [left |-> {}, waiting |-> FALSE]]
  /\ resumes = [c \in Callers |-> 0]
  /\ drained = [c \in Callers |-> FALSE]
  /\ diagnostics = [c \in Callers |-> 0]

QueueStep ==
  \/ ResetRuns \/ ReportRuns \/ UnreadableSampleRuns \/ SystemSampleRuns
  \/ MicSampleRuns \/ WriteRuns
  \/ MarkRuns \/ BarrierRuns \/ FlushRuns \/ CloseRuns

StartTaskStep == ContentArrives \/ CaptureStarts \/ StartAborted

StopStep(c) ==
  \/ CancelStart(c) \/ StartTaskOver(c) \/ StopCapture(c) \/ Barrier(c) \/ Flush(c)
  \/ Drain(c) \/ Expire(c) \/ TearDown(c)

Next ==
  \/ Start \/ StartEngine \/ StartFails
  \/ QueueStep \/ StartTaskStep
  \/ \E n \in Samples, kind \in {"audio", "microphone"} : Deliver(n, kind)
  \/ StreamDies \/ \E r \in died : DidStopWithError(r)
  \/ EchoPoll \/ TapEnqueues \/ CopyFails \/ EngineStops
  \/ \E ps \in (SUBSET Players) \ {{}} : Render(ps)
  \/ \E c \in Callers : Stop(c) \/ StopStep(c)
  \/ \E c \in Callers, p \in Players : Arrive(c, p)

Spec == Init /\ [][Next]_vars

\* The queue is served, the system's calls return, its callbacks come and the
\* drain's timer goes off.  Nobody need stop a recording, and the audio engine
\* need not render.
Fairness ==
  /\ WF_vars(QueueStep) /\ WF_vars(StartEngine \/ StartFails) /\ WF_vars(StartTaskStep)
  /\ WF_vars(TapEnqueues \/ CopyFails)
  /\ WF_vars(\E r \in died : DidStopWithError(r))
  /\ \A c \in Callers : WF_vars(StopStep(c))

FairSpec == Spec /\ Fairness

-----------------------------------------------------------------------------

Jobs == {"reset"} \X (1..MaxRecordings) \cup {"report"} \X (1..MaxRecordings)
        \cup {"audio", "microphone"} \X Samples \cup {"write"} \X (SUBSET Samples)
        \cup {"mark", "barrier", "flush", "close"} \X Callers

TypeOK ==
  /\ recording \in 0..MaxRecordings
  /\ phase \in {"idle", "starting", "setup", "started"}
  /\ queue \in Seq(Jobs)
  /\ isStopping \in BOOLEAN /\ didReportFailure \in BOOLEAN
  /\ reported \in Seq((1..MaxRecordings) \X (1..MaxRecordings))
  /\ startTask \in {"none", "content", "starting", "aborting", "done"}
  /\ cancelled \in BOOLEAN /\ stream \in BOOLEAN
  /\ capture \in {"off", "on", "dead"}
  /\ died \subseteq 1..MaxRecordings
  /\ delivered \subseteq Samples /\ unreadable \subseteq Samples
  /\ tracks \subseteq Samples /\ trackErrors \subseteq Samples
  /\ echo \in BOOLEAN /\ echoHeld \subseteq Samples
  /\ engine \in {"off", "on", "stopped"}
  /\ scheduled \in [Players -> SUBSET Samples]
  /\ inHand \subseteq Samples
  /\ pending \in Nat /\ dropped \in Nat
  /\ file \subseteq Samples /\ writeErrors \subseteq Samples
  /\ call \in [Callers -> {"idle", "marking", "cancelling", "awaiting", "stopping",
                           "stopped", "barrier", "flush", "flushing", "drain",
                           "draining", "tearing", "closing", "returned"}]
  /\ gate \in [Callers -> [left : SUBSET Players, waiting : BOOLEAN]]
  /\ resumes \in [Callers -> Nat] /\ drained \in [Callers -> BOOLEAN]
  /\ diagnostics \in [Callers -> Nat]

Stopped == phase = "started" /\ \E c \in Callers : call[c] = "returned"
AtRest  == Stopped /\ \A c \in Callers : ~InStop(c)

\* "a stalled disk must never block the real-time thread" (MixWriteBackpressure
\* .swift:3-6) only if every slot taken is given back: the slots in use are the
\* block in the tap's hands and the writes on the queue.
SlotsAreInFlight ==
  pending = Cardinality({i \in DOMAIN queue : queue[i][1] = "write"})
            + (IF inHand = {} THEN 0 ELSE 1)

\* "a success status alone can hide silently dropped audio" is what the diagnostics
\* are there against (MeetingRecorder.swift:15-18): when stop() has returned and
\* no drain timed out, a sample that could be read and is not in the mix is in a
\* block whose write error was logged, or stop() returned a count of dropped blocks.
NothingIsLostSilently ==
  LET returned == {c \in Callers : call[c] = "returned"}
  IN returned # {} /\ (\A c \in returned : drained[c] /\ diagnostics[c] = 0)
       => delivered \subseteq file \cup writeErrors \cup unreadable

\* Only the write itself loses a sample to mic.m4a and system.m4a: when the
\* recorder has been stopped, every sample that arrived and could be read was
\* handed to its track, the mic the echo pipeline held included, whether or not
\* the players drained and whoever else was in stop().
TracksLoseOnlyFailedWrites ==
  Stopped => delivered \subseteq tracks \cup trackErrors \cup unreadable

\* When the recorder has been stopped no stream goes on capturing, the one a
\* slow start Task was about to publish included (SCKAudioRecorder.swift:385-387).
NoStreamOutlivesStop ==
  Stopped => capture # "on" /\ ~stream /\ startTask \in {"none", "done"}

\* At most one failure is delivered per recording (MeetingRecorder.swift), and
\* it is that recording's.
OneReportPerRecording ==
  \A i, j \in DOMAIN reported :
    /\ reported[i][1] = reported[i][2]
    /\ reported[i][1] = reported[j][1] => i = j

\* A DrainGate's continuation is never resumed twice, which would trap.
ResumedAtMostOnce == \A c \in Callers : resumes[c] <= 1

\* The recorder's bookkeeping: write slots, failure reports and drain gates.
Bookkeeping ==
  TypeOK /\ SlotsAreInFlight /\ OneReportPerRecording /\ ResumedAtMostOnce

\* Nothing is scheduled on a player that is not attached to the engine: the
\* player raises there, and that cannot be caught (SCKAudioRecorder.swift:337-339).
PlayersAreAttached ==
  [][\A p \in Players : scheduled'[p] \subseteq scheduled[p] \/ engine # "off"]_vars

\* A stop() that was called returns, whatever the stream, the engine and the
\* start Task are doing.
StopReturns == \A c \in Callers : InStop(c) ~> ~InStop(c)

\* A recording that captures nothing is not left running in silence: its
\* failure is delivered, or it is being stopped anyway.
CapturesNothing == phase = "started" /\ startTask = "done" /\ capture # "on" /\ ~isStopping
FailureIsDelivered ==
  CapturesNothing ~> \/ isStopping
                     \/ \E i \in DOMAIN reported : reported[i][1] = recording

=============================================================================
