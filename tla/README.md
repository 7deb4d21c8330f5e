# zMeet: specifications, model checking and proofs

zMeet is a macOS menu-bar app that records meetings (system audio and microphone),
transcribes and summarizes them, keeps them in a library and can publish the notes to an
Obsidian vault. It has no server. What is hard about it is concurrency inside one process
(main-actor Tasks that interleave at every `await`, a serial capture queue, a real-time
render thread, delegate callbacks of the system) and what a crash, a failed write or a late
answer leaves behind on disk.

This directory models that behaviour in TLA+, checks it with TLC, and proves part of it with
TLAPS. Source paths below are relative to `src/Sources/` unless they start with `src/`.

## 1. Inventory

| Component | State it keeps | Operations | Hard behaviour | What makes it correct |
|---|---|---|---|---|
| `AppState` (ZMeetApp), recording | `phase`, `stopTask`, `recordingFromDetection`, `allSessions` | start (manual, detected), stop, auto-stop, capture-failure handler, launch | Tasks of clicks, stops and failures overlap; flags go stale over an `await` | at most one recording; a dead capture is marked failed; no state from which nothing can be recorded any more |
| `SessionManager` (ZMeetCore) | one JSON file per session, `sessionCache`, meeting folders | start, stop, markFailed, setTitle, applyProcessedText, delete, list, purge, recover | load, `await`, save of the same record; failed writes; crash between any two steps; replaced while calls are in flight | the cache says what the files say; one recording file; recovery ends what a crash left |
| `SCKAudioRecorder`, `MixWriteBackpressure` | stream, engine, players, files, `isStopping`, `didReportFailure`, write slots | start, rollback, stop, samples, tap, failure report | four kinds of threads; a start Task cancelled by stop; drain with a timeout | no audio lost uncounted, nothing runs on after stop, stop returns, a failure is told once |
| `AppState` (processing, publishing), `ProcessingRegistry`, `ObsidianVaultFiles` | `processingIDs`, `visibleProcessingIDs`, `publishingIDs`, `pendingRepublishIDs`, the vault | process, applyProcessedText, rename, delete, publish, backfill | three kinds of Tasks publish one meeting; titles and notes change under them; half-written vault | one run and one publish per meeting, dropped publishes made up for, the vault converges |
| `SearchStore` | SQLite full-text index | index, updateTitle, remove, reconcile | writers on and off the main actor; reconcile works on a snapshot of the sessions and a later one of the rows | every processed meeting is found under its title, deleted ones are not |
| `MeetingDetector`, `MeetingAudioActivity`, `MeetingAppCatalog` | timer, `isRunning`, miss count, debounce runs, cadence | start, stop, tick | a fired timer hops to the main actor; debounce across gated ticks | no polling while off; a call and its end are noticed within their budgets; a detected recording ends with its call |
| `EchoAligner`, `EchoLagTracker`, `EchoCapture` | reference ring, pending frames, hold deadlines, lead | mic, system, poll, finish | two clocks, gaps, bounded rings, holds that run out | system audio lies where its echo is; what a waiting frame is paired with is settled; every held frame goes out |
| `PlaybackQueueController` | none | how much silence tops up a player's queue | | queues stay topped up |
| `ConfigStore` | `config.json` | load, back up, bootstrap, write | unreadable or corrupt file at launch | the user's settings are never overwritten unread |
| Summarization (`MapReduceSummarizer`, `TranscriptChunker`, ...) | none | chunk, map, reduce, fall back | recursion until the text fits, partial failure | terminates, falls back to something |
| `RequestGeneration` (library, settings) | a counter | begin, isCurrent | late answers of older requests | only the newest answer is shown |
| Popups, status item, views, updater, permissions | presentation | | timers of popups | not modelled; the banner is part of `MeetingDetection` |
| AI clients, transcription, rendering | none that outlives a call | | external services | a model takes their answer or failure nondeterministically |
| `CWebRTCAPM`: `zm_apm.cc`, `audio_processing_impl.cc`, `swap_queue.h` | formats, submodules, two mutexes, two queues | process a far-end frame, process a mic frame, statistics | formats are looked at under one lock and acted on under two; a queue without a lock; a queue of one entry | far-end frames cross in order and once; the canceller is kept; statistics are the latest; every call returns |
| `CWebRTCAPM`: `aec3/` buffers and framing | two rings, a delay, three framing buffers, events | insert, prepare, align, reset; a frame in and out | frames of 160 in blocks of 64; jitter, overruns, resets move rings of different sizes | the delay on record is applied; the filter's past is intact; the output is a fixed amount late |
| `CWebRTCAPM`: the rest | filters, gain control, noise suppression, abseil | | | third-party signal processing, not modelled |

How they interact. `AppState` owns a `SessionManager`, a recorder and a `SearchStore`. It
calls `SessionManager.start/stop`, which call the recorder. The recorder calls back
`onCaptureFailure` from its queue, and the callback hops to the main actor as a Task. The
detector calls `AppState` on the main actor. After a recording, `AppState.process(id:)` runs
transcription and summarization, `SessionManager.applyProcessedText` writes notes in a
detached Task, and `publishToObsidianIfEnabled` writes the vault in another. On the
capture queue, the recorder hands system audio and microphone to `EchoCapture`, whose
`EchoAligner` pairs them frame by frame for `EchoCanceller`, which calls `zm_apm.cc` twice for
each pair.

## 2. Modules

| Module | Models | Used by |
|---|---|---|
| `RecordingLifecycle` | `AppState` recording, the `SessionManager` calls it makes, the recorder as the app sees it | `MCRecordingLifecycle`, `RecordingLifecycleProofs` |
| `AudioCapture` | `SCKAudioRecorder` and `MixWriteBackpressure`, thread by thread | checked as it is; `AudioCaptureProofs` |
| `SessionCatalog` | abstract: sessions are one map; a read answers it, start and delete are guarded by it | instantiated by `SessionStore` |
| `SessionStore` | `SessionManager`'s files, cache, folders, recovery; replacement of the manager | `MCSessionStore`, `SessionStoreProofs`; implements `SessionCatalog` |
| `NotesPublishing` | processing, titles, search row, recording file, registry, vault of one meeting | `MCNotesPublishing`, `NotesPublishingProofs` |
| `MeetingDetection` | `MeetingDetector`, its timers and Tasks, the debounce, gate, cadence and tracker, `AppState`'s banner and automatic stop | checked as it is; `MeetingDetectionProofs` |
| `EchoAligner` | `EchoAligner.swift` as `EchoCapture` drives it | checked as it is; `EchoAlignerProofs` |
| `BoundedQueue` | abstract: a first-in first-out queue of bounded size | instantiated by `SwapQueue` |
| `SwapQueue` | `swap_queue.h`, each call split where the other thread may run | instantiated by `AudioProcessing` as `Queue`; implements `BoundedQueue` |
| `AudioProcessing` | a render and a capture thread through `zm_apm.cc`, the two mutexes, the re-initializations, the queues | checked as it is; its far-end path implements `BoundedQueue`; `AudioProcessingProofs` |
| `RenderDelayBuffer` | `render_delay_buffer.cc`: a record and one operator per method | `EchoCanceller3` |
| `EchoCanceller3` | the canceller's capture side: framing, block processor, delay controller, step by block | checked as it is; `EchoCanceller3Proofs` |

`RecordingLifecycle` reads session records straight from disk. `SessionStore` shows that the
cache in between answers the same. `RecordingLifecycle` has the recorder's `start` as a step
and its `stop` as two; `AudioCapture` opens both up. `AudioCapture` has the echo pipeline as a
stage that holds mic or lets go of it; `EchoAligner` is that stage. `AudioProcessing` is what
happens to a pair of frames up to the canceller's queue, `EchoCanceller3` what happens behind it.

Where an invariant is a conjunction of named parts, each part states one thing: `PhaseIsTrue`,
`Converged`, `AdmissionIsTrue`, `Bookkeeping`, `CaptureIsUpToDate`, `DelayIsTrue`, `AlarmsAreRight`,
`ReferenceIsRight`, `DetectionIsConsistent`, `NoticedInTime`. `TypeOK` is one of the parts where a run
does not list it.

Definitions marked "Mutant:" are not part of the models: each is a plausible bug in the
definition that follows it, with which the named property is found violated.

### RecordingLifecycle

`status` and `audio` are the session file and the audio file, `started` numbers recordings.
`phase`, `fromDetection`, `stopTask` and `shown` are `AppState`'s. `click[c]` says where a
start Task is (queued, awaiting the stop before it, awaiting permissions). `call[c]` says
where each caller of `recorder.stop()` is: stop Tasks, failure handlers, and the clean-up Task
of a start whose save failed. `held[c]` is the session copy `SessionManager.stop()` loaded
before its `await` and saves after it; `blamed[r]` is the one a failure handler marks failed.
`live`, `isStopping` and `didReportFailure` are the recorder's. One action is the code between
two `await`s. `Launch` is recovery and purge, `Crash` may come between any two actions. The
order in which the main actor takes Tasks is left open, which is what Swift promises.
`StopsMayOverlap` is a restriction of the environment, not of the code: with it `FALSE`, the user and
the detector ask for a stop before or after a failure handler's `manager.stop()`, not during it. Which start Tasks
come from `recordDetectedMeeting` is a constant, `DetectedClicks`.

### AudioCapture

`queue` is the serial capture queue; its jobs are samples, writes of the mix, failure
reports, and the pieces `start()` and `stop()` put on it. `startTask`, `cancelled` and
`stream` are the start Task; `capture` and `died` are the system's stream and the delegate
calls still to come. A sample is a number; it moves from `delivered` through `echoHeld`,
`scheduled` and `inHand` into `file`, and into `tracks` on the way. `writeErrors` has the samples of mix
writes that failed (and were logged), `trackErrors` those of track writes that failed (`try?`, into files
that may not have been opened), `unreadable` those whose buffer was invalid, could not be copied out of
or did not convert, for which the callback returns without a trace. The last two are history: the code
keeps nothing of them. `pending` and `dropped` are
`MixWriteBackpressure`. Each caller of `stop()` has its place in `call` and its `DrainGate` in
`gate`. `queue.sync` is a job the caller waits for.

Abstracted: contents and lengths of buffers, what format conversion computes, blocks of silence, how the
echo pipeline picks what it releases (all it holds, or nothing yet), log lines. Assumed of
the system: `removeTap` returns after a tap block that has begun, and a stopped player calls
the completion handlers of what it had queued, and a stream captures no more once
`stopCapture()` is back, also when it threw: it throws for a stream that has ended, and `stop()` drops
the recorder's only reference to the stream either way. If it could throw and leave the stream
capturing, nothing in the code would stop that stream, and `NoStreamOutlivesStop` would be false.
`start()` is not called while a `stop()` is
still running: `RecordingLifecycle` checks that (`StartFindsRecorderIdle`), see section 6 for
where it fails. A second `stop()` may begin while the first runs, or after it has returned and before its
manager has saved.

### SessionStore and SessionCatalog

`file`, `folder`, `cache[m]`, `manager`, and per manager the copies `stopping[m]` and
`processing[m]` that its `stop()` and `applyProcessedText()` hold across their `await`. A save
writes the file and then the cache, or fails and drops the cache. `Relaunch` is purge then
recovery, each of whose writes may fail, in every combination; a crash between two actions is
a `Relaunch`. `listed` is what the last read answered. A record is abstracted to status and
title, the fields that several writers write.

### NotesPublishing

One meeting. `record`, `notes`, `index`, `audio`, `vault` are what is on disk, `processing`, `visible`,
`publishing`, `pending` are the four sets of `ProcessingRegistry` for it, and `task[p]` is where a
Task is, the session it loaded and the notes it has in hand. Notes are the number of the run
that made them, vault names are titles. `NotesSaved` includes the purge of old recordings that
follows a run; `DeleteAudio` is the same removal by the user or at launch. `OpenLibrary` queues the
reconciliation of the search index, which takes the sessions on the main actor and the rows off
it. An older meeting may have no row (an index of another schema starts afresh), and a deleted
one may have one (a failed removal). `UserWaits` restricts the user: no rename, delete or opening of
the library while notes are made, no processing while a rename is being published, nothing
while the index is reconciled.

### MeetingDetection

One unit of time is the fast interval of 4 s. `timer` is the detector's timer, `loose` those it no
longer knows (a second chain, section 6), `tasks` the fired ones whose Task has not run. `current`
and `missCount`, `activity`, `cadence` and `tracker` are the window scan, the audio debounce, the gate
with its cadence, and `AppState`'s view of them; `banner`, `dismissed`, `starting`, `recording` are the
rest of `AppState`'s part. `callFor` and `heardAgo` are history. The meeting app launches, quits, opens
and closes windows and makes sound as it likes; the user turns detection off and on, answers the
banner and records. Left out: how titles and processes are matched, more than one start Task
at a time.

### EchoAligner

One unit of time is one sample. A reference sample is represented by the host time it was played
at, so where it lies in the ring says whether it lies right; mic samples are counted. `reference` is the
ring with its end, count and offset. `pending`, `pendingStart`, `arrivals` are the mic frames that wait,
with how long each has waited. Inputs are buffers of several lengths, host times with gaps, overlaps
and jumps, or none. The lead the tracker locks on is a choice. Left out: release ages and the hold
of the last release (they only feed statistics), host times that are not numbers, statistics.

### SwapQueue, BoundedQueue, AudioProcessing

`SwapQueue` has `num_elements_` as the only variable both threads use; each index is private and moves
after the counter. A message is in exactly one place, since full and empty buffers are swapped.
`Queued` is the queue the counter, the slots and the consumer's buffer make up; it is the
refinement mapping to `BoundedQueue`. `AudioProcessing` has a thread per direction, `renderPc` and
`capturePc` saying where in its call each is, the two mutexes, `apiFormat` and the capture thread's copy
of it, `canceller` (which one, by number; each has its own transfer queue), and the statistics on
their way out. zMeet calls both directions from one queue; `zm_apm.h` allows two threads, and
`users` has both. Left out: the submodules zMeet turns off, what frames contain.

### RenderDelayBuffer and EchoCanceller3

The buffer is a record of read and write indices, the delay, and the counters of its alarms; each
method is an operator on it. Low-rate indices count sub-blocks; the FFT ring is not kept apart from the
spectra because every line that moves one moves the other. A buffer's fill is counted in units of 16
samples (a sub-frame is 5, a block 4). The delay the estimator finds, or none, is a choice.
`use` is zMeet's pairing of calls, or bursts of far-end frames as two threads would make them.
`crowded` and `trouble` are history.

## 3. Runs

| Run | Question | Bounds |
|---|---|---|
| `lifecycle` | Captures die and a `recorder.stop()` may throw, but no stop is asked for during a failure handler's own: do starts, stops, auto-stops, handlers, deletes and a crash leave anything wedged, overlapping, unmarked, unfinalized or waiting? | 2 recordings, a start Task of the menu and one of the banner, 2 stop Tasks, 1 report at a time, 1 crash |
| `lifecycle_faults` | With every fault on: is there ever a second recording record, or a capture nobody owns? | 2 recordings, a start Task of the menu and one of the banner, 2 stop Tasks, 2 reports, 1 crash |
| `lifecycle_capture_wedged` | violation, see section 6 | 2 recordings, 2 reports |
| `store` | One manager, writes may fail, crashes: is the cache the files, does the store implement `SessionCatalog`? | 2 ids, 1 title |
| `store_managers` | A manager is replaced while calls of the old one are in flight: can two files say recording? | 2 ids, 2 managers |
| `publish` | A user who waits, renames, re-processes, deletes and opens the library: one pair of vault notes, found by search, every run over and every dropped publish made up for? | 3 titles, 2 runs, 2 renames, 1 reconciliation at a time |
| `publish_faults` | Failing writes, a rename, a backfill and removals of the recording at any moment: exclusive admission, nothing left admitted, no dangling links, always the recording or notes? | 2 titles, 2 runs, 1 rename, 1 backfill |
| `capture` | Two recordings through all of the recorder's threads and faults: audio accounted for, nothing outlives stop, every stop returns, a failure told? | 2 recordings, 2 samples in the first and 1 in the second, 1 write slot, 2 callers of stop |
| `apm` | Two threads, or zMeet's one queue, over two mutexes and the queue without a lock: frames in order and once, the canceller kept, statistics the latest, every call returns? | 4 frames each way, 2 slots |
| `canceller` | Paired calls and bursts, delays that change: the delay on record applied, the filter's past intact, output one block late, alarms only for trouble? | low-rate ring of 7, filter of 2 blocks, delays of 0, 2 and 5, bursts of 2 frames |
| `aligner` | Gaps, overlaps, jumps and missing host times on both sides: reference in its place and settled for waiting frames, every frame out? | frames of 2, ring of 3, hold of 1, 4 mic samples, 2 host times |
| `detection` | Timers, Tasks, debounce, gate, banner and automatic stop, detection switched at any moment: calls and ends noticed in time, detected recordings ended? | 1 window title and the audio meeting, ticks 2/3/2/1/2, 1 loose timer |

Why the bounds are enough. The hazards are between a recording and the next, or between two
Tasks of one kind: two recordings, two Tasks of a kind, two process runs and two managers are
the smallest numbers at which they occur. One write slot makes the tap meet a full queue with
two blocks (the code has 64). The waits of a `stop()` are for the start Task, the queue and the
players, each of which one sample keeps busy, and what the first recording leaves behind meets one
sample of the second, which is why `MaxLaterSamples` is 1. Three titles let a rename race another rename and an automatic
title. Two slots in the transfer queue (the code has 100) make both indices wrap and the queue run
full within four frames; four frames cover the re-initializations, which the first two of either
direction cause. The canceller's rings are scaled so that they wrap, run full and run dry within
a few frames, while their proportions (a filter shorter than the ring, a default delay in it, an
excess limit below its interval) are the code's. A ring of 7 is the smallest in which a surplus can
outlast one detection interval and be counted on in the next (with 6 the ring runs over first), and 5
the longest delay the lag histogram names for it. The aligner's ring holds one and a half frames, the smallest
that both keeps and loses reference of a waiting frame; the tracker may lock on two delays, so that the
lead changes. The detector's thresholds (2 start ticks, 6 end ticks, 6
misses, 15 idle scans, slow interval 2) are 2, 3, 2, 1, 2: each a count that is passed, and passed
again after a reset. Theorems (section 5) cover all numbers where they exist.

Why some faults are off. `lifecycle` has no failing saves, because a record that was not saved goes on saying
recording, and restricts the failure handler in two ways. No stop is asked for while a handler is inside its
`manager.stop()` (`StopsMayOverlap = FALSE`), and one report is under way at a time: a report may still be queued when its
recording is stopped and find the next one, but two handlers do not run at once. Without the first, `PhaseIsTrue`,
`StartFindsRecorderIdle`, `DeletedStaysDeleted` and `FailedStaysFailed` are false of the code, without the second
`PhaseIsTrue` and `DeletedStaysDeleted` are (section 6). So the run says nothing of two overlapping stops of one session, or
of the idle phase that a handler leaves over a recording started meanwhile (AppState.swift:167-169).
`lifecycle_faults` has all of it, for the two properties that hold regardless. `publish` has neither failing writes nor the impatient user, for the same
reason: the races of an impatient user with the saves and the reconciliation (SessionManager.swift:210 and 219,
SearchStore.swift:281) cannot occur in it, and `Converged` is no check of them; they are described in section 6.
`publish_faults` has them for what holds regardless, and leaves deletes out, because a run
saves its copy over them (section 6). Liveness is checked in `publish`; in `publish_faults`, `NothingLeftAdmitted`
says of the failing paths that whatever ends gives back its admission. `store` has removals that succeed:
a session file that cannot be removed is a different disagreement (`OnlyGhostsDiffer`), which
is proved. `capture` has delegate calls that come before the next start (`CallbackMayLag = FALSE`, section 6).

Deadlock is checked in the lifecycle, store, canceller and detection runs. In the publish runs a
deleted meeting has nothing left to do, and in `capture`, `aligner` and `apm` the last recording ends: they
say `CHECK_DEADLOCK FALSE`. That no call of `apm` waits for ever is `CallsReturn` instead.

## 4. Liveness and fairness

- `RecordingLifecycle`: a Task that can run does run (the main actor serves its queue), and
  `recorder.stop()` returns. That last assumption is what `AudioCapture` shows as
  `StopReturns`: its waits are for the start Task, which is cancelled, for jobs on the queue and
  for the drain, which has a timeout of 2 s. Nothing is assumed of the user, of permission
  prompts or of failures.
- `AudioCapture`: the queue is served, calls into the system return or throw, its callbacks come,
  the drain's timer goes off. The audio engine need not render, and nobody need call `stop()`.
- `NotesPublishing`: Tasks go on, transcription and model calls return one way or another, file
  writes return. `RunEnds` (in `PublishingSettles`) assumes in addition that the user rests at some point, because each
  rename that races a publish gives the run one more publish to do.

- `AudioProcessing`: a thread inside a call goes on, if the mutex it wants is free. Nobody need begin a
  call. `CallsReturn` then says that the two mutexes never leave both threads waiting.
- `EchoAligner`: time passes, the recorder's 10 ms poll comes, and a release loop that was started goes
  on. No input need arrive.
- `MeetingDetection`: timers that are due fire, their Tasks run, time passes. Neither the user nor the
  meeting app owes anything.

Fairness is weak, with one exception: the passing of time in `EchoAligner` and `MeetingDetection` is
interrupted by inputs and by timers that are due, again and again, without ever being held up by
them, so it is strongly fair.

## 5. What is proved

`RecordingLifecycleProofs`, for any number of sessions, Tasks and crashes, and with any of the
faults on or off unless a hypothesis says otherwise:

- `TypeCorrect`, `OneRecording` (`AtMostOneRecording`), `CaptureIsOwned` (`LiveCaptureIsOwned`), from
  `Invariance`: `IInv` is inductive. `LiveCaptureIsOwned` alone is not: a Task that comes back from
  `recorder.stop()` writes to the session it loaded before, and the handler to the one it
  blames, and either could be the one the recorder has open by now. `ReturnedIsNotLive` excludes
  that. It holds because a recording is opened under a number nobody can hold yet
  (`OnlyStartedSessions`). `DownIsQuiet` says that nothing runs when recovery rewrites the records.
- `DeletionIsFinal` (`DeletedStaysDeleted`), assuming `NoCaptureFailure`; saves
  and stops may fail. `RecordsAgree` is the invariant: no failure handler runs, one stop Task at a time
  finalizes, and the copy it loaded before its await is still the one session that says recording.
  With a failure handler at work two callers can hold the same session, and the property is false.
- `FailureIsKept` (`FailedStaysFailed`), assuming `StopsAreApart`: saves succeed and no stop is asked for while a
  failure handler is inside its `manager.stop()`. Captures may die and recorder stops throw, so sessions are
  marked by handlers, by stop Tasks and by recovery. `FailureAgrees` is the invariant: a handler and a stop Task are
  never at work together, what is shown as recording is the active session, and a handler blames the
  session it holds. Two handlers may hold the same one (a report that was still queued when its
  recording was stopped finds the next); each leaves it failed. A report that is still queued when the user
  stops is part of it. Without the hypothesis the property is false (section 6).
- `PhaseTruth` (`PhaseIsTrue`) and `StartsFindRecorderIdle` (`StartFindsRecorderIdle`), assuming `NoFailures`: saves do
  not fail either. `CaptureAgrees` adds the recorder: it has the active session open until the Task that
  finalizes it is back from `stop()`. TLC finds both violated with `SaveMayFail = TRUE`: a session that was
  stopped but not saved still says recording, and a start whose save failed leaves a clean-up inside
  `stop()` while the next start goes ahead.
- Assumed: `MaxSessions` and `MaxCrashes` are naturals, the four kinds of Tasks are disjoint, `None`
  is none of them.

`SessionStoreProofs`, for any ids and titles:

- `TypeCorrect` and `OneRecording` (`OneRecordingFile`), for any number of managers and every fault. A stale
  cache may show a recording that is over, but it never misses one: calls of an old manager that come back
  late end recordings and begin none, and a manager that has not been created has loaded nothing
  (`FreshCaches`).
- With one manager: `GhostsOnly` (`OnlyGhostsDiffer`), also when removals fail; `Coherent`
  (`CacheCoherent`) and `Refinement` (`ImplementsCatalog`) when removals succeed. The refinement
  mapping is the identity on files: every step is a step of `SessionCatalog` or leaves the files
  and the answer alone. It needs `CacheCoherent`, because the guards of `start` and `delete` are
  evaluated on the cache.
- The hypotheses are stated in the theorems (`OneManager`, `RemoveMayFail = FALSE`). With two
  managers the coherence does not hold (section 6).

`NotesPublishingProofs`, for any titles and any number of runs, renames, backfills and reconciliations:

- `AdmissionHolds` (`AdmissionIsTrue`) and `LinksHaveTargets` (`LinkTargetsExist`), from `Invariance`, without
  further hypotheses. `AdmissionIsTrue` is not inductive: `processing` and `publishing` say that
  somebody is admitted, `IInv` has to say that it is one Task which is really at it (`Admission`), and
  that a Task which reaches the vault holds a session and notes that were made (`TasksFit`).
  `LinksFollow` is what is between the two writes of a pair: no other Task touches it.
- `RecordingIsGivenUpForNotes` (`NotesOrAudioRemain`), assuming `MeetingStays`: the user cannot delete a meeting
  while its notes are made (or cannot delete one at all). Without it the property is false (section 6:
  a run saves its old copy after the meeting was deleted).
- `Converges` (`Converged`), assuming `Patient`: the user waits, writes succeed, no backfill runs. These are
  the conditions of the run `publish`, and each is needed: without any one of them TLC finds `Converged`
  violated (section 6; a vault write that fails leaves the vault as it was). `VaultFollows` and `SearchFollows` say the same of the
  vault and of the index: each shows the meeting as it is, or a Task that will make it so is on its way.

`MeetingDetectionProofs`, for any windows, thresholds and intervals:

- `Consistent` (`DetectionIsConsistent`), from `Invariance`. The conjuncts say who scans next (`Polling`), what
  the world can be (`WorldFits`), what `stop()` leaves (`Off`), how soon the next scan is (`Soon`).
- `InTime` (`NoticedInTime`). How long a call has gone unnoticed is bounded only together with the time
  left until the next scan and the scans that have heard it: `Ending` and `Confirming` bound the sums.
  Timers that were replaced and still fire make scans come sooner; the invariant does not mention them.
- Assumed for `InTime`: `ConfirmedByTwo`, at most two active scans confirm a call. The budget of the code is
  a slow and a fast interval (`MeetingAppCatalog.swift`), so with three the statement is false; the code
  has two.

`AudioProcessingProofs`, for any number of frames and any size of the transfer queue:

- The transfer queue comes first, by itself (`Queue`, a `SwapQueue`). `QueueTypeCorrect` (the counter and both
  indices stay in range) and `QueueSeparated` (`SlotsAreNotShared`) follow from `QueueInvariance`. Neither is
  inductive. `IndicesAgree` ties the two private indices to the counter: each, read as if the half-step
  that is still to come were done, they are `num_elements_` slots apart. `LoadsHold` says that a thread
  past its load may rely on what it loaded, since the other one only makes more room, or more to
  take. Together they give `QueueSeparated`: equal indices would mean a full or an empty queue.
- `QueueRefinement` (`ImplementsBoundedQueue`): the swaps, loads and index moves leave `Queued` alone, the atomic
  add is `Put`, the atomic subtract is `Take`, and `Clear` is `Drop`. `PutIsMessage` is needed for the add: what is
  counted is the message, not the empty buffer it was swapped for.
- `FramesCrossInOrder` (`ImplementsRenderTransfer`), `CancellerIsKept` (`CancellerSurvives`), `StatesAreStable`
  (`SubmoduleStatesAreStable`), `HandedOnInTime` (`CaptureIsUpToDate`), from `Invariance`. Every step of the module
  is a step of the queue, a replacement of it by an empty one, or neither. What the module adds is
  that the queue is replaced only while neither thread is inside (`LocksAreHeld`).
- The two initializations decide under one lock what they do under two. `FormatsAreSet` makes that
  harmless: each direction's format is set once, by its own thread on its first frame. `PairedInv` adds, for
  zMeet's use from one queue, that the far-end frame received is the one of the same number.
- Assumed: the stream's format is not the default one (`FormatAssumption`; zMeet asks for 48 kHz), and
  the queue has a slot (`SizesAssumption`).

`AudioCaptureProofs`, for any number of recordings, samples and write slots, with two callers
of `stop()`, at the same time or one after the other:

- `NothingIsLost` (`NothingIsLostSilently`), `TracksLoseNothingElse` (`TracksLoseOnlyFailedWrites`), `StreamsEnd`
  (`NoStreamOutlivesStop`), `PlayersStayAttached` (`PlayersAreAttached`), from `Invariance`.
- The argument is about the capture queue. A `stop()` goes on only when a job it queued has run, and
  what was queued before that job has run by then. The lemmas `Enqueued` and `Served` say, once and for
  every action, what waits on the queue and in which order after a job is queued or taken.
  `JobsFollow` has the orders that matter (samples before the barrier, writes before the close, both because
  nobody adds to them any more) and ties each caller's place to the job it waits for. `StopsInOrder` then says
  for each place what can no longer be there: start task, stream, queued samples, held samples,
  engine, queued writes.
- `TracksFit` and `SamplesFit` say where each delivered sample is. As far as the tracks go it is through (`Tracked`)
  when it was handed to its track's file, whether or not that took it, or could not be read. In the mix a
  sample may be lost only with a dropped block on the books or by a `stop()` that tore the engine down without draining. With two `stop()`s, the one
  that drained could report for the one that did not; `Wasted` excludes it: of two that tore
  down, the one that did not drain queued its close first, so it has returned too and says so.
- `BooksAreRight` (`Bookkeeping`) assumes `CallbackMayLag = FALSE`, as the run `capture` does: the death of a stream
  is reported before the next start. Otherwise the report hits the next recording (section 6).
  `ReportsFit` says where a report can wait: in its own recording, or in front of the next one's reset
  with `isStopping` still set.

`EchoCanceller3Proofs`, for rings, filters, intervals and bursts of any size and any delays:

- The lemmas about `RenderDelayBuffer` say of each method (`InsertSets`, `PrepareSets`, `AlignSets`, `ResetSets`) what
  it does to the two distances that matter, the jitter and the whole delay. They rest on `RingsAgree`: the blocks and
  their spectra, written in opposite directions, are read equally far behind. An overrun looks at the one and
  the delay at the other.
- `OneBlockLate` (`CaptureIsOneBlockLate`) and `SurplusIsNoticed` (`ExcessIsNoticed`), from `Invariance` and without further
  hypotheses. `CrowdIsCounted` is the reason for the second: crowded blocks were counted in this
  interval, or the last check found one of them and the smallest latency since is above the limit too.
- `DelayTruth` (`DelayIsTrue`), `FilterKeepsItsPast` (`FilterHistoryIntact`) and `AlarmsAreTrue` (`AlarmsAreRight`), assuming
  `PairedFits`. `FirstCall`, `SecondCall` and `LaterCalls` are the timetable of zMeet's calls: which block of which call
  finds how many blocks queued. From the third call on it is never more than three and never none.
- `PairedFits` says that the low-rate ring has at least 4 sub-blocks (153), the excess limit is at least 3 (8), the
  default delay is shorter than the ring (5), and no delay is longer than the ring less 2. The last is
  the end of the lag histogram (151, matched_filter_lag_aggregator.cc:127). With one more, TLC finds
  `FilterHistoryIntact` violated: a paired call inserts three blocks before it reads one.

`EchoAlignerProofs`, for any ring of at least a frame, any tolerance, hold, leads and delays, any host times
and lengths of buffers:

- `ReferenceStaysRight` (`ReferenceIsRight`) and `WaitingKeepReference` (`WaitingFramesKeepTheirReference`), from
  `AlignerInvariant`, without further hypotheses.
- The ring is the hard part, and is dealt with by lemmas on its operators. `Written`: what is retained after
  a write was there before, unchanged, or is one of the samples written. It rests on `SlotsDiffer`, that
  two indices less than the capacity apart have different slots, which the provers get only from
  the division spelled out. `PlacedNearby` takes the three cases of a placement (behind a gap, trimmed,
  contiguous): each sample lies within the tolerance of its buffer's start. `MovedKeepsSamples`: with the
  offset moved back by as much, an index that moved finds the same slot.
- With these the steps are arithmetic on anchors. A system buffer is placed by the anchor the
  invariant measures with; a buffer of the microphone moves anchor and reference by the same distance,
  or its host time contradicts the samples counted so far, and what is held by then is excepted
  (`staleEnd`).
- `ReferenceIsRight` needs two additions to be inductive. `BeforeTheFirst`: nothing is held before the first
  system buffer, which is why moving or trimming may ignore that case. `OriginFirst`: before there is an
  origin no sample has a host time, so the first origin misplaces nothing.
- `WaitingKeepReference` is read off the same lemmas: inputs and silence follow what is there, and the move is
  zero while a complete frame waits.
- Assumed: `SizesAssumption` (the precondition of `EchoAligner.init`, times and lengths are integers) and
  `ValuesAssumption` (nil, silence and an untimed sample are not numbers).

Only model-checked: everything under fairness (liveness and `ENABLED` are out of the prover's
reach): `HeldMicIsReleased` and its like in the other runs. Every safety property of a passing run is a
theorem, where a run restricts the environment under the hypotheses named above. Three are proved of less
than the run checks: `PhaseIsTrue`, `StartFindsRecorderIdle` and `DeletedStaysDeleted` are theorems for captures that do
not die, and for captures that do they are only model-checked, with one report at a time.

## 6. What the code does otherwise than it says

One has a run that TLC finds violated:

- `lifecycle_capture_wedged`. The capture-failure handler awaits `manager.stop()` and then makes the app idle
  (AppState.swift:169) without looking whether the recording is still the one it stopped. If the user
  clicked Stop during that await and started again, the second recording runs on under an idle app:
  nothing stops it, and its own capture failure is ignored by the guard at line 166. The comment at 151-154 says a
  dead capture is surfaced and its session marked failed.

Found while modelling, reproduced with the same modules, kept without a run of their own:

- While the capture-failure handler awaits `manager.stop()` (AppState.swift:167) `phase` is still recording, so a Stop click
  starts a second `manager.stop()`, which loads the session while it says recording (SessionManager.swift:120). The handler
  ends first and marks the session failed; then the stop Task saves the copy it holds as recorded (135-140), and the dead
  capture looks "like a normal (silent) recording" (AppState.swift:151-154) after all (`FailedStaysFailed` fails
  with `StopsMayOverlap = TRUE`). When the user deletes the meeting between the two, that save brings it back
  (`DeletedStaysDeleted` fails).
- A report that is still queued when its recording is stopped finds the next one, and the handler stops that. If its
  capture dies as well, a second handler stops the same session: one that ends after the user deleted the meeting
  saves it again (`DeletedStaysDeleted` fails with two reports).
- `didStopWithError` does not look which stream it is for, and the flag that suppresses reports during a
  stop is cleared by the next start. A late call fails the new recording (`Bookkeeping` fails
  with `CallbackMayLag = TRUE`). How late the system makes that call is not known; the code relies on
  it not being later than the next start.
- Whether a meeting needs an automatic title is decided on the session loaded before transcription; a
  title the user sets meanwhile is overwritten, which AppState.swift:646-650 says never happens
  (`UserTitleIsKept` fails with `UserWaits = FALSE`).
- A rename published while a re-process saves loses the title and leaves its pair of notes in the
  vault for good (`Converged` fails with `UserWaits = FALSE`).
- Opening the library while the first notes of a meeting are saved: the reconciliation takes the sessions
  before the meeting is marked processed and the rows after it was indexed, and removes the row, though it
  is to "drop rows whose meeting no longer exists" (SearchStore.swift:277). The next opening repairs
  it. A meeting deleted between the two looks is given a row, also until the next opening. A rename
  between them, of a meeting that has no row yet, leaves its old title in the index, and later
  reconciliations leave a row that is there alone (`Converged` fails without the part of
  `NothingToWaitFor` that forbids each).
- `MeetingDetector.stop()` followed by `start()` before the hopped Task of a fired timer lets that Task start
  a second chain of ticks (MeetingDetector.swift:85). Nothing polls while detection is off and
  nothing is noticed late, but the debounce of the automatic stop, meant to stay 24 s, gets shorter:
  with `MaxTimers = 1`, and not with 0, a meeting ends when it was heard less than `EndTicks` ago.
- A banner that was dismissed or recorded from comes back in the same call when the window leaves the
  screen and the sound goes on, because the audio meeting has another key (AppState.swift:406-410).
- A detected start that waits for permissions while the meeting ends, or while detection is turned
  off, begins a recording that nothing stops automatically; that is why `DetectedRecordingEnds` speaks of
  one that ran during a confirmed meeting.
- `submodule_states_` is written under the capture lock and read under the render lock
  (audio_processing_impl.cc:878). It is harmless because zMeet's 48 kHz differ from the default format,
  so the first far-end frame has already written it: with `DefaultFormat = StreamFormat`,
  `SubmoduleStatesAreStable` fails.
- With bursts of two threads, which `zm_apm.h` allows and zMeet does not make, less delay than recorded may be
  applied and blocks the filter reads may be overwritten; `render_event_` keeps only the last insert's event
  (block_processor.cc:209).
- Two `stop()`s of one recording can overlap (the handler's and the user's), and with two Record
  clicks the recorder can be started while the handler's is still in it: `OneStopInFlight` and
  `StartFindsRecorderIdle` fail with `CaptureMayFail = TRUE`. A stop Task that is slow to end can
  clear a later one's `stopTask` (AppState.swift:598).
- With two managers, `CacheCoherent` fails: a call of the old one saves behind the new one's cache,
  which can go on saying recording and refuse starts until the next launch (AppState.swift:297).
- `applyProcessedText` saves its old copy after the meeting was deleted or renamed
  (SessionManager.swift:222), which brings the one back and undoes the other.
- The launch purge runs before recovery and exempts recordings (SessionManager.swift:433, 456): a
  meeting that was recording at a crash and whose folder was deleted is listed as failed once
  more, although src/README.md:62 says the next launch cleans up.
- A meeting deleted during the detached vault write is published after its deletion
  (AppState.swift:846); the comment at 823 says it must never be.
- A backfill publishes the notes it read before a re-process over the new ones (AppState.swift:884). If the
  run also names the meeting, it saves its copy over the note name the backfill recorded, and the old
  pair stays (`Converged` fails with a backfill).
- After an unreadable `config.json`, defaults are used "IN MEMORY ONLY ... so the user's settings
  survive" (ConfigStore.swift:47-48), but the next change of a setting writes them over it
  (AppState.swift:290-308). Read, not modelled.

## 7. Not modelled, and why

- Most of the C and C++ in the repository: `CWebRTCAPM` is WebRTC's audio processing and abseil, some 100 000
  lines of vendored code. Modelled is what zMeet's calls depend on beyond arithmetic: locks, queues,
  re-initialization, framing, delay buffers. The filters, estimators, gain control and noise
  suppression are floating-point functions of a signal, mostly in submodules zMeet leaves off, and
  the utility libraries hold no state of the app.
- `PlaybackQueueController`, `RequestGeneration`, `ConfigStore`, `Summarization`: small and sequential, or a
  counter compared with itself. The one hazard of `ConfigStore` is a call after another (section 6).
- Unreadable session files, ids that collide, folders that cannot be removed.
- Notes and transcript of different versions after a write that failed between them; vault names of
  older releases; turning publishing or echo cancellation off meanwhile.
- A data race of the recorder's fields outside its queue (`logHandle` is set in `start()` on the
  caller's thread): nothing but log lines depends on it.
- The correlation of `EchoLagTracker`: floating point; its result is a choice among delays.
- Views, windows, permission prompts, updater: presentation of AppKit and SwiftUI.
- AI clients, transcription, rendering: external services, parsing, wording.

## 8. Plan

Done: all modules of section 2, and proofs about all of them.

Modules that could follow: the vault names of older releases and the legacy notes in
`NotesPublishing`, several start Tasks in `MeetingDetection`, popups with their timers.
