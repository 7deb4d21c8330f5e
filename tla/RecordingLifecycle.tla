------------------------- MODULE RecordingLifecycle -------------------------
(***************************************************************************)
(* The life of a recording: AppState (start, stop, auto-stop, capture      *)
(* failure), the SessionManager calls it makes (start, stop, markFailed,   *)
(* delete, recoverInterruptedSessions) and the recorder those calls drive. *)
(*                                                                         *)
(* AppState and SessionManager run on the main actor, so the code between  *)
(* two awaits is one action.  What interleaves are the Tasks: a start Task *)
(* that waits for a stop and for permissions, a stop Task that waits for   *)
(* the recorder, the Task of the capture-failure handler, which also calls *)
(* SessionManager.stop(), and the clean-up Task of a start whose save      *)
(* failed.  SessionManager.stop() loads its session BEFORE it awaits the   *)
(* recorder and saves that copy after: the copy is "held" below.           *)
(*                                                                         *)
(* Session records are read straight from disk here; SessionStore shows    *)
(* that the cache in front of them answers the same.                       *)
(***************************************************************************)
EXTENDS Integers, FiniteSets

CONSTANTS
  MaxSessions,      \* bound: recordings ever started
  Clicks,           \* Tasks created by startRecording
  DetectedClicks,   \* those that recordDetectedMeeting created
  Stops,            \* Tasks created by stopRecording
  Reports,          \* Tasks created by the recorder's onCaptureFailure
  Cleanups,         \* Tasks created by a start whose save failed
  MaxCrashes,       \* bound: crashes or force-quits
  CaptureMayFail,   \* the capture stream may die or fail to come up
  SaveMayFail,      \* writing a session record may fail
  StopMayThrow,     \* the recorder's stop() may throw
  StopsMayOverlap,  \* a stop may be asked for while a failure handler is in its own
  None

ASSUME BoundsAssumption  == MaxSessions \in Nat /\ MaxCrashes \in Nat
ASSUME NoneAssumption    == None \notin Nat /\ None \notin Stops
ASSUME ClicksAssumption  == DetectedClicks \subseteq Clicks
ASSUME CallersAssumption == /\ Stops \cap Reports = {}
                            /\ Stops \cap Cleanups = {}
                            /\ Reports \cap Cleanups = {}
ASSUME FaultAssumption   == /\ CaptureMayFail \in BOOLEAN
                            /\ SaveMayFail \in BOOLEAN
                            /\ StopMayThrow \in BOOLEAN
                            /\ StopsMayOverlap \in BOOLEAN

Sessions == 1..MaxSessions
Callers  == Stops \cup Reports \cup Cleanups   \* whoever calls recorder.stop()

VARIABLES
  status,          \* the record on disk: absent, recording, recorded, failed
  audio,           \* the audio file: none, empty, some
  started,         \* recordings started so far; the newest has this number
  app,             \* is the process up or down
  phase,           \* AppState.phase
  fromDetection,   \* AppState.recordingFromDetection
  stopTask,        \* AppState.stopTask
  shown,           \* the recording session in AppState.allSessions, if any
  click,           \* where each start Task is
  awaited,         \* the stop Task that start Task awaits
  call,            \* where each caller of recorder.stop() is
  held,            \* the session copy that caller loaded before its await
  blamed,          \* the session a failure handler will mark failed
  live,            \* the session whose files the recorder has open
  isStopping,      \* SCKAudioRecorder.isStopping
  didReportFailure,\* SCKAudioRecorder.didReportFailure
  crashes

recordVars   == <<status, audio, started>>
appVars      == <<phase, fromDetection, stopTask, shown>>
startVars    == <<click, awaited>>
stopVars     == <<call, held, blamed>>
recorderVars == <<live, isStopping, didReportFailure>>
vars == <<recordVars, app, appVars, startVars, stopVars, recorderVars, crashes>>

Recording == {s \in Sessions : status[s] = "recording"}

\* The newest session whose record in st says it is recording (listSessions
\* is sorted newest first).
NewestRecording(st) ==
  IF \E s \in Sessions : st[s] = "recording"
    THEN CHOOSE s \in Sessions : /\ st[s] = "recording"
                                 /\ \A t \in Sessions : st[t] = "recording" => t <= s
    ELSE None

activeSession == NewestRecording(status)

\* A call of recorder.stop() that has not returned yet.
Stopping(c) == call[c] \in {"called", "draining"}

\* reloadRecent: allSessions is read again from the records.
reloadRecent == shown' = NewestRecording(status')

(***************************************************************************)
(* Launch and crash.                                                       *)
(***************************************************************************)

\* recoverInterruptedSessions: a recording left behind by a crash becomes
\* recorded when its file has bytes, failed otherwise; a save that throws
\* leaves the rest as they were.
recoverInterruptedSessions(saved) ==
  status' = [s \in Sessions |->
               IF s \notin saved THEN status[s]
               ELSE IF audio[s] = "some" THEN "recorded" ELSE "failed"]

Launch ==
  /\ app = "down"
  /\ app' = "up"
  /\ \E saved \in SUBSET Recording :
       /\ saved = Recording \/ SaveMayFail
       /\ recoverInterruptedSessions(saved)
  /\ reloadRecent
  /\ UNCHANGED <<audio, started, phase, fromDetection, stopTask, startVars,
                 stopVars, recorderVars, crashes>>

\* Everything in memory is gone; the records and the audio files stay.
Crash ==
  /\ app = "up"
  /\ crashes < MaxCrashes
  /\ crashes' = crashes + 1
  /\ app' = "down"
  /\ phase' = "idle" /\ fromDetection' = FALSE /\ stopTask' = None /\ shown' = None
  /\ click' = [c \in Clicks |-> "idle"] /\ awaited' = [c \in Clicks |-> None]
  /\ call' = [c \in Callers |-> "idle"] /\ held' = [c \in Callers |-> None]
  /\ blamed' = [r \in Reports |-> None]
  /\ live' = None /\ isStopping' = FALSE /\ didReportFailure' = FALSE
  /\ UNCHANGED recordVars

(***************************************************************************)
(* Starting.                                                               *)
(***************************************************************************)

\* startRecording(mode:sourceApp:).  The menu and the mode popup call it with
\* no guard; recordDetectedMeeting refuses while recording.
ClickStart(c) ==
  /\ app = "up"
  /\ click[c] = "idle"
  /\ c \in DetectedClicks => phase = "idle"
  /\ click' = [click EXCEPT ![c] = "queued"]
  /\ UNCHANGED <<recordVars, app, appVars, awaited, stopVars, recorderVars, crashes>>

\* The Task's body runs: it reads stopTask now and awaits that one.
StartTaskRuns(c) ==
  /\ click[c] = "queued"
  /\ click' = [click EXCEPT ![c] = "awaitStop"]
  /\ awaited' = [awaited EXCEPT ![c] = stopTask]
  /\ UNCHANGED <<recordVars, app, appVars, stopVars, recorderVars, crashes>>

StopAwaited(c) ==
  /\ click[c] = "awaitStop"
  /\ awaited[c] = None
  /\ click' = [click EXCEPT ![c] = "permissions"]
  /\ UNCHANGED <<recordVars, app, appVars, awaited, stopVars, recorderVars, crashes>>

PermissionsDenied(c) ==
  /\ click[c] = "permissions"
  /\ click' = [click EXCEPT ![c] = "idle"]
  /\ UNCHANGED <<recordVars, app, appVars, awaited, stopVars, recorderVars, crashes>>

\* SessionManager.start throws activeSessionExists.
StartRefused(c) ==
  /\ click[c] = "permissions"
  /\ activeSession # None
  /\ click' = [click EXCEPT ![c] = "idle"]
  /\ UNCHANGED <<recordVars, app, appVars, awaited, stopVars, recorderVars, crashes>>

\* SCKAudioRecorder.start: the stop and failure flags are reset first.
recorderStart(opened) ==
  /\ isStopping' = FALSE
  /\ didReportFailure' = FALSE
  /\ live' = opened

\* recorder.start throws: its rollback closes whatever it had opened, and no
\* record is ever written.
StartRecorderThrows(c) ==
  /\ click[c] = "permissions"
  /\ activeSession = None
  /\ recorderStart(None)
  /\ click' = [click EXCEPT ![c] = "idle"]
  /\ UNCHANGED <<recordVars, app, appVars, awaited, stopVars, crashes>>

\* Mutant: a start whose save failed just throws; nobody stops the recorder.
StartSaveFailsAndLeavesRecorder(c, k) ==
  /\ SaveMayFail
  /\ click[c] = "permissions"
  /\ activeSession = None
  /\ started < MaxSessions
  /\ call[k] = "idle"
  /\ started' = started + 1
  /\ recorderStart(started + 1)
  /\ audio' = [audio EXCEPT ![started + 1] = "empty"]
  /\ click' = [click EXCEPT ![c] = "idle"]
  /\ UNCHANGED <<status, app, appVars, awaited, stopVars, crashes>>

\* Capture runs but the record could not be saved: a Task stops the recorder
\* and removes the folder.
StartSaveFails(c, k) ==
  /\ SaveMayFail
  /\ click[c] = "permissions"
  /\ activeSession = None
  /\ started < MaxSessions
  /\ call[k] = "idle"
  /\ started' = started + 1
  /\ recorderStart(started + 1)
  /\ audio' = [audio EXCEPT ![started + 1] = "empty"]
  /\ call' = [call EXCEPT ![k] = "called"]
  /\ held' = [held EXCEPT ![k] = started + 1]
  /\ click' = [click EXCEPT ![c] = "idle"]
  /\ UNCHANGED <<status, app, appVars, awaited, blamed, crashes>>

\* Mutant: start() does not ask whether a session is active.
StartUnguarded(c) ==
  /\ click[c] = "permissions"
  /\ started < MaxSessions
  /\ started' = started + 1
  /\ recorderStart(started + 1)
  /\ audio' = [audio EXCEPT ![started + 1] = "empty"]
  /\ status' = [status EXCEPT ![started + 1] = "recording"]
  /\ phase' = "recording"
  /\ fromDetection' = (c \in DetectedClicks)
  /\ reloadRecent
  /\ click' = [click EXCEPT ![c] = "idle"]
  /\ UNCHANGED <<app, stopTask, awaited, stopVars, crashes>>

StartSucceeds(c) ==
  /\ click[c] = "permissions"
  /\ activeSession = None
  /\ started < MaxSessions
  /\ started' = started + 1
  /\ recorderStart(started + 1)
  /\ audio' = [audio EXCEPT ![started + 1] = "empty"]
  /\ status' = [status EXCEPT ![started + 1] = "recording"]
  /\ phase' = "recording"
  /\ fromDetection' = (c \in DetectedClicks)
  /\ reloadRecent
  /\ click' = [click EXCEPT ![c] = "idle"]
  /\ UNCHANGED <<app, stopTask, awaited, stopVars, crashes>>

(***************************************************************************)
(* The recorder.                                                           *)
(***************************************************************************)

CaptureAudio ==
  /\ live # None
  /\ ~didReportFailure
  /\ audio[live] = "empty"
  /\ audio' = [audio EXCEPT ![live] = "some"]
  /\ UNCHANGED <<status, started, app, appVars, startVars, stopVars, recorderVars, crashes>>

\* reportCaptureFailure: at most one report per recording, none once a stop
\* has begun; the handler's Task is queued on the main actor.
CaptureFails(r) ==
  /\ CaptureMayFail
  /\ live # None
  /\ ~isStopping
  /\ ~didReportFailure
  /\ call[r] = "idle"
  /\ didReportFailure' = TRUE
  /\ call' = [call EXCEPT ![r] = "queued"]
  /\ UNCHANGED <<recordVars, app, appVars, startVars, held, blamed, live, isStopping, crashes>>

\* recorder.stop() runs off the main actor: it raises isStopping, then waits
\* for the start task, the stream, the queue and the players...
RecorderStopBegins(c) ==
  /\ call[c] = "called"
  /\ isStopping' = TRUE
  /\ call' = [call EXCEPT ![c] = "draining"]
  /\ UNCHANGED <<recordVars, app, appVars, startVars, held, blamed, live, didReportFailure, crashes>>

\* Mutant: the drain has no timeout, so a recording that never played anything
\* is waited for forever.
RecorderStopEndsWhenPlayed(c) ==
  /\ call[c] = "draining"
  /\ live # None /\ audio[live] = "some"
  /\ live' = None
  /\ call' = [call EXCEPT ![c] = "returned"]
  /\ UNCHANGED <<recordVars, app, appVars, startVars, held, blamed, isStopping, didReportFailure, crashes>>

\* ...and tears down whatever is open by then.
RecorderStopEnds(c) ==
  /\ call[c] = "draining"
  /\ live' = None
  /\ call' = [call EXCEPT ![c] = "returned"]
  /\ UNCHANGED <<recordVars, app, appVars, startVars, held, blamed, isStopping, didReportFailure, crashes>>

(***************************************************************************)
(* Stopping.                                                               *)
(***************************************************************************)

\* A failure handler is between its check of the phase and its end.
HandlerAtWork(r) == call[r] \notin {"idle", "queued"}

\* The user and the detector may ask for a stop now.  The code has no such
\* condition: with StopsMayOverlap FALSE the stop comes before or after a
\* handler's manager.stop(), not during it.
MayAskToStop == StopsMayOverlap \/ \A r \in Reports : ~HandlerAtWork(r)

\* Mutant: phase stays recording until the stop Task is over.
stopRecordingKeepsPhase(u) ==
  /\ app = "up"
  /\ MayAskToStop
  /\ phase = "recording"
  /\ call[u] = "idle"
  /\ fromDetection' = FALSE
  /\ stopTask' = u
  /\ call' = [call EXCEPT ![u] = "queued"]
  /\ UNCHANGED <<recordVars, app, phase, shown, startVars, held, blamed, recorderVars, crashes>>

\* stopRecording: phase flips before the Task that stops is even created.
stopRecording(u) ==
  /\ app = "up"
  /\ MayAskToStop
  /\ phase = "recording"
  /\ call[u] = "idle"
  /\ phase' = "idle"
  /\ fromDetection' = FALSE
  /\ stopTask' = u
  /\ call' = [call EXCEPT ![u] = "queued"]
  /\ UNCHANGED <<recordVars, app, shown, startVars, held, blamed, recorderVars, crashes>>

ClickStop(u) == stopRecording(u)

\* onAudioMeetingEnded: only a recording started from detection is stopped.
MeetingAudioEnded(u) == fromDetection /\ stopRecording(u)

\* The stop Task is over: whoever awaits it goes on, and stopTask is cleared
\* even when it names a later Task by now.
endStopTask(u) ==
  /\ call' = [call EXCEPT ![u] = "idle"]
  /\ held' = [held EXCEPT ![u] = None]
  /\ stopTask' = None
  /\ awaited' = [c \in Clicks |-> IF awaited[c] = u THEN None ELSE awaited[c]]
  /\ reloadRecent

\* SessionManager.stop up to its await: it keeps a copy of the active session.
ManagerStop(u) ==
  /\ call[u] = "queued"
  /\ activeSession # None
  /\ call' = [call EXCEPT ![u] = "called"]
  /\ held' = [held EXCEPT ![u] = activeSession]
  /\ UNCHANGED <<recordVars, app, appVars, startVars, blamed, recorderVars, crashes>>

NoActiveSession(u) ==
  /\ call[u] = "queued"
  /\ activeSession = None
  /\ UNCHANGED <<recordVars, app, phase, fromDetection, click, blamed, recorderVars, crashes>>
  /\ endStopTask(u)

\* Mutant: the stopped session is not saved.
StopNotSaved(u) ==
  /\ call[u] = "returned"
  /\ call' = [call EXCEPT ![u] = "cleaning"]
  /\ UNCHANGED <<recordVars, app, appVars, startVars, held, blamed, recorderVars, crashes>>

\* SessionManager.stop after its await: the held copy is saved as recorded.
StopSaved(u) ==
  /\ call[u] = "returned"
  /\ status' = [status EXCEPT ![held[u]] = "recorded"]
  /\ call' = [call EXCEPT ![u] = "cleaning"]
  /\ UNCHANGED <<audio, started, app, appVars, startVars, held, blamed, recorderVars, crashes>>

\* The recorder threw, or the save did: the error path of the stop Task.
StopFailed(u) ==
  /\ call[u] = "returned"
  /\ \/ StopMayThrow /\ status' = [status EXCEPT ![held[u]] = "failed"]
     \/ SaveMayFail  /\ UNCHANGED status
  /\ endStopTask(u)
  /\ UNCHANGED <<audio, started, app, phase, fromDetection, click, blamed, recorderVars, crashes>>

\* After the noise clean-up: reload, and process(id:) when it is on.
StopTaskEnds(u) ==
  /\ call[u] = "cleaning"
  /\ UNCHANGED <<recordVars, app, phase, fromDetection, click, blamed, recorderVars, crashes>>
  /\ endStopTask(u)

(***************************************************************************)
(* The capture-failure handler.                                            *)
(***************************************************************************)

\* markFailed(id:) applied to the records st.
markFailed(st, s) ==
  IF s # None /\ st[s] \in {"recording", "recorded"}
    THEN [st EXCEPT ![s] = "failed"] ELSE st

\* What the handler's stop() may have left in the records: the held copy
\* saved as recorded or failed, or nothing when the save fails.
AfterManagerStop(s) ==
     {[status EXCEPT ![s] = "recorded"]}
  \cup (IF StopMayThrow THEN {[status EXCEPT ![s] = "failed"]} ELSE {})
  \cup (IF SaveMayFail THEN {status} ELSE {})

\* Mutant: the handler stops the session and forgets markFailed.
endFailureHandlerUnmarked(r, st, s) ==
  /\ status' = st
  /\ phase' = "idle"
  /\ reloadRecent
  /\ call' = [call EXCEPT ![r] = "idle"]
  /\ held' = [held EXCEPT ![r] = None]
  /\ blamed' = [blamed EXCEPT ![r] = None]

\* The end of the handler: the records after stop() are st; markFailed may
\* itself fail to save; the phase goes idle whatever it is now.
endFailureHandler(r, st, s) ==
  /\ \/ status' = markFailed(st, s)
     \/ SaveMayFail /\ status' = st
  /\ phase' = "idle"
  /\ reloadRecent
  /\ call' = [call EXCEPT ![r] = "idle"]
  /\ held' = [held EXCEPT ![r] = None]
  /\ blamed' = [blamed EXCEPT ![r] = None]

HandlerIgnores(r) ==
  /\ call[r] = "queued"
  /\ phase # "recording" \/ shown = None
  /\ call' = [call EXCEPT ![r] = "idle"]
  /\ UNCHANGED <<recordVars, app, appVars, startVars, held, blamed, recorderVars, crashes>>

\* Mutant: the handler does not ask for the phase, so it also stops a
\* recording that a stop Task holds.
HandlerStopsAnyway(r) ==
  /\ call[r] = "queued"
  /\ shown # None
  /\ activeSession # None
  /\ call' = [call EXCEPT ![r] = "called"]
  /\ held' = [held EXCEPT ![r] = activeSession]
  /\ blamed' = [blamed EXCEPT ![r] = shown]
  /\ UNCHANGED <<recordVars, app, appVars, startVars, recorderVars, crashes>>

HandlerStops(r) ==
  /\ call[r] = "queued"
  /\ phase = "recording" /\ shown # None
  /\ activeSession # None
  /\ call' = [call EXCEPT ![r] = "called"]
  /\ held' = [held EXCEPT ![r] = activeSession]
  /\ blamed' = [blamed EXCEPT ![r] = shown]
  /\ UNCHANGED <<recordVars, app, appVars, startVars, recorderVars, crashes>>

\* SessionManager.stop throws noActiveSession, which try? drops.
HandlerFindsNoSession(r) ==
  /\ call[r] = "queued"
  /\ phase = "recording" /\ shown # None
  /\ activeSession = None
  /\ endFailureHandler(r, status, shown)
  /\ UNCHANGED <<audio, started, app, fromDetection, stopTask, startVars, recorderVars, crashes>>

HandlerEnds(r) ==
  /\ call[r] = "returned"
  /\ \E st \in AfterManagerStop(held[r]) : endFailureHandler(r, st, blamed[r])
  /\ UNCHANGED <<audio, started, app, fromDetection, stopTask, startVars, recorderVars, crashes>>

(***************************************************************************)
(* The rest.                                                               *)
(***************************************************************************)

\* The Task of StartSaveFails, once the recorder has stopped.
CleanupEnds(k) ==
  /\ call[k] = "returned"
  /\ audio' = [audio EXCEPT ![held[k]] = "none"]
  /\ call' = [call EXCEPT ![k] = "idle"]
  /\ held' = [held EXCEPT ![k] = None]
  /\ UNCHANGED <<status, started, app, appVars, startVars, blamed, recorderVars, crashes>>

\* deleteMeeting: refused while the record says recording.
DeleteMeeting(s) ==
  /\ app = "up"
  /\ status[s] \in {"recorded", "failed"}
  /\ status' = [status EXCEPT ![s] = "absent"]
  /\ audio' = [audio EXCEPT ![s] = "none"]
  /\ reloadRecent
  /\ UNCHANGED <<started, app, phase, fromDetection, stopTask, startVars, stopVars, recorderVars, crashes>>

Init ==
  /\ status = [s \in Sessions |-> "absent"]
  /\ audio = [s \in Sessions |-> "none"]
  /\ started = 0
  /\ app = "down"
  /\ phase = "idle" /\ fromDetection = FALSE /\ stopTask = None /\ shown = None
  /\ click = [c \in Clicks |-> "idle"]
  /\ awaited = [c \in Clicks |-> None]
  /\ call = [c \in Callers |-> "idle"]
  /\ held = [c \in Callers |-> None]
  /\ blamed = [r \in Reports |-> None]
  /\ live = None /\ isStopping = FALSE /\ didReportFailure = FALSE
  /\ crashes = 0

StartStep(c) ==
  \/ ClickStart(c)
  \/ StartTaskRuns(c) \/ StopAwaited(c)
  \/ PermissionsDenied(c) \/ StartRefused(c) \/ StartRecorderThrows(c)
  \/ \E k \in Cleanups : StartSaveFails(c, k)
  \/ StartSucceeds(c)

StopStep(u) ==
  \/ ClickStop(u) \/ MeetingAudioEnded(u)
  \/ ManagerStop(u) \/ NoActiveSession(u)
  \/ StopSaved(u) \/ StopFailed(u) \/ StopTaskEnds(u)

HandlerStep(r) ==
  \/ CaptureFails(r) \/ HandlerIgnores(r) \/ HandlerStops(r)
  \/ HandlerFindsNoSession(r) \/ HandlerEnds(r)

Next ==
  \/ Launch \/ Crash
  \/ \E c \in Clicks : StartStep(c)
  \/ \E u \in Stops : StopStep(u)
  \/ \E r \in Reports : HandlerStep(r)
  \/ \E c \in Callers : RecorderStopBegins(c) \/ RecorderStopEnds(c)
  \/ \E k \in Cleanups : CleanupEnds(k)
  \/ \E s \in Sessions : DeleteMeeting(s)
  \/ CaptureAudio

Spec == Init /\ [][Next]_vars

(***************************************************************************)
(* Fairness: a Task that can run does run (the main actor drains its       *)
(* queue) and recorder.stop() returns (every wait in it ends: the start    *)
(* task is cancelled, the drain times out after 2 s).  Nothing is assumed  *)
(* of the user, of permission prompts or of failures.                      *)
(***************************************************************************)
Fairness ==
  /\ \A c \in Clicks : WF_vars(StartTaskRuns(c)) /\ WF_vars(StopAwaited(c))
  /\ \A u \in Stops :
       WF_vars(ManagerStop(u) \/ NoActiveSession(u) \/ StopSaved(u) \/ StopFailed(u) \/ StopTaskEnds(u))
  /\ \A r \in Reports : 
       WF_vars(HandlerIgnores(r) \/ HandlerStops(r) \/ HandlerFindsNoSession(r) \/ HandlerEnds(r))
  /\ \A c \in Callers : WF_vars(RecorderStopBegins(c) \/ RecorderStopEnds(c))
  /\ \A k \in Cleanups : WF_vars(CleanupEnds(k))

FairSpec == Spec /\ Fairness

-----------------------------------------------------------------------------

TypeOK ==
  /\ status \in [Sessions -> {"absent", "recording", "recorded", "failed"}]
  /\ audio \in [Sessions -> {"none", "empty", "some"}]
  /\ started \in 0..MaxSessions
  /\ app \in {"down", "up"}
  /\ phase \in {"idle", "recording"}
  /\ fromDetection \in BOOLEAN
  /\ stopTask \in Stops \cup {None}
  /\ shown \in Sessions \cup {None}
  /\ click \in [Clicks -> {"idle", "queued", "awaitStop", "permissions"}]
  /\ awaited \in [Clicks -> Stops \cup {None}]
  /\ call \in [Callers -> {"idle", "queued", "called", "draining", "returned", "cleaning"}]
  /\ held \in [Callers -> Sessions \cup {None}]
  /\ blamed \in [Reports -> Sessions \cup {None}]
  /\ live \in Sessions \cup {None}
  /\ isStopping \in BOOLEAN
  /\ didReportFailure \in BOOLEAN
  /\ crashes \in 0..MaxCrashes

(***************************************************************************)
(* Safety.                                                                 *)
(***************************************************************************)

\* At most one record on disk says it is recording, whatever fails: start()
\* asks the records, not AppState.phase, which stale Tasks may have flipped.
AtMostOneRecording ==
  \A s, t \in Recording : s = t

\* "Never leave an unowned live capture behind a failed start"
\* (SessionManager.swift:96): while the recorder has files open, either their
\* session is on disk as recording or a clean-up Task is about to stop it.
LiveCaptureIsOwned ==
  live # None =>
    \/ status[live] = "recording"
    \/ \E k \in Cleanups : held[k] = live /\ Stopping(k)

\* stopRecording flips phase before it awaits so that no duplicate
\* manager.stop() is spawned (AppState.swift:560-564).
OneStopInFlight ==
  \A c, d \in Callers : Stopping(c) /\ Stopping(d) => c = d

\* With nothing in flight and AppState idle, no record still says recording:
\* such a record would refuse every later start until the next launch.
NeverWedged ==
  app = "up" /\ phase = "idle" /\ (\A c \in Callers : call[c] = "idle")
    => Recording = {}

\* When the app shows a recording and no handler is taking it down, the recorder
\* has that session's files open.
RecordingIsLive ==
  phase = "recording" /\ (\A r \in Reports : ~HandlerAtWork(r))
    => live # None /\ live = activeSession

\* AppState.phase, the records on disk and the recorder agree: no stop is
\* doubled, a recording that is shown is captured unless a failure handler is
\* taking it down, and idle means idle.
PhaseIsTrue == TypeOK /\ OneStopInFlight /\ NeverWedged /\ RecordingIsLive

\* The recorder is only started when it is idle and nobody is inside its
\* stop(), which would tear the new recording down.
StartFindsRecorderIdle ==
  [][live' # live /\ live' # None
       => live = None /\ \A c \in Callers : ~Stopping(c)]_vars

\* A session marked failed, because its capture died, its stop threw or a crash
\* left it without audio, never looks like a normal recording again ("mark the
\* in-flight session `.failed` instead of leaving it to look like a normal
\* (silent) recording", AppState.swift:151-154).  With StopsMayOverlap the
\* code breaks it: the copy a stop Task loaded before the mark is saved after it.
FailedStaysFailed ==
  [][\A s \in Sessions : status[s] = "failed" => status'[s] \in {"failed", "absent"}]_vars

\* A deleted meeting does not come back when some Task saves the copy it held.
DeletedStaysDeleted ==
  [][\A s \in Sessions : s <= started /\ status[s] = "absent" => status'[s] = "absent"]_vars

(***************************************************************************)
(* Liveness, under FairSpec.                                               *)
(***************************************************************************)

\* A recording that the app no longer shows is finalized on disk.
StoppedRecordingIsFinalized ==
  \A s \in Sessions :
    (status[s] = "recording" /\ phase = "idle" /\ app = "up")
      ~> (status[s] # "recording" \/ app = "down")

\* A Record click waiting for a stop goes on to the permission check.
WaitingStartGoesOn ==
  \A c \in Clicks : click[c] \in {"queued", "awaitStop"} ~> click[c] \in {"permissions", "idle"}

\* A recording whose capture failure a handler has taken on ends up marked
\* failed (AppState.swift:151-154), however long recorder.stop() takes, whether
\* it throws, and whatever is started or deleted meanwhile.
FailureIsMarked ==
  \A s \in Sessions :
    (\E r \in Reports : HandlerAtWork(r) /\ blamed[r] = s)
      ~> (status[s] \in {"failed", "absent"} \/ app = "down")

\* A capture that dies while the app shows the recording is handled, "instead
\* of leaving it to look like a normal (silent) recording"
\* (AppState.swift:151-154): it is taken down, whoever stops it.
CaptureFailureIsHandled ==
  \A s \in Sessions :
    (live = s /\ didReportFailure /\ phase = "recording")
      ~> (live # s \/ app = "down")

=============================================================================
