-------------------------- MODULE MeetingDetection --------------------------
(***************************************************************************)
(* ZMeetApp/MeetingDetector.swift with the reducers it drives              *)
(* (MeetingAudioActivity, DetectorCadence, DetectorGate,                   *)
(* DetectedMeetingTracker) and what AppState does with its signals: the    *)
(* "Take notes" banner and the automatic stop.  Everything runs on the     *)
(* main actor; what interleaves is timers that fired, Tasks they queued,   *)
(* the user and the meeting app.                                           *)
(*                                                                         *)
(* One unit of time is the fast scan interval, 4 s.  Time stands still     *)
(* while a timer is due or a Task is queued: the main actor is never busy  *)
(* for seconds.  A recording is a start that was asked for, and then one   *)
(* that runs; RecordingLifecycle has the rest of it.                       *)
(***************************************************************************)
EXTENDS Naturals, FiniteSets, Bags

CONSTANTS
  Windows,             \* titles of the meeting windows that may be on screen
  AudioMeeting,        \* the meeting the audio signal alone names
  StartTicks,          \* MeetingAudioActivity's startTicks
  EndTicks,            \* and its endTicks
  DisappearThreshold,  \* MeetingDetector.disappearThreshold
  IdleScans,           \* DetectorGate.idleScansBeforeSlowdown
  SlowInterval,        \* DetectorGate.slowInterval, in fast intervals
  MaxTimers,           \* bound: timers the detector no longer knows
  None                 \* no window, no meeting, no timer

ASSUME TicksAssumption ==
  /\ StartTicks \in Nat \ {0} /\ EndTicks \in Nat \ {0}
  /\ DisappearThreshold \in Nat \ {0}
  /\ IdleScans \in Nat /\ SlowInterval \in Nat \ {0}
ASSUME MeetingsAssumption ==
  None \notin Nat \cup Windows \cup {AudioMeeting} /\ AudioMeeting \notin Windows

VARIABLES
  appRunning, window, audio,   \* the meeting app: running, its window, its sound
  isRunning,                   \* MeetingDetector's, in the order it has them
  timer,                       \* what is left until it fires, or None
  loose,                       \* timers that were replaced and still run
  tasks,                       \* fired timers whose Task has not run yet
  current, missCount,
  activity,                    \* MeetingAudioActivity
  cadence,                     \* DetectorCadence
  tracker,                     \* AppState.meetingTracker
  banner,                      \* the meeting of the banner on screen, or None
  dismissed,                   \* dismissedMeetingKeys
  recording,                   \* AppState.phase with recordingFromDetection
  starting,                    \* the start Task that waits for permissions
  callFor,                     \* history: how long the app has had sound
  heardAgo                     \* history: how long ago a scan heard it

world == <<appRunning, window, audio>>
clockVars == <<timer, loose, tasks>>
scanVars == <<current, missCount, activity, cadence>>
appVars == <<tracker, banner, dismissed, recording, starting>>
history == <<callFor, heardAgo>>
vars == <<world, isRunning, clockVars, scanVars, appVars, history>>

Fast == 1
Meetings == Windows \cup {AudioMeeting}

\* The longest a call goes unnoticed (DetectorGate.callConfirmationBudget).
CallConfirmationBudget == SlowInterval + Fast

Least(m, n) == IF m < n THEN m ELSE n
Longest == CallConfirmationBudget + EndTicks

TypeOK ==
  /\ appRunning \in BOOLEAN /\ window \in Windows \cup {None}
  /\ audio \in BOOLEAN /\ isRunning \in BOOLEAN
  /\ timer \in 0 .. SlowInterval \cup {None}
  /\ IsABag(loose) /\ DOMAIN loose \subseteq 0 .. SlowInterval
  /\ tasks \in Nat
  /\ current \in Windows \cup {None}
  /\ missCount \in 0 .. DisappearThreshold - 1
  /\ activity \in [inMeeting : BOOLEAN, activeRun : 0 .. StartTicks,
                   inactiveRun : 0 .. EndTicks]
  /\ cadence \in [idle : 0 .. IdleScans, lastAppRunning : BOOLEAN]
  /\ tracker \in [windowMeeting : Windows \cup {None}, audioApp : BOOLEAN]
  /\ banner \in Meetings \cup {None}
  /\ dismissed \subseteq Meetings
  /\ recording \in {"no", "manual", "detected"}
  /\ starting \in {"no", "manual", "detected"}
  /\ callFor \in 0 .. Longest /\ heardAgo \in 0 .. Longest

-----------------------------------------------------------------------------
(* The reducers.  Their counters are only compared, so each stays at the    *)
(* value from which on the comparison does not change.                      *)

NoActivity == [inMeeting |-> FALSE, activeRun |-> 0, inactiveRun |-> 0]

\* MeetingAudioActivity.update
Updated(a, active) ==
  LET on == IF active THEN Least(a.activeRun + 1, StartTicks) ELSE 0
      off == IF active THEN 0 ELSE Least(a.inactiveRun + 1, EndTicks)
  IN  [inMeeting |-> IF a.inMeeting THEN active \/ off < EndTicks
                                    ELSE active /\ on >= StartTicks,
       activeRun |-> on, inactiveRun |-> off]

NoCadence == [idle |-> 0, lastAppRunning |-> FALSE]

\* DetectorCadence.next: the state after this scan ...
Counted(c, active, running) ==
  [idle |-> IF active \/ (running /\ ~c.lastAppRunning)
              THEN 0 ELSE Least(c.idle + 1, IdleScans),
   lastAppRunning |-> running]

\* Mutant: the bug of v1.15.3, only a confirmed meeting restores the cadence.
NextIntervalOnConfirmation(c, hasWindow, inMeeting, sawAudio, running) ==
  IF \/ hasWindow \/ inMeeting
     \/ running /\ ~sawAudio /\ c.idle < IdleScans
    THEN Fast
    ELSE SlowInterval

\* ... and DetectorGate.nextInterval on it.
NextInterval(c, hasWindow, inMeeting, sawAudio, running) ==
  IF \/ hasWindow \/ inMeeting \/ sawAudio
     \/ running /\ c.idle < IdleScans
    THEN Fast
    ELSE SlowInterval

\* Mutant: nothing to scan once the app has quit.
ShouldFullScanOnlyRunning(hasWindow, inMeeting, running) == running

\* DetectorGate.shouldFullScan
ShouldFullScan(hasWindow, inMeeting, running) ==
  hasWindow \/ inMeeting \/ running

NoTracker == [windowMeeting |-> None, audioApp |-> FALSE]

\* DetectedMeetingTracker.current
Detected(t) == IF t.windowMeeting # None THEN t.windowMeeting
               ELSE IF t.audioApp THEN AudioMeeting ELSE None

Init ==
  /\ appRunning = FALSE /\ window = None /\ audio = FALSE
  /\ isRunning = FALSE
  /\ timer = None /\ loose = EmptyBag /\ tasks = 0
  /\ current = None /\ missCount = 0
  /\ activity = NoActivity
  /\ cadence = NoCadence
  /\ tracker = NoTracker
  /\ banner = None /\ dismissed = {}
  /\ recording = "no" /\ starting = "no"
  /\ callFor = 0 /\ heardAgo = Longest

-----------------------------------------------------------------------------
(* AppState's side of a scan.  The signals of one scan come one after the   *)
(* other, each with its own reconciliation of the banner, so each is a      *)
(* function on what AppState keeps.                                         *)

App == [tracker |-> tracker, banner |-> banner, dismissed |-> dismissed,
        recording |-> recording]

\* meetingDetectionChanged
Reconciled(app) ==
  LET meeting == Detected(app.tracker)
  IN  CASE meeting = None -> [app EXCEPT !.banner = None, !.dismissed = {}]
        [] meeting # None /\ app.recording = "no" /\ app.banner = None
             /\ meeting \notin app.dismissed -> [app EXCEPT !.banner = meeting]
        [] OTHER -> app

WindowChanged(app, meeting) ==
  Reconciled([app EXCEPT !.tracker.windowMeeting = meeting])

AudioStarted(app) == Reconciled([app EXCEPT !.tracker.audioApp = TRUE])

\* Mutant: the meeting is over and the recording runs on.
AudioEndedWithoutStop(app) ==
  Reconciled([app EXCEPT !.tracker.audioApp = FALSE])

\* Only a recording that detection started is stopped.
AudioEnded(app) ==
  Reconciled([app EXCEPT !.tracker.audioApp = FALSE,
                         !.recording = IF @ = "detected" THEN "no" ELSE @])

-----------------------------------------------------------------------------
(* The detector.                                                            *)

\* scanWindows: a window counts as gone after DisappearThreshold misses.
Missed == window = None /\ current # None
Gone == Missed /\ missCount + 1 >= DisappearThreshold
SeenWindow == CASE window # None -> window
                [] Gone -> None
                [] OTHER -> current
Misses == IF Missed /\ ~Gone THEN missCount + 1
          ELSE IF Missed \/ window # None THEN 0 ELSE missCount

\* scheduleNext: the timer that was there is not invalidated.
ScheduleNext(interval, old) ==
  /\ timer' = interval
  /\ loose' = IF old = None THEN loose ELSE loose (+) SetToBag({old})

\* scanAndReschedule, reached with `old` in the timer property.
ScanAndReschedule(old) ==
  LET full == ShouldFullScan(current # None, activity.inMeeting, appRunning)
      seen == IF full THEN SeenWindow ELSE current
      heard == full /\ audio
      now == Updated(activity, heard)
      counted == Counted(cadence, seen # None \/ now.inMeeting \/ heard,
                         appRunning)
      \* a gated scan drops what the audio reducer says
      windowed == IF seen # current THEN WindowChanged(App, seen) ELSE App
      app == CASE full /\ now.inMeeting /\ ~activity.inMeeting ->
                    AudioStarted(windowed)
               [] full /\ ~now.inMeeting /\ activity.inMeeting ->
                    AudioEnded(windowed)
               [] OTHER -> windowed
  IN  /\ current' = seen
      /\ missCount' = IF full THEN Misses ELSE missCount
      /\ activity' = now
      /\ cadence' = counted
      /\ tracker' = app.tracker
      /\ banner' = app.banner
      /\ dismissed' = app.dismissed
      /\ recording' = app.recording
      /\ heardAgo' = IF heard THEN 0 ELSE heardAgo
      /\ ScheduleNext(NextInterval(counted, seen # None, now.inMeeting, heard,
                                   appRunning), old)

\* A timer fires: its closure hops to the main actor.  The property still
\* holds the timer; it will never fire again.
Fire ==
  /\ \/ /\ timer = 0
        /\ timer' = None
        /\ UNCHANGED loose
     \/ /\ 0 \in DOMAIN loose
        /\ loose' = loose (-) SetToBag({0})
        /\ UNCHANGED timer
  /\ tasks' = tasks + 1
  /\ UNCHANGED <<world, isRunning, scanVars, appVars, history>>

\* The Task runs.  After stop() it finds isRunning false.
RunTask ==
  /\ tasks > 0
  /\ tasks' = tasks - 1
  /\ IF isRunning
       THEN ScanAndReschedule(timer)
       ELSE UNCHANGED <<timer, loose, scanVars, tracker, banner, dismissed,
                        recording, heardAgo>>
  /\ UNCHANGED <<world, isRunning, starting, callFor>>

\* updateConfig turns detection on: start() scans at once.
TurnOn ==
  /\ ~isRunning
  /\ BagCardinality(loose) + tasks <= MaxTimers
  /\ isRunning' = TRUE
  /\ ScanAndReschedule(timer)
  /\ callFor' = 0
  /\ UNCHANGED <<world, tasks, starting>>

\* updateConfig turns it off: stop(), the tracker's reset and the banner.
TurnOff ==
  /\ isRunning
  /\ isRunning' = FALSE
  /\ timer' = None
  /\ current' = None
  /\ missCount' = 0
  /\ activity' = NoActivity
  /\ cadence' = NoCadence
  /\ tracker' = NoTracker
  /\ banner' = None
  /\ callFor' = 0
  /\ UNCHANGED <<world, loose, tasks, dismissed, recording, starting,
                 heardAgo>>

-----------------------------------------------------------------------------
(* The meeting app, the user and time.                                      *)

\* The app starts, quits, shows a window, makes a sound or falls silent.
WorldChanges ==
  /\ appRunning' \in BOOLEAN
  /\ window' \in IF appRunning' THEN Windows \cup {None} ELSE {None}
  /\ audio' \in IF appRunning' THEN BOOLEAN ELSE {FALSE}
  /\ world' # world
  /\ callFor' = IF audio' THEN callFor ELSE 0
  /\ UNCHANGED <<isRunning, clockVars, scanVars, appVars, heardAgo>>

Left(t) == IF t = None THEN None ELSE t - 1

Tick ==
  /\ tasks = 0 /\ timer # 0 /\ 0 \notin DOMAIN loose
  /\ timer' = Left(timer)
  /\ loose' = [t \in {l - 1 : l \in DOMAIN loose} |-> loose[t + 1]]
  /\ callFor' = IF audio /\ isRunning THEN Least(callFor + 1, Longest)
                                      ELSE callFor
  /\ heardAgo' = Least(heardAgo + 1, Longest)
  /\ UNCHANGED <<world, isRunning, tasks, scanVars, appVars>>

\* The banner's close button, its 15 s timer, and a manual start: all hide it.
DismissBanner ==
  /\ banner # None
  /\ dismissed' = dismissed \cup {banner}
  /\ banner' = None
  /\ UNCHANGED <<world, isRunning, clockVars, scanVars, tracker, recording,
                 starting, history>>

BannerTimesOut ==
  /\ banner # None
  /\ banner' = None
  /\ UNCHANGED <<world, isRunning, clockVars, scanVars, tracker, dismissed,
                 recording, starting, history>>

\* recordDetectedMeeting, from the banner or from the menu's row.
RecordDetectedMeeting ==
  LET meeting == IF Detected(tracker) # None THEN Detected(tracker)
                                             ELSE banner
  IN  /\ recording = "no" /\ starting = "no" /\ meeting # None
      /\ dismissed' = dismissed \cup {meeting}
      /\ banner' = None
      /\ starting' = "detected"
      /\ UNCHANGED <<world, isRunning, clockVars, scanVars, tracker,
                     recording, history>>

RequestManualStart ==
  /\ recording = "no" /\ starting = "no"
  /\ starting' = "manual"
  /\ banner' = None
  /\ UNCHANGED <<world, isRunning, clockVars, scanVars, tracker, dismissed,
                 recording, history>>

\* The start Task has its permissions, or not.
StartRecording ==
  /\ starting # "no"
  /\ \/ recording' = starting
     \/ UNCHANGED recording
  /\ starting' = "no"
  /\ UNCHANGED <<world, isRunning, clockVars, scanVars, tracker, banner,
                 dismissed, history>>

StopRecording ==
  /\ recording # "no"
  /\ recording' = "no"
  /\ UNCHANGED <<world, isRunning, clockVars, scanVars, tracker, banner,
                 dismissed, starting, history>>

User == TurnOn \/ TurnOff \/ DismissBanner \/ BannerTimesOut
          \/ RecordDetectedMeeting \/ RequestManualStart \/ StartRecording
          \/ StopRecording

Next == Fire \/ RunTask \/ User \/ WorldChanges \/ Tick

(* Timers fire, their Tasks run and time passes.  Time is blocked again and *)
(* again by timers that are due, so its fairness is strong.  The user and   *)
(* the meeting app owe nothing.                                             *)
Fairness == WF_vars(Fire) /\ WF_vars(RunTask) /\ SF_vars(Tick)

Spec == Init /\ [][Next]_vars /\ Fairness

-----------------------------------------------------------------------------
(* The app's view of the meeting is the detector's: a scan that is gated    *)
(* may drop an event of the audio reducer only because there is none to     *)
(* drop (MeetingDetector.swift:97-101, DetectorGate's "never skip           *)
(* mid-meeting").                                                           *)
TrackerAgrees ==
  /\ tracker.windowMeeting = current
  /\ tracker.audioApp = activity.inMeeting

(* A call is noticed within its budget wherever in the idle cadence it      *)
(* begins, whatever windows, launches and switches of the setting came      *)
(* before (MeetingAppCatalog.swift:77-84; a unit test has one such path).   *)
ConfirmedInTime ==
  isRunning /\ callFor > CallConfirmationBudget => activity.inMeeting

(* The end of a call is noticed too, after EndTicks fast intervals without  *)
(* sound: the slow cadence never delays the automatic stop.                 *)
EndedInTime == isRunning /\ heardAgo > EndTicks => ~activity.inMeeting

(* Nothing polls while detection is off: no Task that was on its way when   *)
(* stop() ran arms a timer (the comment on isRunning).                      *)
NoPollingWhileOff == ~isRunning => timer = None

(* What the detector, its timers and AppState each hold fits together.      *)
DetectionIsConsistent == TypeOK /\ TrackerAgrees /\ NoPollingWhileOff

(* Calls are noticed in time, and so are their ends.                        *)
NoticedInTime == ConfirmedInTime /\ EndedInTime

(* A recording that detection started does not outlive the call: once it    *)
(* runs during a confirmed meeting it is stopped, unless the sound comes    *)
(* back or detection is turned off.                                         *)
DetectedRecordingEnds ==
  recording = "detected" /\ activity.inMeeting
    ~> audio \/ recording # "detected" \/ ~isRunning

=============================================================================
