----------------------- MODULE MeetingDetectionProofs -----------------------
(***************************************************************************)
(* Meeting detection, for any number of windows, thresholds and intervals. *)
(*                                                                         *)
(* The two bounds of NoticedInTime are not inductive: how long a call has  *)
(* gone unnoticed says nothing without the time left until the next scan   *)
(* and the scans that have heard it.  The invariant bounds their sum       *)
(* (Confirming, Ending); timers that were replaced and still fire only     *)
(* make scans come sooner, and it does not mention them.                   *)
(***************************************************************************)
EXTENDS MeetingDetection, Integers, TLAPS

\* What is left until the next scan; no time passes while a Task is queued.
Remaining == IF timer = None THEN 0 ELSE timer

\* While detection is on somebody will scan.
Polling == isRunning /\ timer = None => tasks > 0

\* Only an app that runs has a window or sound, and only sound makes a call.
WorldFits ==
  /\ ~appRunning => window = None /\ ~audio
  /\ ~audio => callFor = 0

\* stop() leaves nothing behind but the Tasks that were on their way.
Off == ~isRunning => timer = None /\ current = None /\ activity = NoActivity

\* Who has heard something scans again at the fast interval.
Soon == isRunning /\ (activity.inMeeting \/ activity.activeRun > 0) => Remaining <= Fast

\* A call that is not confirmed yet began at most a slow interval before the
\* scan to come, or has been heard once.
Confirming ==
  isRunning /\ ~activity.inMeeting =>
    /\ activity.activeRun < StartTicks
    /\ audio => callFor + Remaining <= SlowInterval + activity.activeRun

\* A call that is confirmed was heard as many intervals before the scan to come
\* as scans have missed it.
Ending ==
  isRunning /\ activity.inMeeting =>
    /\ activity.inactiveRun < EndTicks
    /\ heardAgo + Remaining <= activity.inactiveRun + 1

\* The first scan that hears a call is followed by one that confirms it, as
\* with MeetingAudioActivity's startTicks.
ConfirmedByTwo == StartTicks <= 2

IInv == TypeOK /\ TrackerAgrees /\ Polling /\ WorldFits /\ Off /\ Soon /\ Ending

-----------------------------------------------------------------------------
(* Timers.                                                                  *)

TimerType == 0 .. SlowInterval \cup {None}
LooseFit(timers) == IsABag(timers) /\ DOMAIN timers \subseteq 0 .. SlowInterval

\* No timer runs longer than the slow interval.
LEMMA Scheduled ==
  ASSUME LooseFit(loose), NEW old \in TimerType, NEW interval \in {Fast, SlowInterval},
         ScheduleNext(interval, old)
  PROVE  timer' = interval /\ interval \in 1 .. SlowInterval /\ LooseFit(loose')
<1>1. interval \in 1 .. SlowInterval  BY TicksAssumption DEF Fast
<1>2. CASE old = None  BY <1>1, <1>2 DEF ScheduleNext
<1>3. CASE old # None
  <2>1. loose' = loose (+) SetToBag({old})  BY <1>3 DEF ScheduleNext
  <2>2. /\ DOMAIN loose' = DOMAIN loose \cup {old}
        /\ \A t \in DOMAIN loose' :
             loose'[t] = (IF t \in DOMAIN loose THEN loose[t] ELSE 0)
                           + (IF t \in {old} THEN 1 ELSE 0)
    BY <2>1 DEF (+), SetToBag
  <2>3. \A t \in DOMAIN loose' : loose'[t] \in Nat /\ loose'[t] > 0
    BY <2>2 DEF LooseFit, IsABag
  <2>4. loose' = [t \in DOMAIN loose' |-> loose'[t]]
    BY <2>1 DEF (+), SetToBag
  <2> QED  BY <1>1, <1>3, <2>2, <2>3, <2>4 DEF ScheduleNext, LooseFit, IsABag, TimerType
<1> QED  BY <1>2, <1>3

\* A timer that fires is gone.
LEMMA Fired ==
  ASSUME LooseFit(loose), loose' = loose (-) SetToBag({0}), 0 \in DOMAIN loose
  PROVE  LooseFit(loose')
<1> DEFINE left == [t \in DOMAIN loose |-> IF t \in {0} THEN loose[t] - 1 ELSE loose[t]]
<1>1. loose' = [t \in {d \in DOMAIN left : left[d] > 0} |-> left[t]]
  <2>1. \A t \in DOMAIN loose : t \in {0} => SetToBag({0})[t] = 1  BY DEF SetToBag
  <2>2. DOMAIN SetToBag({0}) = {0}  BY DEF SetToBag
  <2>3. left = [t \in DOMAIN loose |-> IF t \in DOMAIN SetToBag({0}) THEN loose[t] - SetToBag({0})[t]
                                                                    ELSE loose[t]]
    BY <2>1, <2>2
  <2> QED  BY <2>3 DEF (-)
<1>2. \A t \in DOMAIN loose : left[t] \in Int  BY DEF LooseFit, IsABag
<1>3. \A t \in DOMAIN loose' : t \in DOMAIN loose /\ loose'[t] = left[t] /\ left[t] > 0
  BY <1>1
<1> HIDE DEF left
<1>4. loose' = [t \in DOMAIN loose' |-> loose'[t]]  BY <1>1
<1> QED  BY <1>2, <1>3, <1>4 DEF LooseFit, IsABag

\* Time passes for every timer.
LEMMA Aged ==
  ASSUME LooseFit(loose), 0 \notin DOMAIN loose,
         loose' = [t \in {l - 1 : l \in DOMAIN loose} |-> loose[t + 1]]
  PROVE  LooseFit(loose')
<1>1. \A t \in DOMAIN loose' : t \in 0 .. SlowInterval /\ t + 1 \in DOMAIN loose
  BY TicksAssumption DEF LooseFit
<1> QED  BY <1>1 DEF LooseFit, IsABag

-----------------------------------------------------------------------------
(* The reducers and AppState's side.                                        *)

TrackerType  == [windowMeeting : Windows \cup {None}, audioApp : BOOLEAN]
ActivityType == [inMeeting : BOOLEAN, activeRun : 0 .. StartTicks, inactiveRun : 0 .. EndTicks]
CadenceType  == [idle : 0 .. IdleScans, lastAppRunning : BOOLEAN]
AppType == [tracker : TrackerType, banner : Meetings \cup {None},
            dismissed : SUBSET Meetings, recording : {"no", "manual", "detected"}]

\* What MeetingAudioActivity.update does with a scan.
LEMMA Updates ==
  ASSUME NEW a \in ActivityType, NEW active \in BOOLEAN
  PROVE  /\ Updated(a, active) \in ActivityType
         /\ Updated(a, active).activeRun = IF active THEN Least(a.activeRun + 1, StartTicks) ELSE 0
         /\ Updated(a, active).inactiveRun = IF active THEN 0 ELSE Least(a.inactiveRun + 1, EndTicks)
         /\ Updated(a, active).inMeeting <=>
              IF active THEN a.inMeeting \/ a.activeRun + 1 >= StartTicks
                        ELSE a.inMeeting /\ a.inactiveRun + 1 < EndTicks
<1> DEFINE on == IF active THEN Least(a.activeRun + 1, StartTicks) ELSE 0
           off == IF active THEN 0 ELSE Least(a.inactiveRun + 1, EndTicks)
           in == IF a.inMeeting THEN active \/ off < EndTicks ELSE active /\ on >= StartTicks
           u == Updated(a, active)
<1>1. on \in 0 .. StartTicks /\ off \in 0 .. EndTicks
  BY TicksAssumption DEF ActivityType, Least
<1>2. u = [inMeeting |-> in, activeRun |-> on, inactiveRun |-> off]
  BY DEF Updated
<1>3. /\ in \in BOOLEAN
      /\ in <=> IF active THEN a.inMeeting \/ a.activeRun + 1 >= StartTicks
                          ELSE a.inMeeting /\ a.inactiveRun + 1 < EndTicks
  BY TicksAssumption DEF ActivityType, Least
<1> HIDE DEF in, on, off, u
<1>4. u.inMeeting = in /\ u.activeRun = on /\ u.inactiveRun = off  BY <1>2
<1>5. u \in ActivityType  BY <1>1, <1>2, <1>3 DEF ActivityType
<1> QED  BY <1>3, <1>4, <1>5 DEF on, off, u

\* The banner follows the tracker, and leaves it as it is.
LEMMA ReconciledFits ==
  ASSUME NEW app \in AppType
  PROVE  Reconciled(app) \in AppType /\ Reconciled(app).tracker = app.tracker
<1>1. Detected(app.tracker) \in Meetings \cup {None}
  BY DEF Detected, AppType, TrackerType, Meetings
<1> QED  BY <1>1 DEF Reconciled, AppType

\* Each signal of a scan moves the part of the tracker it is about.
LEMMA SignalsFit ==
  ASSUME NEW app \in AppType
  PROVE  /\ \A m \in Windows \cup {None} :
              /\ WindowChanged(app, m) \in AppType
              /\ WindowChanged(app, m).tracker = [app.tracker EXCEPT !.windowMeeting = m]
         /\ AudioStarted(app) \in AppType
         /\ AudioStarted(app).tracker = [app.tracker EXCEPT !.audioApp = TRUE]
         /\ AudioEnded(app) \in AppType
         /\ AudioEnded(app).tracker = [app.tracker EXCEPT !.audioApp = FALSE]
<1>1. ASSUME NEW m \in Windows \cup {None}
      PROVE  /\ WindowChanged(app, m) \in AppType
             /\ WindowChanged(app, m).tracker = [app.tracker EXCEPT !.windowMeeting = m]
  <2> DEFINE next == [app EXCEPT !.tracker.windowMeeting = m]
  <2>1. next \in AppType /\ next.tracker = [app.tracker EXCEPT !.windowMeeting = m]
    BY DEF AppType, TrackerType
  <2> QED  BY <2>1, ReconciledFits DEF WindowChanged
<1>2. /\ AudioStarted(app) \in AppType
      /\ AudioStarted(app).tracker = [app.tracker EXCEPT !.audioApp = TRUE]
  <2> DEFINE next == [app EXCEPT !.tracker.audioApp = TRUE]
  <2>1. next \in AppType /\ next.tracker = [app.tracker EXCEPT !.audioApp = TRUE]
    BY DEF AppType, TrackerType
  <2> QED  BY <2>1, ReconciledFits DEF AudioStarted
<1>3. /\ AudioEnded(app) \in AppType
      /\ AudioEnded(app).tracker = [app.tracker EXCEPT !.audioApp = FALSE]
  <2> DEFINE next == [app EXCEPT !.tracker.audioApp = FALSE,
                                 !.recording = IF @ = "detected" THEN "no" ELSE @]
  <2>1. next \in AppType /\ next.tracker = [app.tracker EXCEPT !.audioApp = FALSE]
    BY DEF AppType, TrackerType
  <2> QED  BY <2>1, ReconciledFits DEF AudioEnded
<1> QED  BY <1>1, <1>2, <1>3

\* What a scan does: the audio reducer hears the sound there is, the tracker
\* comes to show what the detector has, and after a scan that heard something
\* or found itself in a meeting the next one is a fast interval away.
LEMMA Scans ==
  ASSUME IInv, ScanAndReschedule(timer)
  PROVE  /\ current' \in Windows \cup {None} /\ missCount' \in 0 .. DisappearThreshold - 1
         /\ activity' = Updated(activity, audio) /\ cadence' \in CadenceType
         /\ tracker' \in TrackerType /\ banner' \in Meetings \cup {None}
         /\ dismissed' \in SUBSET Meetings /\ recording' \in {"no", "manual", "detected"}
         /\ tracker'.windowMeeting = current' /\ tracker'.audioApp = activity'.inMeeting
         /\ timer' \in {Fast, SlowInterval} /\ LooseFit(loose')
         /\ activity'.inMeeting \/ audio => timer' = Fast
         /\ heardAgo' = IF audio THEN 0 ELSE heardAgo
<1> DEFINE full == ShouldFullScan(current # None, activity.inMeeting, appRunning)
           seen == IF full THEN SeenWindow ELSE current
           heard == full /\ audio
           now == Updated(activity, heard)
           counted == Counted(cadence, seen # None \/ now.inMeeting \/ heard, appRunning)
           windowed == IF seen # current THEN WindowChanged(App, seen) ELSE App
           app == CASE full /\ now.inMeeting /\ ~activity.inMeeting -> AudioStarted(windowed)
                    [] full /\ ~now.inMeeting /\ activity.inMeeting -> AudioEnded(windowed)
                    [] OTHER -> windowed
           interval == NextInterval(counted, seen # None, now.inMeeting, heard, appRunning)
<1>1. /\ current' = seen /\ missCount' = IF full THEN Misses ELSE missCount
      /\ activity' = now /\ cadence' = counted /\ tracker' = app.tracker
      /\ banner' = app.banner /\ dismissed' = app.dismissed /\ recording' = app.recording
      /\ heardAgo' = IF heard THEN 0 ELSE heardAgo
      /\ ScheduleNext(interval, timer)
  BY DEF ScanAndReschedule
<1>2. heard = audio /\ audio \in BOOLEAN
  BY DEF IInv, TypeOK, WorldFits, ShouldFullScan
<1>3. /\ seen \in Windows \cup {None}
      /\ (IF full THEN Misses ELSE missCount) \in 0 .. DisappearThreshold - 1
  BY TicksAssumption DEF IInv, TypeOK, SeenWindow, Misses, Missed, Gone
<1>4. now \in ActivityType /\ activity \in ActivityType
  BY <1>2, Updates DEF IInv, TypeOK, ActivityType
<1>5. counted \in CadenceType
  BY TicksAssumption DEF IInv, TypeOK, CadenceType, Counted, Least
<1>6. App \in AppType /\ App.tracker = tracker
  BY DEF App, AppType, TrackerType, IInv, TypeOK
<1>7. /\ windowed \in AppType
      /\ windowed.tracker = [tracker EXCEPT !.windowMeeting = seen]
  <2>1. CASE seen # current  BY <1>3, <1>6, <2>1, SignalsFit
  <2>2. CASE seen = current
    <3>1. tracker = [tracker EXCEPT !.windowMeeting = seen]
      BY <1>6, <2>2 DEF IInv, TrackerAgrees, AppType, TrackerType
    <3> QED  BY <1>6, <2>2, <3>1
  <2> QED  BY <2>1, <2>2
<1>8. ~full => ~now.inMeeting /\ ~activity.inMeeting
  <2>1. now = Updated(activity, audio)  BY <1>2
  <2>2. ~full => ~activity.inMeeting /\ ~audio  BY <1>2 DEF ShouldFullScan
  <2> HIDE DEF full, now
  <2> QED  BY <1>2, <1>4, <2>1, <2>2, Updates
<1>9. app \in AppType /\ app.tracker = [windowMeeting |-> seen, audioApp |-> now.inMeeting]
  <2>0. tracker \in TrackerType /\ tracker.audioApp = activity.inMeeting
    BY DEF IInv, TypeOK, TrackerAgrees, TrackerType
  <2>1. CASE full /\ now.inMeeting /\ ~activity.inMeeting
    <3> HIDE DEF full, now, windowed
    <3>1. app = AudioStarted(windowed)  BY <2>1
    <3>2. now.inMeeting = TRUE  BY <1>4, <2>1 DEF ActivityType
    <3> HIDE DEF app
    <3>3. app \in AppType /\ app.tracker = [windowed.tracker EXCEPT !.audioApp = TRUE]
      BY <1>7, <3>1, SignalsFit
    <3>4. app.tracker = [windowMeeting |-> seen, audioApp |-> TRUE]
      BY <1>7, <2>0, <3>3 DEF TrackerType
    <3> QED  BY <3>2, <3>3, <3>4
  <2>2. CASE full /\ ~now.inMeeting /\ activity.inMeeting
    <3> HIDE DEF full, now, windowed
    <3>1. app = AudioEnded(windowed)  BY <2>2
    <3>2. now.inMeeting = FALSE  BY <1>4, <2>2 DEF ActivityType
    <3> HIDE DEF app
    <3> QED  BY <1>7, <2>0, <3>1, <3>2, SignalsFit DEF TrackerType
  <2>3. CASE (full /\ (now.inMeeting <=> activity.inMeeting)) \/ ~full
    <3>1. app = windowed /\ now.inMeeting = activity.inMeeting
      BY <1>4, <1>8, <2>3 DEF ActivityType
    <3> QED  BY <1>7, <2>0, <3>1 DEF TrackerType
  <2> QED  BY <2>1, <2>2, <2>3
<1>10. interval \in {Fast, SlowInterval} /\ (now.inMeeting \/ heard => interval = Fast)
  BY DEF NextInterval
<1>11. timer' = interval /\ LooseFit(loose')
  <2>1. LooseFit(loose) /\ timer \in TimerType
    BY DEF IInv, TypeOK, LooseFit, TimerType
  <2> HIDE DEF interval
  <2> QED  BY <1>1, <1>10, <2>1, Scheduled
<1> HIDE DEF full, seen, heard, now, counted, windowed, app, interval
<1>12. now = Updated(activity, audio)  BY <1>2 DEF now
<1> QED
  BY <1>1, <1>2, <1>3, <1>4, <1>5, <1>9, <1>10, <1>11, <1>12 DEF AppType, TrackerType

-----------------------------------------------------------------------------
(* The invariant is inductive.                                              *)

\* A scan of a detector that is on, or that is turned on by it.
LEMMA ScanKeeps ==
  ASSUME IInv, ScanAndReschedule(timer), UNCHANGED <<world, starting>>, isRunning' = TRUE,
         tasks' \in Nat, callFor' \in 0 .. Longest, ~audio => callFor' = 0
  PROVE  IInv'
<1>1. /\ activity \in ActivityType /\ audio \in BOOLEAN /\ heardAgo \in 0 .. Longest
      /\ Longest \in Nat /\ SlowInterval \in Nat \ {0}
  BY TicksAssumption DEF IInv, TypeOK, ActivityType, Longest, CallConfirmationBudget, Fast
<1>2. activity' \in ActivityType  BY <1>1, Scans, Updates
<1>3. timer' \in 1 .. SlowInterval  BY <1>1, Scans DEF Fast
<1>4. TypeOK' /\ TrackerAgrees'
  <2>1. timer' \in 0 .. SlowInterval \cup {None} /\ heardAgo' \in 0 .. Longest
    BY <1>1, <1>3, Scans
  <2>2. IsABag(loose)' /\ (DOMAIN loose \subseteq 0 .. SlowInterval)'
    BY Scans DEF LooseFit
  <2>3. /\ current' \in Windows \cup {None} /\ missCount' \in 0 .. DisappearThreshold - 1
        /\ cadence' \in CadenceType /\ tracker' \in TrackerType
        /\ banner' \in Meetings \cup {None} /\ dismissed' \subseteq Meetings
        /\ recording' \in {"no", "manual", "detected"}
    BY Scans
  <2>4. /\ appRunning' \in BOOLEAN /\ window' \in Windows \cup {None} /\ audio' \in BOOLEAN
        /\ isRunning' \in BOOLEAN /\ starting' \in {"no", "manual", "detected"}
    BY DEF IInv, TypeOK, world
  <2>5. TypeOK'
    BY <1>2, <2>1, <2>2, <2>3, <2>4 DEF TypeOK, TrackerType, CadenceType, ActivityType
  <2> QED  BY <2>5, Scans DEF TrackerAgrees
<1>6. Remaining' \in 0 .. SlowInterval /\ (timer' = Fast => Remaining' <= Fast)
  BY <1>1, <1>3 DEF Remaining, Fast
<1>7. Soon'
  <2>1. activity'.activeRun > 0 => audio  BY <1>1, Scans, Updates
  <2> QED  BY <1>6, <2>1, Scans DEF Soon
<1>8. Ending'
  <2>1. SUFFICES ASSUME activity'.inMeeting
                 PROVE  activity'.inactiveRun < EndTicks /\ heardAgo' + 1 <= activity'.inactiveRun + 1
    BY <1>1, <1>2, <1>6, Scans DEF Ending, Fast, ActivityType
  <2>2. CASE audio
    <3>1. activity'.inactiveRun = 0 /\ heardAgo' = 0  BY <1>1, <2>2, Scans, Updates
    <3> QED  BY <3>1, TicksAssumption
  <2>3. CASE ~audio
    <3>1. /\ activity.inMeeting /\ activity.inactiveRun + 1 < EndTicks
          /\ activity'.inactiveRun = Least(activity.inactiveRun + 1, EndTicks)
          /\ heardAgo' = heardAgo
      BY <1>1, <2>1, <2>3, Scans, Updates
    <3>2. activity'.inactiveRun = activity.inactiveRun + 1
      BY <1>1, <3>1, TicksAssumption DEF Least, ActivityType
    <3>3. heardAgo + Remaining <= activity.inactiveRun + 1 /\ Remaining \in 0 .. SlowInterval
      <4>1. isRunning  BY <3>1 DEF IInv, Off, NoActivity
      <4> QED  BY <1>1, <3>1, <4>1 DEF IInv, Ending, TypeOK, Remaining
    <3> QED  BY <1>1, <3>1, <3>2, <3>3 DEF ActivityType
  <2> QED  BY <1>1, <2>2, <2>3
<1>9. Polling' /\ WorldFits' /\ Off'
  BY <1>3, MeetingsAssumption DEF IInv, Polling, WorldFits, Off, world
<1> QED  BY <1>4, <1>7, <1>8, <1>9 DEF IInv

\* A step that leaves what the detector has learned, in which no time passes.
LEMMA OthersKeep ==
  ASSUME IInv, UNCHANGED <<scanVars, isRunning, heardAgo>>, TypeOK',
         tracker'.windowMeeting = tracker.windowMeeting, tracker'.audioApp = tracker.audioApp,
         Remaining' <= Remaining, Polling', WorldFits', ~isRunning => timer' = None
  PROVE  IInv'
<1>1. /\ Remaining \in Nat /\ Remaining' \in Nat /\ heardAgo \in Nat
      /\ activity.inactiveRun \in Nat
  BY TicksAssumption DEF IInv, TypeOK, Remaining, Longest, CallConfirmationBudget, Fast
<1> QED  BY <1>1 DEF IInv, TrackerAgrees, Off, Soon, Ending, scanVars, Fast

\* A poll of the detector keeps the tracker and the app in agreement,
\* whatever it finds on the screen.
LEMMA TickKeeps ==
  ASSUME IInv, Tick
  PROVE  IInv'
<1>1. /\ Longest \in Nat /\ EndTicks \in Nat /\ activity \in ActivityType
      /\ callFor \in 0 .. Longest /\ heardAgo \in 0 .. Longest
      /\ timer \in 0 .. SlowInterval \cup {None} /\ SlowInterval \in Nat
  BY TicksAssumption DEF IInv, TypeOK, ActivityType, Longest, CallConfirmationBudget, Fast
<1>2. /\ timer = None => timer' = None
      /\ timer # None => timer' = timer - 1 /\ timer \in 1 .. SlowInterval
  BY <1>1 DEF Tick, Left
<1>3. LooseFit(loose')
  BY Aged DEF Tick, IInv, TypeOK, LooseFit
<1>4. callFor' \in 0 .. Longest /\ heardAgo' \in 0 .. Longest /\ heardAgo' <= heardAgo + 1
  BY <1>1 DEF Tick, Least
<1>5. TypeOK'
  BY <1>1, <1>2, <1>3, <1>4 DEF Tick, IInv, TypeOK, LooseFit, world, scanVars, appVars
<1>6. isRunning => timer # None
  BY DEF IInv, Polling, Tick
<1>7. isRunning => Remaining' = Remaining - 1 /\ Remaining \in Nat
  BY <1>1, <1>2, <1>6, MeetingsAssumption DEF Remaining
<1>8. Ending'
  BY <1>1, <1>4, <1>7 DEF Tick, IInv, Ending, scanVars, ActivityType
<1>9. TrackerAgrees' /\ Polling' /\ WorldFits' /\ Off' /\ Soon'
  BY <1>1, <1>2, <1>6, <1>7, MeetingsAssumption DEF Tick, IInv, TrackerAgrees, Polling, WorldFits, Off, Soon,
     world, scanVars, appVars, Fast, Least
<1> QED  BY <1>5, <1>8, <1>9 DEF IInv

\* The invariant is inductive.
LEMMA NextIInv == IInv /\ [Next]_vars => IInv'
<1> SUFFICES ASSUME IInv, [Next]_vars PROVE IInv'
  OBVIOUS
<1>0. /\ SlowInterval \in Nat \ {0} /\ Longest \in Nat
      /\ timer \in 0 .. SlowInterval \cup {None} /\ LooseFit(loose) /\ tasks \in Nat
  BY TicksAssumption DEF IInv, TypeOK, Longest, CallConfirmationBudget, Fast, LooseFit
<1>1. CASE Fire
  <2>1. /\ timer' \in 0 .. SlowInterval \cup {None} /\ LooseFit(loose') /\ tasks' \in Nat
        /\ timer' \in {timer, None} /\ tasks' > 0 /\ Remaining' <= Remaining
    <3>1. CASE timer = 0 /\ timer' = None /\ UNCHANGED loose
      BY <1>0, <1>1, <3>1, MeetingsAssumption DEF Fire, Remaining
    <3>2. CASE 0 \in DOMAIN loose /\ loose' = loose (-) SetToBag({0}) /\ UNCHANGED timer
      <4>1. LooseFit(loose')  BY <1>0, <3>2, Fired
      <4> QED  BY <1>0, <1>1, <3>2, <4>1 DEF Fire, Remaining
    <3> QED  BY <1>1, <3>1, <3>2 DEF Fire
  <2>2. TypeOK'
    BY <1>1, <2>1 DEF Fire, IInv, TypeOK, LooseFit, world, scanVars, appVars, history
  <2>3. ~isRunning => timer' = None  BY <2>1 DEF IInv, Off
  <2> QED
    BY <1>1, <2>1, <2>2, <2>3, OthersKeep
       DEF Fire, IInv, Polling, WorldFits, world, appVars, history
<1>2. CASE RunTask
  <2>1. CASE isRunning
    BY <1>0, <1>2, <2>1, ScanKeeps DEF RunTask, IInv, TypeOK, WorldFits
  <2>2. CASE ~isRunning
    <3>1. TypeOK'
      BY <1>0, <1>2, <2>2 DEF RunTask, IInv, TypeOK, world, scanVars
    <3> QED
      BY <1>0, <1>2, <2>2, <3>1, OthersKeep
         DEF RunTask, IInv, Polling, WorldFits, Off, world, Remaining
  <2> QED  BY <2>1, <2>2
<1>3. CASE TurnOn
  BY <1>0, <1>3, ScanKeeps DEF TurnOn
<1>4. CASE TurnOff
  <2>1. NoActivity \in ActivityType /\ NoCadence \in CadenceType /\ NoTracker \in TrackerType
    BY TicksAssumption DEF NoActivity, NoCadence, NoTracker, ActivityType, CadenceType,
       TrackerType
  <2>2. 0 \in 0 .. DisappearThreshold - 1 /\ 0 \in 0 .. Longest
    BY <1>0, TicksAssumption
  <2>3. TypeOK'
    BY <1>4, <2>1, <2>2 DEF TurnOff, IInv, TypeOK, world, ActivityType, CadenceType, TrackerType
  <2> QED
    BY <1>4, <2>3 DEF TurnOff, IInv, TrackerAgrees, Polling, WorldFits, Off, Soon, Ending,
       NoTracker, NoActivity, world
<1>5. CASE WorldChanges
  <2>1. /\ appRunning' \in BOOLEAN /\ window' \in Windows \cup {None} /\ audio' \in BOOLEAN
        /\ ~appRunning' => window' = None /\ ~audio'
    BY <1>5 DEF WorldChanges
  <2>2. callFor' \in 0 .. Longest /\ (~audio' => callFor' = 0)
    BY <1>0, <1>5, <2>1 DEF WorldChanges, IInv, TypeOK
  <2>3. UNCHANGED <<isRunning, clockVars, scanVars, appVars, heardAgo>>
    BY <1>5 DEF WorldChanges
  <2>4. TypeOK'
    BY <1>0, <2>1, <2>2, <2>3 DEF IInv, TypeOK, clockVars, scanVars, appVars
  <2> QED
    BY <1>0, <2>1, <2>2, <2>3, <2>4, OthersKeep DEF IInv, Polling, WorldFits, Off,
       clockVars, appVars, Remaining
<1>6. CASE Tick  BY <1>6, TickKeeps
<1>7. CASE \/ DismissBanner \/ BannerTimesOut \/ RecordDetectedMeeting \/ RequestManualStart
           \/ StartRecording \/ StopRecording
  <2>1. Detected(tracker) \in Meetings \cup {None}
    BY DEF Detected, IInv, TypeOK, Meetings
  <2>2. TypeOK'
    BY <1>7, <2>1 DEF DismissBanner, BannerTimesOut, RecordDetectedMeeting,
       RequestManualStart, StartRecording, StopRecording, IInv, TypeOK, world, clockVars,
       scanVars, history
  <2>3. UNCHANGED <<world, isRunning, clockVars, scanVars, tracker, history>>
    BY <1>7 DEF DismissBanner, BannerTimesOut, RecordDetectedMeeting,
       RequestManualStart, StartRecording, StopRecording
  <2> QED
    BY <1>0, <2>2, <2>3, OthersKeep DEF IInv, Polling, WorldFits, Off, world, clockVars,
       history, Remaining
<1>8. CASE UNCHANGED vars
  <2>1. TypeOK'
    BY <1>8 DEF vars, IInv, TypeOK, world, clockVars, scanVars, appVars, history
  <2> QED
    BY <1>0, <1>8, <2>1, OthersKeep DEF vars, IInv, Polling, WorldFits, Off, world, clockVars,
       appVars, history, Remaining
<1> QED
  BY <1>1, <1>2, <1>3, <1>4, <1>5, <1>6, <1>7, <1>8 DEF Next, User

\* Nobody has heard anything, and detection is off.
LEMMA InitIInv == Init => IInv
<1> SUFFICES ASSUME Init PROVE IInv
  OBVIOUS
<1>1. Longest \in Nat /\ DisappearThreshold - 1 \in Nat
  BY TicksAssumption DEF Longest, CallConfirmationBudget, Fast
<1>2. NoActivity \in ActivityType /\ NoCadence \in CadenceType /\ NoTracker \in TrackerType
  BY TicksAssumption DEF NoActivity, NoCadence, NoTracker, ActivityType, CadenceType,
     TrackerType
<1>3. LooseFit(loose)
  BY DEF Init, LooseFit, IsABag, EmptyBag, SetToBag
<1>4. TypeOK
  <2>1. 0 \in 0 .. DisappearThreshold - 1 /\ 0 \in 0 .. Longest /\ Longest \in 0 .. Longest
    BY <1>1
  <2>2. None \notin Windows \cup {AudioMeeting}  BY MeetingsAssumption
  <2> QED
    BY <1>2, <1>3, <2>1, <2>2 DEF Init, TypeOK, LooseFit, ActivityType, CadenceType,
       TrackerType, EmptyBag
<1> QED
  BY <1>4 DEF Init, IInv, TrackerAgrees, Polling, WorldFits, Off, Soon, Ending, NoTracker,
     NoActivity

\* What tracker, app and world agree on, in every state.
THEOREM Invariance == Spec => []IInv
BY InitIInv, NextIInv, PTL DEF Spec

\* The detector, its timers and AppState hold the same view of the meeting, and
\* nothing polls while detection is off: a gated scan has no event to drop
\* (MeetingDetector.swift:97-101), whatever timers were replaced, Tasks were on
\* their way and switches of the setting came in between.
THEOREM Consistent == Spec => []DetectionIsConsistent
<1>1. IInv => DetectionIsConsistent
  BY DEF IInv, DetectionIsConsistent, NoPollingWhileOff, Off
<1> QED  BY <1>1, Invariance, PTL

-----------------------------------------------------------------------------
(* Calls and their ends are noticed in time.                                *)

\* A scan that does not confirm the call it hears is the first to hear it.
LEMMA ScanConfirms ==
  ASSUME ConfirmedByTwo, IInv, Confirming, ScanAndReschedule(timer), UNCHANGED world,
         isRunning' = TRUE, callFor' = IF isRunning THEN callFor ELSE 0
  PROVE  Confirming'
<1>1. /\ activity \in ActivityType /\ audio \in BOOLEAN /\ audio' = audio
      /\ SlowInterval \in Nat \ {0} /\ callFor \in Nat /\ Remaining \in Nat
  BY TicksAssumption DEF IInv, TypeOK, ActivityType, Longest, CallConfirmationBudget, Fast,
     Remaining, world
<1>2. SUFFICES ASSUME ~activity'.inMeeting
               PROVE  /\ activity'.activeRun < StartTicks
                      /\ audio => callFor' + Remaining' <= SlowInterval + activity'.activeRun
  BY <1>1 DEF Confirming
<1>3. CASE audio
  <2>1. StartTicks \in Nat \ {0} /\ activity.activeRun \in Nat
    BY <1>1, TicksAssumption DEF ActivityType
  <2>2. /\ activity'.activeRun = Least(activity.activeRun + 1, StartTicks)
        /\ ~(activity.inMeeting \/ activity.activeRun + 1 >= StartTicks)
    <3>1. activity' = Updated(activity, audio)  BY Scans
    <3> QED  BY <1>1, <1>2, <1>3, <3>1, Updates
  <2>3. ~activity.inMeeting /\ activity.activeRun + 1 < StartTicks
    BY <2>1, <2>2
  <2>4. activity.activeRun = 0 /\ activity'.activeRun = 1
    BY <2>1, <2>2, <2>3 DEF ConfirmedByTwo, Least
  <2>5. Remaining' <= 1 /\ Remaining' \in Nat
    BY <1>3, Scans DEF Remaining, Fast
  <2>6. callFor' <= SlowInterval /\ callFor' \in Nat
    BY <1>1, <1>3, <2>3, <2>4 DEF Confirming
  <2>7. callFor' + Remaining' <= SlowInterval + 1
    <3>1. \A c, r, i \in Nat : c <= i /\ r <= 1 => c + r <= i + 1  OBVIOUS
    <3> QED  BY <1>1, <2>5, <2>6, <3>1
  <2> QED  BY <2>1, <2>3, <2>4, <2>7
<1>4. CASE ~audio
  <2>1. activity'.activeRun = 0  BY <1>1, <1>4, Scans, Updates
  <2> QED  BY <1>4, <2>1, TicksAssumption
<1> QED  BY <1>1, <1>3, <1>4

\* Every step keeps the bound: time brings the scan as much nearer as it makes
\* the call longer.
LEMMA ConfirmingStep ==
  ASSUME ConfirmedByTwo, IInv, Confirming, [Next]_vars
  PROVE  Confirming'
<1>0. /\ SlowInterval \in Nat \ {0} /\ Longest \in Nat
      /\ timer \in 0 .. SlowInterval \cup {None} /\ callFor \in 0 .. Longest
      /\ activity \in ActivityType /\ Remaining \in 0 .. SlowInterval
      /\ audio \in BOOLEAN
  BY TicksAssumption DEF IInv, TypeOK, Longest, CallConfirmationBudget, Fast, Remaining,
     ActivityType
<1>1. ASSUME UNCHANGED <<isRunning, activity>>,
             audio' => (audio /\ callFor' = callFor) \/ callFor' = 0,
             Remaining' <= Remaining, Remaining' \in Nat
      PROVE  Confirming'
  BY <1>0, <1>1 DEF Confirming, ActivityType
<1>2. CASE Fire
  <2>1. Remaining' <= Remaining /\ Remaining' \in Nat
    <3>1. timer' \in {timer, None}  BY <1>2 DEF Fire
    <3> QED  BY <1>0, <3>1 DEF Remaining
  <2> QED  BY <1>1, <1>2, <2>1 DEF Fire, world, scanVars, history
<1>3. CASE RunTask
  <2>1. CASE isRunning  BY <1>3, <2>1, ScanConfirms DEF RunTask, IInv, TypeOK
  <2>2. CASE ~isRunning  BY <1>3, <2>2 DEF RunTask, Confirming
  <2> QED  BY <2>1, <2>2
<1>4. CASE TurnOn  BY <1>4, ScanConfirms DEF TurnOn
<1>5. CASE TurnOff  BY <1>5 DEF TurnOff, Confirming
<1>6. CASE WorldChanges
  <2>1. audio' => (audio /\ callFor' = callFor) \/ callFor' = 0
    BY <1>0, <1>6 DEF WorldChanges, IInv, WorldFits
  <2>2. Remaining' = Remaining  BY <1>6 DEF WorldChanges, clockVars, Remaining
  <2> QED  BY <1>0, <1>1, <1>6, <2>1, <2>2 DEF WorldChanges, scanVars
<1>7. CASE Tick
  <2>1. SUFFICES ASSUME isRunning PROVE Confirming'
    BY <1>7 DEF Tick, Confirming
  <2>2. timer \in 1 .. SlowInterval /\ timer # None
    BY <1>0, <1>7, <2>1 DEF Tick, IInv, Polling
  <2>3. Remaining' = Remaining - 1
    BY <1>0, <1>7, <2>2, MeetingsAssumption DEF Tick, Left, Remaining
  <2>4. callFor' <= callFor + 1 /\ callFor' \in Nat
    BY <1>0, <1>7 DEF Tick, Least
  <2> QED
    BY <1>0, <1>7, <2>3, <2>4 DEF Tick, Confirming, world, scanVars, ActivityType
<1>8. CASE \/ DismissBanner \/ BannerTimesOut \/ RecordDetectedMeeting \/ RequestManualStart
           \/ StartRecording \/ StopRecording \/ UNCHANGED vars
  <2>1. UNCHANGED <<world, isRunning, clockVars, scanVars, history>>
    BY <1>8 DEF DismissBanner, BannerTimesOut, RecordDetectedMeeting,
       RequestManualStart, StartRecording, StopRecording, vars
  <2> QED  BY <1>0, <1>1, <2>1 DEF world, clockVars, scanVars, history, Remaining
<1> QED
  BY <1>2, <1>3, <1>4, <1>5, <1>6, <1>7, <1>8 DEF Next, User

\* A call is confirmed within callConfirmationBudget of its first sound, and its
\* end within EndTicks fast intervals of the last (MeetingAppCatalog.swift:71-79),
\* for any intervals and thresholds, if two active scans confirm a call, which
\* is what the budget of a slow and a fast interval is for.
THEOREM InTime ==
  ASSUME ConfirmedByTwo
  PROVE  Spec => []NoticedInTime
<1>1. Init => Confirming  BY DEF Init, Confirming
<1>2. IInv /\ Confirming /\ [Next]_vars => Confirming'  BY ConfirmingStep
<1>3. ASSUME IInv, Confirming PROVE NoticedInTime
  <2>1. /\ SlowInterval \in Nat \ {0} /\ EndTicks \in Nat \ {0} /\ StartTicks \in Nat \ {0}
        /\ callFor \in Nat /\ heardAgo \in Nat /\ Remaining \in Nat
        /\ activity \in ActivityType /\ audio \in BOOLEAN
    BY <1>3, TicksAssumption DEF IInv, TypeOK, Longest, CallConfirmationBudget, Fast,
       Remaining, ActivityType
  <2>2. ConfirmedInTime
    <3>1. CASE audio
      BY <1>3, <2>1, <3>1 DEF ConfirmedInTime, Confirming, ConfirmedByTwo,
         CallConfirmationBudget, Fast, ActivityType
    <3>2. CASE ~audio
      BY <1>3, <2>1, <3>2 DEF ConfirmedInTime, IInv, WorldFits, CallConfirmationBudget, Fast
    <3> QED  BY <2>1, <3>1, <3>2
  <2>3. EndedInTime
    BY <1>3, <2>1 DEF EndedInTime, IInv, Ending, ActivityType
  <2> QED  BY <2>2, <2>3 DEF NoticedInTime
<1> QED  BY <1>1, <1>2, <1>3, Invariance, PTL DEF Spec

=============================================================================
