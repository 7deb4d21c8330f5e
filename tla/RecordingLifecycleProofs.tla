---------------------- MODULE RecordingLifecycleProofs ----------------------
(***************************************************************************)
(* RecordingLifecycle keeps its types, never has two recording records and *)
(* never leaves a live capture without an owner, for every number of       *)
(* sessions, Tasks and crashes and with every fault switched on.           *)
(*                                                                         *)
(* LiveCaptureIsOwned is not inductive.  A Task that comes back from       *)
(* recorder.stop() writes to the session it loaded before its await, and   *)
(* the failure handler also to the one it blames: neither may be the       *)
(* session the recorder has open by now (ReturnedIsNotLive).  That holds   *)
(* because a recording is opened under a number no one can hold yet        *)
(* (OnlyStartedSessions).  Recovery rewrites every recording record, which *)
(* is harmless because nothing runs before it (DownIsQuiet).               *)
(*                                                                         *)
(* The second half is for an app whose captures do not fail: there the     *)
(* records and the stop Tasks agree in every reachable state               *)
(* (RecordsAgree), so a Task that comes back from recorder.stop() always   *)
(* holds the one session that still says recording.  When saves do not     *)
(* fail either, the recorder and the phase agree with them                 *)
(* (CaptureAgrees).                                                        *)
(*                                                                         *)
(* The last part is for captures that do fail: a failure stays marked if   *)
(* no stop is asked for while a handler is in its own (FailureAgrees).     *)
(***************************************************************************)
EXTENDS RecordingLifecycle, TLAPS

\* Whatever refers to a session refers to one that has been started.
OnlyStartedSessions ==
  /\ \A s \in Sessions : status[s] # "absent" => s <= started
  /\ shown # None => shown <= started
  /\ \A c \in Callers : held[c] # None => held[c] <= started
  /\ \A r \in Reports : blamed[r] # None => blamed[r] <= started

\* No recorder and no start Task while the process is down.
DownIsQuiet ==
  app = "down" => live = None /\ \A c \in Clicks : click[c] = "idle"

\* A caller that recorder.stop() has returned to holds no live session.
ReturnedIsNotLive ==
  live # None =>
    /\ \A c \in Callers : call[c] = "returned" => held[c] # live
    /\ \A r \in Reports : call[r] = "returned" => blamed[r] # live

IInv ==
  /\ TypeOK
  /\ AtMostOneRecording
  /\ OnlyStartedSessions
  /\ DownIsQuiet
  /\ ReturnedIsNotLive
  /\ LiveCaptureIsOwned

-----------------------------------------------------------------------------

\* When at most one record says recording, NewestRecording finds exactly it.
LEMMA NewestRecordingIsTheOne ==
  ASSUME NEW st,
         \A s, t \in Sessions : st[s] = "recording" /\ st[t] = "recording" => s = t
  PROVE  /\ NewestRecording(st) \in Sessions \cup {None}
         /\ \A s \in Sessions : st[s] = "recording" <=> NewestRecording(st) = s
<1>1. CASE \E s \in Sessions : st[s] = "recording"
  <2>1. PICK s \in Sessions : st[s] = "recording"  BY <1>1
  <2>2. \A t \in Sessions : st[t] = "recording" => t <= s  BY <2>1 DEF Sessions
  <2>3. NewestRecording(st) = s  BY <2>1, <2>2 DEF NewestRecording
  <2> QED  BY <2>1, <2>3
<1>2. CASE \A s \in Sessions : st[s] # "recording"
  <2>1. NewestRecording(st) = None  BY <1>2 DEF NewestRecording
  <2>2. None \notin Sessions  BY NoneAssumption DEF Sessions
  <2> QED  BY <1>2, <2>1, <2>2
<1> QED  BY <1>1, <1>2

\* After reloadRecent the app shows nothing, or a session that is recording.
LEMMA ReloadedRecent ==
  ASSUME AtMostOneRecording', reloadRecent
  PROVE  /\ shown' \in Sessions \cup {None}
         /\ shown' # None => status'[shown'] = "recording"
BY NewestRecordingIsTheOne DEF AtMostOneRecording, Recording, reloadRecent

\* activeSession is the recording session, if there is one.
LEMMA ActiveSessionIsRecording ==
  ASSUME AtMostOneRecording
  PROVE  /\ activeSession \in Sessions \cup {None}
         /\ \A s \in Sessions : status[s] = "recording" <=> activeSession = s
BY NewestRecordingIsTheOne DEF AtMostOneRecording, Recording, activeSession

(***************************************************************************)
(* One lemma per action: it preserves the inductive invariant.  In each,   *)
(* a step of its own for every conjunct whose variables the action writes. *)
(***************************************************************************)

\* Recovery only rewrites records that say recording, and no capture is live yet.
LEMMA LaunchStep ==
  ASSUME IInv, Launch
  PROVE  IInv'
<1>1. AtMostOneRecording'
    BY DEF IInv, AtMostOneRecording, Recording, Launch, recoverInterruptedSessions
<1>2. TypeOK'
    BY NoneAssumption, BoundsAssumption, <1>1, ReloadedRecent DEF IInv,
     TypeOK, Launch, recoverInterruptedSessions, startVars, stopVars,
     recorderVars, Recording
<1>3. OnlyStartedSessions'
  <2>1. PICK saved \in SUBSET Recording : recoverInterruptedSessions(saved)
    BY DEF Launch
  <2>2. \A s \in Sessions : s \notin saved => status'[s] = status[s]
    BY <2>1 DEF recoverInterruptedSessions
  <2>3. \A s \in saved : status[s] = "recording"
    BY <2>1 DEF Recording
  <2>4. \A s \in Sessions : status'[s] # "absent" => s <= started
    BY <2>2, <2>3 DEF IInv, OnlyStartedSessions
  <2> QED
    BY <1>1, <2>4, ReloadedRecent DEF IInv, OnlyStartedSessions, Launch, startVars, stopVars
<1>4. DownIsQuiet'
    BY NoneAssumption DEF IInv, DownIsQuiet, TypeOK, Launch,
     recoverInterruptedSessions, startVars, stopVars, recorderVars,
     Recording
<1>5. LiveCaptureIsOwned'
    BY DEF IInv, DownIsQuiet, LiveCaptureIsOwned, Launch, recorderVars
<1>6. ReturnedIsNotLive'
    BY DEF IInv, ReturnedIsNotLive, Launch, recoverInterruptedSessions,
     startVars, stopVars, recorderVars
<1> QED  BY <1>1, <1>2, <1>3, <1>4, <1>5, <1>6 DEF IInv

\* The records stay, everything in memory is gone.
LEMMA CrashStep ==
  ASSUME IInv, Crash
  PROVE  IInv'
<1>1. TypeOK'
  <2>1. crashes' \in 0..MaxCrashes  BY BoundsAssumption DEF IInv, TypeOK, Crash
  <2> QED  BY <2>1 DEF IInv, TypeOK, Crash, recordVars
<1>2. OnlyStartedSessions'
    BY DEF IInv, OnlyStartedSessions, Crash, recordVars
<1>3. DownIsQuiet'
    BY DEF DownIsQuiet, Crash
<1>4. ReturnedIsNotLive'
    BY DEF ReturnedIsNotLive, Crash
<1>5. LiveCaptureIsOwned'
    BY NoneAssumption, CallersAssumption DEF IInv, LiveCaptureIsOwned,
     Stopping, TypeOK, OnlyStartedSessions, ReturnedIsNotLive, Crash,
     recordVars, Callers
<1>6. AtMostOneRecording'
    BY DEF IInv, AtMostOneRecording, Recording, Crash, recordVars
<1> QED  BY <1>1, <1>2, <1>3, <1>4, <1>5, <1>6 DEF IInv

\* A click only queues its Task.
LEMMA ClickStartStep ==
  ASSUME NEW c \in Clicks, IInv, ClickStart(c)
  PROVE  IInv'
<1>1. TypeOK'
    BY NoneAssumption, BoundsAssumption DEF IInv, TypeOK, ClickStart,
     recordVars, appVars, stopVars, recorderVars
<1>2. DownIsQuiet'
    BY NoneAssumption DEF IInv, DownIsQuiet, TypeOK, ClickStart,
     recordVars, appVars, stopVars, recorderVars
<1>3. AtMostOneRecording' /\ OnlyStartedSessions' /\ ReturnedIsNotLive' /\ LiveCaptureIsOwned'
    BY DEF IInv, AtMostOneRecording, Recording, OnlyStartedSessions,
     ReturnedIsNotLive, LiveCaptureIsOwned, Stopping, ClickStart,
     recordVars, appVars, stopVars, recorderVars
<1> QED  BY <1>1, <1>2, <1>3 DEF IInv

\* Choosing which stop to await changes no record and no recorder.
LEMMA StartTaskRunsStep ==
  ASSUME NEW c \in Clicks, IInv, StartTaskRuns(c)
  PROVE  IInv'
<1>1. TypeOK'
    BY NoneAssumption, BoundsAssumption DEF IInv, TypeOK, StartTaskRuns,
     recordVars, appVars, stopVars, recorderVars, DownIsQuiet
<1>2. DownIsQuiet'
    BY NoneAssumption DEF IInv, DownIsQuiet, TypeOK, StartTaskRuns,
     recordVars, appVars, stopVars, recorderVars
<1>3. AtMostOneRecording' /\ OnlyStartedSessions' /\ ReturnedIsNotLive' /\ LiveCaptureIsOwned'
    BY DEF IInv, AtMostOneRecording, Recording, OnlyStartedSessions,
     ReturnedIsNotLive, LiveCaptureIsOwned, Stopping, StartTaskRuns,
     recordVars, appVars, stopVars, recorderVars
<1> QED  BY <1>1, <1>2, <1>3 DEF IInv

\* Going on to the permission check changes no record and no recorder.
LEMMA StopAwaitedStep ==
  ASSUME NEW c \in Clicks, IInv, StopAwaited(c)
  PROVE  IInv'
<1>1. TypeOK'
    BY NoneAssumption, BoundsAssumption DEF IInv, TypeOK, StopAwaited,
     recordVars, appVars, stopVars, recorderVars
<1>2. DownIsQuiet'
    BY NoneAssumption DEF IInv, DownIsQuiet, TypeOK, StopAwaited,
     recordVars, appVars, stopVars, recorderVars
<1>3. AtMostOneRecording' /\ OnlyStartedSessions' /\ ReturnedIsNotLive' /\ LiveCaptureIsOwned'
    BY DEF IInv, AtMostOneRecording, Recording, OnlyStartedSessions,
     ReturnedIsNotLive, LiveCaptureIsOwned, Stopping, StopAwaited,
     recordVars, appVars, stopVars, recorderVars
<1> QED  BY <1>1, <1>2, <1>3 DEF IInv

\* A denied start changes nothing else.
LEMMA PermissionsDeniedStep ==
  ASSUME NEW c \in Clicks, IInv, PermissionsDenied(c)
  PROVE  IInv'
<1>1. TypeOK'
    BY DEF IInv, TypeOK, PermissionsDenied, recordVars, appVars, stopVars,
       recorderVars
<1>2. DownIsQuiet'
    BY NoneAssumption DEF IInv, DownIsQuiet, TypeOK, PermissionsDenied,
     recordVars, appVars, stopVars, recorderVars
<1>3. AtMostOneRecording' /\ OnlyStartedSessions' /\ ReturnedIsNotLive' /\ LiveCaptureIsOwned'
    BY DEF IInv, AtMostOneRecording, Recording, OnlyStartedSessions,
     ReturnedIsNotLive, LiveCaptureIsOwned, Stopping, PermissionsDenied,
     recordVars, appVars, stopVars, recorderVars
<1> QED  BY <1>1, <1>2, <1>3 DEF IInv

\* A refused start changes nothing else.
LEMMA StartRefusedStep ==
  ASSUME NEW c \in Clicks, IInv, StartRefused(c)
  PROVE  IInv'
<1>1. TypeOK'
    BY NoneAssumption, BoundsAssumption, ActiveSessionIsRecording DEF
     IInv, TypeOK, StartRefused, recordVars, appVars, stopVars,
     recorderVars, DownIsQuiet
<1>2. DownIsQuiet'
    BY DEF IInv, DownIsQuiet, StartRefused
<1>3. AtMostOneRecording' /\ OnlyStartedSessions' /\ ReturnedIsNotLive' /\ LiveCaptureIsOwned'
    BY DEF IInv, AtMostOneRecording, Recording, OnlyStartedSessions,
     ReturnedIsNotLive, LiveCaptureIsOwned, Stopping, StartRefused,
     recordVars, appVars, stopVars, recorderVars
<1> QED  BY <1>1, <1>2, <1>3 DEF IInv

\* A start whose recorder throws leaves no capture live.
LEMMA StartRecorderThrowsStep ==
  ASSUME NEW c \in Clicks, IInv, StartRecorderThrows(c)
  PROVE  IInv'
<1>1. TypeOK'
    BY NoneAssumption, BoundsAssumption, ActiveSessionIsRecording DEF
     IInv, TypeOK, StartRecorderThrows, recorderStart, recordVars, appVars,
     stopVars, DownIsQuiet
<1>2. DownIsQuiet'
    BY NoneAssumption, ActiveSessionIsRecording DEF IInv, DownIsQuiet,
     TypeOK, StartRecorderThrows, recorderStart, recordVars, appVars,
     stopVars
<1>3. ReturnedIsNotLive'
    BY CallersAssumption DEF IInv, ReturnedIsNotLive, StartRecorderThrows,
       recorderStart
<1>4. LiveCaptureIsOwned'
    BY NoneAssumption, ActiveSessionIsRecording, CallersAssumption DEF
     IInv, LiveCaptureIsOwned, Stopping, TypeOK, OnlyStartedSessions,
     ReturnedIsNotLive, StartRecorderThrows, recorderStart, recordVars,
     appVars, stopVars, DownIsQuiet
<1>5. AtMostOneRecording' /\ OnlyStartedSessions'
    BY DEF IInv, AtMostOneRecording, Recording, OnlyStartedSessions,
       StartRecorderThrows, recordVars, appVars, stopVars
<1> QED  BY <1>1, <1>2, <1>3, <1>4, <1>5 DEF IInv

\* The clean-up Task owns the capture of the number just taken.
LEMMA StartSaveFailsStep ==
  ASSUME NEW c \in Clicks, NEW k \in Cleanups, IInv, StartSaveFails(c, k)
  PROVE  IInv'
<1>1. TypeOK'
  <2>1. started' \in Sessions /\ started' \in 0..MaxSessions
    BY BoundsAssumption DEF IInv, TypeOK, StartSaveFails, Sessions
  <2>2. started' = started + 1  BY DEF StartSaveFails
  <2> QED  BY <2>1, <2>2 DEF IInv, TypeOK, StartSaveFails, recorderStart, appVars, Callers
<1>2. OnlyStartedSessions'
    BY DEF IInv, OnlyStartedSessions, TypeOK, StartSaveFails, appVars, Sessions
<1>3. DownIsQuiet'
    BY DEF IInv, DownIsQuiet, StartSaveFails
<1>4. ReturnedIsNotLive'
    BY NoneAssumption, ActiveSessionIsRecording, CallersAssumption DEF
     IInv, ReturnedIsNotLive, TypeOK, OnlyStartedSessions, StartSaveFails,
     recorderStart, appVars, Callers, DownIsQuiet
<1>5. LiveCaptureIsOwned'
    BY CallersAssumption DEF IInv, LiveCaptureIsOwned, Stopping, TypeOK,
       StartSaveFails, recorderStart, Callers
<1>6. AtMostOneRecording'
    BY DEF IInv, AtMostOneRecording, Recording, StartSaveFails,
     recorderStart, appVars
<1> QED  BY <1>1, <1>2, <1>3, <1>4, <1>5, <1>6 DEF IInv

\* The new record is the only one that says recording, and owns the capture.
LEMMA StartSucceedsStep ==
  ASSUME NEW c \in Clicks, IInv, StartSucceeds(c)
  PROVE  IInv'
<1>1. AtMostOneRecording'
  <2>1. \A s \in Sessions : status[s] # "recording"
    BY ActiveSessionIsRecording, NoneAssumption DEF IInv, StartSucceeds, Sessions
  <2> QED  BY <2>1 DEF IInv, TypeOK, AtMostOneRecording, Recording, StartSucceeds
<1>2. TypeOK'
  <2>1. started' \in Sessions /\ started' \in 0..MaxSessions
    BY BoundsAssumption DEF IInv, TypeOK, StartSucceeds, Sessions
  <2>2. started' = started + 1  BY DEF StartSucceeds
  <2>3. fromDetection' \in BOOLEAN
    <3>1. fromDetection' = (c \in DetectedClicks)  BY DEF StartSucceeds
    <3>2. (c \in DetectedClicks) \in BOOLEAN  OBVIOUS
    <3> QED  BY <3>1, <3>2, Zenon
  <2> QED
    BY <1>1, <2>1, <2>2, <2>3, ReloadedRecent DEF IInv, TypeOK, StartSucceeds, recorderStart, stopVars
<1>3. OnlyStartedSessions'
    BY NoneAssumption, <1>1, ReloadedRecent, ActiveSessionIsRecording DEF
     IInv, OnlyStartedSessions, TypeOK, StartSucceeds, recorderStart,
     stopVars, Sessions, DownIsQuiet
<1>4. DownIsQuiet'
    BY DEF IInv, DownIsQuiet, StartSucceeds
<1>5. ReturnedIsNotLive'
    BY NoneAssumption, ActiveSessionIsRecording, CallersAssumption DEF
     IInv, ReturnedIsNotLive, TypeOK, OnlyStartedSessions, StartSucceeds,
     recorderStart, stopVars, DownIsQuiet
<1>6. LiveCaptureIsOwned'
  <2>1. started + 1 \in Sessions
    BY BoundsAssumption DEF IInv, TypeOK, StartSucceeds, Sessions
  <2> QED  BY <2>1 DEF IInv, TypeOK, LiveCaptureIsOwned, StartSucceeds, recorderStart
<1> QED  BY <1>1, <1>2, <1>3, <1>4, <1>5, <1>6 DEF IInv

\* A stop click only queues its Task.
LEMMA ClickStopStep ==
  ASSUME NEW u \in Stops, IInv, ClickStop(u)
  PROVE  IInv'
<1>1. TypeOK'
    BY NoneAssumption, BoundsAssumption DEF IInv, TypeOK, ClickStop,
     stopRecording, recordVars, startVars, recorderVars, Callers
<1>2. ReturnedIsNotLive'
    BY NoneAssumption, CallersAssumption DEF IInv, ReturnedIsNotLive,
     TypeOK, OnlyStartedSessions, ClickStop, stopRecording, recordVars,
     startVars, recorderVars, Callers
<1>3. LiveCaptureIsOwned'
    BY NoneAssumption, CallersAssumption DEF IInv, LiveCaptureIsOwned,
     Stopping, TypeOK, OnlyStartedSessions, ReturnedIsNotLive, ClickStop,
     stopRecording, recordVars, startVars, recorderVars, Callers
<1>4. AtMostOneRecording' /\ OnlyStartedSessions' /\ DownIsQuiet'
    BY DEF IInv, AtMostOneRecording, Recording, OnlyStartedSessions,
     DownIsQuiet, ClickStop, stopRecording, recordVars, startVars,
     recorderVars
<1> QED  BY <1>1, <1>2, <1>3, <1>4 DEF IInv

\* So does the detector's auto-stop.
LEMMA MeetingAudioEndedStep ==
  ASSUME NEW u \in Stops, IInv, MeetingAudioEnded(u)
  PROVE  IInv'
<1>1. TypeOK'
    BY DEF IInv, TypeOK, MeetingAudioEnded, stopRecording, recordVars, startVars,
       recorderVars
<1>2. ReturnedIsNotLive'
    BY NoneAssumption, CallersAssumption DEF IInv, ReturnedIsNotLive,
     TypeOK, OnlyStartedSessions, MeetingAudioEnded, stopRecording,
     recordVars, startVars, recorderVars, Callers
<1>3. LiveCaptureIsOwned'
    BY DEF IInv, LiveCaptureIsOwned, Stopping, MeetingAudioEnded, stopRecording,
       recordVars, recorderVars
<1>4. AtMostOneRecording' /\ OnlyStartedSessions' /\ DownIsQuiet'
    BY DEF IInv, AtMostOneRecording, Recording, OnlyStartedSessions,
     DownIsQuiet, MeetingAudioEnded, stopRecording, recordVars, startVars,
     recorderVars
<1> QED  BY <1>1, <1>2, <1>3, <1>4 DEF IInv

\* The copy kept across the await is that of a started session.
LEMMA ManagerStopStep ==
  ASSUME NEW u \in Stops, IInv, ManagerStop(u)
  PROVE  IInv'
<1>1. TypeOK'
    BY NoneAssumption, BoundsAssumption, ActiveSessionIsRecording DEF
     IInv, TypeOK, ManagerStop, recordVars, appVars, startVars,
     recorderVars, Callers
<1>2. OnlyStartedSessions'
    BY NoneAssumption, ActiveSessionIsRecording DEF IInv,
     OnlyStartedSessions, TypeOK, ManagerStop, recordVars, appVars,
     startVars, recorderVars, Sessions, Callers
<1>3. ReturnedIsNotLive'
    BY NoneAssumption, ActiveSessionIsRecording, CallersAssumption DEF
     IInv, ReturnedIsNotLive, TypeOK, OnlyStartedSessions, ManagerStop,
     recordVars, appVars, startVars, recorderVars, Callers
<1>4. LiveCaptureIsOwned'
    BY NoneAssumption, ActiveSessionIsRecording, CallersAssumption DEF
     IInv, LiveCaptureIsOwned, Stopping, TypeOK, OnlyStartedSessions,
     ReturnedIsNotLive, ManagerStop, recordVars, appVars, startVars,
     recorderVars, Callers
<1>5. AtMostOneRecording' /\ DownIsQuiet'
    BY DEF IInv, AtMostOneRecording, Recording, DownIsQuiet, ManagerStop,
     recordVars, appVars, startVars, recorderVars
<1> QED  BY <1>1, <1>2, <1>3, <1>4, <1>5 DEF IInv

\* A stop that finds nothing to stop only ends its Task.
LEMMA NoActiveSessionStep ==
  ASSUME NEW u \in Stops, IInv, NoActiveSession(u)
  PROVE  IInv'
<1>1. AtMostOneRecording'
    BY NoneAssumption, ActiveSessionIsRecording DEF IInv, TypeOK,
     AtMostOneRecording, Recording, NoActiveSession, recordVars,
     recorderVars, endStopTask
<1>2. TypeOK'
    BY NoneAssumption, BoundsAssumption, <1>1, ReloadedRecent,
     ActiveSessionIsRecording DEF IInv, TypeOK, NoActiveSession, recordVars,
     recorderVars, endStopTask, Callers
<1>3. OnlyStartedSessions'
    BY NoneAssumption, <1>1, ReloadedRecent, ActiveSessionIsRecording DEF
     IInv, OnlyStartedSessions, TypeOK, NoActiveSession, recordVars,
     recorderVars, endStopTask, Sessions, Callers
<1>4. ReturnedIsNotLive'
    BY NoneAssumption, ActiveSessionIsRecording, CallersAssumption DEF
     IInv, ReturnedIsNotLive, TypeOK, OnlyStartedSessions, NoActiveSession,
     recordVars, recorderVars, endStopTask, Callers
<1>5. LiveCaptureIsOwned'
    BY NoneAssumption, ActiveSessionIsRecording, CallersAssumption DEF
     IInv, LiveCaptureIsOwned, Stopping, TypeOK, OnlyStartedSessions,
     ReturnedIsNotLive, NoActiveSession, recordVars, recorderVars,
     endStopTask, Callers
<1>6. DownIsQuiet'
    BY DEF IInv, DownIsQuiet, NoActiveSession, recordVars, recorderVars,
     endStopTask
<1> QED  BY <1>1, <1>2, <1>3, <1>4, <1>5, <1>6 DEF IInv

\* The saved copy is not the live session.
LEMMA StopSavedStep ==
  ASSUME NEW u \in Stops, IInv, StopSaved(u)
  PROVE  IInv'
<1>1. AtMostOneRecording'
    BY DEF IInv, AtMostOneRecording, Recording, StopSaved
<1>2. TypeOK'
    BY NoneAssumption, BoundsAssumption DEF IInv, TypeOK, StopSaved,
     appVars, startVars, recorderVars, Callers
<1>3. OnlyStartedSessions'
    BY NoneAssumption DEF IInv, OnlyStartedSessions, TypeOK,
     AtMostOneRecording, Recording, StopSaved, appVars, startVars,
     recorderVars, Sessions, Callers
<1>4. ReturnedIsNotLive'
    BY NoneAssumption, CallersAssumption DEF IInv, ReturnedIsNotLive,
     TypeOK, OnlyStartedSessions, StopSaved, appVars, startVars,
     recorderVars, Callers
<1>5. LiveCaptureIsOwned'
    BY NoneAssumption, CallersAssumption DEF IInv, LiveCaptureIsOwned,
     Stopping, TypeOK, OnlyStartedSessions, ReturnedIsNotLive, StopSaved,
     appVars, startVars, recorderVars, Callers
<1>6. DownIsQuiet'
    BY DEF IInv, DownIsQuiet, StopSaved, startVars, recorderVars
<1> QED  BY <1>1, <1>2, <1>3, <1>4, <1>5, <1>6 DEF IInv

\* Neither is the copy saved as failed.
LEMMA StopFailedStep ==
  ASSUME NEW u \in Stops, IInv, StopFailed(u)
  PROVE  IInv'
<1>1. AtMostOneRecording'
    BY DEF IInv, TypeOK, AtMostOneRecording, Recording, StopFailed
<1>2. TypeOK'
    BY <1>1, ReloadedRecent DEF IInv, TypeOK, StopFailed, endStopTask, recorderVars,
       Callers
<1>3. OnlyStartedSessions'
  <2>1. held[u] \in Sessions => held[u] <= started
    BY NoneAssumption DEF IInv, OnlyStartedSessions, Callers, Sessions
  <2>2. \A s \in Sessions : s # held[u] => status'[s] = status[s]
    BY DEF IInv, TypeOK, StopFailed
  <2>3. \A s \in Sessions : status'[s] # "absent" => s <= started
    BY <2>1, <2>2 DEF IInv, OnlyStartedSessions
  <2> QED
    BY <1>1, <2>3, ReloadedRecent
    DEF IInv, TypeOK, OnlyStartedSessions, StopFailed, endStopTask, Callers
<1>4. ReturnedIsNotLive'
    BY DEF IInv, ReturnedIsNotLive, StopFailed, endStopTask, recorderVars
<1>5. LiveCaptureIsOwned'
    BY NoneAssumption, CallersAssumption DEF IInv, LiveCaptureIsOwned,
     Stopping, TypeOK, OnlyStartedSessions, ReturnedIsNotLive, StopFailed,
     endStopTask, recorderVars, Callers
<1>6. DownIsQuiet'
    BY DEF IInv, DownIsQuiet, StopFailed, recorderVars
<1> QED  BY <1>1, <1>2, <1>3, <1>4, <1>5, <1>6 DEF IInv

\* The end of a stop Task changes no record.
LEMMA StopTaskEndsStep ==
  ASSUME NEW u \in Stops, IInv, StopTaskEnds(u)
  PROVE  IInv'
<1>1. AtMostOneRecording'
    BY DEF IInv, AtMostOneRecording, Recording, StopTaskEnds, recordVars
<1>2. TypeOK'
    BY <1>1, ReloadedRecent DEF IInv, TypeOK, StopTaskEnds, recordVars,
       recorderVars, endStopTask
<1>3. OnlyStartedSessions'
    BY NoneAssumption, <1>1, ReloadedRecent DEF IInv,
     OnlyStartedSessions, TypeOK, StopTaskEnds, recordVars, recorderVars,
     endStopTask, Sessions, Callers
<1>4. ReturnedIsNotLive'
    BY NoneAssumption, CallersAssumption DEF IInv, ReturnedIsNotLive,
     TypeOK, OnlyStartedSessions, StopTaskEnds, recordVars, recorderVars,
     endStopTask, Callers
<1>5. LiveCaptureIsOwned'
    BY NoneAssumption, CallersAssumption DEF IInv, LiveCaptureIsOwned,
     Stopping, TypeOK, OnlyStartedSessions, ReturnedIsNotLive, StopTaskEnds,
     recordVars, recorderVars, endStopTask, Callers
<1>6. DownIsQuiet'
    BY DEF IInv, DownIsQuiet, StopTaskEnds, recordVars, recorderVars,
     endStopTask
<1> QED  BY <1>1, <1>2, <1>3, <1>4, <1>5, <1>6 DEF IInv

\* A failure report only queues its Task.
LEMMA CaptureFailsStep ==
  ASSUME NEW r \in Reports, IInv, CaptureFails(r)
  PROVE  IInv'
<1>1. TypeOK'
    BY NoneAssumption, BoundsAssumption DEF IInv, TypeOK, CaptureFails,
     recordVars, appVars, startVars, Callers
<1>2. ReturnedIsNotLive'
    BY NoneAssumption, CallersAssumption DEF IInv, ReturnedIsNotLive,
     TypeOK, OnlyStartedSessions, CaptureFails, recordVars, appVars,
     startVars, Callers
<1>3. LiveCaptureIsOwned'
    BY NoneAssumption, CallersAssumption DEF IInv, LiveCaptureIsOwned,
     Stopping, TypeOK, OnlyStartedSessions, ReturnedIsNotLive, CaptureFails,
     recordVars, appVars, startVars, Callers
<1>4. AtMostOneRecording' /\ OnlyStartedSessions' /\ DownIsQuiet'
    BY DEF IInv, AtMostOneRecording, Recording, OnlyStartedSessions, DownIsQuiet,
       CaptureFails, recordVars, appVars
<1> QED  BY <1>1, <1>2, <1>3, <1>4 DEF IInv

\* An ignored report changes nothing else.
LEMMA HandlerIgnoresStep ==
  ASSUME NEW r \in Reports, IInv, HandlerIgnores(r)
  PROVE  IInv'
<1>1. TypeOK'
    BY NoneAssumption, BoundsAssumption DEF IInv, TypeOK, HandlerIgnores,
     recordVars, appVars, startVars, recorderVars, Callers
<1>2. ReturnedIsNotLive'
    BY NoneAssumption, CallersAssumption DEF IInv, ReturnedIsNotLive,
     TypeOK, OnlyStartedSessions, HandlerIgnores, recordVars, appVars,
     startVars, recorderVars, Callers
<1>3. LiveCaptureIsOwned'
    BY DEF IInv, LiveCaptureIsOwned, Stopping, HandlerIgnores, recordVars,
       recorderVars
<1>4. AtMostOneRecording' /\ OnlyStartedSessions' /\ DownIsQuiet'
    BY DEF IInv, AtMostOneRecording, Recording, OnlyStartedSessions,
     DownIsQuiet, HandlerIgnores, recordVars, appVars, startVars,
     recorderVars
<1> QED  BY <1>1, <1>2, <1>3, <1>4 DEF IInv

\* The handler's copy, and the session it blames, have been started.
LEMMA HandlerStopsStep ==
  ASSUME NEW r \in Reports, IInv, HandlerStops(r)
  PROVE  IInv'
<1>1. TypeOK'
    BY NoneAssumption, BoundsAssumption, ActiveSessionIsRecording DEF
     IInv, TypeOK, HandlerStops, recordVars, appVars, startVars,
     recorderVars, Callers
<1>2. OnlyStartedSessions'
    BY NoneAssumption, ActiveSessionIsRecording DEF IInv,
     OnlyStartedSessions, TypeOK, HandlerStops, recordVars, appVars,
     startVars, recorderVars, Sessions, Callers
<1>3. ReturnedIsNotLive'
    BY NoneAssumption, ActiveSessionIsRecording, CallersAssumption DEF
     IInv, ReturnedIsNotLive, TypeOK, OnlyStartedSessions, HandlerStops,
     recordVars, appVars, startVars, recorderVars, Callers
<1>4. LiveCaptureIsOwned'
    BY NoneAssumption, ActiveSessionIsRecording, CallersAssumption DEF
     IInv, LiveCaptureIsOwned, Stopping, TypeOK, OnlyStartedSessions,
     ReturnedIsNotLive, HandlerStops, recordVars, appVars, startVars,
     recorderVars, Callers
<1>5. AtMostOneRecording' /\ DownIsQuiet'
    BY DEF IInv, AtMostOneRecording, Recording, DownIsQuiet, HandlerStops,
       recordVars, startVars, recorderVars
<1> QED  BY <1>1, <1>2, <1>3, <1>4, <1>5 DEF IInv

\* With no recording record, markFailed cannot hit the live session.
LEMMA HandlerFindsNoSessionStep ==
  ASSUME NEW r \in Reports, IInv, HandlerFindsNoSession(r)
  PROVE  IInv'
<1>1. AtMostOneRecording'
    BY NoneAssumption, ActiveSessionIsRecording DEF IInv, TypeOK,
     AtMostOneRecording, Recording, HandlerFindsNoSession,
     endFailureHandler, markFailed, startVars, recorderVars
<1>2. TypeOK'
    BY NoneAssumption, BoundsAssumption, <1>1, ReloadedRecent,
     ActiveSessionIsRecording DEF IInv, TypeOK, HandlerFindsNoSession,
     endFailureHandler, markFailed, startVars, recorderVars, Callers
<1>3. OnlyStartedSessions'
    BY NoneAssumption, <1>1, ReloadedRecent, ActiveSessionIsRecording DEF
     IInv, OnlyStartedSessions, TypeOK, HandlerFindsNoSession,
     endFailureHandler, markFailed, startVars, recorderVars, Sessions,
     Callers
<1>4. ReturnedIsNotLive'
    BY NoneAssumption, ActiveSessionIsRecording, CallersAssumption DEF
     IInv, ReturnedIsNotLive, TypeOK, OnlyStartedSessions,
     HandlerFindsNoSession, endFailureHandler, markFailed, startVars,
     recorderVars, Callers
<1>5. LiveCaptureIsOwned'
    BY NoneAssumption, ActiveSessionIsRecording, CallersAssumption DEF
     IInv, LiveCaptureIsOwned, Stopping, TypeOK, OnlyStartedSessions,
     ReturnedIsNotLive, HandlerFindsNoSession, endFailureHandler,
     markFailed, startVars, recorderVars, Callers
<1>6. DownIsQuiet'
    BY DEF IInv, DownIsQuiet, HandlerFindsNoSession, endFailureHandler,
     markFailed, startVars, recorderVars
<1> QED  BY <1>1, <1>2, <1>3, <1>4, <1>5, <1>6 DEF IInv

\* The handler writes to the session it held and to the one it blames.
LEMMA HandlerEndsStep ==
  ASSUME NEW r \in Reports, IInv, HandlerEnds(r)
  PROVE  IInv'
<1>1. AtMostOneRecording'
    BY NoneAssumption DEF IInv, TypeOK, AtMostOneRecording, Recording,
     HandlerEnds, AfterManagerStop, endFailureHandler, markFailed,
     startVars, recorderVars
<1>2. TypeOK'
    BY NoneAssumption, BoundsAssumption, <1>1, ReloadedRecent DEF IInv,
     TypeOK, HandlerEnds, AfterManagerStop, endFailureHandler, markFailed,
     startVars, recorderVars, Callers
<1>3. OnlyStartedSessions'
  <2>1. PICK st \in AfterManagerStop(held[r]) : endFailureHandler(r, st, blamed[r])
    BY DEF HandlerEnds
  <2>2. held[r] \in Sessions => held[r] <= started
    BY NoneAssumption DEF IInv, OnlyStartedSessions, Callers, Sessions
  <2>3. \A s \in Sessions : s # held[r] => st[s] = status[s]
    BY DEF IInv, TypeOK, AfterManagerStop
  <2>4. \A s \in Sessions : st[s] # "absent" => s <= started
    BY <2>2, <2>3 DEF IInv, OnlyStartedSessions
  <2>5. st \in [Sessions -> {"absent", "recording", "recorded", "failed"}]
    BY DEF IInv, TypeOK, AfterManagerStop
  <2>6. \A s \in Sessions : status'[s] # "absent" => s <= started
    BY <2>1, <2>4, <2>5 DEF endFailureHandler, markFailed
  <2> QED
    BY <1>1, <2>1, <2>6, ReloadedRecent
    DEF IInv, TypeOK, OnlyStartedSessions, HandlerEnds, endFailureHandler, Callers
<1>4. ReturnedIsNotLive'
    BY NoneAssumption, CallersAssumption DEF IInv, ReturnedIsNotLive,
     TypeOK, OnlyStartedSessions, HandlerEnds, AfterManagerStop,
     endFailureHandler, markFailed, startVars, recorderVars, Callers
<1>5. LiveCaptureIsOwned'
    BY NoneAssumption, CallersAssumption DEF IInv, LiveCaptureIsOwned,
     Stopping, TypeOK, OnlyStartedSessions, ReturnedIsNotLive, HandlerEnds,
     AfterManagerStop, endFailureHandler, markFailed, startVars,
     recorderVars, Callers
<1>6. DownIsQuiet'
    BY DEF IInv, DownIsQuiet, HandlerEnds, AfterManagerStop,
     endFailureHandler, markFailed, startVars, recorderVars
<1> QED  BY <1>1, <1>2, <1>3, <1>4, <1>5, <1>6 DEF IInv

\* Raising isStopping keeps the clean-up Task the owner.
LEMMA RecorderStopBeginsStep ==
  ASSUME NEW c \in Callers, IInv, RecorderStopBegins(c)
  PROVE  IInv'
<1>1. TypeOK'
    BY DEF IInv, TypeOK, RecorderStopBegins, recordVars, appVars, startVars
<1>2. ReturnedIsNotLive'
    BY NoneAssumption, CallersAssumption DEF IInv, ReturnedIsNotLive,
     TypeOK, OnlyStartedSessions, RecorderStopBegins, recordVars, appVars,
     startVars, Callers
<1>3. LiveCaptureIsOwned'
    BY DEF IInv, LiveCaptureIsOwned, Stopping, RecorderStopBegins, recordVars
<1>4. AtMostOneRecording' /\ OnlyStartedSessions' /\ DownIsQuiet'
    BY DEF IInv, AtMostOneRecording, Recording, OnlyStartedSessions, DownIsQuiet,
       RecorderStopBegins, recordVars, appVars, startVars
<1> QED  BY <1>1, <1>2, <1>3, <1>4 DEF IInv

\* Afterwards no capture is live.
LEMMA RecorderStopEndsStep ==
  ASSUME NEW c \in Callers, IInv, RecorderStopEnds(c)
  PROVE  IInv'
<1>1. TypeOK'
    BY DEF IInv, TypeOK, RecorderStopEnds, recordVars, appVars, startVars
<1>2. DownIsQuiet'
    BY NoneAssumption DEF IInv, DownIsQuiet, TypeOK, RecorderStopEnds,
     recordVars, appVars, startVars
<1>3. ReturnedIsNotLive'
    BY NoneAssumption, CallersAssumption DEF IInv, ReturnedIsNotLive,
     TypeOK, OnlyStartedSessions, RecorderStopEnds, recordVars, appVars,
     startVars, Callers
<1>4. LiveCaptureIsOwned'
    BY DEF LiveCaptureIsOwned, RecorderStopEnds
<1>5. AtMostOneRecording' /\ OnlyStartedSessions'
    BY DEF IInv, AtMostOneRecording, Recording, OnlyStartedSessions,
       RecorderStopEnds, recordVars, appVars
<1> QED  BY <1>1, <1>2, <1>3, <1>4, <1>5 DEF IInv

\* The clean-up Task ends after the recorder has stopped.
LEMMA CleanupEndsStep ==
  ASSUME NEW k \in Cleanups, IInv, CleanupEnds(k)
  PROVE  IInv'
<1>1. TypeOK'
    BY NoneAssumption, BoundsAssumption DEF IInv, TypeOK, CleanupEnds,
     appVars, startVars, recorderVars, Callers
<1>2. OnlyStartedSessions'
    BY NoneAssumption DEF IInv, OnlyStartedSessions, TypeOK,
     AtMostOneRecording, Recording, CleanupEnds, appVars, startVars,
     recorderVars, Sessions, Callers
<1>3. ReturnedIsNotLive'
    BY NoneAssumption, CallersAssumption DEF IInv, ReturnedIsNotLive,
     TypeOK, OnlyStartedSessions, CleanupEnds, appVars, startVars,
     recorderVars, Callers
<1>4. LiveCaptureIsOwned'
    BY NoneAssumption, CallersAssumption DEF IInv, LiveCaptureIsOwned,
     Stopping, TypeOK, OnlyStartedSessions, ReturnedIsNotLive, CleanupEnds,
     appVars, startVars, recorderVars, Callers
<1>5. AtMostOneRecording' /\ DownIsQuiet'
    BY DEF IInv, AtMostOneRecording, Recording, DownIsQuiet, CleanupEnds,
     appVars, startVars, recorderVars
<1> QED  BY <1>1, <1>2, <1>3, <1>4, <1>5 DEF IInv

\* A record that says recording is never deleted.
LEMMA DeleteMeetingStep ==
  ASSUME NEW s \in Sessions, IInv, DeleteMeeting(s)
  PROVE  IInv'
<1>1. AtMostOneRecording'
    BY DEF IInv, AtMostOneRecording, Recording, DeleteMeeting
<1>2. TypeOK'
    BY <1>1, ReloadedRecent DEF IInv, TypeOK, DeleteMeeting, startVars, stopVars,
       recorderVars
<1>3. OnlyStartedSessions'
    BY NoneAssumption, <1>1, ReloadedRecent DEF IInv,
     OnlyStartedSessions, TypeOK, DeleteMeeting, startVars, stopVars,
     recorderVars, Sessions
<1>4. LiveCaptureIsOwned'
    BY DEF IInv, LiveCaptureIsOwned, Stopping, DeleteMeeting, stopVars, recorderVars
<1>5. DownIsQuiet' /\ ReturnedIsNotLive'
    BY DEF IInv, DownIsQuiet, ReturnedIsNotLive, DeleteMeeting,
     startVars, stopVars, recorderVars
<1> QED  BY <1>1, <1>2, <1>3, <1>4, <1>5 DEF IInv

\* Audio arriving changes no record.
LEMMA CaptureAudioStep ==
  ASSUME IInv, CaptureAudio
  PROVE  IInv'
<1>1. TypeOK'
    BY NoneAssumption, BoundsAssumption DEF IInv, TypeOK, CaptureAudio,
     appVars, startVars, stopVars, recorderVars
<1>2. AtMostOneRecording' /\ OnlyStartedSessions' /\ DownIsQuiet' /\ ReturnedIsNotLive' /\ LiveCaptureIsOwned'
    BY DEF IInv, AtMostOneRecording, Recording, OnlyStartedSessions, DownIsQuiet,
       ReturnedIsNotLive, LiveCaptureIsOwned, Stopping, CaptureAudio, appVars,
       stopVars, recorderVars
<1> QED  BY <1>1, <1>2 DEF IInv

-----------------------------------------------------------------------------

\* The initial states satisfy the inductive invariant.
LEMMA InitIInv ==
  ASSUME Init
  PROVE  IInv
<1>1. TypeOK
  <2>1. 0 \in 0..MaxSessions /\ 0 \in 0..MaxCrashes  BY BoundsAssumption
  <2> QED  BY <2>1 DEF Init, TypeOK
<1>2. AtMostOneRecording  BY DEF Init, AtMostOneRecording, Recording
<1>3. OnlyStartedSessions  BY DEF Init, OnlyStartedSessions
<1>4. DownIsQuiet  BY DEF Init, DownIsQuiet
<1>5. ReturnedIsNotLive /\ LiveCaptureIsOwned
  BY DEF Init, ReturnedIsNotLive, LiveCaptureIsOwned
<1> QED  BY <1>1, <1>2, <1>3, <1>4, <1>5 DEF IInv

\* Every step preserves the inductive invariant.
LEMMA NextIInv ==
  ASSUME IInv, [Next]_vars
  PROVE  IInv'
<1>1. CASE Launch  BY <1>1, LaunchStep
<1>2. CASE Crash  BY <1>2, CrashStep
<1>3. ASSUME NEW c \in Clicks, StartStep(c) PROVE IInv'
  BY <1>3, ClickStartStep, StartTaskRunsStep, StopAwaitedStep,
     PermissionsDeniedStep, StartRefusedStep, StartRecorderThrowsStep,
     StartSaveFailsStep, StartSucceedsStep DEF StartStep
<1>4. ASSUME NEW u \in Stops, StopStep(u) PROVE IInv'
  BY <1>4, ClickStopStep, MeetingAudioEndedStep, ManagerStopStep,
     NoActiveSessionStep, StopSavedStep, StopFailedStep, StopTaskEndsStep DEF StopStep
<1>5. ASSUME NEW r \in Reports, HandlerStep(r) PROVE IInv'
  BY <1>5, CaptureFailsStep, HandlerIgnoresStep, HandlerStopsStep,
     HandlerFindsNoSessionStep, HandlerEndsStep DEF HandlerStep
<1>6. ASSUME NEW c \in Callers, RecorderStopBegins(c) \/ RecorderStopEnds(c)
      PROVE IInv'
  BY <1>6, RecorderStopBeginsStep, RecorderStopEndsStep
<1>7. ASSUME NEW k \in Cleanups, CleanupEnds(k) PROVE IInv'
  BY <1>7, CleanupEndsStep
<1>8. ASSUME NEW s \in Sessions, DeleteMeeting(s) PROVE IInv'
  BY <1>8, DeleteMeetingStep
<1>9. CASE CaptureAudio  BY <1>9, CaptureAudioStep
<1>10. CASE UNCHANGED vars
  BY <1>10 DEF IInv, TypeOK, AtMostOneRecording, Recording, OnlyStartedSessions,
     DownIsQuiet, ReturnedIsNotLive, LiveCaptureIsOwned, Stopping, vars,
     recordVars, appVars, startVars, stopVars, recorderVars
<1> QED
  BY <1>1, <1>2, <1>3, <1>4, <1>5, <1>6, <1>7, <1>8, <1>9, <1>10 DEF Next

\* The inductive invariant holds in every reachable state.
THEOREM Invariance == Spec => []IInv
BY InitIInv, NextIInv, PTL DEF Spec

\* Every variable keeps its type: in particular every Task that writes to a
\* session it held across an await writes to a session, never to nothing.
THEOREM TypeCorrect == Spec => []TypeOK
<1>1. IInv => TypeOK  BY DEF IInv
<1> QED  BY <1>1, Invariance, PTL

\* However stops, failures, saves and crashes interleave, at most one record
\* says recording: SessionManager.start asks the records before it writes one.
THEOREM OneRecording == Spec => []AtMostOneRecording
<1>1. IInv => AtMostOneRecording  BY DEF IInv
<1> QED  BY <1>1, Invariance, PTL

\* A capture that is running always belongs to a recording record or to a
\* clean-up Task that has still to stop it (SessionManager.swift:95-107).
THEOREM CaptureIsOwned == Spec => []LiveCaptureIsOwned
<1>1. IInv => LiveCaptureIsOwned  BY DEF IInv
<1> QED  BY <1>1, Invariance, PTL

-----------------------------------------------------------------------------

(***************************************************************************)
(* When captures do not fail, no failure handler ever runs, and only stop  *)
(* Tasks finalize.  Then (RecordsAgree) the one stop Task at work holds    *)
(* the one session that says recording, and phase shows a recording only   *)
(* if there is one.  With a handler, it and a stop Task may both be at     *)
(* work, and none of this holds.                                           *)
(***************************************************************************)
NoCaptureFailure == ~CaptureMayFail

\* A caller that has a recording still to finalize.
Busy(c) == call[c] \in {"queued", "called", "draining", "returned"}

\* Failure handlers have nothing to do.
HandlersAreIdle == \A r \in Reports : call[r] = "idle"

\* A process that is down shows nothing and runs no Task.
DownIsIdle == app = "down" => phase = "idle" /\ \A c \in Callers : call[c] = "idle"

\* One stop Task at a time finalizes.
OneIsBusy == \A u, v \in Stops : Busy(u) /\ Busy(v) => u = v

\* It finalizes the active session, which no longer shows.
BusyHoldsTheRecording ==
  \A u \in Stops : Busy(u) =>
    /\ phase = "idle"
    /\ activeSession # None
    /\ call[u] # "queued" => held[u] = activeSession

ShownIsRecording == phase = "recording" => activeSession # None

RecordsAgree ==
  /\ HandlersAreIdle
  /\ DownIsIdle
  /\ OneIsBusy
  /\ BusyHoldsTheRecording
  /\ ShownIsRecording

(***************************************************************************)
(* When saves do not fail either, the recorder agrees too (CaptureAgrees): *)
(* it has the active session open until the Task that finalizes it is back *)
(* from stop(), and with nobody finalizing, an active session is shown.    *)
(***************************************************************************)
NoFailures == NoCaptureFailure /\ ~SaveMayFail

CleanupsAreIdle == \A k \in Cleanups : call[k] = "idle"

BusyHasItOpen ==
  \A u \in Stops : Busy(u) =>
    /\ call[u] # "returned" => live = activeSession
    /\ call[u] = "returned" => live = None

QuietAgrees ==
  app = "up" /\ (\A u \in Stops : ~Busy(u)) =>
    /\ live = activeSession
    /\ activeSession # None => phase = "recording"

CaptureAgrees == CleanupsAreIdle /\ BusyHasItOpen /\ QuietAgrees

-----------------------------------------------------------------------------

\* The active session of the next state is the session that says recording there.
LEMMA NextActiveSession ==
  ASSUME AtMostOneRecording'
  PROVE  /\ activeSession' \in Sessions \cup {None}
         /\ \A s \in Sessions : status'[s] = "recording" <=> activeSession' = s
BY NewestRecordingIsTheOne DEF AtMostOneRecording, Recording, activeSession

\* A step that makes no record start or stop recording keeps the active session.
LEMMA SameActiveSession ==
  ASSUME AtMostOneRecording, AtMostOneRecording',
         \A s \in Sessions : status'[s] = "recording" <=> status[s] = "recording"
  PROVE  activeSession' = activeSession
<1>1. CASE activeSession = None
  <2>1. \A s \in Sessions : status'[s] # "recording"
    BY <1>1, NoneAssumption, ActiveSessionIsRecording DEF Sessions
  <2> QED  BY <1>1, <2>1, NextActiveSession
<1>2. CASE activeSession \in Sessions
  BY <1>2, ActiveSessionIsRecording, NextActiveSession
<1> QED  BY <1>1, <1>2, ActiveSessionIsRecording

\* A step that touches neither the active session, the phase nor a caller keeps
\* the records in agreement, and the recorder too if it leaves that alone.
LEMMA UnrelatedStep ==
  ASSUME RecordsAgree, activeSession' = activeSession, UNCHANGED <<app, phase, call, held>>
  PROVE  RecordsAgree' /\ (CaptureAgrees /\ live' = live => CaptureAgrees')
BY DEF RecordsAgree, HandlersAreIdle, DownIsIdle, OneIsBusy, BusyHoldsTheRecording,
   ShownIsRecording, CaptureAgrees, CleanupsAreIdle, BusyHasItOpen, QuietAgrees, Busy

\* Recovery leaves no record recording when every save succeeds.
LEMMA LaunchKeepsAgreement ==
  ASSUME IInv, IInv', RecordsAgree, Launch
  PROVE  RecordsAgree' /\ (NoFailures /\ CaptureAgrees => CaptureAgrees')
<1>1. phase = "idle" /\ live = None /\ \A c \in Callers : call[c] = "idle"
  BY DEF IInv, DownIsQuiet, RecordsAgree, DownIsIdle, Launch
<1>2. Stops \subseteq Callers /\ UNCHANGED <<phase, call, live>> /\ app' = "up"
  BY DEF Launch, stopVars, recorderVars, Callers
<1>3. RecordsAgree'
  BY <1>1, <1>2 DEF RecordsAgree, HandlersAreIdle, DownIsIdle, OneIsBusy,
     BusyHoldsTheRecording, ShownIsRecording, Busy
<1>4. ASSUME NoFailures PROVE activeSession' = None
  <2>1. \A s \in Sessions : status'[s] # "recording"
    BY <1>4 DEF Launch, NoFailures, recoverInterruptedSessions, Recording
  <2> QED  BY <2>1, NextActiveSession DEF IInv
<1> QED
  BY <1>1, <1>2, <1>3, <1>4
     DEF CaptureAgrees, CleanupsAreIdle, BusyHasItOpen, QuietAgrees, Busy

\* A crash stops every Task.
LEMMA CrashKeepsAgreement ==
  ASSUME Crash
  PROVE  RecordsAgree' /\ CaptureAgrees'
<1>1. \A c \in Callers : call'[c] = "idle"  BY DEF Crash
<1>2. Stops \subseteq Callers /\ Reports \subseteq Callers /\ Cleanups \subseteq Callers
  BY DEF Callers
<1> QED
  BY <1>1, <1>2 DEF Crash, RecordsAgree, HandlersAreIdle, DownIsIdle, OneIsBusy,
     BusyHoldsTheRecording, ShownIsRecording, CaptureAgrees, CleanupsAreIdle,
     BusyHasItOpen, QuietAgrees, Busy

\* When a start Task finds no active session, nobody is finalizing one, and
\* the recorder is idle.
LEMMA StartFindsNobody ==
  ASSUME NEW c \in Clicks, IInv, BusyHoldsTheRecording,
         click[c] = "permissions", activeSession = None
  PROVE  /\ app = "up"
         /\ \A u \in Stops : ~Busy(u)
         /\ CaptureAgrees => live = None
<1>1. app = "up"  BY DEF IInv, TypeOK, DownIsQuiet
<1>2. \A u \in Stops : ~Busy(u)  BY DEF BusyHoldsTheRecording
<1> QED  BY <1>1, <1>2 DEF CaptureAgrees, QuietAgrees

\* A start that succeeds opens the session it records.
LEMMA StartSucceedsKeepsAgreement ==
  ASSUME NEW c \in Clicks, IInv, IInv', RecordsAgree, StartSucceeds(c)
  PROVE  RecordsAgree' /\ (CaptureAgrees => CaptureAgrees')
<1>1. app = "up" /\ \A u \in Stops : ~Busy(u)
  BY StartFindsNobody DEF RecordsAgree, StartSucceeds
<1>2. started + 1 \in Sessions
  BY BoundsAssumption DEF IInv, TypeOK, StartSucceeds, Sessions
<1>3. status'[started + 1] = "recording"
  BY <1>2 DEF IInv, TypeOK, StartSucceeds
<1>4. activeSession' = started + 1
  BY <1>2, <1>3, NextActiveSession DEF IInv
<1>5. live' = activeSession' /\ activeSession' # None /\ phase' = "recording"
  BY <1>2, <1>4, NoneAssumption DEF StartSucceeds, recorderStart, Sessions
<1>6. UNCHANGED <<app, call, held>>  BY DEF StartSucceeds, stopVars
<1> QED
  BY <1>1, <1>5, <1>6 DEF RecordsAgree, HandlersAreIdle, DownIsIdle, OneIsBusy,
     BusyHoldsTheRecording, ShownIsRecording, CaptureAgrees, CleanupsAreIdle,
     BusyHasItOpen, QuietAgrees, Busy

\* What changes when one caller moves on.
LEMMA CallMoves ==
  ASSUME NEW u \in Callers, NEW at, IInv, call' = [call EXCEPT ![u] = at]
  PROVE  call'[u] = at /\ \A d \in Callers \ {u} : call'[d] = call[d]
BY DEF IInv, TypeOK

\* A clean-up is no stop Task: it concerns no record.
LEMMA StartSaveFailsKeepsRecords ==
  ASSUME NEW c \in Clicks, NEW k \in Cleanups, IInv, RecordsAgree, StartSaveFails(c, k)
  PROVE  RecordsAgree'
<1>1. app = "up"  BY StartFindsNobody DEF RecordsAgree, StartSaveFails
<1>2. k \in Callers /\ k \notin Stops /\ k \notin Reports
  BY CallersAssumption DEF Callers
<1>3. \A d \in Callers \ {k} : call'[d] = call[d] /\ held'[d] = held[d]
  BY <1>2 DEF StartSaveFails, IInv, TypeOK
<1>4. UNCHANGED <<app, phase, activeSession>>
  BY DEF StartSaveFails, appVars, activeSession
<1> QED
  BY <1>1, <1>2, <1>3, <1>4 DEF RecordsAgree, HandlersAreIdle, DownIsIdle, OneIsBusy,
     BusyHoldsTheRecording, ShownIsRecording, Busy, Callers

\* The steps of a start Task.
LEMMA StartStepKeepsAgreement ==
  ASSUME NEW c \in Clicks, IInv, IInv', RecordsAgree, StartStep(c)
  PROVE  RecordsAgree' /\ (NoFailures /\ CaptureAgrees => CaptureAgrees')
<1>1. CASE StartSucceeds(c)  BY <1>1, StartSucceedsKeepsAgreement
<1>2. CASE StartRecorderThrows(c)
  <2>1. CaptureAgrees => live' = live
    BY <1>2, StartFindsNobody DEF RecordsAgree, StartRecorderThrows, recorderStart
  <2> QED
    BY <1>2, <2>1, UnrelatedStep
       DEF StartRecorderThrows, activeSession, recordVars, appVars, stopVars
<1>3. CASE \/ ClickStart(c)
           \/ StartTaskRuns(c) \/ StopAwaited(c) \/ PermissionsDenied(c) \/ StartRefused(c)
  BY <1>3, UnrelatedStep
     DEF ClickStart, StartTaskRuns, StopAwaited, PermissionsDenied, StartRefused,
         activeSession, recordVars, appVars, stopVars, recorderVars
<1>4. ASSUME NEW k \in Cleanups, StartSaveFails(c, k) PROVE RecordsAgree' /\ ~NoFailures
  BY <1>4, StartSaveFailsKeepsRecords DEF StartSaveFails, NoFailures
<1> QED  BY <1>1, <1>2, <1>3, <1>4 DEF StartStep

\* stopRecording takes over the recording that is shown, from nobody.
LEMMA StopRecordingKeepsAgreement ==
  ASSUME NEW u \in Stops, IInv, RecordsAgree, stopRecording(u)
  PROVE  RecordsAgree' /\ (CaptureAgrees => CaptureAgrees')
<1>1. app = "up" /\ u \in Callers /\ u \notin Reports /\ u \notin Cleanups
  BY CallersAssumption DEF stopRecording, Callers
<1>2. \A v \in Stops : ~Busy(v)
  BY DEF RecordsAgree, BusyHoldsTheRecording, stopRecording
<1>3. activeSession # None /\ (CaptureAgrees => live = activeSession)
  BY <1>1, <1>2 DEF RecordsAgree, ShownIsRecording, CaptureAgrees, QuietAgrees, stopRecording
<1>4. UNCHANGED <<app, held, live, activeSession>> /\ phase' = "idle"
  BY DEF stopRecording, recordVars, recorderVars, activeSession
<1>5. call'[u] = "queued" /\ \A d \in Callers \ {u} : call'[d] = call[d]
  BY <1>1, CallMoves DEF stopRecording
<1>6. RecordsAgree'
  BY <1>1, <1>2, <1>3, <1>4, <1>5 DEF RecordsAgree, HandlersAreIdle, DownIsIdle, OneIsBusy,
     BusyHoldsTheRecording, ShownIsRecording, Busy, Callers
<1> QED
  BY <1>1, <1>2, <1>3, <1>4, <1>5, <1>6 DEF CaptureAgrees, CleanupsAreIdle,
     BusyHasItOpen, QuietAgrees, Busy, Callers

\* SessionManager.stop loads the active session, which is still there.
LEMMA ManagerStopKeepsAgreement ==
  ASSUME NEW u \in Stops, IInv, RecordsAgree, ManagerStop(u)
  PROVE  RecordsAgree' /\ (CaptureAgrees => CaptureAgrees')
<1>1. u \in Callers /\ u \notin Reports /\ u \notin Cleanups /\ Busy(u) /\ call[u] = "queued"
  BY CallersAssumption DEF ManagerStop, Callers, Busy
<1>2. UNCHANGED <<app, phase, live, activeSession>>
  BY DEF ManagerStop, recordVars, appVars, recorderVars, activeSession
<1>3. call'[u] = "called" /\ \A d \in Callers \ {u} : call'[d] = call[d]
  BY <1>1, CallMoves DEF ManagerStop
<1>4. held'[u] = activeSession
  BY <1>1 DEF ManagerStop, IInv, TypeOK
<1>5. \A v \in Stops \ {u} : ~Busy(v)
  BY <1>1 DEF RecordsAgree, OneIsBusy
<1>6. RecordsAgree'
  BY <1>1, <1>2, <1>3, <1>4, <1>5 DEF RecordsAgree, HandlersAreIdle, DownIsIdle, OneIsBusy,
     BusyHoldsTheRecording, ShownIsRecording, Busy, Callers
<1> QED
  BY <1>1, <1>2, <1>3, <1>4, <1>5, <1>6 DEF CaptureAgrees, CleanupsAreIdle,
     BusyHasItOpen, QuietAgrees, Busy, Callers

\* recorder.stop() raises its flag, for a stop Task or a clean-up.
LEMMA RecorderStopBeginsKeepsAgreement ==
  ASSUME NEW c \in Callers, IInv, RecordsAgree, RecorderStopBegins(c)
  PROVE  RecordsAgree' /\ (CaptureAgrees => CaptureAgrees')
<1>1. call[c] = "called" /\ c \notin Reports
  BY DEF RecorderStopBegins, RecordsAgree, HandlersAreIdle
<1>2. UNCHANGED <<app, phase, live, held, activeSession>>
  BY DEF RecorderStopBegins, recordVars, appVars, activeSession
<1>3. call'[c] = "draining" /\ \A d \in Callers \ {c} : call'[d] = call[d]
  BY CallMoves DEF RecorderStopBegins
<1>4. \A u \in Stops : (call'[u] = "queued") <=> (call[u] = "queued")
  BY <1>1, <1>3 DEF Callers
<1>5. \A u \in Stops : (call'[u] = "returned") <=> (call[u] = "returned")
  BY <1>1, <1>3 DEF Callers
<1>6. \A u \in Stops : Busy(u)' <=> Busy(u)
  BY <1>1, <1>3 DEF Busy, Callers
<1>7. RecordsAgree'
  BY <1>1, <1>2, <1>3, <1>4, <1>6 DEF RecordsAgree, HandlersAreIdle, DownIsIdle, OneIsBusy,
     BusyHoldsTheRecording, ShownIsRecording, Callers
<1> QED
  BY <1>1, <1>2, <1>3, <1>5, <1>6, <1>7 DEF CaptureAgrees, CleanupsAreIdle,
     BusyHasItOpen, QuietAgrees, Callers

\* And it closes what is open: with no clean-up at work, the session held by
\* the one stop Task.
LEMMA RecorderStopEndsKeepsAgreement ==
  ASSUME NEW c \in Callers, IInv, RecordsAgree, RecorderStopEnds(c)
  PROVE  RecordsAgree' /\ (CaptureAgrees => CaptureAgrees')
<1>1. call[c] = "draining" /\ c \notin Reports
  BY DEF RecorderStopEnds, RecordsAgree, HandlersAreIdle
<1>2. UNCHANGED <<app, phase, held, activeSession>> /\ live' = None
  BY DEF RecorderStopEnds, recordVars, appVars, activeSession
<1>3. call'[c] = "returned" /\ \A d \in Callers \ {c} : call'[d] = call[d]
  BY CallMoves DEF RecorderStopEnds
<1>4. \A u \in Stops : (call'[u] = "queued") <=> (call[u] = "queued")
  BY <1>1, <1>3 DEF Callers
<1>5. \A u \in Stops : Busy(u)' <=> Busy(u)
  BY <1>1, <1>3 DEF Busy, Callers
<1>6. RecordsAgree'
  BY <1>1, <1>2, <1>3, <1>4, <1>5 DEF RecordsAgree, HandlersAreIdle, DownIsIdle, OneIsBusy,
     BusyHoldsTheRecording, ShownIsRecording, Callers
<1>7. ASSUME CaptureAgrees PROVE CaptureAgrees'
  <2>1. c \in Stops /\ Busy(c)
    BY <1>1, <1>7 DEF CaptureAgrees, CleanupsAreIdle, Callers, Busy
  <2>2. \A u \in Stops \ {c} : ~Busy(u)  BY <2>1 DEF RecordsAgree, OneIsBusy
  <2> QED
    BY <1>1, <1>2, <1>3, <1>5, <1>7, <2>1, <2>2
       DEF CaptureAgrees, CleanupsAreIdle, BusyHasItOpen, QuietAgrees, Callers
<1> QED  BY <1>6, <1>7

\* A returned stop Task holds the one session that says recording; once its
\* record says something else, no record does.
LEMMA FinalizedLeavesNone ==
  ASSUME NEW u \in Stops, NEW new, new # "recording", IInv, IInv', BusyHoldsTheRecording,
         call[u] = "returned", status' = [status EXCEPT ![held[u]] = new]
  PROVE  /\ held[u] \in Sessions /\ status[held[u]] = "recording"
         /\ activeSession' = None
<1>1. Busy(u)  BY DEF Busy
<1>2. held[u] = activeSession /\ activeSession # None
  BY <1>1 DEF BusyHoldsTheRecording
<1>3. held[u] \in Sessions /\ status[held[u]] = "recording"
  BY <1>2, ActiveSessionIsRecording DEF IInv
<1>4. \A s \in Sessions : status'[s] # "recording"
  BY <1>2, <1>3, ActiveSessionIsRecording DEF IInv, TypeOK
<1> QED  BY <1>3, <1>4, NextActiveSession DEF IInv

\* A stop Task that is past its save, or has failed to save, leaves nobody
\* finalizing; the recorder agrees if the save succeeded.
LEMMA FinalizedKeepsAgreement ==
  ASSUME NEW u \in Stops, NEW at \in {"idle", "cleaning"}, IInv, RecordsAgree,
         call[u] = "returned", call' = [call EXCEPT ![u] = at],
         UNCHANGED <<app, phase, live>>
  PROVE  RecordsAgree' /\ (CaptureAgrees /\ activeSession' = None => CaptureAgrees')
<1>1. u \in Callers /\ u \notin Reports /\ u \notin Cleanups /\ Busy(u)
  BY CallersAssumption DEF Callers, Busy
<1>2. call'[u] = at /\ \A d \in Callers \ {u} : call'[d] = call[d]
  BY <1>1, CallMoves
<1>3. \A v \in Stops \ {u} : ~Busy(v)
  BY <1>1 DEF RecordsAgree, OneIsBusy
<1>4. phase = "idle" /\ app # "down"
  BY <1>1 DEF RecordsAgree, BusyHoldsTheRecording, DownIsIdle
<1>5. \A v \in Stops : ~Busy(v)'
  BY <1>1, <1>2, <1>3 DEF Busy, Callers
<1>6. RecordsAgree'
  BY <1>1, <1>2, <1>4, <1>5 DEF RecordsAgree, HandlersAreIdle, DownIsIdle, OneIsBusy,
     BusyHoldsTheRecording, ShownIsRecording, Callers
<1>7. CaptureAgrees => live = None
  BY <1>1 DEF CaptureAgrees, BusyHasItOpen
<1> QED
  BY <1>1, <1>2, <1>5, <1>6, <1>7
     DEF CaptureAgrees, CleanupsAreIdle, BusyHasItOpen, QuietAgrees, Callers

\* The end of the noise clean-up concerns no recording.
LEMMA StopTaskEndsKeepsAgreement ==
  ASSUME NEW u \in Stops, IInv, RecordsAgree, StopTaskEnds(u)
  PROVE  RecordsAgree' /\ (CaptureAgrees => CaptureAgrees')
<1>1. u \in Callers /\ u \notin Reports /\ u \notin Cleanups /\ call[u] = "cleaning"
  BY CallersAssumption DEF StopTaskEnds, Callers
<1>2. UNCHANGED <<app, phase, live, activeSession>>
  BY DEF StopTaskEnds, recordVars, recorderVars, activeSession
<1>3. call'[u] = "idle" /\ \A d \in Callers \ {u} : call'[d] = call[d]
  BY <1>1, CallMoves DEF StopTaskEnds, endStopTask
<1>4. \A d \in Callers \ {u} : held'[d] = held[d]
  BY <1>1 DEF StopTaskEnds, endStopTask, IInv, TypeOK
<1>5. \A v \in Stops : Busy(v)' <=> Busy(v)
  BY <1>1, <1>3 DEF Busy, Callers
<1>6. ~Busy(u)  BY <1>1 DEF Busy
<1>7. RecordsAgree'
  BY <1>1, <1>2, <1>3, <1>4, <1>5, <1>6 DEF RecordsAgree, HandlersAreIdle, DownIsIdle,
     OneIsBusy, BusyHoldsTheRecording, ShownIsRecording, Callers
<1> QED
  BY <1>1, <1>2, <1>3, <1>5, <1>6, <1>7
     DEF CaptureAgrees, CleanupsAreIdle, BusyHasItOpen, QuietAgrees, Callers

\* The steps of a stop Task; it never finds that there is no active session.
LEMMA StopStepKeepsAgreement ==
  ASSUME NEW u \in Stops, IInv, IInv', RecordsAgree, StopStep(u)
  PROVE  RecordsAgree' /\ (NoFailures /\ CaptureAgrees => CaptureAgrees')
<1>1. CASE ClickStop(u) \/ MeetingAudioEnded(u)
  BY <1>1, StopRecordingKeepsAgreement DEF ClickStop, MeetingAudioEnded
<1>2. CASE ManagerStop(u)  BY <1>2, ManagerStopKeepsAgreement
<1>3. ~NoActiveSession(u)
  BY DEF NoActiveSession, RecordsAgree, BusyHoldsTheRecording, Busy
<1>4. CASE StopSaved(u)
  <2>1. activeSession' = None  BY <1>4, FinalizedLeavesNone DEF RecordsAgree, StopSaved
  <2> QED
    BY <1>4, <2>1, FinalizedKeepsAgreement DEF StopSaved, appVars, recorderVars
<1>5. CASE StopFailed(u)
  <2>1. call[u] = "returned"  BY <1>5 DEF StopFailed
  <2>2. RecordsAgree' /\ (CaptureAgrees /\ activeSession' = None => CaptureAgrees')
    BY <1>5, <2>1, FinalizedKeepsAgreement DEF StopFailed, endStopTask, recorderVars
  <2>3. ASSUME NoFailures PROVE activeSession' = None
    <3>1. status' = [status EXCEPT ![held[u]] = "failed"]
      BY <1>5, <2>3 DEF StopFailed, NoFailures
    <3> QED  BY <2>1, <3>1, FinalizedLeavesNone DEF RecordsAgree
  <2> QED  BY <2>2, <2>3
<1>6. CASE StopTaskEnds(u)  BY <1>6, StopTaskEndsKeepsAgreement
<1> QED  BY <1>1, <1>2, <1>3, <1>4, <1>5, <1>6 DEF StopStep

\* A handler never has a step to take.
LEMMA HandlersDoNothing ==
  ASSUME NoCaptureFailure, RecordsAgree, NEW r \in Reports
  PROVE  ~HandlerStep(r)
<1>1. call[r] = "idle"  BY DEF RecordsAgree, HandlersAreIdle
<1> QED
  BY <1>1 DEF NoCaptureFailure, HandlerStep, CaptureFails, HandlerIgnores,
     HandlerStops, HandlerFindsNoSession, HandlerEnds

\* A clean-up that ends frees itself; with the recorder in agreement there is none.
LEMMA CleanupEndsKeepsAgreement ==
  ASSUME NEW k \in Cleanups, IInv, RecordsAgree, CleanupEnds(k)
  PROVE  RecordsAgree' /\ ~CaptureAgrees
<1>1. k \in Callers /\ k \notin Stops /\ k \notin Reports
  BY CallersAssumption DEF Callers
<1>2. \A d \in Callers \ {k} : call'[d] = call[d] /\ held'[d] = held[d]
  BY <1>1 DEF CleanupEnds, IInv, TypeOK
<1>3. UNCHANGED <<app, phase, activeSession>>
  BY DEF CleanupEnds, appVars, activeSession
<1>4. call[k] = "returned" /\ app # "down"
  BY <1>1 DEF CleanupEnds, RecordsAgree, DownIsIdle
<1>5. ~CaptureAgrees  BY <1>4 DEF CaptureAgrees, CleanupsAreIdle
<1> QED
  BY <1>1, <1>2, <1>3, <1>4, <1>5 DEF RecordsAgree, HandlersAreIdle, DownIsIdle, OneIsBusy,
     BusyHoldsTheRecording, ShownIsRecording, Busy, Callers

\* Every step preserves both agreements.
LEMMA NextAgreement ==
  ASSUME NoCaptureFailure, IInv, IInv', RecordsAgree, [Next]_vars
  PROVE  RecordsAgree' /\ (NoFailures /\ CaptureAgrees => CaptureAgrees')
<1> DEFINE Agreement == RecordsAgree' /\ (NoFailures /\ CaptureAgrees => CaptureAgrees')
<1>1. CASE Launch  BY <1>1, LaunchKeepsAgreement
<1>2. CASE Crash  BY <1>2, CrashKeepsAgreement
<1>3. ASSUME NEW c \in Clicks, StartStep(c) PROVE Agreement
  BY <1>3, StartStepKeepsAgreement
<1>4. ASSUME NEW u \in Stops, StopStep(u) PROVE Agreement
  BY <1>4, StopStepKeepsAgreement
<1>5. ASSUME NEW c \in Callers, RecorderStopBegins(c) \/ RecorderStopEnds(c)
      PROVE  Agreement
  BY <1>5, RecorderStopBeginsKeepsAgreement, RecorderStopEndsKeepsAgreement
<1>6. ASSUME NEW k \in Cleanups, CleanupEnds(k) PROVE Agreement
  BY <1>6, CleanupEndsKeepsAgreement
<1>7. ASSUME NEW s \in Sessions, DeleteMeeting(s) PROVE Agreement
  <2>1. \A t \in Sessions : status'[t] = "recording" <=> status[t] = "recording"
    BY <1>7 DEF DeleteMeeting, IInv, TypeOK
  <2>2. activeSession' = activeSession  BY <2>1, SameActiveSession DEF IInv
  <2> QED
    BY <1>7, <2>2, UnrelatedStep DEF DeleteMeeting, stopVars, recorderVars
<1>8. CASE CaptureAudio \/ UNCHANGED vars
  BY <1>8, UnrelatedStep
     DEF CaptureAudio, activeSession, vars, recordVars, appVars, stopVars, recorderVars
<1> QED
  BY <1>1, <1>2, <1>3, <1>4, <1>5, <1>6, <1>7, <1>8, HandlersDoNothing DEF Next

\* Before the first launch nothing is recording.
LEMMA InitAgreement ==
  ASSUME Init
  PROVE  RecordsAgree /\ CaptureAgrees
<1>1. \A c \in Callers : ~Busy(c) /\ call[c] = "idle"  BY DEF Init, Busy
<1> QED
  BY <1>1 DEF Init, Callers, RecordsAgree, HandlersAreIdle, DownIsIdle, OneIsBusy,
     BusyHoldsTheRecording, ShownIsRecording, CaptureAgrees, CleanupsAreIdle,
     BusyHasItOpen, QuietAgrees

-----------------------------------------------------------------------------

\* The records agree in every reachable state, if captures do not fail.
THEOREM RecordsInvariance == NoCaptureFailure => (Spec => [](IInv /\ RecordsAgree))
<1>1. Init => IInv /\ RecordsAgree  BY InitIInv, InitAgreement
<1>2. CASE NoCaptureFailure
  <2>1. (IInv /\ RecordsAgree) /\ [Next]_vars => (IInv /\ RecordsAgree)'
    BY <1>2, NextIInv, NextAgreement
  <2> QED  BY <1>1, <2>1, PTL DEF Spec
<1> QED  BY <1>2

\* The recorder agrees too, if saves do not fail either.
THEOREM CaptureInvariance ==
  NoFailures => (Spec => [](IInv /\ RecordsAgree /\ CaptureAgrees))
<1>1. Init => IInv /\ RecordsAgree /\ CaptureAgrees  BY InitIInv, InitAgreement
<1>2. CASE NoFailures
  <2>1. (IInv /\ RecordsAgree /\ CaptureAgrees) /\ [Next]_vars
          => (IInv /\ RecordsAgree /\ CaptureAgrees)'
    BY <1>2, NextIInv, NextAgreement DEF NoFailures
  <2> QED  BY <1>1, <2>1, PTL DEF Spec
<1> QED  BY <1>2

\* No second stop is ever in flight, a recording that is shown is the one the
\* recorder has open and the records name, and an idle app with no Task at
\* work leaves no record recording: however starts, stops, stop errors and
\* crashes interleave, when captures and saves do not fail.
THEOREM PhaseTruth == NoFailures => (Spec => []PhaseIsTrue)
<1>1. IInv /\ RecordsAgree /\ CaptureAgrees => PhaseIsTrue
  <2>1. SUFFICES ASSUME IInv, RecordsAgree, CaptureAgrees PROVE PhaseIsTrue  OBVIOUS
  <2>2. \A c \in Callers : Busy(c) => c \in Stops
    BY <2>1 DEF RecordsAgree, HandlersAreIdle, CaptureAgrees, CleanupsAreIdle, Callers, Busy
  <2>3. OneStopInFlight
    BY <2>1, <2>2 DEF OneStopInFlight, Stopping, RecordsAgree, OneIsBusy, Busy
  <2>4. ASSUME app = "up", phase = "idle", \A c \in Callers : call[c] = "idle"
        PROVE  Recording = {}
    <3>1. \A u \in Stops : ~Busy(u)  BY <2>4 DEF Busy, Callers
    <3>2. activeSession = None
      BY <2>1, <2>4, <3>1 DEF CaptureAgrees, QuietAgrees
    <3> QED
      BY <2>1, <3>2, NoneAssumption, ActiveSessionIsRecording DEF IInv, Recording, Sessions
  <2>5. ASSUME phase = "recording" PROVE live # None /\ live = activeSession
    <3>1. app = "up" /\ activeSession # None
      BY <2>1, <2>5 DEF RecordsAgree, DownIsIdle, ShownIsRecording, IInv, TypeOK
    <3>2. \A u \in Stops : ~Busy(u)
      BY <2>1, <2>5 DEF RecordsAgree, BusyHoldsTheRecording
    <3> QED  BY <2>1, <2>5, <3>1, <3>2 DEF CaptureAgrees, QuietAgrees
  <2> QED  BY <2>1, <2>3, <2>4, <2>5 DEF IInv, PhaseIsTrue, NeverWedged, RecordingIsLive
<1> QED  BY <1>1, CaptureInvariance, PTL

\* A new recording is opened only by a start Task, and it finds the recorder
\* closed with nobody inside its stop(): a start that waited for one stop Task
\* while another was created finds an active session, and is refused.
THEOREM StartsFindRecorderIdle == NoFailures => (Spec => StartFindsRecorderIdle)
<1> DEFINE Idle == live' # live /\ live' # None
                     => live = None /\ \A c \in Callers : ~Stopping(c)
<1>1. ASSUME NoFailures, IInv, RecordsAgree, CaptureAgrees, [Next]_vars PROVE Idle
  <2>1. SUFFICES ASSUME live' # live, live' # None
                 PROVE  live = None /\ \A c \in Callers : ~Stopping(c)
    OBVIOUS
  <2>2. PICK c \in Clicks : StartSucceeds(c)
    <3>1. ASSUME NEW c \in Clicks, StartStep(c) PROVE StartSucceeds(c)
      BY <1>1, <2>1, <3>1 DEF StartStep, ClickStart, StartTaskRuns, StopAwaited,
         PermissionsDenied, StartRefused, StartRecorderThrows, recorderStart,
         StartSaveFails, NoFailures, recorderVars
    <3>2. \E c \in Clicks : StartStep(c)
      BY <1>1, <2>1, HandlersDoNothing
         DEF Next, NoFailures, Launch, Crash, StopStep, ClickStop, MeetingAudioEnded,
             stopRecording, ManagerStop, NoActiveSession, StopSaved, StopFailed,
             StopTaskEnds, RecorderStopBegins, RecorderStopEnds, CleanupEnds,
             DeleteMeeting, CaptureAudio, vars, recorderVars
    <3> QED  BY <3>1, <3>2
  <2>3. live = None /\ \A u \in Stops : ~Busy(u)
    BY <1>1, <2>2, StartFindsNobody DEF RecordsAgree, StartSucceeds
  <2> QED
    BY <1>1, <2>3 DEF Busy, Stopping, Callers, RecordsAgree, HandlersAreIdle,
       CaptureAgrees, CleanupsAreIdle
<1>2. CASE NoFailures
  <2>1. (IInv /\ RecordsAgree /\ CaptureAgrees) /\ [Next]_vars => Idle  BY <1>1, <1>2
  <2>2. Spec => [](IInv /\ RecordsAgree /\ CaptureAgrees)  BY <1>2, CaptureInvariance
  <2> QED  BY <2>1, <2>2, PTL DEF Spec, StartFindsRecorderIdle
<1> QED  BY <1>2

\* What a step may do to a record: a record that says recording is finalized,
\* a finished one is deleted, and the next number is used for a new one.
LEMMA RecordMoves ==
  ASSUME NoCaptureFailure, IInv, IInv', RecordsAgree, [Next]_vars, NEW s \in Sessions,
         status'[s] # status[s]
  PROVE  \/ status[s] = "recording"
         \/ status'[s] = "absent"
         \/ status[s] = "absent" /\ s = started + 1
<1>1. CASE Launch
  BY <1>1 DEF Launch, recoverInterruptedSessions, Recording
<1>2. ASSUME NEW c \in Clicks, StartStep(c) PROVE status[s] = "absent" /\ s = started + 1
  <2>1. StartSucceeds(c)
    BY <1>2 DEF StartStep, ClickStart, StartTaskRuns, StopAwaited, PermissionsDenied,
       StartRefused, StartRecorderThrows, StartSaveFails, recordVars
  <2>2. s = started + 1  BY <2>1 DEF StartSucceeds, IInv, TypeOK
  <2>3. ~(s <= started)  BY <2>2 DEF IInv, TypeOK
  <2> QED  BY <2>2, <2>3 DEF IInv, OnlyStartedSessions
<1>3. ASSUME NEW u \in Stops, StopStep(u) PROVE status[s] = "recording"
  <2>1. PICK new \in {"recorded", "failed"} :
          call[u] = "returned" /\ status' = [status EXCEPT ![held[u]] = new]
    BY <1>3 DEF StopStep, ClickStop, MeetingAudioEnded, stopRecording, ManagerStop,
       NoActiveSession, StopSaved, StopFailed, StopTaskEnds, recordVars
  <2>2. held[u] \in Sessions /\ status[held[u]] = "recording"
    BY <2>1, FinalizedLeavesNone DEF RecordsAgree
  <2> QED  BY <2>1, <2>2 DEF IInv, TypeOK
<1>4. ASSUME NEW t \in Sessions, DeleteMeeting(t) PROVE status'[s] = "absent"
  BY <1>4 DEF DeleteMeeting, IInv, TypeOK
<1> QED
  BY <1>1, <1>2, <1>3, <1>4, HandlersDoNothing
     DEF Next, Crash, RecorderStopBegins, RecorderStopEnds, CleanupEnds, CaptureAudio,
         vars, recordVars

\* A deleted meeting does not come back: deletion is refused while the record
\* says recording, and no Task will save a copy of any other session.
THEOREM DeletionIsFinal == NoCaptureFailure => (Spec => DeletedStaysDeleted)
<1> DEFINE Gone == \A s \in Sessions :
                     s <= started /\ status[s] = "absent" => status'[s] = "absent"
<1>1. ASSUME NoCaptureFailure, IInv, IInv', RecordsAgree, [Next]_vars PROVE Gone
  <2>1. started \in Nat  BY <1>1, BoundsAssumption DEF IInv, TypeOK
  <2>2. \A s \in Sessions : s <= started => s # started + 1  BY <2>1 DEF Sessions
  <2> QED  BY <1>1, <2>2, RecordMoves
<1>2. CASE NoCaptureFailure
  <2>1. (IInv /\ RecordsAgree) /\ (IInv /\ RecordsAgree)' /\ [Next]_vars => Gone
    BY <1>1, <1>2
  <2>2. Spec => [](IInv /\ RecordsAgree)  BY <1>2, RecordsInvariance
  <2> QED  BY <2>1, <2>2, PTL DEF Spec, DeletedStaysDeleted
<1> QED  BY <1>2

-----------------------------------------------------------------------------

(***************************************************************************)
(* Captures that fail.  A failure handler and a stop Task that both hold   *)
(* one session undo each other's record, so the mark of a failure is kept  *)
(* only if a stop is not asked for while a handler is inside its own; a    *)
(* stop before it, with the report still queued or just made, is allowed.  *)
(* Then (FailureAgrees) handlers and stop Tasks are never at work together *)
(* and a handler marks the session it has saved.  Two handlers may hold    *)
(* the same session: a report that was queued when its recording stopped   *)
(* finds the next one.  Each leaves it failed.                             *)
(***************************************************************************)
StopsAreApart == ~StopsMayOverlap /\ ~SaveMayFail

\* What is shown as recording is the active session.
ShownIsActive == phase = "recording" => activeSession # None /\ shown = activeSession

HandlersOrStops ==
  \A r \in Reports, u \in Stops : HandlerAtWork(r) => ~Busy(u)

HandlerBlamesItsOwn ==
  \A r \in Reports : HandlerAtWork(r) => held[r] \in Sessions /\ blamed[r] = held[r]

FailureAgrees ==
  /\ DownIsIdle
  /\ OneIsBusy
  /\ BusyHoldsTheRecording
  /\ ShownIsActive
  /\ HandlersOrStops
  /\ HandlerBlamesItsOwn

\* A step that leaves the active session and all callers alone.
LEMMA FailureUnrelatedStep ==
  ASSUME FailureAgrees, activeSession' = activeSession,
         shown' \in {shown, activeSession}, UNCHANGED <<app, phase, call, held, blamed>>
  PROVE  FailureAgrees'
BY DEF FailureAgrees, DownIsIdle, OneIsBusy, BusyHoldsTheRecording, ShownIsActive,
   HandlersOrStops, HandlerBlamesItsOwn, HandlerAtWork, Busy

\* A step in which some caller moves on, without starting or ending its work.
LEMMA FailureCallerMoves ==
  ASSUME FailureAgrees, app = "up",
         \A u \in Stops : (Busy(u)' <=> Busy(u)) /\ (call'[u] = "queued" <=> call[u] = "queued"),
         \A r \in Reports : HandlerAtWork(r)' <=> HandlerAtWork(r),
         \A d \in Stops \cup Reports : held'[d] = held[d] \/ (d \in Stops /\ ~Busy(d)),
         UNCHANGED <<app, phase, blamed, activeSession>>,
         shown' \in {shown, activeSession}
  PROVE  FailureAgrees'
<1>1. \A u \in Stops : Busy(u) => held'[u] = held[u]  OBVIOUS
<1>2. \A r \in Reports : held'[r] = held[r]  BY CallersAssumption
<1>3. DownIsIdle' /\ OneIsBusy' /\ BusyHoldsTheRecording'
  BY <1>1 DEF FailureAgrees, DownIsIdle, OneIsBusy, BusyHoldsTheRecording
<1>4. ShownIsActive' /\ HandlersOrStops' /\ HandlerBlamesItsOwn'
  BY <1>2 DEF FailureAgrees, ShownIsActive, HandlersOrStops, HandlerBlamesItsOwn
<1> QED  BY <1>3, <1>4 DEF FailureAgrees

\* A caller with something to do is there only while the process is up.
LEMMA CallersAreUp ==
  ASSUME IInv, FailureAgrees, NEW d \in Callers, call[d] # "idle"
  PROVE  app = "up"
BY DEF IInv, TypeOK, FailureAgrees, DownIsIdle

\* Launch and crash find, or leave, no Task at work.
LEMMA LaunchKeepsFailures ==
  ASSUME IInv, FailureAgrees, Launch
  PROVE  FailureAgrees'
<1>1. phase = "idle" /\ \A c \in Callers : call[c] = "idle"
  BY DEF FailureAgrees, DownIsIdle, Launch
<1>2. Stops \subseteq Callers /\ Reports \subseteq Callers /\ UNCHANGED <<phase, call>> /\ app' = "up"
  BY DEF Launch, stopVars, Callers
<1> QED
  BY <1>1, <1>2 DEF FailureAgrees, DownIsIdle, OneIsBusy, BusyHoldsTheRecording,
     ShownIsActive, HandlersOrStops, HandlerBlamesItsOwn, HandlerAtWork, Busy

LEMMA CrashKeepsFailures ==
  ASSUME Crash
  PROVE  FailureAgrees'
<1>1. phase' = "idle" /\ \A c \in Callers : call'[c] = "idle"  BY DEF Crash
<1>2. Stops \subseteq Callers /\ Reports \subseteq Callers  BY DEF Callers
<1> QED
  BY <1>1, <1>2 DEF FailureAgrees, DownIsIdle, OneIsBusy, BusyHoldsTheRecording,
     ShownIsActive, HandlersOrStops, HandlerBlamesItsOwn, HandlerAtWork, Busy

\* The steps of a start Task: one that succeeds finds no stop Task at work.
LEMMA StartStepKeepsFailures ==
  ASSUME NEW c \in Clicks, StopsAreApart, IInv, IInv', FailureAgrees, StartStep(c)
  PROVE  FailureAgrees'
<1>1. CASE StartSucceeds(c)
  <2>1. app = "up" /\ \A u \in Stops : ~Busy(u)
    BY <1>1, StartFindsNobody DEF FailureAgrees, StartSucceeds
  <2>2. started + 1 \in Sessions
    BY <1>1, BoundsAssumption DEF IInv, TypeOK, StartSucceeds, Sessions
  <2>3. status'[started + 1] = "recording"  BY <1>1, <2>2 DEF IInv, TypeOK, StartSucceeds
  <2>4. activeSession' = started + 1  BY <2>2, <2>3, NextActiveSession DEF IInv
  <2>5. activeSession' # None /\ shown' = activeSession'
    BY <1>1, <2>2, <2>4, NoneAssumption DEF StartSucceeds, reloadRecent, activeSession, Sessions
  <2>6. UNCHANGED <<app, call, held, blamed>>  BY <1>1 DEF StartSucceeds, stopVars
  <2> QED
    BY <2>1, <2>5, <2>6 DEF FailureAgrees, DownIsIdle, OneIsBusy, BusyHoldsTheRecording,
       ShownIsActive, HandlersOrStops, HandlerBlamesItsOwn, HandlerAtWork, Busy
<1>2. CASE \/ ClickStart(c)
           \/ StartTaskRuns(c) \/ StopAwaited(c) \/ PermissionsDenied(c)
           \/ StartRefused(c) \/ StartRecorderThrows(c)
  BY <1>2, FailureUnrelatedStep
     DEF ClickStart, StartTaskRuns, StopAwaited, PermissionsDenied, StartRefused,
         StartRecorderThrows, activeSession, recordVars, appVars, stopVars
<1>3. ~ \E k \in Cleanups : StartSaveFails(c, k)  BY DEF StopsAreApart, StartSaveFails
<1> QED  BY <1>1, <1>2, <1>3 DEF StartStep

\* stopRecording is called with no handler at work and nobody finalizing.
LEMMA StopRecordingKeepsFailures ==
  ASSUME NEW u \in Stops, StopsAreApart, IInv, FailureAgrees, stopRecording(u)
  PROVE  FailureAgrees'
<1>1. app = "up" /\ u \in Callers /\ u \notin Reports
  BY CallersAssumption DEF stopRecording, Callers
<1>2. \A v \in Stops : ~Busy(v)
  BY DEF FailureAgrees, BusyHoldsTheRecording, stopRecording
<1>3. activeSession # None  BY DEF FailureAgrees, ShownIsActive, stopRecording
<1>4. \A r \in Reports : ~HandlerAtWork(r)
  BY DEF StopsAreApart, stopRecording, MayAskToStop
<1>5. UNCHANGED <<app, held, activeSession, blamed>> /\ phase' = "idle"
  BY DEF stopRecording, recordVars, activeSession
<1>6. call'[u] = "queued" /\ \A d \in Callers \ {u} : call'[d] = call[d]
  BY <1>1, CallMoves DEF stopRecording
<1>7. \A r \in Reports : ~HandlerAtWork(r)'
  BY <1>1, <1>4, <1>6 DEF HandlerAtWork, Callers
<1> QED
  BY <1>1, <1>2, <1>3, <1>5, <1>6, <1>7 DEF FailureAgrees, DownIsIdle, OneIsBusy,
     BusyHoldsTheRecording, ShownIsActive, HandlersOrStops, HandlerBlamesItsOwn, Busy, Callers

\* SessionManager.stop, for a stop Task: it loads the active session.
LEMMA ManagerStopKeepsFailures ==
  ASSUME NEW u \in Stops, IInv, FailureAgrees, ManagerStop(u)
  PROVE  FailureAgrees'
<1>1. u \in Callers /\ u \notin Reports /\ Busy(u) /\ app = "up"
  BY CallersAssumption, CallersAreUp DEF ManagerStop, Callers, Busy
<1>2. UNCHANGED <<app, phase, shown, blamed, activeSession>>
  BY DEF ManagerStop, recordVars, appVars, activeSession
<1>3. call'[u] = "called" /\ \A d \in Callers \ {u} : call'[d] = call[d]
  BY <1>1, CallMoves DEF ManagerStop
<1>4. held'[u] = activeSession /\ \A d \in Callers \ {u} : held'[d] = held[d]
  BY <1>1 DEF ManagerStop, IInv, TypeOK
<1>5. \A v \in Stops : Busy(v)' <=> Busy(v)  BY <1>1, <1>3 DEF Busy, Callers
<1>6. \A v \in Stops \ {u} : ~Busy(v)  BY <1>1 DEF FailureAgrees, OneIsBusy
<1>7. \A r \in Reports : (HandlerAtWork(r)' <=> HandlerAtWork(r)) /\ held'[r] = held[r]
  BY <1>1, <1>3, <1>4 DEF HandlerAtWork, Callers
<1> QED
  BY <1>1, <1>2, <1>3, <1>4, <1>5, <1>6, <1>7 DEF FailureAgrees, DownIsIdle, OneIsBusy,
     BusyHoldsTheRecording, ShownIsActive, HandlersOrStops, HandlerBlamesItsOwn

\* The recorder's stop() begins and ends, for whoever called it.
LEMMA RecorderStopKeepsFailures ==
  ASSUME NEW c \in Callers, IInv, FailureAgrees,
         RecorderStopBegins(c) \/ RecorderStopEnds(c)
  PROVE  FailureAgrees'
<1>1. app = "up" /\ call[c] \in {"called", "draining"}
  BY CallersAreUp DEF RecorderStopBegins, RecorderStopEnds
<1>2. UNCHANGED <<app, phase, shown, blamed, held, activeSession>>
  BY DEF RecorderStopBegins, RecorderStopEnds, recordVars, appVars, activeSession
<1>3. call'[c] \in {"draining", "returned"} /\ \A d \in Callers \ {c} : call'[d] = call[d]
  BY CallMoves DEF RecorderStopBegins, RecorderStopEnds
<1>4. \A u \in Stops : (Busy(u)' <=> Busy(u)) /\ (call'[u] = "queued" <=> call[u] = "queued")
  BY <1>1, <1>3 DEF Busy, Callers
<1>5. \A r \in Reports : HandlerAtWork(r)' <=> HandlerAtWork(r)
  BY <1>1, <1>3 DEF HandlerAtWork, Callers
<1> QED  BY <1>1, <1>2, <1>4, <1>5, FailureCallerMoves

\* The steps of a stop Task: its save leaves nobody finalizing.
LEMMA StopStepKeepsFailures ==
  ASSUME NEW u \in Stops, StopsAreApart, IInv, IInv', FailureAgrees, StopStep(u)
  PROVE  FailureAgrees'
<1>1. CASE ClickStop(u) \/ MeetingAudioEnded(u)
  BY <1>1, StopRecordingKeepsFailures DEF ClickStop, MeetingAudioEnded
<1>2. CASE ManagerStop(u)  BY <1>2, ManagerStopKeepsFailures
<1>3. ~NoActiveSession(u)
  BY DEF NoActiveSession, FailureAgrees, BusyHoldsTheRecording, Busy
<1>4. CASE StopSaved(u) \/ StopFailed(u)
  <2>1. u \in Callers /\ u \notin Reports /\ Busy(u) /\ app = "up" /\ UNCHANGED <<app, phase, blamed>>
    BY <1>4, CallersAssumption, CallersAreUp DEF StopSaved, StopFailed, Callers, Busy, appVars
  <2>2. call'[u] \in {"idle", "cleaning"} /\ \A d \in Callers \ {u} : call'[d] = call[d]
    BY <1>4, <2>1, CallMoves DEF StopSaved, StopFailed, endStopTask
  <2>3. \A r \in Reports : HandlerAtWork(r)' <=> HandlerAtWork(r)
    BY <2>1, <2>2 DEF HandlerAtWork, Callers
  <2>4. \A r \in Reports : ~HandlerAtWork(r)
    BY <2>1 DEF FailureAgrees, HandlersOrStops
  <2>5. \A v \in Stops : ~Busy(v)'
    BY <2>1, <2>2 DEF FailureAgrees, OneIsBusy, Busy, Callers
  <2>6. phase = "idle"  BY <2>1 DEF FailureAgrees, BusyHoldsTheRecording
  <2> QED
    BY <2>1, <2>3, <2>4, <2>5, <2>6 DEF FailureAgrees, DownIsIdle, OneIsBusy,
       BusyHoldsTheRecording, ShownIsActive, HandlersOrStops, HandlerBlamesItsOwn
<1>5. CASE StopTaskEnds(u)
  <2>1. u \in Callers /\ u \notin Reports /\ ~Busy(u) /\ app = "up"
    BY <1>5, CallersAssumption, CallersAreUp DEF StopTaskEnds, Callers, Busy
  <2>2. UNCHANGED <<app, phase, blamed, activeSession>> /\ shown' = activeSession
    BY <1>5 DEF StopTaskEnds, endStopTask, reloadRecent, recordVars, activeSession
  <2>3. call'[u] = "idle" /\ \A d \in Callers \ {u} : call'[d] = call[d] /\ held'[d] = held[d]
    BY <1>5, <2>1, CallMoves DEF StopTaskEnds, endStopTask, IInv, TypeOK
  <2>4. \A v \in Stops : (Busy(v)' <=> Busy(v)) /\ (call'[v] = "queued" <=> call[v] = "queued")
    BY <1>5, <2>1, <2>3 DEF Busy, Callers, StopTaskEnds
  <2>5. \A r \in Reports : HandlerAtWork(r)' <=> HandlerAtWork(r)
    BY <2>1, <2>3 DEF HandlerAtWork, Callers
  <2>6. \A d \in Stops \cup Reports : held'[d] = held[d] \/ (d \in Stops /\ ~Busy(d))
    BY <2>1, <2>3 DEF Callers
  <2> QED  BY <2>1, <2>2, <2>4, <2>5, <2>6, FailureCallerMoves
<1> QED  BY <1>1, <1>2, <1>3, <1>4, <1>5 DEF StopStep

\* The steps of a failure handler: it finds a recording that nobody stops, and
\* the one that is shown is the one its stop() loads.
LEMMA HandlerStepKeepsFailures ==
  ASSUME NEW r \in Reports, IInv, FailureAgrees, HandlerStep(r)
  PROVE  FailureAgrees'
<1>1. r \in Callers /\ r \notin Stops  BY CallersAssumption DEF Callers
<1>2. CASE CaptureFails(r) \/ HandlerIgnores(r)
  <2>1. app = "up"
    BY <1>1, <1>2, CallersAreUp DEF CaptureFails, HandlerIgnores, IInv, TypeOK, DownIsQuiet
  <2>2. UNCHANGED <<app, phase, shown, blamed, held, activeSession>>
    BY <1>2 DEF CaptureFails, HandlerIgnores, recordVars, appVars, activeSession
  <2>3. /\ call[r] \in {"idle", "queued"} /\ call'[r] \in {"idle", "queued"}
        /\ \A d \in Callers \ {r} : call'[d] = call[d]
    BY <1>1, <1>2, CallMoves DEF CaptureFails, HandlerIgnores
  <2>4. \A u \in Stops : (Busy(u)' <=> Busy(u)) /\ (call'[u] = "queued" <=> call[u] = "queued")
    BY <1>1, <2>3 DEF Busy, Callers
  <2>5. \A q \in Reports : HandlerAtWork(q)' <=> HandlerAtWork(q)
    BY <2>3 DEF HandlerAtWork, Callers
  <2> QED  BY <2>1, <2>2, <2>4, <2>5, FailureCallerMoves
<1>3. CASE HandlerStops(r)
  <2>1. app = "up" /\ shown = activeSession /\ activeSession \in Sessions
    BY <1>1, <1>3, CallersAreUp, ActiveSessionIsRecording
       DEF HandlerStops, FailureAgrees, ShownIsActive, IInv
  <2>2. \A u \in Stops : ~Busy(u)
    BY <1>3 DEF HandlerStops, FailureAgrees, BusyHoldsTheRecording
  <2>3. UNCHANGED <<app, phase, shown, activeSession>>
    BY <1>3 DEF HandlerStops, recordVars, appVars, activeSession
  <2>4. \A d \in Callers \ {r} : call'[d] = call[d] /\ held'[d] = held[d]
    BY <1>1, <1>3 DEF HandlerStops, IInv, TypeOK
  <2>5. held'[r] = activeSession /\ blamed'[r] = activeSession
    BY <1>1, <1>3, <2>1 DEF HandlerStops, IInv, TypeOK
  <2>6. \A q \in Reports \ {r} : blamed'[q] = blamed[q]
    BY <1>3 DEF HandlerStops, IInv, TypeOK
  <2>7. \A u \in Stops : ~Busy(u)'  BY <1>1, <2>2, <2>4 DEF Busy, Callers
  <2>8. HandlerBlamesItsOwn'
    BY <2>1, <2>4, <2>5, <2>6 DEF FailureAgrees, HandlerBlamesItsOwn, HandlerAtWork, Callers
  <2> QED
    BY <2>1, <2>3, <2>7, <2>8 DEF FailureAgrees, DownIsIdle, OneIsBusy,
       BusyHoldsTheRecording, ShownIsActive, HandlersOrStops
<1>4. ~HandlerFindsNoSession(r)
  BY DEF HandlerFindsNoSession, FailureAgrees, ShownIsActive
<1>5. CASE HandlerEnds(r)
  <2>1. app = "up" /\ HandlerAtWork(r)
    BY <1>1, <1>5, CallersAreUp DEF HandlerEnds, HandlerAtWork
  <2>2. \A u \in Stops : ~Busy(u)  BY <2>1 DEF FailureAgrees, HandlersOrStops
  <2>3. app' = "up" /\ phase' = "idle"
    BY <1>5, <2>1 DEF HandlerEnds, endFailureHandler
  <2>4. call'[r] = "idle" /\ \A d \in Callers \ {r} : call'[d] = call[d] /\ held'[d] = held[d]
    BY <1>1, <1>5 DEF HandlerEnds, endFailureHandler, IInv, TypeOK
  <2>5. \A q \in Reports \ {r} : blamed'[q] = blamed[q]
    BY <1>5 DEF HandlerEnds, endFailureHandler, IInv, TypeOK
  <2>6. \A u \in Stops : ~Busy(u)'  BY <1>1, <2>2, <2>4 DEF Busy, Callers
  <2>7. HandlerBlamesItsOwn'
    BY <2>4, <2>5 DEF FailureAgrees, HandlerBlamesItsOwn, HandlerAtWork, Callers
  <2> QED
    BY <2>3, <2>6, <2>7 DEF FailureAgrees, DownIsIdle, OneIsBusy,
       BusyHoldsTheRecording, ShownIsActive, HandlersOrStops
<1> QED  BY <1>2, <1>3, <1>4, <1>5 DEF HandlerStep

\* Every step preserves the agreement.
LEMMA NextFailures ==
  ASSUME StopsAreApart, IInv, IInv', FailureAgrees, [Next]_vars
  PROVE  FailureAgrees'
<1>1. CASE Launch \/ Crash  BY <1>1, LaunchKeepsFailures, CrashKeepsFailures
<1>2. ASSUME NEW c \in Clicks, StartStep(c) PROVE FailureAgrees'
  BY <1>2, StartStepKeepsFailures
<1>3. ASSUME NEW u \in Stops, StopStep(u) PROVE FailureAgrees'
  BY <1>3, StopStepKeepsFailures
<1>4. ASSUME NEW r \in Reports, HandlerStep(r) PROVE FailureAgrees'
  BY <1>4, HandlerStepKeepsFailures
<1>5. ASSUME NEW c \in Callers, RecorderStopBegins(c) \/ RecorderStopEnds(c)
      PROVE  FailureAgrees'
  BY <1>5, RecorderStopKeepsFailures
<1>6. ASSUME NEW k \in Cleanups, CleanupEnds(k) PROVE FailureAgrees'
  <2>1. k \in Callers /\ k \notin Stops /\ k \notin Reports
    BY CallersAssumption DEF Callers
  <2>2. app = "up" /\ UNCHANGED <<app, phase, shown, blamed, activeSession>>
    BY <1>6, <2>1, CallersAreUp DEF CleanupEnds, appVars, activeSession
  <2>3. \A d \in Callers \ {k} : call'[d] = call[d] /\ held'[d] = held[d]
    BY <1>6, <2>1 DEF CleanupEnds, IInv, TypeOK
  <2>4. \A d \in Stops \cup Reports : call'[d] = call[d] /\ held'[d] = held[d]
    BY <2>1, <2>3 DEF Callers
  <2> QED  BY <2>2, <2>4, FailureCallerMoves DEF Busy, HandlerAtWork
<1>7. ASSUME NEW s \in Sessions, DeleteMeeting(s) PROVE FailureAgrees'
  <2>1. \A t \in Sessions : status'[t] = "recording" <=> status[t] = "recording"
    BY <1>7 DEF DeleteMeeting, IInv, TypeOK
  <2>2. activeSession' = activeSession  BY <2>1, SameActiveSession DEF IInv
  <2>3. shown' = activeSession
    BY <1>7, <2>2 DEF DeleteMeeting, reloadRecent, activeSession
  <2> QED
    BY <1>7, <2>2, <2>3, FailureUnrelatedStep DEF DeleteMeeting, stopVars
<1>8. CASE CaptureAudio \/ UNCHANGED vars
  BY <1>8, FailureUnrelatedStep
     DEF CaptureAudio, activeSession, vars, recordVars, appVars, stopVars
<1> QED
  BY <1>1, <1>2, <1>3, <1>4, <1>5, <1>6, <1>7, <1>8 DEF Next

\* The agreement holds in every reachable state, captures failing or not.
THEOREM FailureInvariance == StopsAreApart => (Spec => [](IInv /\ FailureAgrees))
<1>1. Init => IInv /\ FailureAgrees
  <2>1. ASSUME Init PROVE \A c \in Callers : ~Busy(c) /\ call[c] = "idle"
    BY <2>1 DEF Init, Busy
  <2> QED
    BY <2>1, InitIInv DEF Init, Callers, FailureAgrees, DownIsIdle, OneIsBusy,
       BusyHoldsTheRecording, ShownIsActive, HandlersOrStops, HandlerBlamesItsOwn, HandlerAtWork
<1>2. CASE StopsAreApart
  <2>1. (IInv /\ FailureAgrees) /\ [Next]_vars => (IInv /\ FailureAgrees)'
    BY <1>2, NextIInv, NextFailures
  <2> QED  BY <1>1, <2>1, PTL DEF Spec
<1> QED  BY <1>2

\* The end of a handler leaves the session it held failed and every other
\* record as it was.
LEMMA HandlerMarks ==
  ASSUME StopsAreApart, IInv, FailureAgrees, NEW r \in Reports, HandlerEnds(r)
  PROVE  /\ status'[held[r]] = "failed"
         /\ \A s \in Sessions \ {held[r]} : status'[s] = status[s]
<1>1. held[r] \in Sessions /\ blamed[r] = held[r] /\ held[r] # None
  BY NoneAssumption DEF HandlerEnds, FailureAgrees, HandlerBlamesItsOwn, HandlerAtWork, Sessions
<1>2. PICK st \in AfterManagerStop(held[r]) : endFailureHandler(r, st, blamed[r])
  BY DEF HandlerEnds
<1>3. PICK new \in {"recorded", "failed"} : st = [status EXCEPT ![held[r]] = new]
  BY <1>2 DEF AfterManagerStop, StopsAreApart
<1>4. status' = markFailed(st, held[r])
  BY <1>1, <1>2 DEF endFailureHandler, StopsAreApart
<1> QED  BY <1>1, <1>3, <1>4 DEF markFailed, IInv, TypeOK

\* A session marked failed, by the handler of a capture failure, by a stop that
\* threw or by recovery, is never presented as a normal recording again, for any
\* number of reports, stops, starts and crashes: a stop Task holds the session
\* that still says recording, and a handler leaves the one it holds failed.
THEOREM FailureIsKept == StopsAreApart => (Spec => FailedStaysFailed)
<1> DEFINE Kept == \A s \in Sessions :
                     status[s] = "failed" => status'[s] \in {"failed", "absent"}
<1>1. ASSUME StopsAreApart, IInv, IInv', FailureAgrees, [Next]_vars PROVE Kept
  <2> SUFFICES ASSUME NEW s \in Sessions, status[s] = "failed"
               PROVE  status'[s] \in {"failed", "absent"}
    OBVIOUS
  <2>1. CASE Launch
    BY <2>1 DEF Launch, recoverInterruptedSessions, Recording
  <2>2. ASSUME NEW c \in Clicks, StartStep(c) PROVE status'[s] = "failed"
    <3>1. s # started + 1
      BY <1>1 DEF IInv, TypeOK, OnlyStartedSessions, Sessions
    <3>2. \/ UNCHANGED status
          \/ status' = [status EXCEPT ![started + 1] = "recording"]
      BY <2>2 DEF StartStep, ClickStart, StartTaskRuns, StopAwaited, PermissionsDenied,
         StartRefused, StartRecorderThrows, StartSaveFails, StartSucceeds, recordVars
    <3> QED  BY <1>1, <3>1, <3>2 DEF IInv, TypeOK
  <2>3. ASSUME NEW u \in Stops, StopStep(u) PROVE status'[s] = "failed"
    <3>1. CASE UNCHANGED status  BY <3>1
    <3>2. CASE \E new \in {"recorded", "failed"} :
                 call[u] = "returned" /\ status' = [status EXCEPT ![held[u]] = new]
      <4>1. PICK new \in {"recorded", "failed"} :
              call[u] = "returned" /\ status' = [status EXCEPT ![held[u]] = new]
        BY <3>2
      <4>2. status[held[u]] = "recording"
        BY <1>1, <4>1, FinalizedLeavesNone DEF FailureAgrees
      <4> QED  BY <1>1, <4>1, <4>2 DEF IInv, TypeOK
    <3> QED
      BY <2>3, <3>1, <3>2 DEF StopStep, ClickStop, MeetingAudioEnded, stopRecording,
         ManagerStop, NoActiveSession, StopSaved, StopFailed, StopTaskEnds, recordVars
  <2>4. ASSUME NEW r \in Reports, HandlerStep(r) PROVE status'[s] = "failed"
    <3>1. CASE HandlerEnds(r)  BY <1>1, <3>1, HandlerMarks
    <3>2. CASE CaptureFails(r) \/ HandlerIgnores(r) \/ HandlerStops(r)
      BY <3>2 DEF CaptureFails, HandlerIgnores, HandlerStops, recordVars
    <3>3. ~HandlerFindsNoSession(r)
      BY <1>1 DEF HandlerFindsNoSession, FailureAgrees, ShownIsActive
    <3> QED  BY <2>4, <3>1, <3>2, <3>3 DEF HandlerStep
  <2>5. ASSUME NEW t \in Sessions, DeleteMeeting(t) PROVE status'[s] \in {"failed", "absent"}
    BY <1>1, <2>5 DEF DeleteMeeting, IInv, TypeOK
  <2> QED
    BY <1>1, <2>1, <2>2, <2>3, <2>4, <2>5
       DEF Next, Crash, RecorderStopBegins, RecorderStopEnds, CleanupEnds, CaptureAudio,
           vars, recordVars
<1>2. CASE StopsAreApart
  <2>1. (IInv /\ FailureAgrees) /\ (IInv /\ FailureAgrees)' /\ [Next]_vars => Kept
    BY <1>1, <1>2
  <2>2. Spec => [](IInv /\ FailureAgrees)  BY <1>2, FailureInvariance
  <2> QED  BY <2>1, <2>2, PTL DEF Spec, FailedStaysFailed
<1> QED  BY <1>2

=============================================================================
