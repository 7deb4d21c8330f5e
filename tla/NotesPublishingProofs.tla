----------------------- MODULE NotesPublishingProofs -----------------------
(***************************************************************************)
(* One meeting from its recording to the vault, for any number of runs,    *)
(* renames, backfills and reconciliations and any titles.                  *)
(*                                                                         *)
(* AdmissionIsTrue is not inductive: processing and publishing say that    *)
(* somebody is admitted, so the invariant IInv has to say who (Admission), *)
(* and every Task that reaches the vault must hold a session and notes     *)
(* that were really made (TasksFit).  LinkTargetsExist follows from it:    *)
(* between the two writes of a pair no other Task touches it.              *)
(*                                                                         *)
(* What the user may do while notes are made decides the rest.  If the     *)
(* meeting stays meanwhile (MeetingStays), the recording is given up only  *)
(* for notes that stay.  If the user also waits, writes succeed and no     *)
(* backfill runs (Patient), the vault and the search index converge: each  *)
(* is right, or a Task that will make it so is on its way (VaultFollows,   *)
(* SearchFollows).                                                         *)
(***************************************************************************)
EXTENDS NotesPublishing, TLAPS

PreparingSteps == {"queued", "producing", "titling", "saving", "written", "unwritten"}
PublishSteps   == {"extracting", "writing", "linked", "published"}

\* Each kind of Task has steps of its own; all but the reconciliation publish.
StepsOf(p) ==
  IF p \in Runs THEN {"idle"} \cup PreparingSteps \cup PublishSteps
  ELSE IF p \in Renames THEN {"idle", "queued"} \cup PublishSteps
  ELSE IF p \in Backfills THEN {"idle", "queued", "checked"} \cup PublishSteps
  ELSE {"idle", "queued", "reading", "removing", "indexing"}

\* A Task at this step holds a session it has loaded ...
Holds(p, s) ==
  \/ s \in {"producing", "titling", "saving", "written", "unwritten",
            "writing", "linked", "published", "indexing"}
  \/ p \in Backfills /\ s = "queued"

\* ... and at this one, notes that some run has made.
HasNotes(p, s) == (p \in Runs /\ s # "idle") \/ s \in PublishSteps \/ s = "checked"

TaskType == [Tasks -> [step : Steps, copy : Sessions \cup {None}, text : 0..MaxRuns]]

TasksFit ==
  /\ task \in TaskType
  /\ \A p \in Tasks : /\ step(p) \in StepsOf(p)
                      /\ Holds(p, step(p)) => copy(p) \in Sessions
                      /\ HasNotes(p, step(p)) => text(p) # 0

\* Whoever is admitted is one Task that is really at it.
Admission ==
  /\ processing \in BOOLEAN /\ visible \in BOOLEAN
  /\ publishing \in BOOLEAN /\ pending \in BOOLEAN
  /\ processing <=> \E p \in Runs : step(p) # "idle"
  /\ visible => \E p \in Runs : step(p) \in PreparingSteps
  /\ publishing <=> \E p \in Tasks : step(p) \in PublishSteps
  /\ pending => publishing
  /\ \A p, q \in Runs : step(p) # "idle" /\ step(q) # "idle" => p = q
  /\ \A p, q \in Tasks : step(p) \in PublishSteps /\ step(q) \in PublishSteps => p = q

\* A Task between the two writes has written the transcript.
LinksFollow ==
  /\ LinkTargetsExist
  /\ \A p \in Tasks : step(p) = "linked" => vault[copy(p).title].transcript # 0

\* The types of what is neither an admission nor a Task.
MeetingType ==
  /\ record \in Sessions \cup {None} /\ notes \in 0..MaxRuns
  /\ index \in Titles \cup {None} /\ audio \in BOOLEAN
  /\ vault \in [Titles -> [main : 0..MaxRuns, transcript : 0..MaxRuns]]
  /\ runs \in 0..MaxRuns

IInv == MeetingType /\ TasksFit /\ Admission /\ LinksFollow

-----------------------------------------------------------------------------
(* What a step does to the Tasks.                                           *)

\* Only Task p moves, to step s with session c and notes n.
Moves(p, s, c, n) ==
  /\ task' \in TaskType
  /\ task'[p].step = s /\ task'[p].copy = c /\ task'[p].text = n
  /\ \A q \in Tasks : q # p => task'[q] = task[q]

\* A Task that is assigned a step, a session and notes moves, and no other.
LEMMA TaskMoves ==
  ASSUME task \in TaskType, NEW p \in Tasks, NEW s \in Steps,
         NEW c \in Sessions \cup {None}, NEW n \in 0..MaxRuns,
         task' = [task EXCEPT ![p] = [step |-> s, copy |-> c, text |-> n]]
  PROVE  Moves(p, s, c, n)
BY DEF TaskType, Moves

\* A step that only moves a Task on keeps the session and the notes it has.
LEMMA BecomesMoves ==
  ASSUME task \in TaskType, NEW p \in Tasks, NEW s \in Steps, becomes(p, s)
  PROVE  Moves(p, s, copy(p), text(p))
BY DEF TaskType, Moves, becomes, copy, text

\* A step that loads a session keeps the notes.
LEMMA LoadsMoves ==
  ASSUME task \in TaskType, NEW p \in Tasks, NEW s \in Steps,
         NEW c \in Sessions \cup {None}, loads(p, s, c)
  PROVE  Moves(p, s, c, text(p))
BY DEF TaskType, Moves, loads, text

\* A Task that is over holds nothing.
LEMMA FinishesMoves ==
  ASSUME task \in TaskType, NEW p \in Tasks, finishes(p)
  PROVE  Moves(p, "idle", None, 0)
<1>1. "idle" \in Steps /\ 0 \in 0..MaxRuns  BY RunsAssumption DEF Steps
<1> QED  BY <1>1, TaskMoves DEF finishes, NoTask

\* A publish starts with the notes it is given, and no session.
LEMMA PublishesMoves ==
  ASSUME task \in TaskType, NEW p \in Tasks, NEW n \in 0..MaxRuns, publishes(p, n)
  PROVE  Moves(p, "extracting", None, n)
<1>1. "extracting" \in Steps  BY DEF Steps
<1> QED  BY <1>1, TaskMoves DEF publishes

\* A Task that moves to a step of its own, with what it holds there, fits.
LEMMA FitStays ==
  ASSUME TasksFit, NEW p \in Tasks, NEW s \in StepsOf(p), NEW c, NEW n, Moves(p, s, c, n),
         Holds(p, s) => c \in Sessions,
         HasNotes(p, s) => n # 0
  PROVE  TasksFit'
BY DEF TasksFit, Moves, step, copy, text, StepsOf, Holds, HasNotes

\* Who does not stand between the two writes leaves the links as they are.
LEMMA LinksStay ==
  ASSUME LinksFollow, UNCHANGED vault, NEW p \in Tasks, NEW s, NEW c, NEW n,
         Moves(p, s, c, n), s # "linked"
  PROVE  LinksFollow'
BY DEF LinksFollow, LinkTargetsExist, Moves, step, copy

-----------------------------------------------------------------------------
(* The four ways in which a step treats the admissions.                     *)

\* A Task goes on, and nobody is admitted or let go.
LEMMA Works ==
  ASSUME IInv, NEW p \in Tasks, NEW s \in StepsOf(p), NEW c, NEW n,
         Moves(p, s, c, n), UNCHANGED registryVars,
         Holds(p, s) => c \in Sessions,
         HasNotes(p, s) => n # 0,
         p \in Runs => (step(p) = "idle" <=> s = "idle"),
         p \in Runs => (step(p) \in PreparingSteps => s \in PreparingSteps),
         step(p) \in PublishSteps <=> s \in PublishSteps
  PROVE  /\ TasksFit' /\ Admission'
         /\ UNCHANGED vault /\ s # "linked" => LinksFollow'
<1>1. TasksFit'  BY FitStays DEF IInv
<1>2. Admission'
  BY DEF IInv, Admission, Moves, step, registryVars, Tasks
<1>3. ASSUME UNCHANGED vault, s # "linked" PROVE LinksFollow'
  BY <1>3, LinksStay DEF IInv
<1> QED  BY <1>1, <1>2, <1>3

\* A run ends without a publish.
LEMMA RunEndsWorks ==
  ASSUME IInv, NEW p \in Runs, step(p) \in PreparingSteps, runEnds(p)
  PROVE  /\ TasksFit' /\ Admission'
         /\ UNCHANGED vault => LinksFollow'
<1>1. p \in Tasks /\ p \notin Renames /\ p \notin Backfills
  BY TasksAssumption DEF Tasks
<1>2. Moves(p, "idle", None, 0)
  BY <1>1, FinishesMoves DEF runEnds, IInv, TasksFit
<1>3. TasksFit'
  BY <1>1, <1>2 DEF IInv, TasksFit, Moves, step, copy, text, StepsOf, Holds, HasNotes,
     PublishSteps
<1>4. Admission'
  BY <1>1, <1>2 DEF IInv, Admission, Moves, step, runEnds, Tasks, PreparingSteps,
     PublishSteps
<1>5. ASSUME UNCHANGED vault PROVE LinksFollow'
  BY <1>1, <1>2, <1>5, LinksStay DEF IInv
<1> QED  BY <1>3, <1>4, <1>5

\* A Task asks for the vault, and gets it or leaves a mark.
LEMMA GateWorks ==
  ASSUME IInv, NEW p \in Tasks \ Reconciles, NEW n \in 1..MaxRuns, Gate(p, n),
         step(p) \notin PublishSteps, p \in Runs => step(p) # "idle",
         visible' = (visible /\ p \notin Runs)
  PROVE  /\ TasksFit' /\ Admission'
         /\ UNCHANGED vault => LinksFollow'
<1>1. n \in 0..MaxRuns /\ n # 0  BY RunsAssumption
<1>2. CASE publishing
  <2>1. Moves(p, "idle", None, 0)
    BY <1>2, FinishesMoves DEF Gate, IInv, TasksFit
  <2>2. TasksFit'
    BY <2>1, TasksAssumption DEF IInv, TasksFit, Moves, step, copy, text, StepsOf, Holds,
       HasNotes, PublishSteps
  <2>3. p \in Runs => processing' = FALSE /\ visible' = FALSE
    BY <1>2 DEF Gate
  <2>4. p \notin Runs => processing' = processing /\ visible' = visible
    BY <1>2 DEF Gate, IInv, Admission
  <2>5. Admission'
    BY <1>2, <2>1, <2>3, <2>4 DEF IInv, Admission, Moves, step, Gate, Tasks, PublishSteps,
       PreparingSteps
  <2>9. ASSUME UNCHANGED vault PROVE LinksFollow'
    BY <2>1, <2>9, LinksStay DEF IInv
  <2> QED  BY <2>2, <2>5, <2>9
<1>3. CASE ~publishing
  <2>1. Moves(p, "extracting", None, n)
    BY <1>1, <1>3, PublishesMoves DEF Gate, IInv, TasksFit
  <2>2. TasksFit'
    BY <1>1, <2>1, TasksAssumption DEF IInv, TasksFit, Moves, step, copy, text, StepsOf,
       Holds, HasNotes, PublishSteps, Tasks
  <2>3. Admission'
    BY <1>3, <2>1 DEF IInv, Admission, Moves, step, Gate, Tasks, PublishSteps, PreparingSteps
  <2>9. ASSUME UNCHANGED vault PROVE LinksFollow'
    BY <2>1, <2>9, LinksStay DEF IInv
  <2> QED  BY <2>2, <2>3, <2>9
<1> QED  BY <1>2, <1>3

\* A publish is over; the vault is released, or used again at once.
LEMMA ReleaseWorks ==
  ASSUME IInv, NEW p \in Tasks, step(p) \in PublishSteps, Release(p), UNCHANGED visible
  PROVE  /\ TasksFit' /\ Admission'
         /\ UNCHANGED vault => LinksFollow'
<1>1. CASE pending /\ OnDisk(record')
  <2>1. Moves(p, "extracting", None, notes) /\ notes # 0
    BY <1>1, PublishesMoves DEF Release, IInv, TasksFit, MeetingType, OnDisk
  <2>2. TasksFit'
    BY <2>1, TasksAssumption DEF IInv, TasksFit, Moves, step, copy, text, StepsOf,
       Holds, HasNotes, PublishSteps, Tasks
  <2>3. Admission'
    <3>1. \A q \in Tasks : step(q)' \in PublishSteps <=> q = p
      BY <2>1 DEF IInv, Admission, Moves, step, PublishSteps
    <3>2. \A q \in Runs : /\ step(q)' # "idle" <=> step(q) # "idle"
                          /\ step(q)' \in PreparingSteps <=> step(q) \in PreparingSteps
      BY <2>1 DEF Moves, step, PublishSteps, PreparingSteps, Tasks
    <3> QED  BY <1>1, <3>1, <3>2 DEF IInv, Admission, Release
  <2>9. ASSUME UNCHANGED vault PROVE LinksFollow'
    BY <2>1, <2>9, LinksStay DEF IInv
  <2> QED  BY <2>2, <2>3, <2>9
<1>2. CASE ~(pending /\ OnDisk(record'))
  <2>1. Moves(p, "idle", None, 0)
    BY <1>2, FinishesMoves DEF Release, IInv, TasksFit
  <2>2. TasksFit'
    BY <2>1, TasksAssumption DEF IInv, TasksFit, Moves, step, copy, text, StepsOf, Holds,
       HasNotes, PublishSteps
  <2>3. p \in Runs => processing' = FALSE
    BY <1>2 DEF Release
  <2>4. p \notin Runs => processing' = processing
    BY <1>2 DEF Release, IInv, Admission
  <2>5. p \in Runs => ~visible
    BY DEF IInv, Admission, PublishSteps, PreparingSteps
  <2>6. Admission'
    <3>1. \A q \in Tasks : step(q)' \notin PublishSteps
      BY <2>1 DEF IInv, Admission, Moves, step, PublishSteps
    <3>2. \A q \in Runs : step(q)' # "idle" <=> step(q) # "idle" /\ q # p
      BY <2>1 DEF Moves, step, Tasks
    <3>3. p \notin Runs =>
            \A q \in Runs : step(q)' \in PreparingSteps <=> step(q) \in PreparingSteps
      BY <2>1 DEF Moves, step, Tasks
    <3>4. publishing' = FALSE /\ pending' = FALSE  BY <1>2 DEF Release
    <3>5. p \in Runs => \A q \in Runs : step(q) # "idle" => q = p
      BY DEF IInv, Admission, PublishSteps
    <3>6. CASE p \in Runs
      <4>1. \A q \in Runs : step(q)' = "idle"  BY <3>2, <3>5, <3>6
      <4> QED  BY <2>3, <2>5, <3>1, <3>4, <3>6, <4>1 DEF IInv, Admission
    <3>7. CASE p \notin Runs
      <4>1. \A q \in Runs : step(q)' # "idle" <=> step(q) # "idle"  BY <3>2, <3>7
      <4>2. /\ processing \in BOOLEAN /\ visible \in BOOLEAN
            /\ processing <=> \E q \in Runs : step(q) # "idle"
            /\ visible => \E q \in Runs : step(q) \in PreparingSteps
            /\ \A q, r \in Runs : step(q) # "idle" /\ step(r) # "idle" => q = r
        BY DEF IInv, Admission
      <4>3. /\ processing' <=> \E q \in Runs : step(q)' # "idle"
            /\ visible' => \E q \in Runs : step(q)' \in PreparingSteps
        BY <2>4, <3>3, <3>7, <4>1, <4>2
      <4>4. processing' \in BOOLEAN /\ visible' \in BOOLEAN  BY <2>4, <3>7, <4>2
      <4>5. \A q, r \in Runs : step(q)' # "idle" /\ step(r)' # "idle" => q = r
        BY <4>1, <4>2
      <4> QED  BY <3>1, <3>4, <4>3, <4>4, <4>5 DEF Admission
    <3> QED  BY <3>6, <3>7
  <2>9. ASSUME UNCHANGED vault PROVE LinksFollow'
    BY <2>1, <2>9, LinksStay DEF IInv
  <2> QED  BY <2>2, <2>6, <2>9
<1> QED  BY <1>1, <1>2

-----------------------------------------------------------------------------
(* One lemma for each actor.                                                *)

\* The steps of a run, up to the publish of its notes.
LEMMA RunStepWorks ==
  ASSUME IInv, NEW p \in Runs, RunStep(p)
  PROVE  IInv'
<1>0. /\ p \in Tasks \ Reconciles /\ p \notin Renames /\ p \notin Backfills
      /\ p \in Tasks /\ task \in TaskType
  BY TasksAssumption DEF Tasks, IInv, TasksFit
<1> USE DEF PreparingSteps, PublishSteps
<1>1. CASE SessionLoaded(p)
  <2>1. record \in Sessions  BY <1>1 DEF SessionLoaded, IInv, MeetingType
  <2>2. Moves(p, "producing", record, text(p))
    BY <1>0, <1>1, <2>1, LoadsMoves DEF SessionLoaded, Steps
  <2>3. TasksFit' /\ Admission' /\ LinksFollow'
    BY <1>0, <1>1, <2>1, <2>2, Works DEF SessionLoaded, StepsOf, HasNotes, IInv, TasksFit
  <2> QED  BY <1>1, <2>3 DEF IInv, SessionLoaded, MeetingType, meetingVars
<1>2. CASE ProduceFails(p)
  <2>1. TasksFit' /\ Admission' /\ LinksFollow'
    BY <1>2, RunEndsWorks DEF ProduceFails
  <2> QED  BY <1>2, <2>1 DEF IInv, ProduceFails, MeetingType, meetingVars
<1>3. ASSUME step(p) \in {"producing", "titling"}, record' \in Sessions \cup {None}, apply(p),
             UNCHANGED vault
      PROVE  TasksFit' /\ Admission' /\ LinksFollow'
  <2>1. CASE record' = None
    BY <1>3, <2>1, RunEndsWorks DEF apply
  <2>2. CASE record' # None
    <3>1. Moves(p, "saving", record', text(p))
      BY <1>0, <1>3, <2>2, LoadsMoves DEF apply, Steps
    <3> QED
      BY <1>0, <1>3, <2>2, <3>1, Works DEF apply, StepsOf, HasNotes, IInv, TasksFit
  <2> QED  BY <2>1, <2>2
<1>4. CASE NotesProduced(p)
  <2>1. TasksFit' /\ Admission' /\ LinksFollow'
    BY <1>3, <1>4 DEF NotesProduced, IInv, MeetingType, meetingVars
  <2> QED  BY <1>4, <2>1 DEF IInv, NotesProduced, MeetingType, meetingVars
<1>5. CASE NeedsTitle(p)
  <2>1. Moves(p, "titling", copy(p), text(p))
    BY <1>0, <1>5, BecomesMoves DEF NeedsTitle, Steps
  <2>2. TasksFit' /\ Admission' /\ LinksFollow'
    BY <1>0, <1>5, <2>1, Works DEF NeedsTitle, StepsOf, HasNotes, IInv, TasksFit, Holds
  <2> QED  BY <1>5, <2>2 DEF IInv, NeedsTitle, MeetingType, meetingVars
<1>6. ASSUME NEW title \in Titles \cup {None}, TitleGenerated(p, title) PROVE IInv'
  <2>1. record' \in Sessions \cup {None} /\ index' \in Titles \cup {None}
    BY <1>6 DEF TitleGenerated, setTitle, IInv, MeetingType, Sessions
  <2>2. TasksFit' /\ Admission' /\ LinksFollow'
    BY <1>3, <1>6, <2>1 DEF TitleGenerated
  <2> QED  BY <1>6, <2>1, <2>2 DEF IInv, TitleGenerated, MeetingType
<1>7. CASE NotesWritten(p)
  <2>1. Moves(p, "written", copy(p), text(p))
    BY <1>0, <1>7, BecomesMoves DEF NotesWritten, Steps
  <2>2. TasksFit' /\ Admission' /\ LinksFollow'
    BY <1>0, <1>7, <2>1, Works DEF NotesWritten, StepsOf, HasNotes, IInv, TasksFit, Holds
  <2>3. copy(p) \in Sessions /\ text(p) \in 0..MaxRuns
    BY <1>0, <1>7 DEF NotesWritten, IInv, TasksFit, Holds, TaskType, text
  <2> QED  BY <1>7, <2>2, <2>3 DEF IInv, NotesWritten, MeetingType, Sessions
<1>8. CASE NotesUnwritten(p)
  <2>1. Moves(p, "unwritten", copy(p), text(p))
    BY <1>0, <1>8, BecomesMoves DEF NotesUnwritten, Steps
  <2>2. TasksFit' /\ Admission' /\ LinksFollow'
    BY <1>0, <1>8, <2>1, Works DEF NotesUnwritten, StepsOf, HasNotes, IInv, TasksFit, Holds
  <2> QED  BY <1>8, <2>2 DEF IInv, NotesUnwritten, MeetingType, meetingVars
<1>9. CASE NotesSaved(p)
  <2>1. copy(p) \in Sessions /\ text(p) \in 1..MaxRuns
    BY <1>0, <1>9, RunsAssumption
       DEF NotesSaved, IInv, TasksFit, Holds, HasNotes, TaskType, text
  <2>2. TasksFit' /\ Admission' /\ LinksFollow'
    BY <1>0, <1>9, <2>1, GateWorks DEF NotesSaved
  <2>3. record' \in Sessions  BY <1>9, <2>1 DEF NotesSaved, Sessions
  <2> QED  BY <1>9, <2>2, <2>3 DEF IInv, NotesSaved, MeetingType
<1>10. CASE NotesNotSaved(p)
  <2>1. copy(p) \in Sessions
    BY <1>0, <1>10 DEF NotesNotSaved, IInv, TasksFit, Holds
  <2>2. TasksFit' /\ Admission' /\ LinksFollow'
    BY <1>10, RunEndsWorks DEF NotesNotSaved
  <2>3. record' \in Sessions \cup {None}
    BY <1>10, <2>1 DEF NotesNotSaved, Sessions, IInv, MeetingType
  <2> QED  BY <1>10, <2>2, <2>3 DEF IInv, NotesNotSaved, MeetingType
<1> QED
  BY <1>1, <1>2, <1>4, <1>5, <1>6, <1>7, <1>8, <1>9, <1>10 DEF RunStep

\* The steps of a publish: only the two writes touch the vault's pairs, in order.
LEMMA PublishStepWorks ==
  ASSUME IInv, NEW p \in Tasks, PublishStep(p)
  PROVE  IInv'
<1>0. /\ task \in TaskType /\ text(p) \in 0..MaxRuns
      /\ step(p) \in PublishSteps => text(p) # 0 /\ p \notin Reconciles
  BY TasksAssumption DEF IInv, TasksFit, TaskType, text, HasNotes, StepsOf, PublishSteps, Tasks
<1> USE DEF PublishSteps
<1>1. CASE Extracted(p)
  <2>1. record \in Sessions  BY <1>1 DEF Extracted, IInv, MeetingType
  <2>2. Moves(p, "writing", record, text(p))
    BY <1>0, <1>1, <2>1, LoadsMoves DEF Extracted, Steps
  <2>3. TasksFit' /\ Admission'
    BY <1>0, <1>1, <2>1, <2>2, Works, TasksAssumption
       DEF Extracted, StepsOf, HasNotes, PreparingSteps, Tasks
  <2>4. LinksFollow'
    <3>1. LinkTargetsExist'
      BY <1>1 DEF Extracted, IInv, LinksFollow, LinkTargetsExist, NoNote, MeetingType
    <3>2. \A q \in Tasks : step(q)' # "linked"
      BY <1>1, <2>2 DEF Extracted, IInv, Admission, Moves, step
    <3> QED  BY <3>1, <3>2 DEF LinksFollow
  <2>5. MeetingType'
    <3>1. NoNote \in [main : 0..MaxRuns, transcript : 0..MaxRuns]
      BY RunsAssumption DEF NoNote
    <3> QED  BY <1>1, <3>1 DEF Extracted, MeetingType, IInv, meetingVars
  <2> QED  BY <2>3, <2>4, <2>5 DEF IInv
<1>2. CASE ExtractedDeleted(p)
  <2>1. TasksFit' /\ Admission' /\ LinksFollow'
    BY <1>2, ReleaseWorks DEF ExtractedDeleted
  <2> QED  BY <1>2, <2>1 DEF IInv, ExtractedDeleted, MeetingType, meetingVars
<1>3. CASE WriteTranscript(p)
  <2>1. Moves(p, "linked", copy(p), text(p))
    BY <1>0, <1>3, BecomesMoves DEF WriteTranscript, Steps
  <2>2. copy(p) \in Sessions /\ copy(p).title \in Titles
    BY <1>3 DEF WriteTranscript, IInv, TasksFit, Holds, Sessions
  <2>3. TasksFit' /\ Admission'
    BY <1>0, <1>3, <2>1, <2>2, Works, TasksAssumption
       DEF WriteTranscript, StepsOf, HasNotes, PreparingSteps, Tasks
  <2>4. LinksFollow'
    <3>1. LinkTargetsExist'
      BY <1>0, <1>3, <2>2 DEF WriteTranscript, IInv, LinksFollow, LinkTargetsExist, MeetingType
    <3>2. \A q \in Tasks : step(q)' = "linked" => q = p
      BY <1>3, <2>1 DEF WriteTranscript, IInv, Admission, Moves, step
    <3>3. vault'[copy(p).title].transcript # 0 /\ copy(p)' = copy(p)
      BY <1>0, <1>3, <2>1, <2>2 DEF WriteTranscript, IInv, MeetingType, Moves, copy
    <3> QED  BY <3>1, <3>2, <3>3 DEF LinksFollow
  <2>5. MeetingType'
    BY <1>0, <1>3, <2>2 DEF WriteTranscript, MeetingType, IInv, meetingVars
  <2> QED  BY <2>3, <2>4, <2>5 DEF IInv
<1>4. CASE WriteMain(p)
  <2>1. Moves(p, "published", copy(p), text(p))
    BY <1>0, <1>4, BecomesMoves DEF WriteMain, Steps
  <2>2. copy(p) \in Sessions /\ copy(p).title \in Titles
    BY <1>4 DEF WriteMain, IInv, TasksFit, Holds, Sessions
  <2>3. TasksFit' /\ Admission'
    BY <1>0, <1>4, <2>1, <2>2, Works, TasksAssumption
       DEF WriteMain, StepsOf, HasNotes, PreparingSteps, Tasks
  <2>4. LinksFollow'
    <3>1. LinkTargetsExist'
      BY <1>4, <2>2 DEF WriteMain, IInv, LinksFollow, LinkTargetsExist, MeetingType
    <3>2. \A q \in Tasks : step(q)' # "linked"
      BY <1>4, <2>1 DEF WriteMain, IInv, Admission, Moves, step
    <3> QED  BY <3>1, <3>2 DEF LinksFollow
  <2>5. MeetingType'
    BY <1>0, <1>4, <2>2 DEF WriteMain, MeetingType, IInv, meetingVars
  <2> QED  BY <2>3, <2>4, <2>5 DEF IInv
<1>5. CASE VaultWriteFails(p)
  <2>1. TasksFit' /\ Admission' /\ LinksFollow'
    BY <1>5, ReleaseWorks DEF VaultWriteFails
  <2> QED  BY <1>5, <2>1 DEF IInv, VaultWriteFails, MeetingType, meetingVars
<1>6. CASE Published(p)
  <2>1. TasksFit' /\ Admission' /\ LinksFollow'
    BY <1>6, ReleaseWorks DEF Published
  <2>2. copy(p).title \in Titles
    BY <1>6 DEF Published, IInv, TasksFit, Holds, Sessions
  <2>3. record' \in Sessions \cup {None}
    BY <1>6, <2>2 DEF Published, IInv, MeetingType, Sessions
  <2> QED  BY <1>6, <2>1, <2>3 DEF IInv, Published, MeetingType
<1> QED  BY <1>1, <1>2, <1>3, <1>4, <1>5, <1>6 DEF PublishStep

\* What the user does.
LEMMA UserStepWorks ==
  ASSUME IInv, UserStep
  PROVE  IInv'
<1>0. task \in TaskType  BY DEF IInv, TasksFit
<1> USE DEF PublishSteps, PreparingSteps
<1>1. ASSUME NEW p \in Runs, Process(p) PROVE IInv'
  <2>0. p \in Tasks  BY DEF Tasks
  <2>1. runs + 1 \in 0..MaxRuns /\ runs + 1 # 0 /\ runs' \in 0..MaxRuns
    BY <1>1, RunsAssumption DEF Process, IInv, MeetingType
  <2>2. Moves(p, "queued", copy(p), runs + 1)
    BY <1>0, <1>1, <2>0, <2>1 DEF Process, TaskType, Moves, Steps, copy
  <2>3. TasksFit'
    <3>1. "queued" \in StepsOf(p) /\ ~Holds(p, "queued")
      BY TasksAssumption DEF StepsOf, Holds
    <3> QED  BY <2>0, <2>1, <2>2, <3>1, FitStays DEF IInv
  <2>4. Admission'
    <3>1. /\ \A q \in Runs : step(q)' # "idle" => q = p
          /\ step(p)' = "queued"
      BY <1>1, <2>0, <2>2 DEF Process, IInv, Admission, Moves, step, Tasks
    <3>2. \A q \in Tasks : step(q)' \in PublishSteps <=> step(q) \in PublishSteps
      BY <1>1, <2>0, <2>2 DEF Process, Moves, step
    <3> QED  BY <1>1, <3>1, <3>2 DEF Process, IInv, Admission
  <2>5. LinksFollow'
    BY <1>1, <2>0, <2>2, LinksStay DEF Process, IInv
  <2> QED  BY <1>1, <2>1, <2>3, <2>4, <2>5 DEF IInv, Process, MeetingType, meetingVars
<1>2. ASSUME NEW r \in Renames, NEW title \in Titles, Rename(r, title) PROVE IInv'
  <2>0. r \in Tasks /\ r \notin Runs /\ r \notin Backfills
    BY TasksAssumption DEF Tasks
  <2>1. record' \in Sessions \cup {None} /\ index' \in Titles \cup {None}
    BY <1>2 DEF Rename, setTitle, IInv, MeetingType, Sessions
  <2>2. CASE record.status = "processed"
    <3>1. Moves(r, "queued", copy(r), text(r))
      BY <1>0, <1>2, <2>0, <2>2, BecomesMoves DEF Rename, Steps
    <3>2. TasksFit' /\ Admission' /\ LinksFollow'
      BY <1>2, <2>0, <3>1, Works DEF Rename, StepsOf, Holds, HasNotes
    <3> QED  BY <1>2, <2>1, <3>2 DEF IInv, Rename, MeetingType
  <2>3. CASE record.status # "processed"
    BY <1>2, <2>1, <2>3 DEF Rename, IInv, TasksFit, Admission, LinksFollow,
       LinkTargetsExist, MeetingType, step, copy, text, registryVars
  <2> QED  BY <2>2, <2>3
<1>3. ASSUME NEW b \in Backfills, Backfill(b) PROVE IInv'
  <2>0. b \in Tasks /\ b \notin Runs /\ b \notin Renames
    BY TasksAssumption DEF Tasks
  <2>1. record \in Sessions  BY <1>3 DEF Backfill, IInv, MeetingType
  <2>2. Moves(b, "queued", record, text(b))
    BY <1>0, <1>3, <2>0, <2>1, LoadsMoves DEF Backfill, Steps
  <2>3. TasksFit' /\ Admission' /\ LinksFollow'
    BY <1>3, <2>0, <2>1, <2>2, Works DEF Backfill, StepsOf, HasNotes
  <2> QED  BY <1>3, <2>3 DEF IInv, Backfill, MeetingType, meetingVars
<1>4. ASSUME NEW k \in Reconciles, OpenLibrary(k) PROVE IInv'
  <2>0. k \in Tasks /\ k \notin Runs /\ k \notin Renames /\ k \notin Backfills
    BY TasksAssumption DEF Tasks
  <2>1. Moves(k, "queued", copy(k), text(k))
    BY <1>0, <1>4, <2>0, BecomesMoves DEF OpenLibrary, Steps
  <2>2. TasksFit' /\ Admission' /\ LinksFollow'
    BY <1>4, <2>0, <2>1, Works DEF OpenLibrary, StepsOf, Holds, HasNotes
  <2> QED  BY <1>4, <2>2 DEF IInv, OpenLibrary, MeetingType, meetingVars
<1>5. CASE Delete \/ DeleteAudio
  <2>1. MeetingType'
    <3>1. CASE Delete
      <4>1. 0 \in 0..MaxRuns  BY RunsAssumption
      <4> QED  BY <3>1, <4>1 DEF Delete, IInv, MeetingType
    <3>2. CASE DeleteAudio  BY <3>2 DEF DeleteAudio, IInv, MeetingType
    <3> QED  BY <1>5, <3>1, <3>2
  <2> QED
    BY <1>5, <2>1 DEF Delete, DeleteAudio, IInv, TasksFit, Admission, LinksFollow,
       LinkTargetsExist, step, copy, text, registryVars
<1> QED  BY <1>1, <1>2, <1>3, <1>4, <1>5 DEF UserStep

\* The steps of rename, backfill and reconciliation Tasks before they publish.
LEMMA OtherStepWorks ==
  ASSUME IInv,
         \/ \E r \in Renames : RenameTaskRuns(r)
         \/ \E b \in Backfills : BackfillChecks(b) \/ BackfillPublishes(b)
         \/ \E k \in Reconciles : ReconcileStep(k)
  PROVE  IInv'
<1>0. task \in TaskType  BY DEF IInv, TasksFit
<1> USE DEF PublishSteps, PreparingSteps
<1>1. ASSUME NEW r \in Renames, RenameTaskRuns(r) PROVE IInv'
  <2>0. r \in Tasks \ Reconciles /\ r \notin Runs /\ r \notin Backfills
    BY TasksAssumption DEF Tasks
  <2>1. CASE notes = 0
    <3>1. Moves(r, "idle", None, 0)
      BY <1>0, <1>1, <2>0, <2>1, FinishesMoves DEF RenameTaskRuns
    <3>2. TasksFit' /\ Admission' /\ LinksFollow'
      BY <1>1, <2>0, <2>1, <3>1, Works DEF RenameTaskRuns, StepsOf, Holds, HasNotes
    <3> QED  BY <1>1, <3>2 DEF IInv, RenameTaskRuns, MeetingType, meetingVars
  <2>2. CASE notes # 0
    <3>1. notes \in 1..MaxRuns  BY <2>2, RunsAssumption DEF IInv, MeetingType
    <3>2. visible' = (visible /\ r \notin Runs)
      BY <1>1, <2>0, <2>2 DEF RenameTaskRuns, IInv, Admission
    <3>3. TasksFit' /\ Admission' /\ LinksFollow'
      BY <1>1, <2>0, <2>2, <3>1, <3>2, GateWorks DEF RenameTaskRuns
    <3> QED  BY <1>1, <3>3 DEF IInv, RenameTaskRuns, MeetingType, meetingVars
  <2> QED  BY <2>1, <2>2
<1>2. ASSUME NEW b \in Backfills, BackfillChecks(b) PROVE IInv'
  <2>0. b \in Tasks \ Reconciles /\ b \notin Runs /\ b \notin Renames
    BY TasksAssumption DEF Tasks
  <2>1. CASE finishes(b)
    <3>1. Moves(b, "idle", None, 0)  BY <1>0, <2>0, <2>1, FinishesMoves
    <3> QED
      BY <1>2, <2>0, <3>1, Works DEF BackfillChecks, StepsOf, Holds, HasNotes, IInv,
         MeetingType, meetingVars
  <2>2. CASE /\ notes # 0
             /\ task' = [task EXCEPT ![b] = [step |-> "checked", copy |-> None, text |-> notes]]
    <3>1. Moves(b, "checked", None, notes)
      BY <1>0, <2>0, <2>2, TaskMoves DEF IInv, MeetingType, Steps
    <3> QED
      BY <1>2, <2>0, <2>2, <3>1, Works DEF BackfillChecks, StepsOf, Holds, HasNotes, IInv,
         MeetingType, meetingVars
  <2> QED  BY <1>2, <2>1, <2>2 DEF BackfillChecks
<1>3. ASSUME NEW b \in Backfills, BackfillPublishes(b) PROVE IInv'
  <2>0. b \in Tasks \ Reconciles /\ b \notin Runs /\ b \notin Renames
    BY TasksAssumption DEF Tasks
  <2>1. text(b) \in 1..MaxRuns
    BY <1>0, <1>3, <2>0, RunsAssumption
       DEF BackfillPublishes, IInv, TasksFit, HasNotes, TaskType, text
  <2>2. visible' = (visible /\ b \notin Runs)
    BY <1>3, <2>0 DEF BackfillPublishes, IInv, Admission
  <2>3. TasksFit' /\ Admission' /\ LinksFollow'
    BY <1>3, <2>0, <2>1, <2>2, GateWorks DEF BackfillPublishes
  <2> QED  BY <1>3, <2>3 DEF IInv, BackfillPublishes, MeetingType, meetingVars
<1>4. ASSUME NEW k \in Reconciles, ReconcileStep(k) PROVE IInv'
  <2>0. k \in Tasks /\ k \notin Runs /\ k \notin Renames /\ k \notin Backfills
    BY TasksAssumption DEF Tasks
  <2>1. CASE ReconcileStarts(k)
    <3> DEFINE found == IF record # None /\ record.status = "processed" THEN record ELSE None
    <3>1. found \in Sessions \cup {None}  BY DEF IInv, MeetingType
    <3>2. Moves(k, "reading", found, text(k))
      BY <1>0, <2>0, <2>1, <3>1, LoadsMoves DEF ReconcileStarts, Steps
    <3>3. TasksFit' /\ Admission' /\ LinksFollow'
      BY <2>0, <2>1, <3>2, Works DEF ReconcileStarts, StepsOf, Holds, HasNotes
    <3> QED  BY <2>1, <3>3 DEF IInv, ReconcileStarts, MeetingType, meetingVars
  <2>2. CASE ReconcileReads(k)
    <3>1. CASE becomes(k, "removing")
      <4>1. Moves(k, "removing", copy(k), text(k))
        BY <1>0, <2>0, <3>1, BecomesMoves DEF Steps
      <4> QED
        BY <2>0, <2>2, <4>1, Works DEF ReconcileReads, StepsOf, Holds, HasNotes, IInv,
           MeetingType, meetingVars
    <3>2. CASE becomes(k, "indexing") /\ copy(k) # None
      <4>1. Moves(k, "indexing", copy(k), text(k))
        BY <1>0, <2>0, <3>2, BecomesMoves DEF Steps
      <4>2. copy(k) \in Sessions  BY <1>0, <2>0, <3>2 DEF TaskType, copy
      <4> QED
        BY <2>0, <2>2, <4>1, <4>2, Works DEF ReconcileReads, StepsOf, Holds, HasNotes, IInv,
           MeetingType, meetingVars
    <3>3. CASE finishes(k)
      <4>1. Moves(k, "idle", None, 0)  BY <1>0, <2>0, <3>3, FinishesMoves
      <4> QED
        BY <2>0, <2>2, <4>1, Works DEF ReconcileReads, StepsOf, Holds, HasNotes, IInv,
           MeetingType, meetingVars
    <3> QED  BY <2>2, <3>1, <3>2, <3>3 DEF ReconcileReads
  <2>3. CASE ReconcileRemoves(k) \/ ReconcileIndexes(k)
    <3>1. Moves(k, "idle", None, 0)
      BY <1>0, <2>0, <2>3, FinishesMoves DEF ReconcileRemoves, ReconcileIndexes
    <3>2. TasksFit' /\ Admission' /\ LinksFollow'
      BY <2>0, <2>3, <3>1, Works
         DEF ReconcileRemoves, ReconcileIndexes, StepsOf, Holds, HasNotes
    <3>3. ReconcileIndexes(k) => copy(k).title \in Titles
      BY <2>0 DEF ReconcileIndexes, IInv, TasksFit, Holds, Sessions
    <3> QED
      BY <2>3, <3>2, <3>3 DEF IInv, ReconcileRemoves, ReconcileIndexes, MeetingType
  <2> QED  BY <1>4, <2>1, <2>2, <2>3 DEF ReconcileStep
<1> QED  BY <1>1, <1>2, <1>3, <1>4

\* A new or an older meeting, and nobody admitted.
LEMMA InitIInv ==
  ASSUME Init
  PROVE  IInv
<1>0. 0 \in 0..MaxRuns /\ 1 \in 0..MaxRuns  BY RunsAssumption
<1>1. MeetingType
  <2>1. vault \in [Titles -> [main : 0..MaxRuns, transcript : 0..MaxRuns]]
    BY <1>0 DEF Init, NoNote
  <2>2. CASE NewMeeting  BY <1>0, <2>1, <2>2 DEF NewMeeting, MeetingType, Sessions
  <2>3. CASE OlderMeeting
    <3>1. PICK title \in Titles :
            \/ /\ record = [status |-> "processed", title |-> title, base |-> None]
               /\ notes = 1 /\ index = None /\ audio \in BOOLEAN
            \/ record = None /\ notes = 0 /\ index = title /\ audio = FALSE
      BY <2>3 DEF OlderMeeting
    <3>2. runs = 1  BY <2>3 DEF OlderMeeting
    <3>3. [status |-> "processed", title |-> title, base |-> None] \in Sessions
      BY DEF Sessions
    <3> QED  BY <1>0, <2>1, <3>1, <3>2, <3>3 DEF MeetingType
  <2> QED  BY <2>2, <2>3 DEF Init
<1>2. \A p \in Tasks : /\ step(p) \in {"idle", "queued"}
                       /\ step(p) = "queued" => p \in Reconciles
                       /\ task[p] = [step |-> step(p), copy |-> None, text |-> 0]
  <2>1. CASE NewMeeting  BY <2>1 DEF NewMeeting, NoTask, step
  <2>2. CASE OlderMeeting
    <3>1. PICK k \in Reconciles :
            task = [p \in Tasks |-> IF p = k THEN [NoTask EXCEPT !.step = "queued"] ELSE NoTask]
      BY <2>2 DEF OlderMeeting
    <3> QED  BY <3>1 DEF NoTask, step
  <2> QED  BY <2>1, <2>2 DEF Init
<1>3. task \in TaskType
  BY <1>0 DEF Init, NewMeeting, OlderMeeting, NoTask, TaskType, Steps
<1>4. TasksFit
  BY <1>2, <1>3, TasksAssumption DEF TasksFit, StepsOf, Holds, HasNotes, PublishSteps, Tasks
<1>5. Admission
  BY <1>2, TasksAssumption DEF Init, Admission, PublishSteps, PreparingSteps, Tasks
<1>6. LinksFollow
  BY <1>2 DEF Init, LinksFollow, LinkTargetsExist, NoNote
<1> QED  BY <1>1, <1>4, <1>5, <1>6 DEF IInv

\* The invariant is inductive, for every kind of step.
LEMMA NextIInv ==
  ASSUME IInv, [Next]_vars
  PROVE  IInv'
<1>1. CASE UNCHANGED vars
  BY <1>1 DEF vars, meetingVars, registryVars, IInv, MeetingType, TasksFit, Admission,
     LinksFollow, LinkTargetsExist, TaskType, step, copy, text
<1> QED
  BY <1>1, RunStepWorks, PublishStepWorks, UserStepWorks, OtherStepWorks DEF Next

\* The inductive invariant holds in every reachable state.
THEOREM Invariance == Spec => []IInv
BY InitIInv, NextIInv, PTL DEF Spec

\* What ProcessingRegistry and the publish sets admit is true of the Tasks, for
\* any number of them and whatever fails: one run and one vault writer at a
\* time, the spinner never without a run, and nothing left behind at rest.
THEOREM AdmissionHolds == Spec => []AdmissionIsTrue
<1>1. ASSUME IInv PROVE AdmissionIsTrue
  <2>1. TypeOK
    BY <1>1 DEF IInv, MeetingType, TasksFit, TaskType, Admission, TypeOK
  <2>2. OneRunPerMeeting  BY <1>1 DEF IInv, Admission, OneRunPerMeeting
  <2>3. OneVaultWriter
    BY <1>1 DEF IInv, Admission, OneVaultWriter, Publishing, PublishSteps
  <2>4. NothingLeftAdmitted
    BY <1>1 DEF IInv, Admission, NothingLeftAdmitted, Quiescent, PreparingSteps,
       PublishSteps, Tasks
  <2> QED  BY <2>1, <2>2, <2>3, <2>4 DEF AdmissionIsTrue
<1> QED  BY <1>1, Invariance, PTL

\* No main note ever points at a transcript that is not there, whichever write
\* fails and whatever else is publishing (ObsidianVaultFiles.swift:30-32).
THEOREM LinksHaveTargets == Spec => []LinkTargetsExist
<1>1. IInv => LinkTargetsExist  BY DEF IInv, LinksFollow
<1> QED  BY <1>1, Invariance, PTL

-----------------------------------------------------------------------------
(* The recording is given up only for notes that stay.                      *)

\* The user cannot delete a meeting while its notes are being made.
MeetingStays == UserWaits \/ ~UserDeletes

\* A record that says processed has its notes, and so has the copy that a run
\* is about to save as processed: it agrees with the record on what it is.
NotesStay ==
  /\ NotesOrAudioRemain
  /\ record # None /\ record.status = "processed" => notes # 0
  /\ \A p \in Runs :
       /\ step(p) \in PreparingSteps => record # None
       /\ step(p) \in PreparingSteps \ {"queued"} => copy(p).status = record.status
       /\ step(p) = "written" => notes # 0

\* What a publish step does to its Task, and to the meeting.
LEMMA PublishStepMoves ==
  ASSUME IInv, NEW p \in Tasks, PublishStep(p)
  PROVE  /\ \A q \in Tasks : q # p => task'[q] = task[q]
         /\ step(p) \in PublishSteps /\ step(p)' \in {"idle"} \cup PublishSteps
         /\ UNCHANGED <<notes, index, audio, visible>>
         /\ IF record = None THEN record' = None
            ELSE record' \in {record, [record EXCEPT !.base = copy(p).title]}
<1>0. task \in TaskType /\ notes \in 0..MaxRuns  BY DEF IInv, TasksFit, MeetingType
<1> USE DEF PublishSteps
<1>1. CASE Extracted(p)
  BY <1>0, <1>1, LoadsMoves DEF Extracted, IInv, MeetingType, Steps, Moves, step, meetingVars,
     registryVars
<1>2. CASE WriteTranscript(p) \/ WriteMain(p)
  BY <1>0, <1>2, BecomesMoves DEF WriteTranscript, WriteMain, Steps, Moves, step, meetingVars,
     registryVars
<1>3. ASSUME Release(p)
      PROVE  /\ \A q \in Tasks : q # p => task'[q] = task[q]
             /\ step(p)' \in {"idle", "extracting"}
  BY <1>0, <1>3, PublishesMoves, FinishesMoves DEF Release, Moves, step
<1>4. CASE ExtractedDeleted(p) \/ VaultWriteFails(p)
  BY <1>3, <1>4 DEF ExtractedDeleted, VaultWriteFails, meetingVars
<1>5. CASE Published(p)  BY <1>3, <1>5 DEF Published
<1> QED  BY <1>1, <1>2, <1>4, <1>5 DEF PublishStep

\* A meeting that is as it was, and runs that are where they were or past
\* their notes, keep it so.
LEMMA NotesStayKept ==
  ASSUME NotesStay, UNCHANGED <<notes, audio>>,
         IF record = None THEN record' = None
         ELSE record' # None /\ record'.status = record.status,
         \A q \in Runs : step(q)' \in PreparingSteps => task'[q] = task[q]
  PROVE  NotesStay'
BY DEF NotesStay, NotesOrAudioRemain, OnDisk, step, copy, PreparingSteps

\* The steps of the other Tasks leave every run where it is.
LEMMA OthersLeaveRuns ==
  ASSUME IInv,
         \/ \E r \in Renames : RenameTaskRuns(r) \/ \E title \in Titles : Rename(r, title)
         \/ \E b \in Backfills : Backfill(b) \/ BackfillChecks(b) \/ BackfillPublishes(b)
         \/ \E k \in Reconciles : OpenLibrary(k) \/ ReconcileStep(k)
  PROVE  \A q \in Runs : task'[q] = task[q]
<1>0. task \in TaskType /\ \A q \in Runs : q \in Tasks  BY DEF IInv, TasksFit, Tasks
<1>1. ASSUME NEW p \in Tasks \ Runs, NEW s, NEW c, NEW n,
             \/ becomes(p, s) \/ loads(p, s, c) \/ finishes(p) \/ publishes(p, n)
             \/ task' = [task EXCEPT ![p] = [step |-> s, copy |-> c, text |-> n]]
             \/ UNCHANGED task
      PROVE  \A q \in Runs : task'[q] = task[q]
  BY <1>0, <1>1 DEF TaskType, becomes, loads, finishes, publishes
<1>2. ASSUME NEW r \in Renames, RenameTaskRuns(r) \/ \E title \in Titles : Rename(r, title)
      PROVE  \A q \in Runs : task'[q] = task[q]
  BY <1>1, <1>2, TasksAssumption DEF RenameTaskRuns, Rename, Gate, Tasks
<1>3. ASSUME NEW b \in Backfills, Backfill(b) \/ BackfillChecks(b) \/ BackfillPublishes(b)
      PROVE  \A q \in Runs : task'[q] = task[q]
  BY <1>1, <1>3, TasksAssumption DEF Backfill, BackfillChecks, BackfillPublishes, Gate, Tasks
<1>4. ASSUME NEW k \in Reconciles, OpenLibrary(k) \/ ReconcileStep(k)
      PROVE  \A q \in Runs : task'[q] = task[q]
  BY <1>1, <1>4, TasksAssumption DEF OpenLibrary, ReconcileStep, ReconcileStarts,
     ReconcileReads, ReconcileRemoves, ReconcileIndexes, Tasks
<1> QED  BY <1>2, <1>3, <1>4

\* No step leaves a meeting without both; a run writes its notes before it marks
\* the meeting as processed, and a failed one keeps the status.
LEMMA NotesStayStep ==
  ASSUME MeetingStays, IInv, NotesStay, [Next]_vars
  PROVE  NotesStay'
<1>0. task \in TaskType /\ \A q \in Runs : q \in Tasks  BY DEF IInv, TasksFit, Tasks
<1> USE DEF PreparingSteps
<1>1. ASSUME NEW p \in Runs, RunStep(p) PROVE NotesStay'
  <2>0. p \in Tasks /\ text(p) \in 0..MaxRuns  BY <1>0 DEF TaskType, text
  <2>1. CASE SessionLoaded(p)
    <3>1. Moves(p, "producing", record, text(p))
      BY <1>0, <2>0, <2>1, LoadsMoves DEF SessionLoaded, IInv, MeetingType, Steps
    <3> QED
      BY <1>0, <2>1, <3>1 DEF SessionLoaded, meetingVars, NotesStay, NotesOrAudioRemain, OnDisk,
         Moves, step, copy
  <2>2. ASSUME runEnds(p) PROVE \A q \in Runs : step(q)' \in PreparingSteps => task'[q] = task[q]
    BY <1>0, <2>0, <2>2, FinishesMoves DEF runEnds, Moves, step
  <2>3. CASE ProduceFails(p)
    BY <2>2, <2>3, NotesStayKept DEF ProduceFails, meetingVars
  <2>4. CASE NotesProduced(p)
    <3>1. record # None /\ record' = record /\ record \in Sessions
      BY <2>4 DEF NotesProduced, NotesStay, meetingVars, IInv, MeetingType
    <3>2. Moves(p, "saving", record, text(p))
      BY <1>0, <2>0, <2>4, <3>1, LoadsMoves DEF NotesProduced, apply, Steps
    <3> QED
      BY <1>0, <2>4, <3>2 DEF NotesProduced, meetingVars, NotesStay, NotesOrAudioRemain, OnDisk,
         Moves, step, copy
  <2>5. CASE NeedsTitle(p)
    <3>1. Moves(p, "titling", copy(p), text(p))
      BY <1>0, <2>0, <2>5, BecomesMoves DEF NeedsTitle, Steps
    <3> QED
      BY <1>0, <2>5, <3>1 DEF NeedsTitle, meetingVars, NotesStay, NotesOrAudioRemain, OnDisk,
         Moves, step, copy
  <2>6. ASSUME NEW title \in Titles \cup {None}, TitleGenerated(p, title) PROVE NotesStay'
    <3>1. record # None /\ record \in Sessions
      BY <2>6 DEF TitleGenerated, NotesStay, IInv, MeetingType
    <3>2. record' \in Sessions /\ record'.status = record.status
      BY <2>6, <3>1 DEF TitleGenerated, setTitle, Sessions
    <3>3. record' # None
      BY <3>2, TitlesAssumption
    <3>4. Moves(p, "saving", record', text(p))
      BY <1>0, <2>0, <2>6, <3>2, <3>3, LoadsMoves DEF TitleGenerated, apply, Steps
    <3> QED
      BY <1>0, <2>6, <3>1, <3>2, <3>3, <3>4 DEF TitleGenerated, NotesStay,
         NotesOrAudioRemain, OnDisk, Moves, step, copy
  <2>7. CASE NotesWritten(p)
    <3>1. Moves(p, "written", copy(p), text(p)) /\ text(p) # 0
      BY <1>0, <2>0, <2>7, BecomesMoves DEF NotesWritten, Steps, IInv, TasksFit, HasNotes
    <3> QED
      BY <1>0, <2>7, <3>1 DEF NotesWritten, NotesStay, NotesOrAudioRemain, OnDisk,
         Moves, step, copy
  <2>8. CASE NotesUnwritten(p)
    <3>1. Moves(p, "unwritten", copy(p), text(p))
      BY <1>0, <2>0, <2>8, BecomesMoves DEF NotesUnwritten, Steps
    <3> QED
      BY <1>0, <2>8, <3>1 DEF NotesUnwritten, meetingVars, NotesStay, NotesOrAudioRemain, OnDisk,
         Moves, step, copy
  <2>9. \A q \in Runs : q # p => step(q) = "idle" \/ step(p) = "idle"
    BY DEF IInv, Admission
  <2>10. CASE NotesSaved(p)
    <3>1. copy(p) \in Sessions /\ notes # 0 /\ text(p) \in 0..MaxRuns
      BY <1>0, <2>0, <2>10 DEF NotesSaved, IInv, TasksFit, Holds, NotesStay
    <3>2. record'.status = "processed" /\ notes' = notes
      BY <2>10, <3>1 DEF NotesSaved, Sessions
    <3>3. \A q \in Runs : step(q)' \notin PreparingSteps
      BY <1>0, <2>0, <2>9, <2>10, <3>1, FinishesMoves, PublishesMoves
         DEF NotesSaved, Gate, Moves, step
    <3> QED  BY <3>1, <3>2, <3>3 DEF NotesStay, NotesOrAudioRemain, OnDisk
  <2>11. CASE NotesNotSaved(p)
    <3>1. copy(p) \in Sessions /\ copy(p).status = record.status /\ record # None
      BY <1>0, <2>0, <2>11 DEF NotesNotSaved, IInv, TasksFit, Holds, NotesStay
    <3>2. \A q \in Runs : step(q)' \notin PreparingSteps
      BY <1>0, <2>0, <2>9, <2>11, FinishesMoves DEF NotesNotSaved, runEnds, Moves, step
    <3>3. CASE UNCHANGED record
      BY <2>11, <3>2, <3>3 DEF NotesNotSaved, NotesStay, NotesOrAudioRemain, OnDisk
    <3>4. CASE record' = [copy(p) EXCEPT !.status = IF @ = "processed" THEN @ ELSE "failed"]
      <4>1. record'.status = IF record.status = "processed" THEN "processed" ELSE "failed"
        BY <3>1, <3>4 DEF Sessions
      <4> QED
        BY <2>11, <3>1, <3>2, <4>1 DEF NotesNotSaved, NotesStay, NotesOrAudioRemain, OnDisk
    <3> QED  BY <2>11, <3>3, <3>4 DEF NotesNotSaved
  <2> QED
    BY <1>1, <2>1, <2>3, <2>4, <2>5, <2>6, <2>7, <2>8, <2>10, <2>11 DEF RunStep
<1>2. ASSUME NEW p \in Tasks, PublishStep(p) PROVE NotesStay'
  <2>1. record # None => record' # None /\ record'.status = record.status
    <3>1. ASSUME record # None, record' # record
          PROVE  record' \in Sessions /\ record'.status = record.status
      <4>1. record \in Sessions /\ record' = [record EXCEPT !.base = copy(p).title]
        BY <1>2, <3>1, PublishStepMoves DEF IInv, MeetingType
      <4>2. step(p) = "published" /\ copy(p).title \in Titles
        BY <1>2, <3>1 DEF PublishStep, Extracted, ExtractedDeleted, WriteTranscript, WriteMain,
           VaultWriteFails, Published, meetingVars, IInv, TasksFit, Holds, Sessions
      <4> QED  BY <4>1, <4>2 DEF Sessions
    <3> QED  BY <3>1, TitlesAssumption
  <2>2. \A q \in Runs : step(q)' \in PreparingSteps => task'[q] = task[q]
    BY <1>0, <1>2, PublishStepMoves DEF PublishSteps, step
  <2> QED  BY <1>2, <2>1, <2>2, PublishStepMoves, NotesStayKept
<1>3. ASSUME NEW p \in Runs, Process(p) PROVE NotesStay'
  <2>1. task'[p].step = "queued" /\ \A q \in Tasks : q # p => task'[q] = task[q]
    BY <1>0, <1>3 DEF Process, TaskType
  <2> QED
    BY <1>0, <1>3, <2>1 DEF Process, meetingVars, NotesStay, NotesOrAudioRemain, OnDisk,
       step, copy
<1>4. ASSUME NEW r \in Renames, NEW title \in Titles, Rename(r, title) PROVE NotesStay'
  <2>1. record # None /\ record \in Sessions
    BY <1>4 DEF Rename, UserMayAct, IInv, MeetingType
  <2>2. record' \in Sessions /\ record'.status = record.status
    BY <1>4, <2>1 DEF Rename, setTitle, Sessions
  <2> QED  BY <1>4, <2>1, <2>2, OthersLeaveRuns, NotesStayKept, TitlesAssumption DEF Rename
<1>5. CASE \/ \E r \in Renames : RenameTaskRuns(r)
           \/ \E b \in Backfills : Backfill(b) \/ BackfillChecks(b) \/ BackfillPublishes(b)
           \/ \E k \in Reconciles : OpenLibrary(k) \/ ReconcileStep(k)
  <2>1. UNCHANGED <<record, notes, audio>>
    BY <1>5 DEF RenameTaskRuns, Backfill, BackfillChecks, BackfillPublishes, OpenLibrary,
       ReconcileStep, ReconcileStarts, ReconcileReads, ReconcileRemoves, ReconcileIndexes,
       meetingVars
  <2>2. \A q \in Runs : task'[q] = task[q]  BY <1>5, OthersLeaveRuns
  <2> QED  BY <2>1, <2>2, NotesStayKept
<1>6. CASE Delete
  <2>1. \A q \in Runs : step(q) \notin PreparingSteps
    BY <1>6 DEF Delete, UserMayAct, NothingToWaitFor, MeetingStays, Preparing
  <2> QED  BY <1>6, <2>1 DEF Delete, NotesStay, NotesOrAudioRemain, step
<1>7. CASE DeleteAudio
  BY <1>7 DEF DeleteAudio, NotesStay, NotesOrAudioRemain, OnDisk, step, copy
<1>8. CASE UNCHANGED vars
  BY <1>8, NotesStayKept DEF vars, meetingVars
<1> QED
  BY <1>1, <1>2, <1>3, <1>4, <1>5, <1>6, <1>7, <1>8 DEF Next, UserStep

\* While the user leaves a meeting alone whose notes are being made, its
\* recording is given up only for notes that stay (AppState.swift:760-763).
THEOREM RecordingIsGivenUpForNotes ==
  ASSUME MeetingStays
  PROVE  Spec => []NotesOrAudioRemain
<1>1. ASSUME Init PROVE NotesStay
  <2>1. \A p \in Runs : step(p) = "idle"
    BY <1>1, TasksAssumption DEF Init, NewMeeting, OlderMeeting, NoTask, step, Tasks
  <2>2. CASE NewMeeting
    BY <2>1, <2>2 DEF NewMeeting, NotesStay, NotesOrAudioRemain, PreparingSteps
  <2>3. CASE OlderMeeting
    BY <2>1, <2>3 DEF OlderMeeting, NotesStay, NotesOrAudioRemain, OnDisk, PreparingSteps
  <2> QED  BY <1>1, <2>2, <2>3 DEF Init
<1>2. IInv /\ NotesStay /\ [Next]_vars => NotesStay'  BY NotesStayStep
<1>3. NotesStay => NotesOrAudioRemain  BY DEF NotesStay
<1> QED  BY <1>1, <1>2, <1>3, Invariance, PTL DEF Spec

-----------------------------------------------------------------------------
(* With a patient user, writes that succeed and no backfill the vault and   *)
(* the search index come to show the meeting as it is.                      *)

Patient == UserWaits /\ ~WritesMayFail /\ Backfills = {}

Processed == record # None /\ record.status = "processed"

\* While notes are made nothing else is going on, so the copy that will be
\* saved is the record; and one reconciliation runs at a time.
Patience ==
  /\ \A p \in Runs : step(p) \in PreparingSteps =>
       /\ \A q \in Tasks \ Runs : step(q) = "idle"
       /\ step(p) # "unwritten"
       /\ step(p) # "queued" =>
            copy(p).title = record.title /\ copy(p).base = record.base
       /\ step(p) = "written" => index = copy(p).title
  /\ \A k, q \in Reconciles : step(k) # "idle" /\ step(q) # "idle" => k = q

\* The index is right, or a reconciliation will make it so: the copy it reads
\* the index with is still true when it writes.
Indexed == IF record = None THEN index = None ELSE Processed => index = record.title

SearchFollows ==
  /\ (\A k \in Reconciles : step(k) = "idle") => Indexed
  /\ \A k \in Reconciles :
       /\ step(k) \in {"queued", "reading"} /\ Processed => index \in {None, record.title}
       /\ step(k) = "reading" => IF Processed THEN copy(k) # None /\ copy(k).title = record.title
                                              ELSE copy(k) = None
       /\ step(k) = "removing" => ~Processed
       /\ step(k) = "indexing" => Processed /\ copy(k).title = record.title

PInv == IInv /\ NotesStay /\ Patience

\* Who prepares notes is the only Task at work.
LEMMA Alone ==
  ASSUME PInv, NEW p \in Runs, step(p) \in PreparingSteps
  PROVE  \A q \in Tasks : q # p => step(q) = "idle"
BY DEF PInv, Patience, IInv, Admission, PreparingSteps, Tasks

\* What a step of a run that prepares notes does to the Tasks.
LEMMA RunStepMoves ==
  ASSUME IInv, NEW p \in Runs, RunStep(p)
  PROVE  /\ step(p) \in PreparingSteps
         /\ \A q \in Tasks : q # p => task'[q] = task[q]
<1>0. task \in TaskType /\ p \in Tasks  BY DEF IInv, TasksFit, Tasks
<1> USE DEF PreparingSteps
<1>1. \A s, c, n : \/ becomes(p, s) \/ loads(p, s, c) \/ finishes(p) \/ publishes(p, n)
                   => \A q \in Tasks : q # p => task'[q] = task[q]
  BY <1>0 DEF TaskType, becomes, loads, finishes, publishes
<1> QED
  BY <1>1 DEF RunStep, SessionLoaded, ProduceFails, NotesProduced, NeedsTitle, TitleGenerated,
     NotesWritten, NotesUnwritten, NotesSaved, NotesNotSaved, runEnds, apply, Gate

\* Nobody prepares notes while the user acts or another Task is at work.
LEMMA OthersFindNoRun ==
  ASSUME Patient, PInv,
         \/ \E r \in Renames : RenameTaskRuns(r) \/ \E title \in Titles : Rename(r, title)
         \/ \E k \in Reconciles : OpenLibrary(k) \/ ReconcileStep(k)
         \/ \E p \in Tasks : PublishStep(p)
         \/ Delete
  PROVE  \A q \in Runs : step(q) \notin PreparingSteps
<1>1. NothingToWaitFor => \A q \in Runs : step(q) \notin PreparingSteps
  BY DEF NothingToWaitFor, Patient, Preparing, PreparingSteps
<1>2. ASSUME NEW p \in Tasks, step(p) \in PublishSteps
      PROVE  \A q \in Runs : step(q) \notin PreparingSteps
  BY <1>2, Alone DEF PublishSteps, PreparingSteps
<1>3. ASSUME NEW p \in Tasks \ Runs, step(p) # "idle"
      PROVE  \A q \in Runs : step(q) \notin PreparingSteps
  BY <1>3 DEF PInv, Patience
<1>4. ASSUME NEW r \in Renames, RenameTaskRuns(r) \/ \E title \in Titles : Rename(r, title)
      PROVE  \A q \in Runs : step(q) \notin PreparingSteps
  BY <1>1, <1>3, <1>4, TasksAssumption DEF RenameTaskRuns, Rename, UserMayAct, Tasks
<1>5. ASSUME NEW k \in Reconciles, OpenLibrary(k) \/ ReconcileStep(k)
      PROVE  \A q \in Runs : step(q) \notin PreparingSteps
  BY <1>1, <1>3, <1>5, TasksAssumption DEF OpenLibrary, ReconcileStep, ReconcileStarts,
     ReconcileReads, ReconcileRemoves, ReconcileIndexes, Tasks
<1>6. ASSUME NEW p \in Tasks, PublishStep(p)
      PROVE  \A q \in Runs : step(q) \notin PreparingSteps
  BY <1>2, <1>6, PublishStepMoves DEF PInv
<1>7. ASSUME Delete PROVE \A q \in Runs : step(q) \notin PreparingSteps
  BY <1>1, <1>7 DEF Delete, UserMayAct
<1> QED  BY <1>4, <1>5, <1>6, <1>7

\* A reconciliation moves only by its own steps.
LEMMA ReconcilesStay ==
  ASSUME IInv,
         \/ \E p \in Runs : RunStep(p) \/ Process(p)
         \/ \E r \in Renames : RenameTaskRuns(r) \/ \E title \in Titles : Rename(r, title)
         \/ \E p \in Tasks : PublishStep(p)
         \/ Delete \/ DeleteAudio
  PROVE  \A k \in Reconciles : task'[k] = task[k]
<1>0. /\ task \in TaskType
      /\ \A k \in Reconciles : k \in Tasks /\ k \notin Runs /\ k \notin Renames
      /\ \A p \in Runs \cup Renames : p \in Tasks
  BY TasksAssumption DEF IInv, TasksFit, Tasks
<1>1. ASSUME NEW p \in Runs, RunStep(p) PROVE \A k \in Reconciles : task'[k] = task[k]
  BY <1>0, <1>1, RunStepMoves
<1>2. ASSUME NEW p \in Runs, Process(p) PROVE \A k \in Reconciles : task'[k] = task[k]
  BY <1>0, <1>2 DEF Process, TaskType
<1>3. ASSUME NEW p \in Tasks, PublishStep(p) PROVE \A k \in Reconciles : task'[k] = task[k]
  <2>1. p \notin Reconciles
    <3>1. step(p) \in PublishSteps  BY <1>3, PublishStepMoves
    <3> QED  BY <3>1, TasksAssumption DEF IInv, TasksFit, StepsOf, PublishSteps, Tasks
  <2> QED  BY <1>0, <1>3, <2>1, PublishStepMoves
<1>4. ASSUME NEW r \in Renames, RenameTaskRuns(r) \/ \E title \in Titles : Rename(r, title)
      PROVE  \A k \in Reconciles : task'[k] = task[k]
  BY <1>0, <1>4 DEF RenameTaskRuns, Rename, Gate, finishes, publishes, becomes, TaskType
<1>5. CASE Delete \/ DeleteAudio  BY <1>5 DEF Delete, DeleteAudio
<1> QED  BY <1>1, <1>2, <1>3, <1>4, <1>5

\* A patient user keeps it so: only a run that has ended its notes lets others in.
LEMMA PatienceStep ==
  ASSUME Patient, PInv, [Next]_vars
  PROVE  Patience'
<1>0. task \in TaskType /\ \A q \in Runs : q \in Tasks  BY DEF PInv, IInv, TasksFit, Tasks
<1> USE DEF PreparingSteps
<1>1. ASSUME \A q \in Runs : step(q)' \notin PreparingSteps,
             \A k \in Reconciles : task'[k] = task[k]
      PROVE  Patience'
  BY <1>1 DEF PInv, Patience, step
<1>2. ASSUME NEW p \in Runs, RunStep(p) PROVE Patience'
  <2>0. p \in Tasks /\ text(p) \in 0..MaxRuns  BY <1>0 DEF TaskType, text
  <2>1. step(p) \in PreparingSteps /\ \A q \in Tasks : q # p => task'[q] = task[q]
    BY <1>2, RunStepMoves DEF PInv
  <2>2. \A q \in Tasks : q # p => step(q) = "idle" /\ step(q)' = "idle"
    BY <2>1, Alone DEF step
  <2>3. /\ \A k \in Reconciles : step(k)' = "idle"
        /\ \A q \in Tasks \ Runs : step(q)' = "idle"
    BY <2>2, TasksAssumption DEF Tasks
  <2>4. SUFFICES ASSUME step(p)' \in PreparingSteps
                 PROVE  /\ step(p)' # "unwritten"
                        /\ step(p)' # "queued" =>
                             copy(p)'.title = record'.title /\ copy(p)'.base = record'.base
                        /\ step(p)' = "written" => index' = copy(p)'.title
    BY <1>0, <2>2, <2>3 DEF Patience
  <2>5. ~\E n \in 0..MaxRuns : Gate(p, n)
    BY <1>0, <2>0, <2>4, FinishesMoves, PublishesMoves DEF Gate, Moves, step
  <2>6. ~runEnds(p)
    BY <1>0, <2>0, <2>4, FinishesMoves DEF runEnds, Moves, step
  <2>7. CASE SessionLoaded(p)
    <3>1. Moves(p, "producing", record, text(p))
      BY <1>0, <2>0, <2>7, LoadsMoves DEF SessionLoaded, PInv, IInv, MeetingType, Steps
    <3> QED  BY <2>7, <3>1 DEF SessionLoaded, meetingVars, Moves, step, copy
  <2>8. ASSUME apply(p), record' \in Sessions \cup {None}
        PROVE  step(p)' = "saving" /\ copy(p)' = record'
    BY <1>0, <2>0, <2>6, <2>8, LoadsMoves DEF apply, Moves, step, copy, Steps
  <2>9. CASE NotesProduced(p)
    BY <2>8, <2>9 DEF NotesProduced, PInv, IInv, MeetingType, meetingVars
  <2>10. CASE NeedsTitle(p)
    <3>1. Moves(p, "titling", copy(p), text(p))
      BY <1>0, <2>0, <2>10, BecomesMoves DEF NeedsTitle, Steps
    <3> QED  BY <2>10, <3>1 DEF NeedsTitle, meetingVars, Moves, step, copy, PInv, Patience
  <2>11. ASSUME NEW title \in Titles \cup {None}, TitleGenerated(p, title)
         PROVE  step(p)' = "saving" /\ copy(p)' = record'
    <3>1. record' \in Sessions \cup {None}
      BY <2>11 DEF TitleGenerated, setTitle, PInv, IInv, MeetingType, Sessions
    <3> QED  BY <2>8, <2>11, <3>1 DEF TitleGenerated
  <2>12. CASE NotesWritten(p)
    <3>1. Moves(p, "written", copy(p), text(p))
      BY <1>0, <2>0, <2>12, BecomesMoves DEF NotesWritten, Steps
    <3> QED  BY <2>12, <3>1 DEF NotesWritten, Moves, step, copy, PInv, Patience
  <2>13. CASE NotesUnwritten(p) \/ NotesNotSaved(p)
    BY <2>13 DEF NotesUnwritten, NotesNotSaved, Patient
  <2> QED
    BY <1>2, <2>0, <2>5, <2>6, <2>7, <2>9, <2>10, <2>11, <2>12, <2>13
       DEF RunStep, ProduceFails, NotesSaved
<1>3. ASSUME NEW p \in Runs, Process(p) PROVE Patience'
  <2>1. /\ task'[p].step = "queued" /\ \A q \in Tasks : q # p => task'[q] = task[q]
        /\ \A q \in Tasks \ Runs : step(q) = "idle"
    BY <1>0, <1>3 DEF Process, TaskType, Patient
  <2>2. \A q \in Runs : step(q) = "idle"  BY <1>3 DEF Process, PInv, IInv, Admission
  <2>3. \A k \in Reconciles : k \in Tasks \ Runs  BY TasksAssumption DEF Tasks
  <2> QED  BY <1>0, <2>1, <2>2, <2>3 DEF Patience, step
<1>4. ASSUME \/ \E r \in Renames : RenameTaskRuns(r) \/ \E title \in Titles : Rename(r, title)
             \/ Delete
      PROVE  Patience'
  <2>1. \A q \in Runs : task'[q] = task[q]
    BY <1>4, OthersLeaveRuns DEF PInv, Delete
  <2>2. \A q \in Runs : step(q) \notin PreparingSteps  BY <1>4, OthersFindNoRun
  <2> QED  BY <1>1, <1>4, <2>1, <2>2, ReconcilesStay DEF PInv, step
<1>5. ASSUME NEW p \in Tasks, PublishStep(p) PROVE Patience'
  <2>1. \A q \in Runs : step(q) \notin PreparingSteps  BY <1>5, OthersFindNoRun
  <2>2. \A q \in Runs : step(q)' \notin PreparingSteps
    BY <1>0, <1>5, <2>1, PublishStepMoves DEF PInv, PublishSteps, step
  <2> QED  BY <1>1, <1>5, <2>2, ReconcilesStay DEF PInv
<1>6. ASSUME NEW k \in Reconciles, OpenLibrary(k) \/ ReconcileStep(k) PROVE Patience'
  <2>1. \A q \in Runs : step(q)' \notin PreparingSteps
    BY <1>6, OthersFindNoRun, OthersLeaveRuns DEF PInv, step
  <2>2. \A q \in Reconciles : q # k => task'[q] = task[q]
    BY <1>0, <1>6 DEF OpenLibrary, ReconcileStep, ReconcileStarts, ReconcileReads,
       ReconcileRemoves, ReconcileIndexes, becomes, loads, finishes, TaskType, Tasks
  <2>3. \A q \in Reconciles : q # k => step(q) = "idle"
    <3>1. CASE OpenLibrary(k)  BY <3>1 DEF OpenLibrary, NothingToWaitFor, Patient
    <3>2. CASE ReconcileStep(k)
      BY <3>2 DEF ReconcileStep, ReconcileStarts, ReconcileReads, ReconcileRemoves,
         ReconcileIndexes, PInv, Patience
    <3> QED  BY <1>6, <3>1, <3>2
  <2> QED  BY <2>1, <2>2, <2>3 DEF Patience, step
<1>7. CASE DeleteAudio  BY <1>7 DEF DeleteAudio, PInv, Patience, step, copy
<1>8. CASE UNCHANGED vars
  BY <1>8 DEF vars, meetingVars, PInv, Patience, step, copy
<1> QED
  BY <1>2, <1>3, <1>4, <1>5, <1>6, <1>7, <1>8 DEF Next, UserStep, Patient

\* Only what changes the record's status or title, the index or a
\* reconciliation can disturb it.
LEMMA SearchKept ==
  ASSUME SearchFollows, UNCHANGED index, \A k \in Reconciles : task'[k] = task[k],
         IF record = None THEN record' = None
         ELSE /\ record' # None
              /\ record'.status = record.status /\ record'.title = record.title
  PROVE  SearchFollows'
BY DEF SearchFollows, Indexed, Processed, step, copy

\* A publish step leaves the record's status and title.
LEMMA PublishStepKeepsMeeting ==
  ASSUME IInv, NEW p \in Tasks, PublishStep(p)
  PROVE  IF record = None THEN record' = None
         ELSE /\ record' \in Sessions
              /\ record'.status = record.status /\ record'.title = record.title
<1>1. ASSUME record # None, record' # record
      PROVE  /\ record' \in Sessions
             /\ record'.status = record.status /\ record'.title = record.title
  <2>1. record \in Sessions /\ record' = [record EXCEPT !.base = copy(p).title]
    BY <1>1, PublishStepMoves DEF IInv, MeetingType
  <2>2. step(p) = "published" /\ copy(p).title \in Titles
    BY <1>1 DEF PublishStep, Extracted, ExtractedDeleted, WriteTranscript, WriteMain,
       VaultWriteFails, Published, meetingVars, IInv, TasksFit, Holds, Sessions
  <2> QED  BY <2>1, <2>2 DEF Sessions
<1> QED  BY <1>1, PublishStepMoves DEF IInv, MeetingType

\* Every step keeps the index right or on its way to be.
LEMMA SearchStep ==
  ASSUME Patient, PInv, SearchFollows, [Next]_vars
  PROVE  SearchFollows'
<1>0. /\ task \in TaskType
      /\ \A k \in Reconciles : k \in Tasks /\ k \notin Runs
      /\ record \in Sessions \cup {None}
  BY TasksAssumption DEF PInv, IInv, TasksFit, MeetingType, Tasks
<1> USE DEF PreparingSteps
<1>1. ASSUME NEW p \in Runs, RunStep(p) PROVE SearchFollows'
  <2>1. /\ step(p) \in PreparingSteps /\ record # None
        /\ \A k \in Reconciles : step(k) = "idle" /\ step(k)' = "idle"
    BY <1>0, <1>1, RunStepMoves, ReconcilesStay DEF PInv, Patience, NotesStay, Tasks, step
  <2>2. Indexed  BY <2>1 DEF SearchFollows
  <2>3. SUFFICES Indexed'  BY <2>1 DEF SearchFollows
  <2>4. CASE UNCHANGED <<record, index>>  BY <2>2, <2>4 DEF Indexed, Processed
  <2>5. ASSUME NEW title \in Titles \cup {None}, TitleGenerated(p, title)
        PROVE  Indexed'
    <3>1. CASE title = None  BY <2>2, <2>5, <3>1 DEF TitleGenerated, Indexed, Processed
    <3>2. CASE title # None
      <4>1. record' \in Sessions /\ record'.title = title /\ record'.status = record.status
        BY <1>0, <2>1, <2>5, <3>2 DEF TitleGenerated, setTitle, Sessions
      <4>2. index' = IF index = None THEN None ELSE title
        BY <2>1, <2>5, <3>2 DEF TitleGenerated, setTitle
      <4>3. record.title # None  BY <1>0, <2>1, TitlesAssumption DEF Sessions
      <4> QED  BY <2>1, <2>2, <4>1, <4>2, <4>3, TitlesAssumption DEF Indexed, Processed
    <3> QED  BY <3>1, <3>2
  <2>6. CASE NotesWritten(p)
    BY <2>1, <2>6 DEF NotesWritten, Indexed, Processed, PInv, Patience
  <2>7. CASE NotesSaved(p)
    <3>1. copy(p) \in Sessions
      BY <2>7 DEF NotesSaved, PInv, IInv, TasksFit, Holds, Tasks
    <3>2. record' \in Sessions /\ record'.title = copy(p).title /\ index' = copy(p).title
      BY <2>7, <3>1 DEF NotesSaved, Sessions, PInv, Patience
    <3> QED  BY <3>2, TitlesAssumption DEF Indexed, Processed
  <2>8. CASE NotesUnwritten(p) \/ NotesNotSaved(p)
    BY <2>8 DEF NotesUnwritten, NotesNotSaved, Patient
  <2> QED
    BY <1>1, <2>4, <2>5, <2>6, <2>7, <2>8 DEF RunStep, SessionLoaded, ProduceFails,
       NotesProduced, NeedsTitle, meetingVars
<1>2. ASSUME NEW p \in Tasks, PublishStep(p) PROVE SearchFollows'
  <2>1. UNCHANGED index /\ \A k \in Reconciles : task'[k] = task[k]
    BY <1>2, PublishStepMoves, ReconcilesStay DEF PInv
  <2> QED  BY <1>2, <2>1, PublishStepKeepsMeeting, SearchKept, TitlesAssumption DEF PInv
<1>3. CASE \/ \E p \in Runs : Process(p)
           \/ \E r \in Renames : RenameTaskRuns(r)
           \/ DeleteAudio
  <2>1. UNCHANGED <<record, index>>
    BY <1>3 DEF Process, RenameTaskRuns, DeleteAudio, meetingVars
  <2> QED  BY <1>3, <2>1, ReconcilesStay, SearchKept DEF PInv
<1>4. ASSUME NEW r \in Renames, NEW title \in Titles, Rename(r, title) PROVE SearchFollows'
  <2>1. /\ record \in Sessions /\ record # None
        /\ \A k \in Reconciles : step(k) = "idle" /\ step(k)' = "idle"
    BY <1>0, <1>4, ReconcilesStay DEF Rename, UserMayAct, NothingToWaitFor, Patient, PInv, step
  <2>2. /\ record' \in Sessions /\ record'.title = title /\ record'.status = record.status
        /\ index' = IF index = None THEN None ELSE title
    BY <1>4, <2>1 DEF Rename, setTitle, Sessions
  <2>3. Indexed  BY <2>1 DEF SearchFollows
  <2>4. Indexed'
    BY <2>1, <2>2, <2>3, TitlesAssumption DEF Indexed, Processed, Sessions
  <2> QED  BY <2>1, <2>4 DEF SearchFollows
<1>5. CASE Delete
  <2>1. \A k \in Reconciles : step(k) = "idle" /\ step(k)' = "idle"
    BY <1>5, ReconcilesStay DEF Delete, UserMayAct, NothingToWaitFor, Patient, PInv, step
  <2> QED  BY <1>5, <2>1 DEF Delete, SearchFollows, Indexed
<1>6. ASSUME NEW k \in Reconciles, OpenLibrary(k) PROVE SearchFollows'
  <2>1. Indexed
    BY <1>6 DEF OpenLibrary, NothingToWaitFor, Patient, SearchFollows
  <2>2. /\ step(k)' = "queued" /\ UNCHANGED <<record, index>>
        /\ \A q \in Reconciles : q # k => step(q)' = "idle"
    BY <1>0, <1>6 DEF OpenLibrary, NothingToWaitFor, Patient, becomes, step, TaskType, meetingVars
  <2> QED  BY <2>1, <2>2 DEF SearchFollows, Indexed, Processed
<1>7. ASSUME NEW k \in Reconciles, ReconcileStep(k) PROVE SearchFollows'
  <2>0. /\ step(k) # "idle" /\ UNCHANGED record
        /\ \A q \in Reconciles : q # k => step(q) = "idle"
    BY <1>7 DEF ReconcileStep, ReconcileStarts, ReconcileReads, ReconcileRemoves,
       ReconcileIndexes, meetingVars, PInv, Patience
  <2>1. \A q \in Reconciles : q # k => step(q)' = "idle"
    BY <1>0, <1>7, <2>0 DEF ReconcileStep, ReconcileStarts, ReconcileReads,
       ReconcileRemoves, ReconcileIndexes, becomes, loads, finishes, TaskType, step
  <2>2. ASSUME finishes(k), Indexed' PROVE SearchFollows'
    <3>1. step(k)' = "idle"  BY <1>0, <2>2, FinishesMoves DEF Moves, step
    <3> QED  BY <2>1, <2>2, <3>1 DEF SearchFollows
  <2>3. CASE ReconcileStarts(k)
    <3> DEFINE found == IF Processed THEN record ELSE None
    <3>1. Moves(k, "reading", found, text(k))
      BY <1>0, <2>3, LoadsMoves DEF ReconcileStarts, Steps, Processed
    <3>2. UNCHANGED index /\ step(k) = "queued"  BY <2>3 DEF ReconcileStarts, meetingVars
    <3>3. step(k)' = "reading" /\ copy(k)' = found  BY <3>1 DEF Moves, step, copy
    <3> QED
      BY <2>0, <2>1, <3>2, <3>3 DEF SearchFollows, Processed
  <2>4. CASE ReconcileReads(k)
    <3>0. UNCHANGED index /\ step(k) = "reading"  BY <2>4 DEF ReconcileReads, meetingVars
    <3>1. CASE index # None /\ copy(k) = None
      <4>1. Moves(k, "removing", copy(k), text(k))
        BY <1>0, <2>4, <3>1, BecomesMoves DEF ReconcileReads, Steps
      <4>2. step(k)' = "removing"  BY <4>1 DEF Moves, step
      <4> QED  BY <2>0, <2>1, <3>0, <3>1, <4>2 DEF SearchFollows, Processed
    <3>2. CASE index = None /\ copy(k) # None
      <4>1. Moves(k, "indexing", copy(k), text(k))
        BY <1>0, <2>4, <3>2, BecomesMoves DEF ReconcileReads, Steps
      <4>2. step(k)' = "indexing" /\ copy(k)' = copy(k)  BY <4>1 DEF Moves, step, copy
      <4> QED  BY <2>0, <2>1, <3>0, <3>2, <4>2 DEF SearchFollows, Processed
    <3>3. CASE ~(index # None /\ copy(k) = None) /\ ~(index = None /\ copy(k) # None)
      <4>1. finishes(k)  BY <2>4, <3>3 DEF ReconcileReads
      <4>2. Indexed'
        BY <2>0, <3>0, <3>3 DEF SearchFollows, Indexed, Processed
      <4> QED  BY <2>2, <4>1, <4>2
    <3> QED  BY <3>1, <3>2, <3>3
  <2>5. CASE ReconcileRemoves(k)
    <3>1. Indexed'
      BY <2>0, <2>5 DEF ReconcileRemoves, SearchFollows, Indexed, Processed
    <3> QED  BY <2>2, <2>5, <3>1 DEF ReconcileRemoves
  <2>6. CASE ReconcileIndexes(k)
    <3>1. Indexed'
      BY <2>0, <2>6 DEF ReconcileIndexes, SearchFollows, Indexed, Processed
    <3> QED  BY <2>2, <2>6, <3>1 DEF ReconcileIndexes
  <2> QED  BY <1>7, <2>3, <2>4, <2>5, <2>6 DEF ReconcileStep
<1>8. CASE UNCHANGED vars
  BY <1>8 DEF vars, meetingVars, SearchFollows, Indexed, Processed, step, copy
<1> QED
  BY <1>1, <1>2, <1>3, <1>4, <1>5, <1>6, <1>7, <1>8 DEF Next, UserStep, Patient

\* A Task that has the session to publish, and has cleared the vault for it.
PastExtraction(p) == step(p) \in {"writing", "linked", "published"}

\* A publish is yet to read the record, or to be asked for.
ToBePublished ==
  \/ pending
  \/ \E r \in Renames : step(r) = "queued"
  \/ \E p \in Runs : step(p) \in {"saving", "written"}
  \/ \E p \in Tasks : step(p) = "extracting"

\* The vault has at most the pair of this title.
OnePair(title) == \A t \in Titles : vault[t] # NoNote => t = title

\* What is published, or on its way, has its notes.
PublishedIsOnDisk ==
  /\ \A p \in Tasks : step(p) \in PublishSteps \/ (p \in Renames /\ step(p) # "idle")
                         => OnDisk(record)
  /\ record.base # None => OnDisk(record)

\* The one pair in the vault is that of the Task at it, or of the base name;
\* its title is the record's, or there is a publish to come.
VaultFollows ==
  record # None =>
    /\ PublishedIsOnDisk
    /\ \A p \in Tasks : PastExtraction(p) =>
         /\ copy(p).title = record.title \/ ToBePublished
         /\ OnePair(copy(p).title)
         /\ step(p) = "published" => vault[copy(p).title] # NoNote
    /\ (\A p \in Tasks : ~PastExtraction(p)) =>
         /\ OnePair(record.base)
         /\ record.base # None =>
              /\ record.base = record.title \/ ToBePublished
              /\ vault[record.base] # NoNote

\* What leaves the record, the notes and the vault, and moves no Task to or from
\* a publish, or a publish to come, does not disturb it.
LEMMA VaultKept ==
  ASSUME VaultFollows, UNCHANGED <<record, notes, vault, pending>>,
         \A p \in Tasks : task'[p] # task[p] =>
           /\ p \notin Renames
           /\ step(p) \notin PublishSteps \cup {"saving", "written"}
           /\ step(p)' \notin PublishSteps
  PROVE  VaultFollows'
<1>1. \A p \in Tasks : step(p)' \in PublishSteps => task'[p] = task[p]
  OBVIOUS
<1>2. \A p \in Tasks : PastExtraction(p)' <=> PastExtraction(p)
  BY DEF PastExtraction, PublishSteps, step
<1>3. ToBePublished => ToBePublished'
  BY DEF ToBePublished, PublishSteps, step, Tasks
<1>4. PublishedIsOnDisk => PublishedIsOnDisk'
  BY DEF PublishedIsOnDisk, OnDisk, step
<1>5. \A p \in Tasks : PastExtraction(p) => task'[p] = task[p]
  BY DEF PastExtraction, PublishSteps
<1> QED
  BY <1>2, <1>3, <1>4, <1>5 DEF VaultFollows, OnePair, copy, step

\* A run leaves the vault alone: before it has saved what it knows, the record
\* is the one to be published, and after that it publishes.
LEMMA VaultFollowsRun ==
  ASSUME Patient, PInv, VaultFollows, NEW p \in Runs, RunStep(p)
  PROVE  VaultFollows'
<1>0. /\ task \in TaskType /\ p \in Tasks /\ p \notin Renames
      /\ text(p) \in 0..MaxRuns /\ \A q \in Renames : q \in Tasks
  BY TasksAssumption DEF PInv, IInv, TasksFit, TaskType, text, Tasks
<1>1. /\ step(p) \in PreparingSteps /\ record # None
      /\ \A q \in Tasks : q # p => task'[q] = task[q] /\ step(q) = "idle" /\ step(q)' = "idle"
  BY <1>0, Alone, RunStepMoves DEF PInv, NotesStay, step
<1>2. /\ \A q \in Tasks : ~PastExtraction(q)
      /\ ~pending
      /\ \A q \in Tasks : step(q) \notin PublishSteps
      /\ \A q \in Renames : step(q) = "idle" /\ step(q)' = "idle"
  BY <1>0, <1>1 DEF PastExtraction, PreparingSteps, PublishSteps, PInv, IInv, Admission
<1>3. /\ OnePair(record.base)
      /\ record.base # None => /\ OnDisk(record) /\ vault[record.base] # NoNote
                               /\ record.base = record.title \/ step(p) \in {"saving", "written"}
  <2>1. ToBePublished => step(p) \in {"saving", "written"}
    BY <1>1, <1>2 DEF ToBePublished, PublishSteps, Tasks
  <2> QED  BY <1>1, <1>2, <2>1 DEF VaultFollows, PublishedIsOnDisk
\* What the step has to establish.
<1>4. ASSUME UNCHANGED vault, record'.base = record.base,
             step(p)' \notin PublishSteps,
             record.base # None => OnDisk(record)',
             record.base # None => record'.base = record'.title \/ ToBePublished'
      PROVE  VaultFollows'
  <2>1. \A q \in Tasks : ~PastExtraction(q)' /\ step(q)' \notin PublishSteps
    BY <1>1, <1>4 DEF PastExtraction, PublishSteps
  <2>2. PublishedIsOnDisk'
    BY <1>2, <1>4, <2>1 DEF PublishedIsOnDisk
  <2> QED  BY <1>3, <1>4, <2>1, <2>2 DEF VaultFollows, OnePair
<1>5. CASE SessionLoaded(p) \/ NeedsTitle(p)
  <2>1. UNCHANGED <<record, notes, vault>> /\ step(p) \in {"queued", "producing"}
    BY <1>5 DEF SessionLoaded, NeedsTitle, meetingVars
  <2>2. step(p)' \in {"producing", "titling"}
    BY <1>0, <1>5 DEF SessionLoaded, NeedsTitle, loads, becomes, TaskType, step
  <2> QED  BY <1>3, <1>4, <2>1, <2>2 DEF OnDisk, PublishSteps
<1>6. CASE ProduceFails(p)
  <2>1. UNCHANGED <<record, notes, vault>> /\ step(p) \in {"queued", "producing"}
    BY <1>6 DEF ProduceFails, meetingVars
  <2>2. step(p)' = "idle"
    BY <1>0, <1>6, FinishesMoves DEF ProduceFails, runEnds, Moves, step
  <2> QED  BY <1>3, <1>4, <2>1, <2>2 DEF OnDisk, PublishSteps
<1>7. ASSUME apply(p), record' # None, UNCHANGED <<vault, notes>>,
             record'.base = record.base, record'.status = record.status
      PROVE  VaultFollows'
  <2>1. step(p)' = "saving"
    BY <1>0, <1>7 DEF apply, loads, TaskType, step
  <2>2. ToBePublished'  BY <2>1 DEF ToBePublished
  <2>3. record.base # None => OnDisk(record)'  BY <1>3, <1>7 DEF OnDisk
  <2> QED  BY <1>4, <1>7, <2>1, <2>2, <2>3 DEF PublishSteps
<1>8. CASE NotesProduced(p)
  BY <1>1, <1>7, <1>8 DEF NotesProduced, meetingVars
<1>9. ASSUME NEW title \in Titles \cup {None}, TitleGenerated(p, title)
      PROVE  VaultFollows'
  <2>1. record \in Sessions  BY <1>1 DEF PInv, IInv, MeetingType
  <2>2. /\ record' \in Sessions
        /\ record'.base = record.base /\ record'.status = record.status
    BY <1>1, <1>9, <2>1 DEF TitleGenerated, setTitle, Sessions
  <2> QED  BY <1>7, <1>9, <2>2, TitlesAssumption DEF TitleGenerated
<1>10. CASE NotesWritten(p)
  <2>1. step(p)' = "written" /\ UNCHANGED <<record, vault>>
    BY <1>0, <1>10 DEF NotesWritten, becomes, TaskType, step
  <2>2. notes' # 0  BY <1>0, <1>10 DEF NotesWritten, PInv, IInv, TasksFit, HasNotes
  <2>3. ToBePublished'  BY <2>1 DEF ToBePublished
  <2> QED  BY <1>3, <1>4, <2>1, <2>2, <2>3 DEF OnDisk, PublishSteps
<1>11. CASE NotesSaved(p)
  <2>1. Gate(p, text(p)) /\ ~publishing
    BY <1>2, <1>11 DEF NotesSaved, PInv, IInv, Admission
  <2>2. step(p)' = "extracting"
    BY <1>0, <2>1, PublishesMoves DEF Gate, Moves, step
  <2>3. copy(p) \in Sessions /\ copy(p).base = record.base /\ notes # 0
    BY <1>0, <1>11 DEF NotesSaved, PInv, IInv, TasksFit, Holds, Patience, NotesStay,
       PreparingSteps
  <2>4. /\ record' \in Sessions /\ record'.base = record.base /\ record'.status = "processed"
        /\ UNCHANGED <<notes, vault>>
    BY <1>11, <2>3 DEF NotesSaved, Sessions
  <2>5. OnDisk(record)'  BY <2>3, <2>4, TitlesAssumption DEF OnDisk
  <2>6. ToBePublished'  BY <1>0, <2>2 DEF ToBePublished
  <2>7. \A q \in Tasks : ~PastExtraction(q)'  BY <1>1, <2>2 DEF PastExtraction
  <2>8. PublishedIsOnDisk'  BY <2>5 DEF PublishedIsOnDisk
  <2> QED  BY <1>3, <2>4, <2>6, <2>7, <2>8 DEF VaultFollows, OnePair
<1>12. CASE NotesUnwritten(p) \/ NotesNotSaved(p)
  BY <1>12 DEF NotesUnwritten, NotesNotSaved, Patient
<1> QED
  BY <1>5, <1>6, <1>8, <1>9, <1>10, <1>11, <1>12 DEF RunStep

\* The extraction clears the vault for the title the record has, the writes put
\* the pair there, and the record gets its name; if the title was changed since
\* then, another publish follows.
LEMMA VaultFollowsPublish ==
  ASSUME Patient, PInv, VaultFollows, NEW p \in Tasks, PublishStep(p)
  PROVE  VaultFollows'
<1>0. /\ task \in TaskType /\ notes \in 0..MaxRuns
      /\ record \in Sessions \cup {None}
      /\ vault \in [Titles -> [main : 0..MaxRuns, transcript : 0..MaxRuns]]
      /\ step(p) # "extracting" => copy(p) \in Sessions
      /\ text(p) \in 0..MaxRuns /\ text(p) # 0
  <2>1. task \in TaskType /\ step(p) \in PublishSteps
    BY PublishStepMoves DEF PInv, IInv, TasksFit
  <2> QED
    BY <2>1 DEF PInv, IInv, TasksFit, MeetingType, Holds, HasNotes, PublishSteps, TaskType, text
<1>1. SUFFICES ASSUME record' # None PROVE VaultFollows'
  BY DEF VaultFollows
<1>2. /\ record \in Sessions /\ record # None /\ record' \in Sessions
      /\ record'.status = record.status /\ record'.title = record.title
      /\ UNCHANGED notes
  BY <1>0, <1>1, PublishStepKeepsMeeting, PublishStepMoves DEF PInv
<1>3. /\ OnDisk(record) /\ OnDisk(record)'
      /\ step(p) \in PublishSteps
  BY <1>1, <1>2, PublishStepMoves DEF VaultFollows, PublishedIsOnDisk, OnDisk, PInv
<1>4. PublishedIsOnDisk'  BY <1>3 DEF PublishedIsOnDisk
<1>5. \A q \in Tasks : q # p => task'[q] = task[q] /\ step(q)' \notin PublishSteps
  BY <1>3, PublishStepMoves DEF PInv, IInv, Admission, step
<1>6. \A q \in Tasks : q # p => ~PastExtraction(q) /\ ~PastExtraction(q)'
  BY <1>5 DEF PastExtraction, PublishSteps, step
<1>7. CASE Extracted(p)
  <2>1. OnePair(record.base)
    BY <1>2, <1>6, <1>7 DEF VaultFollows, PastExtraction, Extracted
  <2>2. step(p)' = "writing" /\ copy(p)' = record /\ record' = record
    BY <1>0, <1>7 DEF Extracted, loads, TaskType, step, copy, meetingVars
  <2>3. OnePair(record.title)'
    BY <1>7, <2>1, <2>2 DEF Extracted, OnePair
  <2>4. OnePair(copy(p).title)'  BY <2>2, <2>3 DEF OnePair, copy
  <2> QED  BY <1>4, <1>6, <2>2, <2>4 DEF VaultFollows, PastExtraction
<1>8. CASE ExtractedDeleted(p)  BY <1>2, <1>8 DEF ExtractedDeleted
<1>9. CASE WriteTranscript(p) \/ WriteMain(p)
  <2>1. /\ PastExtraction(p) /\ UNCHANGED <<record, pending>>
        /\ copy(p)' = copy(p) /\ step(p)' \in {"linked", "published"}
        /\ step(p)' = "published" => WriteMain(p)
    BY <1>0, <1>9 DEF WriteTranscript, WriteMain, PastExtraction, becomes, TaskType, step,
       copy, meetingVars, registryVars
  <2>2. copy(p).title \in Titles /\ \A t \in Titles : t # copy(p).title => vault'[t] = vault[t]
    BY <1>0, <1>9 DEF WriteTranscript, WriteMain, Sessions
  <2>3. OnePair(copy(p).title)  BY <1>2, <2>1 DEF VaultFollows
  <2>4. OnePair(copy(p).title)'  BY <2>1, <2>2, <2>3 DEF OnePair
  <2>5. ASSUME WriteMain(p) PROVE vault'[copy(p).title] # NoNote
    BY <1>0, <2>2, <2>5 DEF WriteMain, NoNote
  <2>6. ToBePublished => ToBePublished'
    <3>1. step(p) \notin {"queued", "saving", "written", "extracting"}
      BY <2>1 DEF PastExtraction
    <3> QED  BY <1>5, <2>1, <3>1 DEF ToBePublished, step, Tasks
  <2>7. copy(p)'.title = record'.title \/ ToBePublished'
    BY <1>2, <2>1, <2>6 DEF VaultFollows
  <2> QED  BY <1>4, <1>6, <2>1, <2>4, <2>5, <2>7 DEF VaultFollows, PastExtraction
<1>10. CASE VaultWriteFails(p)  BY <1>10 DEF VaultWriteFails, Patient
<1>11. CASE Published(p)
  <2>1. /\ PastExtraction(p) /\ UNCHANGED vault /\ copy(p).title \in Titles
        /\ record' = [record EXCEPT !.base = copy(p).title]
    BY <1>0, <1>2, <1>11 DEF Published, PastExtraction, Sessions
  <2>2. record'.base = copy(p).title  BY <1>2, <2>1 DEF Sessions
  <2>3. OnePair(copy(p).title) /\ vault[copy(p).title] # NoNote
    BY <1>2, <1>11, <2>1 DEF VaultFollows, Published
  <2>4. copy(p).title = record.title \/ ToBePublished
    BY <1>2, <2>1 DEF VaultFollows
  <2>5. OnePair(record.base)'  BY <2>1, <2>2, <2>3 DEF OnePair
  <2>6. step(p)' \in {"idle", "extracting"}
    BY <1>0, <1>11, PublishesMoves, FinishesMoves DEF Published, Release, Moves, step
  <2>7. \A q \in Tasks : ~PastExtraction(q)'  BY <1>6, <2>6 DEF PastExtraction
  <2>8. record'.base = record'.title \/ ToBePublished'
    <3>1. CASE pending
      <4>1. step(p)' = "extracting"
        BY <1>0, <1>3, <1>11, <3>1, PublishesMoves DEF Published, Release, Moves, step, OnDisk
      <4> QED  BY <4>1 DEF ToBePublished
    <3>2. CASE ~pending
      <4>1. step(p) = "published"  BY <1>11 DEF Published
      <4>2. \A q \in Tasks : step(q) # "extracting"
        BY <1>5, <4>1 DEF PublishSteps, step
      <4>3. ToBePublished => ToBePublished'
        <5>1. \A q \in Renames : step(q) = "queued" => step(q)' = "queued"
          BY <1>5, <4>1 DEF step, Tasks
        <5>2. \A q \in Runs : step(q) \in {"saving", "written"} => step(q)' = step(q)
          BY <1>5, <4>1 DEF step, Tasks
        <5> QED  BY <3>2, <4>2, <5>1, <5>2 DEF ToBePublished
      <4> QED  BY <1>2, <2>2, <2>4, <4>3
    <3> QED  BY <3>1, <3>2
  <2> QED  BY <1>4, <2>1, <2>2, <2>3, <2>5, <2>7, <2>8 DEF VaultFollows
<1> QED  BY <1>7, <1>8, <1>9, <1>10, <1>11 DEF PublishStep

\* A rename of a published meeting has it published again.
LEMMA VaultFollowsRename ==
  ASSUME Patient, PInv, VaultFollows, NEW r \in Renames,
         RenameTaskRuns(r) \/ \E title \in Titles : Rename(r, title)
  PROVE  VaultFollows'
<1>0. /\ task \in TaskType /\ r \in Tasks /\ r \notin Runs
      /\ notes \in 0..MaxRuns /\ record \in Sessions \cup {None}
      /\ \A q \in Renames \cup Runs : q \in Tasks
  BY TasksAssumption DEF PInv, IInv, TasksFit, MeetingType, Tasks
<1>1. ASSUME NEW title \in Titles, Rename(r, title) PROVE VaultFollows'
  <2>1. /\ record \in Sessions /\ record # None /\ step(r) = "idle"
        /\ UNCHANGED <<notes, vault>>
    BY <1>0, <1>1 DEF Rename, UserMayAct
  <2>2. /\ record' \in Sessions /\ record'.base = record.base
        /\ record'.status = record.status
    BY <1>1, <2>1 DEF Rename, setTitle, Sessions
  <2>3. OnDisk(record)' <=> OnDisk(record)
    BY <2>1, <2>2, TitlesAssumption DEF OnDisk
  <2>4. CASE record.status = "processed"
    <3>1. OnDisk(record)  BY <2>1, <2>4 DEF OnDisk, PInv, NotesStay
    <3>2. step(r)' = "queued" /\ \A q \in Tasks : q # r => task'[q] = task[q]
      BY <1>0, <1>1, <2>4 DEF Rename, becomes, TaskType, step
    <3>3. ToBePublished'  BY <3>2 DEF ToBePublished
    <3>4. /\ \A q \in Tasks : PastExtraction(q)' <=> PastExtraction(q)
          /\ \A q \in Tasks : PastExtraction(q) => task'[q] = task[q]
      BY <2>1, <3>2 DEF PastExtraction, step
    <3>5. PublishedIsOnDisk'  BY <2>3, <3>1 DEF PublishedIsOnDisk
    <3> QED
      BY <2>1, <2>2, <3>3, <3>4, <3>5 DEF VaultFollows, OnePair, step, copy
  <2>5. CASE record.status # "processed"
    <3>1. ~OnDisk(record) /\ UNCHANGED task  BY <1>1, <2>5 DEF OnDisk, Rename
    <3>2. /\ \A q \in Tasks : step(q) \notin PublishSteps /\ ~PastExtraction(q)
          /\ record.base = None
      BY <2>1, <3>1 DEF VaultFollows, PublishedIsOnDisk, PastExtraction, PublishSteps
    <3>3. OnePair(record.base) /\ PublishedIsOnDisk
      BY <2>1, <3>2 DEF VaultFollows
    <3>4. PublishedIsOnDisk'  BY <2>2, <2>3, <3>1, <3>3 DEF PublishedIsOnDisk, step
    <3> QED
      BY <2>1, <2>2, <3>1, <3>2, <3>3, <3>4 DEF VaultFollows, OnePair, PastExtraction, step
  <2> QED  BY <2>4, <2>5
<1>2. CASE RenameTaskRuns(r)
  <2>1. step(r) = "queued" /\ UNCHANGED <<record, notes, vault>>
    BY <1>2 DEF RenameTaskRuns, meetingVars
  <2>2. SUFFICES ASSUME record # None PROVE VaultFollows'
    BY <2>1 DEF VaultFollows
  <2>3. OnDisk(record)  BY <1>0, <2>1, <2>2 DEF VaultFollows, PublishedIsOnDisk
  <2>4. Gate(r, notes)  BY <1>2, <2>3 DEF RenameTaskRuns, OnDisk
  <2>5. /\ \A q \in Tasks : q # r => task'[q] = task[q]
        /\ step(r)' \in {"idle", "extracting"}
        /\ pending' \/ step(r)' = "extracting"
    BY <1>0, <2>4, FinishesMoves, PublishesMoves DEF Gate, Moves, step
  <2>6. ToBePublished'  BY <1>0, <2>5 DEF ToBePublished
  <2>7. /\ \A q \in Tasks : PastExtraction(q)' <=> PastExtraction(q)
        /\ \A q \in Tasks : PastExtraction(q) => task'[q] = task[q]
    BY <2>1, <2>5 DEF PastExtraction, step
  <2>8. PublishedIsOnDisk'  BY <2>1, <2>3 DEF PublishedIsOnDisk, OnDisk
  <2> QED  BY <2>1, <2>6, <2>7, <2>8 DEF VaultFollows, OnePair, step, copy
<1> QED  BY <1>1, <1>2

\* The vault follows the record through every step.
LEMMA VaultStep ==
  ASSUME Patient, PInv, VaultFollows, [Next]_vars
  PROVE  VaultFollows'
<1>0. /\ task \in TaskType
      /\ \A k \in Reconciles : k \in Tasks /\ k \notin Renames /\ k \notin Runs /\ k \notin Backfills
      /\ \A p \in Runs : p \in Tasks /\ p \notin Renames
  BY TasksAssumption DEF PInv, IInv, TasksFit, Tasks
<1>1. ASSUME NEW p \in Runs, Process(p) PROVE VaultFollows'
  <2>1. /\ UNCHANGED <<record, notes, vault, pending>>
        /\ step(p) = "idle" /\ step(p)' = "queued"
        /\ \A q \in Tasks : q # p => task'[q] = task[q]
    BY <1>0, <1>1 DEF Process, TaskType, step, meetingVars
  <2> QED  BY <1>0, <2>1, VaultKept DEF PublishSteps
<1>2. ASSUME NEW k \in Reconciles, OpenLibrary(k) \/ ReconcileStep(k) PROVE VaultFollows'
  <2>1. UNCHANGED <<record, notes, vault, pending>>
    BY <1>2 DEF OpenLibrary, ReconcileStep, ReconcileStarts, ReconcileReads,
       ReconcileRemoves, ReconcileIndexes, meetingVars, registryVars
  <2>2. step(k) \in {"idle", "queued", "reading", "removing", "indexing"}
    BY <1>0 DEF PInv, IInv, TasksFit, StepsOf
  <2>3. /\ \A q \in Tasks : q # k => task'[q] = task[q]
        /\ step(k)' \in {"idle", "queued", "reading", "removing", "indexing"}
    <3>1. \A s, c : becomes(k, s) \/ loads(k, s, c) =>
                      step(k)' = s /\ \A q \in Tasks : q # k => task'[q] = task[q]
      BY <1>0 DEF TaskType, becomes, loads, step
    <3>2. finishes(k) => step(k)' = "idle" /\ \A q \in Tasks : q # k => task'[q] = task[q]
      BY <1>0, FinishesMoves DEF Moves, step
    <3> QED
      BY <1>2, <3>1, <3>2 DEF OpenLibrary, ReconcileStep, ReconcileStarts, ReconcileReads,
         ReconcileRemoves, ReconcileIndexes
  <2> QED  BY <1>0, <2>1, <2>2, <2>3, VaultKept DEF PublishSteps
<1>3. CASE Delete  BY <1>3 DEF Delete, VaultFollows
<1>4. CASE DeleteAudio \/ UNCHANGED vars
  BY <1>4, VaultKept DEF DeleteAudio, vars, meetingVars, registryVars
<1> QED
  BY <1>1, <1>2, <1>3, <1>4, VaultFollowsRun, VaultFollowsPublish, VaultFollowsRename
     DEF Next, UserStep, Patient

\* At rest the vault has one pair of notes of a published meeting, under the
\* title it has, and the search index its row (AppState.swift:95-98,
\* SearchStore.swift:277): a rename or a reconciliation that raced a publish or a
\* process run never leaves either behind, for any number of Tasks and titles.
THEOREM Converges ==
  ASSUME Patient
  PROVE  Spec => []Converged
<1>1. ASSUME Init PROVE NotesStay /\ Patience /\ SearchFollows /\ VaultFollows
  <2>1. /\ \A t \in Titles : vault[t] = NoNote
        /\ ~pending
    BY <1>1 DEF Init
  <2>2. CASE NewMeeting
    <3>1. \A p \in Tasks : step(p) = "idle" /\ copy(p) = None
      BY <2>2 DEF NewMeeting, NoTask, step, copy
    <3>2. /\ record.status = "recorded" /\ record.base = None /\ record # None
          /\ index = None /\ audio
      BY <2>2, TitlesAssumption DEF NewMeeting, Sessions
    <3>3. \A q \in Runs \cup Renames \cup Reconciles : q \in Tasks  BY DEF Tasks
    <3>4. NotesStay
      BY <3>1, <3>2, <3>3 DEF NotesStay, NotesOrAudioRemain, PreparingSteps
    <3>5. Patience  BY <3>1, <3>3 DEF Patience, PreparingSteps
    <3>6. SearchFollows
      BY <3>1, <3>2, <3>3 DEF SearchFollows, Indexed, Processed
    <3>7. VaultFollows
      BY <2>1, <3>1, <3>2, <3>3
         DEF VaultFollows, PublishedIsOnDisk, OnePair, PastExtraction, PublishSteps
    <3> QED  BY <3>4, <3>5, <3>6, <3>7
  <2>3. CASE OlderMeeting
    <3>1. PICK title \in Titles, k \in Reconciles :
            /\ \/ /\ record = [status |-> "processed", title |-> title, base |-> None]
                  /\ notes = 1 /\ index = None /\ audio \in BOOLEAN
               \/ record = None /\ notes = 0 /\ index = title /\ audio = FALSE
            /\ task = [p \in Tasks |-> IF p = k THEN [NoTask EXCEPT !.step = "queued"]
                                                ELSE NoTask]
      BY <2>3 DEF OlderMeeting
    <3>2. /\ \A p \in Tasks : p # k => step(p) = "idle"
          /\ step(k) = "queued" /\ k \in Tasks
      BY <3>1 DEF NoTask, step, Tasks
    <3>3. /\ \A q \in Runs \cup Renames : q \in Tasks /\ step(q) = "idle"
          /\ \A q \in Reconciles : q \in Tasks
      BY <3>2, TasksAssumption DEF Tasks
    <3>4. record # None => /\ record.base = None /\ record.title = title
                           /\ record.status = "processed" /\ notes = 1 /\ index = None
      BY <3>1
    <3>5. NotesStay
      BY <3>3, <3>4 DEF NotesStay, NotesOrAudioRemain, OnDisk, PreparingSteps
    <3>6. Patience  BY <3>2, <3>3 DEF Patience, PreparingSteps
    <3>7. SearchFollows
      BY <3>2, <3>3, <3>4 DEF SearchFollows, Indexed, Processed
    <3>8. VaultFollows
      BY <2>1, <3>2, <3>3, <3>4
         DEF VaultFollows, PublishedIsOnDisk, OnePair, PastExtraction, PublishSteps
    <3> QED  BY <3>5, <3>6, <3>7, <3>8
  <2> QED  BY <1>1, <2>2, <2>3 DEF Init
<1>2. IInv /\ NotesStay /\ [Next]_vars => NotesStay'
  BY NotesStayStep DEF MeetingStays, Patient
<1>3. PInv /\ [Next]_vars => Patience'  BY PatienceStep
<1>4. PInv /\ SearchFollows /\ [Next]_vars => SearchFollows'  BY SearchStep
<1>5. PInv /\ VaultFollows /\ [Next]_vars => VaultFollows'  BY VaultStep
<1>6. ASSUME IInv, SearchFollows, VaultFollows PROVE Converged
  <2>1. SUFFICES ASSUME Quiescent PROVE Converged
    BY DEF Converged, VaultConverged, SearchFindsTitle
  <2>2. \A p \in Tasks : step(p) = "idle"  BY <2>1 DEF Quiescent
  <2>3. ~pending /\ ~ToBePublished
    BY <1>6, <2>2 DEF IInv, Admission, PublishSteps, ToBePublished, Tasks
  <2>4. ASSUME record # None, record.base # None
        PROVE  \A t \in Titles : (vault[t] # NoNote) <=> (t = record.title)
    BY <1>6, <2>2, <2>3, <2>4 DEF VaultFollows, PastExtraction, OnePair
  <2>5. Indexed  BY <1>6, <2>2 DEF SearchFollows, Tasks
  <2> QED
    BY <2>4, <2>5 DEF Converged, VaultConverged, SearchFindsTitle, Indexed, Processed
<1> QED  BY <1>1, <1>2, <1>3, <1>4, <1>5, <1>6, Invariance, PTL DEF Spec, PInv

=============================================================================
