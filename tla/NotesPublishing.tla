-------------------------- MODULE NotesPublishing --------------------------
(***************************************************************************)
(* One meeting between its recording and the Obsidian vault: process(id:)  *)
(* and applyProcessedText, renames and deletes while that runs, and the    *)
(* publishes that the process Task, rename Tasks and the backfill Task     *)
(* compete for.  ProcessingRegistry admits one process run and one publish *)
(* per meeting; a publish that is refused leaves a mark to run once more.  *)
(* Opening the library reconciles the search index with the sessions.      *)
(*                                                                         *)
(* Every action but the detached writes runs on the main actor, from one   *)
(* await to the next.  Note contents are abstracted to the number of the   *)
(* run that made them (0: no file), names of vault notes to titles.        *)
(***************************************************************************)
EXTENDS Naturals, FiniteSets

CONSTANTS
  Titles,
  Placeholder,   \* the title of a meeting nobody has named
  MaxRuns,       \* bound: process runs, which number the notes
  Runs,          \* process Tasks
  Renames,       \* rename Tasks
  Backfills,     \* the backfill Task, if there is one
  Reconciles,    \* Tasks that reconcile the search index
  WritesMayFail, \* writing notes, a record or a vault note may fail
  UserWaits,     \* the user does not rename or delete a meeting, or open the library,
                 \* while its notes are made; nor has them made while a rename is
                 \* being published, nor does anything while the index is reconciled
  UserDeletes,   \* the user may delete the meeting
  None

Tasks == Runs \cup Renames \cup Backfills \cup Reconciles

Sessions == [status : {"recorded", "processed", "failed"}, title : Titles,
             base : Titles \cup {None}]

ASSUME TitlesAssumption == Placeholder \in Titles /\ None \notin Titles \cup Sessions
ASSUME RunsAssumption   == MaxRuns \in Nat \ {0}
ASSUME TasksAssumption  == /\ Runs \cap Renames = {}
                           /\ Runs \cap Backfills = {}
                           /\ Renames \cap Backfills = {}
                           /\ Reconciles \cap (Runs \cup Renames \cup Backfills) = {}
ASSUME FlagsAssumption  == {WritesMayFail, UserWaits, UserDeletes} \subseteq BOOLEAN

VARIABLES
  record,      \* the session: status, title, obsidianBaseName; None once deleted
  notes,       \* the transcript and notes on disk
  index,       \* the title in the search index, or None
  audio,       \* the recording is on disk
  vault,       \* per title, the main note and the transcript note
  processing,  \* processingIDs holds the meeting
  visible,     \* visibleProcessingIDs holds it
  publishing,  \* publishingIDs holds it
  pending,     \* pendingRepublishIDs holds it
  task,        \* where each Task is, the session it loaded, the notes it has in hand
  runs         \* process runs so far

meetingVars  == <<record, notes, index, audio>>
registryVars == <<processing, visible, publishing, pending>>
vars == <<meetingVars, vault, registryVars, task, runs>>

NoTask == [step |-> "idle", copy |-> None, text |-> 0]

step(p) == task[p].step
copy(p) == task[p].copy
text(p) == task[p].text

becomes(p, next) == task' = [task EXCEPT ![p].step = next]
loads(p, next, session) == task' = [task EXCEPT ![p].step = next, ![p].copy = session]
finishes(p) == task' = [task EXCEPT ![p] = NoTask]
publishes(p, version) ==
  task' = [task EXCEPT ![p] = [step |-> "extracting", copy |-> None, text |-> version]]

\* The notes of a run are not saved yet.
Preparing(p) == step(p) \in {"queued", "producing", "titling", "saving", "written",
                             "unwritten"}

\* Nothing is going on that a patient user would wait for.
NothingToWaitFor ==
  UserWaits => /\ ~\E p \in Runs : Preparing(p)
               /\ \A k \in Reconciles : step(k) = "idle"

\* The user may act on the meeting now.
UserMayAct == record # None /\ NothingToWaitFor

-----------------------------------------------------------------------------
\* Publishing.

\* Mutant: the publish is admitted whatever is in flight.
GateOpen(p, version) ==
  /\ publishing' = TRUE
  /\ publishes(p, version)
  /\ UNCHANGED <<processing, pending>>

\* Mutant: a refused publish is forgotten.
GateForgets(p, version) ==
  IF publishing
    THEN /\ finishes(p)
         /\ processing' = (processing /\ p \notin Runs)
         /\ UNCHANGED <<publishing, pending>>
    ELSE /\ publishing' = TRUE
         /\ publishes(p, version)
         /\ UNCHANGED <<processing, pending>>

\* publishToObsidianIfEnabled up to its first await: admitted, or remembered
\* as pending, after which the Task is over and a run ends (endProcess).
Gate(p, version) ==
  IF publishing
    THEN /\ pending' = TRUE
         /\ finishes(p)
         /\ processing' = (processing /\ p \notin Runs)
         /\ UNCHANGED publishing
    ELSE /\ publishing' = TRUE
         /\ publishes(p, version)
         /\ UNCHANGED <<processing, pending>>

\* The record has transcriptPath and notePath, which processing has set, and
\* the files are there.
OnDisk(session) == session # None /\ session.status = "processed" /\ notes # 0

\* endPublish, then the drain of a pending republish, with the notes that are
\* on disk by now; when there are none the Task is over.
Release(p) ==
  IF pending /\ OnDisk(record')
    THEN /\ pending' = FALSE
         /\ publishes(p, notes)
         /\ UNCHANGED <<processing, publishing>>
    ELSE /\ publishing' = FALSE
         /\ pending' = FALSE
         /\ finishes(p)
         /\ processing' = (processing /\ p \notin Runs)

NoNote == [main |-> 0, transcript |-> 0]

\* publishOnce after the extraction: the session is loaded again, and the pair
\* published under another name is removed.
Extracted(p) ==
  /\ step(p) = "extracting"
  /\ record # None
  /\ loads(p, "writing", record)
  /\ vault' = [t \in Titles |->
                 IF t = record.base /\ t # record.title THEN NoNote ELSE vault[t]]
  /\ UNCHANGED <<meetingVars, registryVars, runs>>

\* The meeting was deleted while the extraction ran.
ExtractedDeleted(p) ==
  /\ step(p) = "extracting"
  /\ record = None
  /\ UNCHANGED <<meetingVars, vault, visible, runs>>
  /\ Release(p)

\* Mutant: the main note is written first.
WriteMainFirst(p) ==
  /\ step(p) = "writing"
  /\ vault' = [vault EXCEPT ![copy(p).title].main = text(p)]
  /\ becomes(p, "linked")
  /\ UNCHANGED <<meetingVars, registryVars, runs>>

\* ObsidianVaultFiles.write, detached: the transcript, which the main note
\* links to...
WriteTranscript(p) ==
  /\ step(p) = "writing"
  /\ vault' = [vault EXCEPT ![copy(p).title].transcript = text(p)]
  /\ becomes(p, "linked")
  /\ UNCHANGED <<meetingVars, registryVars, runs>>

\* ...then the main note.
WriteMain(p) ==
  /\ step(p) = "linked"
  /\ vault' = [vault EXCEPT ![copy(p).title].main = text(p)]
  /\ becomes(p, "published")
  /\ UNCHANGED <<meetingVars, registryVars, runs>>

VaultWriteFails(p) ==
  /\ WritesMayFail
  /\ step(p) \in {"writing", "linked"}
  /\ UNCHANGED <<meetingVars, vault, visible, runs>>
  /\ Release(p)

\* setObsidianBaseName, which loads the session itself, and the release.
Published(p) ==
  /\ step(p) = "published"
  /\ record' = IF record = None THEN None ELSE [record EXCEPT !.base = copy(p).title]
  /\ UNCHANGED <<notes, index, audio, vault, visible, runs>>
  /\ Release(p)

-----------------------------------------------------------------------------
\* Processing.

\* process(id:): admitted by beginProcess, or ignored.
Process(p) ==
  /\ record # None
  /\ UserWaits => \A r \in Tasks \ Runs : step(r) = "idle"
  /\ ~processing
  /\ step(p) = "idle"
  /\ runs < MaxRuns
  /\ runs' = runs + 1
  /\ processing' = TRUE /\ visible' = TRUE
  /\ task' = [task EXCEPT ![p].step = "queued", ![p].text = runs + 1]
  /\ UNCHANGED <<meetingVars, vault, publishing, pending>>

\* Mutant: a run that failed is over, but its admission stays.
runEndsHeld(p) ==
  /\ visible' = FALSE
  /\ finishes(p)
  /\ UNCHANGED <<processing, publishing, pending>>

\* markNotesReady and endProcess, with nothing to publish in between.
runEnds(p) ==
  /\ visible' = FALSE /\ processing' = FALSE
  /\ finishes(p)
  /\ UNCHANGED <<publishing, pending>>

SessionLoaded(p) ==
  /\ step(p) = "queued"
  /\ record # None
  /\ loads(p, "producing", record)
  /\ UNCHANGED <<meetingVars, vault, registryVars, runs>>

\* No session, or transcription or summarization threw.
ProduceFails(p) ==
  /\ \/ step(p) = "producing"
     \/ step(p) = "queued" /\ record = None
  /\ runEnds(p)
  /\ UNCHANGED <<meetingVars, vault, runs>>

\* applyProcessedText up to its await; it throws when there is no session.
apply(p) ==
  IF record' = None
    THEN runEnds(p)
    ELSE /\ loads(p, "saving", record')
         /\ UNCHANGED registryVars

NotesProduced(p) ==
  /\ step(p) = "producing"
  /\ copy(p).title # Placeholder
  /\ UNCHANGED <<meetingVars, vault, runs>>
  /\ apply(p)

\* needsAutoTitle asks the session loaded before the notes were produced.
NeedsTitle(p) ==
  /\ step(p) = "producing"
  /\ copy(p).title = Placeholder
  /\ becomes(p, "titling")
  /\ UNCHANGED <<meetingVars, vault, registryVars, runs>>

\* setTitle on the record and, when the meeting is in it, the search index.
setTitle(title) ==
  IF record = None
    THEN UNCHANGED <<record, index>>
    ELSE /\ record' = [record EXCEPT !.title = title]
         /\ index' = IF index = None THEN None ELSE title

\* A title was generated, or none was.
TitleGenerated(p, title) ==
  /\ step(p) = "titling"
  /\ title # Placeholder
  /\ IF title = None THEN UNCHANGED <<record, index>> ELSE setTitle(title)
  /\ UNCHANGED <<notes, audio, vault, runs>>
  /\ apply(p)

\* The detached Task of applyProcessedText: the files, then the index, which
\* gets the title of the copy.
NotesWritten(p) ==
  /\ step(p) = "saving"
  /\ notes' = text(p)
  /\ index' = copy(p).title
  /\ becomes(p, "written")
  /\ UNCHANGED <<record, audio, vault, registryVars, runs>>

NotesUnwritten(p) ==
  /\ WritesMayFail
  /\ step(p) = "saving"
  /\ becomes(p, "unwritten")
  /\ UNCHANGED <<meetingVars, vault, registryVars, runs>>

\* The copy is saved as processed, and purgeExpiredAudio removes the recording
\* if it is old enough; the notes are ready and get published.
NotesSaved(p) ==
  /\ step(p) = "written"
  /\ record' = [copy(p) EXCEPT !.status = "processed"]
  /\ audio' \in {audio, FALSE}
  /\ visible' = FALSE
  /\ UNCHANGED <<notes, index, vault, runs>>
  /\ Gate(p, text(p))

\* Mutant: a failed re-process marks a meeting that has its notes as failed.
NotesNotSavedFailed(p) ==
  /\ WritesMayFail
  /\ step(p) \in {"written", "unwritten"}
  /\ \/ record' = [copy(p) EXCEPT !.status = "failed"]
     \/ UNCHANGED record
  /\ runEnds(p)
  /\ UNCHANGED <<notes, index, audio, vault, runs>>

\* The error path, when the notes or the record could not be written, saves the
\* copy, too, if it can: a processed meeting stays processed.
NotesNotSaved(p) ==
  /\ WritesMayFail
  /\ step(p) \in {"written", "unwritten"}
  /\ \/ record' = [copy(p) EXCEPT !.status = IF @ = "processed" THEN @ ELSE "failed"]
     \/ UNCHANGED record
  /\ runEnds(p)
  /\ UNCHANGED <<notes, index, audio, vault, runs>>

-----------------------------------------------------------------------------
\* The user.

\* renameMeeting: a processed meeting is published again, in a Task.
Rename(r, title) ==
  /\ UserMayAct
  /\ step(r) = "idle"
  /\ setTitle(title)
  /\ IF record.status = "processed" THEN becomes(r, "queued") ELSE UNCHANGED task
  /\ UNCHANGED <<notes, audio, vault, registryVars, runs>>

RenameTaskRuns(r) ==
  /\ step(r) = "queued"
  /\ IF notes = 0
       THEN finishes(r) /\ UNCHANGED registryVars
       ELSE Gate(r, notes) /\ UNCHANGED visible
  /\ UNCHANGED <<meetingVars, vault, runs>>

\* deleteMeeting; the vault is left alone.
Delete ==
  /\ UserDeletes
  /\ UserMayAct
  /\ record' = None /\ notes' = 0 /\ index' = None /\ audio' = FALSE
  /\ UNCHANGED <<vault, registryVars, task, runs>>

\* deleteAudio and freeUpAllAudio, and the purge after launch.
DeleteAudio ==
  /\ record # None /\ record.status = "processed"
  /\ audio' = FALSE
  /\ UNCHANGED <<record, notes, index, vault, registryVars, task, runs>>

\* publishAllToObsidian takes the session as it is now...
Backfill(b) ==
  /\ step(b) = "idle"
  /\ record # None /\ record.status = "processed"
  /\ loads(b, "queued", record)
  /\ UNCHANGED <<meetingVars, vault, registryVars, runs>>

\* ...checkBackfillFiles, detached, looks whether that one is published and
\* reads its notes...
BackfillChecks(b) ==
  /\ step(b) = "queued"
  /\ LET done == copy(b).base = copy(b).title /\ vault[copy(b).title].main # 0
     IN IF done \/ notes = 0
          THEN finishes(b)
          ELSE task' = [task EXCEPT ![b] = [step |-> "checked", copy |-> None, text |-> notes]]
  /\ UNCHANGED <<meetingVars, vault, registryVars, runs>>

\* ...and back on the main actor it is published.
BackfillPublishes(b) ==
  /\ step(b) = "checked"
  /\ Gate(b, text(b))
  /\ UNCHANGED <<meetingVars, vault, visible, runs>>

-----------------------------------------------------------------------------
\* The search index.

\* openLibrary queues reconcileSearchIndex...
OpenLibrary(k) ==
  /\ NothingToWaitFor
  /\ step(k) = "idle"
  /\ becomes(k, "queued")
  /\ UNCHANGED <<meetingVars, vault, registryVars, runs>>

\* ...which takes the processed sessions as they are now...
ReconcileStarts(k) ==
  /\ step(k) = "queued"
  /\ loads(k, "reading",
           IF record # None /\ record.status = "processed" THEN record ELSE None)
  /\ UNCHANGED <<meetingVars, vault, registryVars, runs>>

\* ...and, detached, asks which rows there are: a meeting that is in both is
\* left alone, whatever its row says.
ReconcileReads(k) ==
  /\ step(k) = "reading"
  /\ CASE index # None /\ copy(k) = None -> becomes(k, "removing")
       [] index = None /\ copy(k) # None -> becomes(k, "indexing")
       [] OTHER -> finishes(k)
  /\ UNCHANGED <<meetingVars, vault, registryVars, runs>>

\* The row of a meeting that was not among the processed ones is removed.
ReconcileRemoves(k) ==
  /\ step(k) = "removing"
  /\ index' = None
  /\ finishes(k)
  /\ UNCHANGED <<record, notes, audio, vault, registryVars, runs>>

\* A meeting without a row gets one, with the title it had.
ReconcileIndexes(k) ==
  /\ step(k) = "indexing"
  /\ index' = copy(k).title
  /\ finishes(k)
  /\ UNCHANGED <<record, notes, audio, vault, registryVars, runs>>

-----------------------------------------------------------------------------

NewMeeting ==
  /\ \E title \in Titles :
       record = [status |-> "recorded", title |-> title, base |-> None]
  /\ notes = 0 /\ index = None /\ audio = TRUE /\ runs = 0
  /\ task = [p \in Tasks |-> NoTask]

\* A processed meeting whose row an index started afresh does not have, or a row
\* that a failed removal left, and the user opens the library.
OlderMeeting ==
  \E title \in Titles, k \in Reconciles :
    /\ \/ /\ record = [status |-> "processed", title |-> title, base |-> None]
          /\ notes = 1 /\ index = None /\ audio \in BOOLEAN
       \/ record = None /\ notes = 0 /\ index = title /\ audio = FALSE
    /\ runs = 1
    /\ task = [p \in Tasks |-> IF p = k THEN [NoTask EXCEPT !.step = "queued"]
                                        ELSE NoTask]

Init ==
  /\ NewMeeting \/ OlderMeeting
  /\ vault = [t \in Titles |-> NoNote]
  /\ processing = FALSE /\ visible = FALSE /\ publishing = FALSE /\ pending = FALSE

RunStep(p) ==
  \/ SessionLoaded(p) \/ ProduceFails(p) \/ NotesProduced(p) \/ NeedsTitle(p)
  \/ \E title \in Titles \cup {None} : TitleGenerated(p, title)
  \/ NotesWritten(p) \/ NotesUnwritten(p) \/ NotesSaved(p) \/ NotesNotSaved(p)

PublishStep(p) ==
  \/ Extracted(p) \/ ExtractedDeleted(p)
  \/ WriteTranscript(p) \/ WriteMain(p) \/ VaultWriteFails(p) \/ Published(p)

UserStep ==
  \/ \E p \in Runs : Process(p)
  \/ \E r \in Renames, title \in Titles : Rename(r, title)
  \/ \E b \in Backfills : Backfill(b)
  \/ \E k \in Reconciles : OpenLibrary(k)
  \/ Delete \/ DeleteAudio

ReconcileStep(k) ==
  ReconcileStarts(k) \/ ReconcileReads(k) \/ ReconcileRemoves(k) \/ ReconcileIndexes(k)

Next ==
  \/ UserStep
  \/ \E p \in Runs : RunStep(p)
  \/ \E r \in Renames : RenameTaskRuns(r)
  \/ \E b \in Backfills : BackfillChecks(b) \/ BackfillPublishes(b)
  \/ \E k \in Reconciles : ReconcileStep(k)
  \/ \E p \in Tasks : PublishStep(p)

Spec == Init /\ [][Next]_vars

\* Every Task goes on: the main actor serves it, and transcription, model
\* calls and file writes return, one way or the other.  The user need not act.
Fairness ==
  /\ \A p \in Runs : WF_vars(RunStep(p))
  /\ \A r \in Renames : WF_vars(RenameTaskRuns(r))
  /\ \A b \in Backfills : WF_vars(BackfillChecks(b) \/ BackfillPublishes(b))
  /\ \A k \in Reconciles : WF_vars(ReconcileStep(k))
  /\ \A p \in Tasks : WF_vars(PublishStep(p))

FairSpec == Spec /\ Fairness

-----------------------------------------------------------------------------

Steps == {"idle", "queued", "producing", "titling", "saving", "written", "unwritten",
          "checked", "reading", "removing", "indexing", "extracting", "writing", "linked", "published"}

TypeOK ==
  /\ record \in Sessions \cup {None}
  /\ notes \in 0..MaxRuns
  /\ index \in Titles \cup {None}
  /\ audio \in BOOLEAN
  /\ vault \in [Titles -> [main : 0..MaxRuns, transcript : 0..MaxRuns]]
  /\ processing \in BOOLEAN /\ visible \in BOOLEAN
  /\ publishing \in BOOLEAN /\ pending \in BOOLEAN
  /\ task \in [Tasks -> [step : Steps, copy : Sessions \cup {None}, text : 0..MaxRuns]]
  /\ runs \in 0..MaxRuns

Quiescent == \A p \in Tasks : step(p) = "idle"

\* A duplicate process(id:) is refused until the publish of the first is over:
\* without this "two runs could race on the same notes + vault files"
\* (AppState.swift:625-627).
OneRunPerMeeting ==
  \A p, q \in Runs : step(p) # "idle" /\ step(q) # "idle" => p = q

\* One Task at a time extracts for and writes to the meeting's vault notes.
Publishing(p) == step(p) \in {"extracting", "writing", "linked", "published"}

OneVaultWriter ==
  \A p, q \in Tasks : Publishing(p) /\ Publishing(q) => p = q

\* The spinner never outlives the admission, and nothing is left admitted or
\* pending when no Task is running.
NothingLeftAdmitted ==
  /\ visible => processing
  /\ Quiescent => ~processing /\ ~publishing /\ ~pending

\* What ProcessingRegistry and the two publish sets admit is true of the Tasks:
\* one run and one vault writer at a time, and nothing left behind.
AdmissionIsTrue ==
  TypeOK /\ OneRunPerMeeting /\ OneVaultWriter /\ NothingLeftAdmitted

\* "a partial failure never leaves a main note pointing at a transcript that
\* doesn't exist yet" (ObsidianVaultFiles.swift:30-32).
LinkTargetsExist ==
  \A t \in Titles : vault[t].main # 0 => vault[t].transcript # 0

\* The recording is only ever given up for notes that stay: a meeting "whose
\* audio was purged" can "still be re-processed" from its transcript, and shown
\* (AppState.swift:760-763), and a re-process that fails "must not hide notes that
\* are still intact on disk" (SessionManager.swift:226-227).
NotesOrAudioRemain == record # None /\ ~audio => OnDisk(record)

\* A rename that raced a publish "still converges the vault"
\* (AppState.swift:95-98): at rest a published meeting has one pair of notes,
\* under its title.
VaultConverged ==
  Quiescent /\ record # None /\ record.base # None
    => \A t \in Titles : (vault[t] # NoNote) <=> (t = record.title)

\* At rest a processed meeting is found under the title it has, and a deleted
\* one is not: reconcile makes "the index match `documents`"
\* (SearchStore.swift:277) without undoing what processing and renames wrote.
SearchFindsTitle ==
  Quiescent => IF record = None THEN index = None
               ELSE record.status = "processed" => index = record.title

\* At rest the vault and the search index show the meeting as it is.
Converged == VaultConverged /\ SearchFindsTitle

\* Auto-titling "never overwrites a real/user-set title" (AppState.swift:646-650).
UserTitleIsKept ==
  [][\A p \in Runs, title \in Titles :
       TitleGenerated(p, title) /\ record # None => record.title = Placeholder]_vars

\* A process run ends: a user who went on renaming for ever could keep it
\* draining the renames it raced.
UserRests == <>[][~UserStep]_vars
RunEnds   == UserRests => (processing ~> ~processing)

\* A publish that was dropped is made up for.
PendingIsDrained == pending ~> ~pending

\* Publishing comes to rest: neither an admission nor a dropped publish stays.
PublishingSettles == RunEnds /\ PendingIsDrained

=============================================================================
