---------------------------- MODULE SessionStore ----------------------------
(***************************************************************************)
(* SessionManager's store: one JSON file per session, the cache in front   *)
(* of them that every write maintains and a failed write drops, and the    *)
(* meeting folder of each session.  Every public operation that reads or   *)
(* writes a session is an action; stop() and applyProcessedText(), which   *)
(* await between their read and their write, are two.                      *)
(*                                                                         *)
(* AppState replaces its SessionManager when the output folder changes.    *)
(* The new one has a cache of its own over the same session files, and     *)
(* calls of the old one still come back (CONSTANT MaxManagers).            *)
(***************************************************************************)
EXTENDS Naturals

CONSTANTS
  Ids,           \* session ids, which are also file names
  Titles,
  MaxManagers,   \* bound: SessionManagers created in one run of the app
  WriteMayFail,  \* writing a session file may fail
  RemoveMayFail, \* removing a session file may fail
  Missing,       \* no such file, no such cache entry
  NotLoaded,     \* a cache that has not been filled
  NoCall         \* no call of this kind is in flight

Statuses == {"recording", "recorded", "processed", "failed"}
Records  == [status : Statuses, title : Titles]
Sessions == [Ids -> Records \cup {Missing}]
Managers == 1..MaxManagers

ASSUME ManagersAssumption == MaxManagers \in Nat \ {0}
ASSUME FaultsAssumption   == WriteMayFail \in BOOLEAN /\ RemoveMayFail \in BOOLEAN
ASSUME SentinelAssumption == /\ Missing \notin Records
                             /\ NotLoaded \notin Sessions
                             /\ NoCall \notin [id : Ids, session : Records]

VARIABLES
  file,        \* the session files
  folder,      \* whether a session's meeting folder exists
  cache,       \* each manager's sessionCache
  manager,     \* AppState.manager
  stopping,    \* the session a manager's stop() loaded and will save
  processing,  \* the session a manager's applyProcessedText() loaded
  listed       \* what the last read of all sessions answered

vars == <<file, folder, cache, manager, stopping, processing, listed>>

IsRecording(s) == s # Missing /\ s.status = "recording"

\* cachedSessions: the cache, or the files when it is not loaded.
cachedSessions(m) == IF cache[m] = NotLoaded THEN file ELSE cache[m]

\* listSessions, for every caller: the answer, which is the cache from now on.
Lists(m) == listed' = cachedSessions(m)

\* The cache c with the session of one id replaced, if it is loaded at all.
Refreshed(c, id, s) == IF c = NotLoaded THEN c ELSE [c EXCEPT ![id] = s]

\* Mutant: save writes the file and leaves the cache alone.
saveFileOnly(m, c, id, s) ==
  \/ /\ file' = [file EXCEPT ![id] = s]
     /\ cache' = [cache EXCEPT ![m] = c]
  \/ /\ WriteMayFail
     /\ UNCHANGED file
     /\ cache' = [cache EXCEPT ![m] = NotLoaded]

\* save, by a manager whose cache is c by now: a failure drops the cache.
save(m, c, id, s) ==
  \/ /\ file' = [file EXCEPT ![id] = s]
     /\ cache' = [cache EXCEPT ![m] = Refreshed(c, id, s)]
  \/ /\ WriteMayFail
     /\ UNCHANGED file
     /\ cache' = [cache EXCEPT ![m] = NotLoaded]

-----------------------------------------------------------------------------

\* listSessions, and every operation that only reads through it
\* (reclaimableAudioBytes, searchIndexDocuments, a start() or stop() refused).
ListSessions ==
  /\ Lists(manager)
  /\ cache' = [cache EXCEPT ![manager] = cachedSessions(manager)]
  /\ UNCHANGED <<file, folder, manager, stopping, processing>>

\* Mutant: a start does not look for a recording.
StartUnasked(id, title) ==
  /\ file[id] = Missing
  /\ Lists(manager)
  /\ folder' = [folder EXCEPT ![id] = TRUE]
  /\ save(manager, cachedSessions(manager), id, [status |-> "recording", title |-> title])
  /\ UNCHANGED <<manager, stopping, processing>>

\* start: the id is one that no file has; a failed save throws, and the folder
\* that was made for the recording is removed again.
Start(id, title) ==
  /\ file[id] = Missing
  /\ Lists(manager)
  /\ \A other \in Ids : ~IsRecording(listed'[other])
  /\ save(manager, cachedSessions(manager), id, [status |-> "recording", title |-> title])
  /\ folder' = [folder EXCEPT ![id] = (file' # file)]
  /\ UNCHANGED <<manager, stopping, processing>>

\* stop, up to its await: the active session, as the cache has it.
StopBegins(id) ==
  /\ Lists(manager)
  /\ IsRecording(listed'[id])
  /\ stopping[manager] = NoCall
  /\ stopping' = [stopping EXCEPT ![manager] = [id |-> id, session |-> listed'[id]]]
  /\ cache' = [cache EXCEPT ![manager] = cachedSessions(manager)]
  /\ UNCHANGED <<file, folder, manager, processing>>

\* stop, after its await.
StopEnds(m) ==
  /\ stopping[m] # NoCall
  /\ \E end \in {"recorded", "failed"} :
       save(m, cache[m], stopping[m].id, [stopping[m].session EXCEPT !.status = end])
  /\ stopping' = [stopping EXCEPT ![m] = NoCall]
  /\ UNCHANGED <<folder, manager, processing, listed>>

\* markFailed: a meeting that has its notes keeps them.
MarkFailed(id) ==
  /\ file[id] # Missing /\ file[id].status \in {"recording", "recorded"}
  /\ save(manager, cache[manager], id, [file[id] EXCEPT !.status = "failed"])
  /\ UNCHANGED <<folder, manager, stopping, processing, listed>>

\* setTitle; setObsidianBaseName writes another field in the same way.
SetTitle(id, title) ==
  /\ file[id] # Missing
  /\ save(manager, cache[manager], id, [file[id] EXCEPT !.title = title])
  /\ UNCHANGED <<folder, manager, stopping, processing, listed>>

\* applyProcessedText, up to its await.
ProcessBegins(id) ==
  /\ file[id] # Missing /\ ~IsRecording(file[id])
  /\ processing[manager] = NoCall
  /\ processing' = [processing EXCEPT ![manager] = [id |-> id, session |-> file[id]]]
  /\ cache' = [cache EXCEPT ![manager] = Refreshed(cache[manager], id, file[id])]
  /\ UNCHANGED <<file, folder, manager, stopping, listed>>

\* Mutant: a session whose processing failed gets a status of its own.
AfterFailureUnprocessed(s) == [s EXCEPT !.status = "unprocessed"]

\* The status of a session whose processing failed.
AfterFailure(s) ==
  [s EXCEPT !.status = IF s.status = "processed" THEN "processed" ELSE "failed"]

\* applyProcessedText, after its await: the notes were written, and the folder
\* with them, or not; when the save of a processed session fails, the error
\* path saves once more.
ProcessEnds(m) ==
  /\ processing[m] # NoCall
  /\ LET id == processing[m].id
         s  == processing[m].session
     IN \/ /\ save(m, cache[m], id, [s EXCEPT !.status = "processed"])
           /\ folder' = [folder EXCEPT ![id] = TRUE]
        \/ /\ save(m, cache[m], id, AfterFailure(s))
           /\ folder' \in {folder, [folder EXCEPT ![id] = TRUE]}
        \/ /\ WriteMayFail
           /\ save(m, NotLoaded, id, AfterFailure(s))
           /\ folder' = [folder EXCEPT ![id] = TRUE]
  /\ processing' = [processing EXCEPT ![m] = NoCall]
  /\ UNCHANGED <<manager, stopping, listed>>

\* delete: the folder, the file and the cache entry; a file that cannot be
\* removed stays, and nobody is told.
Delete(id) ==
  /\ file[id] # Missing /\ ~IsRecording(file[id])
  /\ folder' = [folder EXCEPT ![id] = FALSE]
  /\ file' \in {[file EXCEPT ![id] = Missing]} \cup (IF RemoveMayFail THEN {file} ELSE {})
  /\ cache' = [cache EXCEPT ![manager] = Refreshed(cache[manager], id, Missing)]
  /\ UNCHANGED <<manager, stopping, processing, listed>>

\* The user deletes a meeting's folder in the Finder.
FolderDeletedOutside(id) ==
  /\ folder[id]
  /\ folder' = [folder EXCEPT ![id] = FALSE]
  /\ UNCHANGED <<file, cache, manager, stopping, processing, listed>>

\* updateConfig with another output folder: a new manager, an empty cache.
NewManager ==
  /\ manager < MaxManagers
  /\ manager' = manager + 1
  /\ UNCHANGED <<file, folder, cache, stopping, processing, listed>>

\* purgeSessionsWithMissingFolders: the session files it sets out to remove.
purgedSessions == {id \in Ids : file[id] # Missing /\ ~IsRecording(file[id]) /\ ~folder[id]}

\* recoverInterruptedSessions: recorded when the audio file has bytes, else
\* failed; without its folder a recording has no audio file.
recoveredAs(id) == {"failed"} \cup (IF folder[id] THEN {"recorded"} ELSE {})

\* What the launch of the app leaves of a session file: purge, then recovery.
LaunchLeaves(id, s) ==
  \/ id \in purgedSessions /\ s = Missing
  \/ id \in purgedSessions /\ RemoveMayFail /\ s = file[id]
  \/ IsRecording(file[id]) /\ \E end \in recoveredAs(id) : s = [file[id] EXCEPT !.status = end]
  \/ IsRecording(file[id]) /\ WriteMayFail /\ s = file[id]
  \/ id \notin purgedSessions /\ ~IsRecording(file[id]) /\ s = file[id]

\* The process ends, at any point, and the app is launched again: everything
\* in memory is new, recoverInterruptedSessions runs, and the list is read.
\* A recovery that cannot save drops the cache, with what the purge took out.
Relaunch ==
  /\ file' \in [Ids -> Records \cup {Missing}]
  /\ \A id \in Ids : LaunchLeaves(id, file'[id])
  /\ listed' = IF \E id \in Ids : IsRecording(file'[id])
                 THEN file'
                 ELSE [id \in Ids |-> IF id \in purgedSessions THEN Missing ELSE file'[id]]
  /\ cache' = [m \in Managers |-> IF m = 1 THEN listed' ELSE NotLoaded]
  /\ manager' = 1
  /\ stopping' = [m \in Managers |-> NoCall]
  /\ processing' = [m \in Managers |-> NoCall]
  /\ UNCHANGED folder

Init ==
  /\ file = [id \in Ids |-> Missing]
  /\ folder = [id \in Ids |-> FALSE]
  /\ cache = [m \in Managers |-> NotLoaded]
  /\ manager = 1
  /\ stopping = [m \in Managers |-> NoCall]
  /\ processing = [m \in Managers |-> NoCall]
  /\ listed = file

Next ==
  \/ ListSessions
  \/ \E id \in Ids, title \in Titles : Start(id, title) \/ SetTitle(id, title)
  \/ \E id \in Ids : \/ StopBegins(id) \/ MarkFailed(id) \/ ProcessBegins(id)
                     \/ Delete(id) \/ FolderDeletedOutside(id)
  \/ \E m \in Managers : StopEnds(m) \/ ProcessEnds(m)
  \/ NewManager
  \/ Relaunch

Spec == Init /\ [][Next]_vars

-----------------------------------------------------------------------------

TypeOK ==
  /\ file \in Sessions
  /\ folder \in [Ids -> BOOLEAN]
  /\ cache \in [Managers -> Sessions \cup {NotLoaded}]
  /\ manager \in Managers
  /\ stopping \in [Managers -> [id : Ids, session : Records] \cup {NoCall}]
  /\ processing \in [Managers -> [id : Ids, session : Records] \cup {NoCall}]
  /\ listed \in Sessions

\* "Source of truth stays the JSON files; every write path maintains it"
\* (SessionManager.swift:12-13): the cache that reads use, once loaded, is
\* what the files say, also after failed writes and across awaits.
CacheCoherent == cache[manager] # NotLoaded => cache[manager] = file

\* A file that could not be removed makes the cache and the files disagree in
\* one way only: the cache forgot a session whose folder is gone and that is
\* not recording, which is what the purge of the next launch looks for.
OnlyGhostsDiffer ==
  cache[manager] # NotLoaded =>
    \A id \in Ids :
      \/ cache[manager][id] = file[id]
      \/ /\ cache[manager][id] = Missing
         /\ ~folder[id]
         /\ ~IsRecording(file[id])

\* At most one session file says recording, which start() makes sure of by
\* asking a cache: also when the manager was replaced and its cache is stale,
\* it knows the recording there is.
OneRecordingFile ==
  /\ \A a, b \in Ids : IsRecording(file[a]) /\ IsRecording(file[b]) => a = b
  /\ cache[manager] # NotLoaded =>
       \A id \in Ids : IsRecording(file[id]) => IsRecording(cache[manager][id])

\* The store implements the map it stands for: reads answer the files as they
\* are, and the guards of start() and delete() hold of the files, although
\* they are evaluated on the cache.
Catalog == INSTANCE SessionCatalog WITH catalog <- file
ImplementsCatalog == Catalog!Spec

=============================================================================
