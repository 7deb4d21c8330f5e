------------------------- MODULE SessionStoreProofs -------------------------
(***************************************************************************)
(* The cache in front of the session files, for any number of sessions and *)
(* titles, any interleaving of the calls that await, and writes that fail. *)
(* With one SessionManager the cache and the files differ in ghosts at     *)
(* most; when removals never fail they do not differ at all, and the store *)
(* implements SessionCatalog.                                              *)
(*                                                                         *)
(* With several managers there is still at most one recording file.        *)
(*                                                                         *)
(* The invariants are inductive with TypeOK (and FreshCaches): no action   *)
(* relies on anything but the cache it finds, because a failed save drops  *)
(* it.                                                                     *)
(***************************************************************************)
EXTENDS SessionStore, TLAPS

OneManager == MaxManagers = 1

-----------------------------------------------------------------------------

\* What save leaves behind: a session file as given or as it was, and a cache
\* that is dropped or holds exactly what was written.
LEMMA SaveLeaves ==
  ASSUME TypeOK, NEW m \in Managers, NEW c \in Sessions \cup {NotLoaded},
         NEW id \in Ids, NEW s \in Records, save(m, c, id, s)
  PROVE  /\ file' \in Sessions
         /\ cache' \in [Managers -> Sessions \cup {NotLoaded}]
         /\ file' = file \/ file' = [file EXCEPT ![id] = s]
         /\ \/ cache'[m] = NotLoaded
            \/ /\ c # NotLoaded
               /\ file' = [file EXCEPT ![id] = s]
               /\ cache'[m] = [c EXCEPT ![id] = s]
<1>1. CASE /\ file' = [file EXCEPT ![id] = s]
           /\ cache' = [cache EXCEPT ![m] = Refreshed(c, id, s)]
  <2>1. Refreshed(c, id, s) \in Sessions \cup {NotLoaded}  BY DEF Refreshed, Sessions
  <2>2. cache' \in [Managers -> Sessions \cup {NotLoaded}]  BY <1>1, <2>1 DEF TypeOK
  <2>3. file' \in Sessions  BY <1>1 DEF TypeOK, Sessions
  <2>4. cache'[m] = Refreshed(c, id, s)  BY <1>1 DEF TypeOK
  <2> QED  BY <1>1, <2>2, <2>3, <2>4 DEF Refreshed
<1>2. CASE file' = file /\ cache' = [cache EXCEPT ![m] = NotLoaded]
  BY <1>2 DEF TypeOK
<1> QED  BY <1>1, <1>2 DEF save

\* The cache that reads use is a map of sessions.
LEMMA CachedSessionsType ==
  ASSUME TypeOK
  PROVE  cachedSessions(manager) \in Sessions
BY DEF TypeOK, cachedSessions

\* Every step keeps the types.
LEMMA TypeStep ==
  ASSUME TypeOK, [Next]_vars
  PROVE  TypeOK'
<1> USE DEF TypeOK
<1>1. CASE ListSessions  BY <1>1, CachedSessionsType DEF ListSessions, Lists
<1>2. ASSUME NEW id \in Ids, NEW title \in Titles, Start(id, title) PROVE TypeOK'
  <2>1. [status |-> "recording", title |-> title] \in Records  BY DEF Records, Statuses
  <2> QED  BY <1>2, <2>1, CachedSessionsType, SaveLeaves DEF Start, Lists
<1>3. ASSUME NEW id \in Ids, NEW title \in Titles, SetTitle(id, title) PROVE TypeOK'
  <2>1. [file[id] EXCEPT !.title = title] \in Records
    BY <1>3 DEF SetTitle, Sessions, Records
  <2> QED  BY <1>3, <2>1, SaveLeaves DEF SetTitle
<1>4. ASSUME NEW id \in Ids, StopBegins(id) PROVE TypeOK'
  BY <1>4, CachedSessionsType DEF StopBegins, Lists, Sessions, IsRecording
<1>5. ASSUME NEW id \in Ids, MarkFailed(id) PROVE TypeOK'
  <2>1. [file[id] EXCEPT !.status = "failed"] \in Records
    BY <1>5 DEF MarkFailed, Sessions, Records, Statuses
  <2> QED  BY <1>5, <2>1, SaveLeaves DEF MarkFailed
<1>6. ASSUME NEW id \in Ids, ProcessBegins(id) PROVE TypeOK'
  BY <1>6 DEF ProcessBegins, Refreshed, Sessions
<1>7. ASSUME NEW id \in Ids, Delete(id) PROVE TypeOK'
  BY <1>7 DEF Delete, Refreshed, Sessions
<1>8. ASSUME NEW id \in Ids, FolderDeletedOutside(id) PROVE TypeOK'
  BY <1>8 DEF FolderDeletedOutside
<1>9. ASSUME NEW m \in Managers, StopEnds(m) PROVE TypeOK'
  <2>1. stopping[m].id \in Ids /\ stopping[m].session \in Records
    BY <1>9 DEF StopEnds
  <2>2. PICK end \in {"recorded", "failed"} :
          save(m, cache[m], stopping[m].id, [stopping[m].session EXCEPT !.status = end])
    BY <1>9 DEF StopEnds
  <2>3. [stopping[m].session EXCEPT !.status = end] \in Records
    BY <2>1 DEF Records, Statuses
  <2>4. file' \in Sessions /\ cache' \in [Managers -> Sessions \cup {NotLoaded}]
    BY <2>1, <2>2, <2>3, SaveLeaves
  <2> QED  BY <1>9, <2>4 DEF StopEnds
<1>10. ASSUME NEW m \in Managers, ProcessEnds(m) PROVE TypeOK'
  <2> DEFINE id == processing[m].id
             s  == processing[m].session
  <2>1. id \in Ids /\ s \in Records  BY <1>10 DEF ProcessEnds
  <2>2. [s EXCEPT !.status = "processed"] \in Records /\ AfterFailure(s) \in Records
    BY <2>1 DEF Records, Statuses, AfterFailure
  <2>3. \/ save(m, cache[m], id, [s EXCEPT !.status = "processed"])
        \/ save(m, cache[m], id, AfterFailure(s))
        \/ save(m, NotLoaded, id, AfterFailure(s))
    BY <1>10 DEF ProcessEnds
  <2>4. file' \in Sessions /\ cache' \in [Managers -> Sessions \cup {NotLoaded}]
    BY <2>1, <2>2, <2>3, SaveLeaves
  <2>5. folder' \in [Ids -> BOOLEAN]  BY <1>10, <2>1 DEF ProcessEnds
  <2> QED  BY <1>10, <2>4, <2>5 DEF ProcessEnds
<1>11. CASE NewManager
  BY <1>11, ManagersAssumption DEF NewManager, Managers
<1>12. CASE Relaunch
  <2>1. listed' \in Sessions
    BY <1>12 DEF Relaunch, Sessions
  <2> QED
    BY <1>12, <2>1, ManagersAssumption DEF Relaunch, Managers, Sessions
<1>13. CASE UNCHANGED vars  BY <1>13 DEF vars
<1> QED
  BY <1>1, <1>2, <1>3, <1>4, <1>5, <1>6, <1>7, <1>8, <1>9, <1>10, <1>11, <1>12,
     <1>13 DEF Next

\* A save leaves a cache that is dropped, or that differs from the files in
\* ghosts at most, when no other session's folder changes with it.
LEMMA SaveStep ==
  ASSUME OneManager, TypeOK, OnlyGhostsDiffer, manager' = 1,
         NEW c \in {cache[1], NotLoaded}, NEW id \in Ids, NEW s \in Records,
         save(1, c, id, s),
         \A other \in Ids : other # id => folder'[other] = folder[other]
  PROVE  OnlyGhostsDiffer'
<1>1. manager = 1 /\ 1 \in Managers  BY DEF OneManager, TypeOK, Managers
<1>2. c \in Sessions \cup {NotLoaded}  BY <1>1 DEF TypeOK
<1>3. CASE cache'[1] = NotLoaded  BY <1>3 DEF OnlyGhostsDiffer
<1>4. CASE /\ c # NotLoaded
           /\ file' = [file EXCEPT ![id] = s]
           /\ cache'[1] = [c EXCEPT ![id] = s]
  <2>1. c = cache[1] /\ cache[1] \in Sessions  BY <1>2, <1>4
  <2>2. cache'[1][id] = s /\ file'[id] = s  BY <1>4, <2>1 DEF TypeOK, Sessions
  <2>3. \A other \in Ids : other # id =>
          cache'[1][other] = cache[1][other] /\ file'[other] = file[other]
    BY <1>4, <2>1 DEF TypeOK, Sessions
  <2> QED  BY <1>1, <1>4, <2>1, <2>2, <2>3 DEF OnlyGhostsDiffer
<1> QED  BY <1>1, <1>2, <1>3, <1>4, SaveLeaves

\* A step of a single manager leaves a cache that is dropped, or that differs
\* from the files in ghosts at most.
LEMMA GhostStep ==
  ASSUME OneManager, TypeOK, OnlyGhostsDiffer, [Next]_vars
  PROVE  OnlyGhostsDiffer'
<1> USE DEF OnlyGhostsDiffer
<1>0. manager = 1 /\ Managers = {1} /\ manager' = 1
  BY TypeStep DEF OneManager, TypeOK, Managers
<1>a. cachedSessions(manager) \in Sessions  BY CachedSessionsType
<1>b. \A id \in Ids : \/ cachedSessions(manager)[id] = file[id]
                      \/ /\ cachedSessions(manager)[id] = Missing
                         /\ ~folder[id]
                         /\ ~IsRecording(file[id])
  BY DEF cachedSessions
<1>1. CASE ListSessions
  BY <1>1, <1>0, <1>a, <1>b DEF ListSessions, TypeOK
<1>2. ASSUME NEW id \in Ids, NEW title \in Titles, Start(id, title)
      PROVE  OnlyGhostsDiffer'
  <2>1. [status |-> "recording", title |-> title] \in Records  BY DEF Records, Statuses
  <2>2. \/ cache'[1] = NotLoaded
        \/ /\ file' = [file EXCEPT ![id] = [status |-> "recording", title |-> title]]
           /\ cache'[1] = [cachedSessions(1) EXCEPT ![id] = [status |-> "recording", title |-> title]]
    BY <1>2, <1>0, <1>a, <2>1, SaveLeaves DEF Start
  <2>3. \A other \in Ids : other # id => folder'[other] = folder[other]
    BY <1>2 DEF Start, TypeOK
  <2> QED  BY <1>0, <1>a, <1>b, <2>2, <2>3 DEF TypeOK, Sessions
<1>3. ASSUME NEW id \in Ids, NEW title \in Titles, SetTitle(id, title)
      PROVE  OnlyGhostsDiffer'
  <2>1. [file[id] EXCEPT !.title = title] \in Records
    BY <1>3 DEF SetTitle, Sessions, Records, TypeOK
  <2> QED  BY <1>3, <1>0, <2>1, SaveStep DEF SetTitle
<1>4. ASSUME NEW id \in Ids, StopBegins(id) PROVE OnlyGhostsDiffer'
  BY <1>4, <1>0, <1>a, <1>b DEF StopBegins, TypeOK
<1>5. ASSUME NEW id \in Ids, MarkFailed(id) PROVE OnlyGhostsDiffer'
  <2>1. [file[id] EXCEPT !.status = "failed"] \in Records
    BY <1>5 DEF MarkFailed, Sessions, Records, Statuses, TypeOK
  <2> QED  BY <1>5, <1>0, <2>1, SaveStep DEF MarkFailed
<1>6. ASSUME NEW id \in Ids, ProcessBegins(id) PROVE OnlyGhostsDiffer'
  BY <1>6, <1>0 DEF ProcessBegins, Refreshed, TypeOK, Sessions
<1>7. ASSUME NEW id \in Ids, Delete(id) PROVE OnlyGhostsDiffer'
  <2>1. cache'[1] = Refreshed(cache[1], id, Missing)
    BY <1>7, <1>0 DEF Delete, TypeOK
  <2>2. \A other \in Ids : other # id =>
          file'[other] = file[other] /\ folder'[other] = folder[other]
    BY <1>7 DEF Delete, TypeOK, Sessions
  <2>3. ~folder'[id] /\ ~IsRecording(file'[id])
    BY <1>7 DEF Delete, TypeOK, Sessions, IsRecording
  <2> QED  BY <1>0, <2>1, <2>2, <2>3 DEF Refreshed, TypeOK, Sessions, IsRecording
<1>8. ASSUME NEW id \in Ids, FolderDeletedOutside(id) PROVE OnlyGhostsDiffer'
  BY <1>8, <1>0 DEF FolderDeletedOutside, TypeOK
<1>9. ASSUME NEW m \in Managers, StopEnds(m) PROVE OnlyGhostsDiffer'
  <2>1. stopping[m].id \in Ids /\ stopping[m].session \in Records
    BY <1>9 DEF StopEnds, TypeOK
  <2>2. PICK end \in {"recorded", "failed"} :
          save(m, cache[m], stopping[m].id, [stopping[m].session EXCEPT !.status = end])
    BY <1>9 DEF StopEnds
  <2>3. [stopping[m].session EXCEPT !.status = end] \in Records
    BY <2>1 DEF Records, Statuses
  <2> QED  BY <1>9, <1>0, <2>1, <2>2, <2>3, SaveStep DEF StopEnds
<1>10. ASSUME NEW m \in Managers, ProcessEnds(m) PROVE OnlyGhostsDiffer'
  <2> DEFINE id == processing[m].id
             s  == processing[m].session
  <2>1. id \in Ids /\ s \in Records  BY <1>10 DEF ProcessEnds, TypeOK
  <2>2. [s EXCEPT !.status = "processed"] \in Records /\ AfterFailure(s) \in Records
    BY <2>1 DEF Records, Statuses, AfterFailure
  <2>3. \E r \in Records : \/ save(m, cache[m], id, r)
                           \/ save(m, NotLoaded, id, r)
    BY <1>10, <2>2 DEF ProcessEnds
  <2>4. \A other \in Ids : other # id => folder'[other] = folder[other]
    BY <1>10, <2>1 DEF ProcessEnds, TypeOK
  <2> QED  BY <1>0, <2>1, <2>3, <2>4, SaveStep
<1>11. CASE NewManager  BY <1>11, <1>0 DEF NewManager
<1>12. CASE Relaunch
  <2>1. \A id \in purgedSessions : /\ ~folder'[id]
                                   /\ ~IsRecording(file'[id])
    BY <1>12, SentinelAssumption DEF Relaunch, LaunchLeaves, purgedSessions, IsRecording
  <2>2. cache'[1] = listed'  BY <1>12, <1>0 DEF Relaunch
  <2> QED  BY <1>12, <1>0, <2>1, <2>2 DEF Relaunch, purgedSessions
<1>13. CASE UNCHANGED vars  BY <1>13 DEF vars
<1> QED
  BY <1>1, <1>2, <1>3, <1>4, <1>5, <1>6, <1>7, <1>8, <1>9, <1>10, <1>11, <1>12,
     <1>13 DEF Next

\* When removals do not fail either, the cache, if loaded, is what the files say.
LEMMA CoherentStep ==
  ASSUME OneManager, ~RemoveMayFail, TypeOK, CacheCoherent, [Next]_vars
  PROVE  CacheCoherent'
<1> USE DEF CacheCoherent
<1>0. manager = 1 /\ Managers = {1} /\ manager' = 1
  BY TypeStep DEF OneManager, TypeOK, Managers
<1>a. cachedSessions(manager) = file  BY DEF cachedSessions
<1>b. ASSUME NEW c \in {file, cache[1], NotLoaded}, NEW id \in Ids, NEW s \in Records,
             save(1, c, id, s)
      PROVE  CacheCoherent'
  <2>1. c \in Sessions \cup {NotLoaded} /\ 1 \in Managers  BY <1>0 DEF TypeOK
  <2>2. \/ cache'[1] = NotLoaded
        \/ /\ c # NotLoaded
           /\ file' = [file EXCEPT ![id] = s]
           /\ cache'[1] = [c EXCEPT ![id] = s]
    BY <1>b, <2>1, SaveLeaves
  <2> QED  BY <1>0, <1>b, <2>2
<1>1. CASE ListSessions  BY <1>1, <1>0, <1>a DEF ListSessions, TypeOK
<1>2. ASSUME NEW id \in Ids, NEW title \in Titles, Start(id, title) PROVE CacheCoherent'
  <2>1. [status |-> "recording", title |-> title] \in Records  BY DEF Records, Statuses
  <2> QED  BY <1>2, <1>0, <1>a, <1>b, <2>1 DEF Start
<1>3. ASSUME NEW id \in Ids, NEW title \in Titles, SetTitle(id, title) PROVE CacheCoherent'
  <2>1. [file[id] EXCEPT !.title = title] \in Records
    BY <1>3 DEF SetTitle, Sessions, Records, TypeOK
  <2> QED  BY <1>3, <1>0, <1>b, <2>1 DEF SetTitle
<1>4. ASSUME NEW id \in Ids, StopBegins(id) PROVE CacheCoherent'
  BY <1>4, <1>0, <1>a DEF StopBegins, TypeOK
<1>5. ASSUME NEW id \in Ids, MarkFailed(id) PROVE CacheCoherent'
  <2>1. [file[id] EXCEPT !.status = "failed"] \in Records
    BY <1>5 DEF MarkFailed, Sessions, Records, Statuses, TypeOK
  <2> QED  BY <1>5, <1>0, <1>b, <2>1 DEF MarkFailed
<1>6. ASSUME NEW id \in Ids, ProcessBegins(id) PROVE CacheCoherent'
  BY <1>6, <1>0 DEF ProcessBegins, Refreshed, TypeOK, Sessions
<1>7. ASSUME NEW id \in Ids, Delete(id) PROVE CacheCoherent'
  BY <1>7, <1>0 DEF Delete, Refreshed, TypeOK
<1>8. ASSUME NEW id \in Ids, FolderDeletedOutside(id) PROVE CacheCoherent'
  BY <1>8, <1>0 DEF FolderDeletedOutside
<1>9. ASSUME NEW m \in Managers, StopEnds(m) PROVE CacheCoherent'
  <2>1. stopping[m].id \in Ids /\ stopping[m].session \in Records
    BY <1>9 DEF StopEnds, TypeOK
  <2>2. \A end \in {"recorded", "failed"} :
          [stopping[m].session EXCEPT !.status = end] \in Records
    BY <2>1 DEF Records, Statuses
  <2> QED  BY <1>9, <1>0, <1>b, <2>1, <2>2 DEF StopEnds
<1>10. ASSUME NEW m \in Managers, ProcessEnds(m) PROVE CacheCoherent'
  <2> DEFINE id == processing[m].id
             s  == processing[m].session
  <2>1. id \in Ids /\ s \in Records  BY <1>10 DEF ProcessEnds, TypeOK
  <2>2. [s EXCEPT !.status = "processed"] \in Records /\ AfterFailure(s) \in Records
    BY <2>1 DEF Records, Statuses, AfterFailure
  <2> QED  BY <1>10, <1>0, <1>b, <2>1, <2>2 DEF ProcessEnds
<1>11. CASE NewManager  BY <1>11, <1>0 DEF NewManager
<1>12. CASE Relaunch
  <2>1. \A id \in purgedSessions : file'[id] = Missing
    BY <1>12 DEF Relaunch, LaunchLeaves, purgedSessions
  <2>2. listed' = file'  BY <1>12, <2>1 DEF Relaunch
  <2> QED  BY <1>12, <1>0, <2>2 DEF Relaunch
<1>13. CASE UNCHANGED vars  BY <1>13 DEF vars
<1> QED
  BY <1>1, <1>2, <1>3, <1>4, <1>5, <1>6, <1>7, <1>8, <1>9, <1>10, <1>11, <1>12,
     <1>13 DEF Next

-----------------------------------------------------------------------------

\* A write of a session that does not begin a recording is a change of the
\* catalog, and so is no write at all.
LEMMA SaveChangesCatalog ==
  ASSUME TypeOK, NEW m \in Managers, NEW c \in Sessions \cup {NotLoaded},
         NEW id \in Ids, NEW s \in Records, save(m, c, id, s),
         IsRecording(s) => IsRecording(file[id])
  PROVE  Catalog!Changes
<1>1. file' = file \/ file' = [file EXCEPT ![id] = s]  BY DEF save
<1>2. s # Missing  BY SentinelAssumption
<1> QED
  BY <1>1, <1>2
  DEF Catalog!Changes, Catalog!Catalogs, Catalog!IsRecording, IsRecording, TypeOK, Sessions

\* Every step of the store is a step of the catalog, or changes neither the
\* files nor the last answer.
LEMMA CatalogStep ==
  ASSUME OneManager, ~RemoveMayFail, TypeOK, CacheCoherent, [Next]_vars
  PROVE  [Catalog!Next]_<<file, listed>>
<1>0. manager = 1 /\ Managers = {1}  BY DEF OneManager, TypeOK, Managers
<1>a. cachedSessions(manager) = file  BY DEF cachedSessions, CacheCoherent
<1>b. file \in Sessions /\ cache[1] \in Sessions \cup {NotLoaded}  BY <1>0 DEF TypeOK
<1>c. UNCHANGED file => Catalog!Changes
  BY <1>b, SentinelAssumption
  DEF Catalog!Changes, Catalog!Catalogs, Catalog!IsRecording, Sessions
<1>d. Catalog!Changes /\ (UNCHANGED listed \/ listed' \in {file, file'}) => Catalog!Next
  BY DEF Catalog!Next, Catalog!Reads
<1>1. CASE ListSessions  BY <1>1, <1>a, <1>c, <1>d DEF ListSessions, Lists
<1>2. ASSUME NEW id \in Ids, NEW title \in Titles, Start(id, title)
      PROVE  Catalog!Next
  <2> DEFINE s == [status |-> "recording", title |-> title]
  <2>1. s \in Records /\ IsRecording(s)
    BY SentinelAssumption DEF Records, Statuses, IsRecording
  <2>2. listed' = file  BY <1>2, <1>a DEF Start, Lists
  <2>3. file' = file \/ file' = [file EXCEPT ![id] = s]
    BY <1>2 DEF Start, save
  <2>4. CASE file' = file  BY <2>2, <2>4, <1>c, <1>d
  <2>5. CASE file' = [file EXCEPT ![id] = s]
    <3>1. file[id] = Missing /\ \A other \in Ids : ~IsRecording(file[other])
      BY <1>2, <2>2 DEF Start
    <3>2. Catalog!Starts(id)
      BY <2>1, <2>5, <3>1 DEF Catalog!Starts, Catalog!IsRecording, IsRecording
    <3> QED  BY <2>2, <3>2 DEF Catalog!Next, Catalog!Reads
  <2> QED  BY <2>3, <2>4, <2>5
<1>3. ASSUME NEW id \in Ids, NEW title \in Titles, SetTitle(id, title)
      PROVE  Catalog!Next
  <2>1. [file[id] EXCEPT !.title = title] \in Records
    BY <1>3 DEF SetTitle, Sessions, Records, TypeOK
  <2>2. IsRecording([file[id] EXCEPT !.title = title]) => IsRecording(file[id])
    BY <1>3, <2>1, <1>b DEF IsRecording, SetTitle, Sessions, Records
  <2> QED  BY <1>3, <1>0, <1>b, <1>d, <2>1, <2>2, SaveChangesCatalog DEF SetTitle
<1>4. ASSUME NEW id \in Ids, StopBegins(id) PROVE Catalog!Next
  BY <1>4, <1>a, <1>c, <1>d DEF StopBegins, Lists
<1>5. ASSUME NEW id \in Ids, MarkFailed(id) PROVE Catalog!Next
  <2>1. [file[id] EXCEPT !.status = "failed"] \in Records
    BY <1>5 DEF MarkFailed, Sessions, Records, Statuses, TypeOK
  <2>2. ~IsRecording([file[id] EXCEPT !.status = "failed"])
    BY <1>5, <2>1, <1>b DEF IsRecording, MarkFailed, Sessions, Records
  <2> QED  BY <1>5, <1>0, <1>b, <1>d, <2>1, <2>2, SaveChangesCatalog DEF MarkFailed
<1>6. ASSUME NEW id \in Ids, ProcessBegins(id) PROVE Catalog!Next
  BY <1>6, <1>c, <1>d DEF ProcessBegins
<1>7. ASSUME NEW id \in Ids, Delete(id) PROVE Catalog!Next
  <2>1. Catalog!Changes
    BY <1>7, <1>b DEF Delete, Catalog!Changes, Catalog!Catalogs, Catalog!IsRecording,
       IsRecording, Sessions
  <2> QED  BY <1>7, <1>d, <2>1 DEF Delete
<1>8. ASSUME NEW id \in Ids, FolderDeletedOutside(id) PROVE Catalog!Next
  BY <1>8, <1>c, <1>d DEF FolderDeletedOutside
<1>9. ASSUME NEW m \in Managers, StopEnds(m) PROVE Catalog!Next
  <2>1. stopping[m].id \in Ids /\ stopping[m].session \in Records
    BY <1>9 DEF StopEnds, TypeOK
  <2>2. PICK end \in {"recorded", "failed"} :
          save(m, cache[m], stopping[m].id, [stopping[m].session EXCEPT !.status = end])
    BY <1>9 DEF StopEnds
  <2>3. /\ [stopping[m].session EXCEPT !.status = end] \in Records
        /\ ~IsRecording([stopping[m].session EXCEPT !.status = end])
    BY <2>1 DEF Records, Statuses, IsRecording
  <2> QED
    BY <1>9, <1>0, <1>b, <1>d, <2>1, <2>2, <2>3, SaveChangesCatalog DEF StopEnds
<1>10. ASSUME NEW m \in Managers, ProcessEnds(m) PROVE Catalog!Next
  <2> DEFINE id == processing[m].id
             s  == processing[m].session
  <2>1. id \in Ids /\ s \in Records  BY <1>10 DEF ProcessEnds, TypeOK
  <2>2. /\ [s EXCEPT !.status = "processed"] \in Records /\ AfterFailure(s) \in Records
        /\ ~IsRecording([s EXCEPT !.status = "processed"]) /\ ~IsRecording(AfterFailure(s))
    BY <2>1 DEF Records, Statuses, AfterFailure, IsRecording
  <2>3. Catalog!Changes
    BY <1>10, <1>0, <1>b, <2>1, <2>2, SaveChangesCatalog DEF ProcessEnds
  <2> QED  BY <1>10, <1>d, <2>3 DEF ProcessEnds
<1>11. CASE NewManager  BY <1>11, <1>c, <1>d DEF NewManager
<1>12. CASE Relaunch
  <2>1. \A id \in purgedSessions : file'[id] = Missing
    BY <1>12 DEF Relaunch, LaunchLeaves, purgedSessions
  <2>2. listed' = file'  BY <1>12, <2>1 DEF Relaunch
  <2>3. \A id \in Ids : /\ IsRecording(file'[id]) => IsRecording(file[id])
                        /\ IsRecording(file[id]) => file'[id] # Missing
    <3> SUFFICES ASSUME NEW id \in Ids
                 PROVE  /\ IsRecording(file'[id]) => IsRecording(file[id])
                        /\ IsRecording(file[id]) => file'[id] # Missing
      OBVIOUS
    <3>1. CASE IsRecording(file[id])
      <4>1. file[id] \in Records  BY <3>1, <1>b DEF IsRecording, Sessions
      <4>2. \A end \in recoveredAs(id) : [file[id] EXCEPT !.status = end] \in Records
        BY <4>1 DEF recoveredAs, Records, Statuses
      <4> QED
        BY <1>12, <3>1, <4>1, <4>2, SentinelAssumption
        DEF Relaunch, LaunchLeaves, purgedSessions, IsRecording
    <3>2. CASE ~IsRecording(file[id])
      BY <1>12, <3>2 DEF Relaunch, LaunchLeaves, IsRecording
    <3> QED  BY <3>1, <3>2
  <2>4. Catalog!Changes
    BY <1>12, <2>3 DEF Relaunch, Catalog!Changes, Catalog!Catalogs, Catalog!IsRecording,
       IsRecording
  <2> QED  BY <2>2, <2>4, <1>d
<1>13. CASE UNCHANGED vars  BY <1>13 DEF vars
<1> QED
  BY <1>1, <1>2, <1>3, <1>4, <1>5, <1>6, <1>7, <1>8, <1>9, <1>10, <1>11, <1>12,
     <1>13 DEF Next

-----------------------------------------------------------------------------

\* A manager that has not been created yet has loaded nothing.
FreshCaches == \A m \in Managers : m > manager => cache[m] = NotLoaded

\* A save that does not begin a recording, by whichever manager, leaves at most
\* one recording file, which the current manager's cache knows.
LEMMA SaveBeginsNothing ==
  ASSUME TypeOK, OneRecordingFile, FreshCaches, manager' = manager,
         NEW m \in Managers, NEW c \in {cache[m], NotLoaded}, NEW id \in Ids,
         NEW s \in Records, save(m, c, id, s), IsRecording(s) => IsRecording(file[id])
  PROVE  OneRecordingFile' /\ FreshCaches'
<1>1. c \in Sessions \cup {NotLoaded}  BY DEF TypeOK
<1>2. \A n \in Managers : n # m => cache'[n] = cache[n]  BY DEF save, TypeOK
<1>3. \/ cache'[m] = NotLoaded
      \/ /\ c = cache[m] /\ c # NotLoaded /\ c \in Sessions
         /\ file' = [file EXCEPT ![id] = s]
         /\ cache'[m] = [c EXCEPT ![id] = s]
  BY <1>1, SaveLeaves
<1>4. file' = file \/ file' = [file EXCEPT ![id] = s]  BY DEF save
<1>5. \A a \in Ids : IsRecording(file'[a]) => IsRecording(file[a])
  BY <1>4 DEF TypeOK, Sessions
<1>6. cache'[manager] # NotLoaded =>
        \A a \in Ids : IsRecording(file'[a]) => IsRecording(cache'[manager][a])
  <2>1. CASE manager # m  BY <1>2, <1>5, <2>1 DEF OneRecordingFile, TypeOK
  <2>2. CASE manager = m
    <3>1. CASE cache'[m] = NotLoaded  BY <2>2, <3>1
    <3>2. CASE /\ c = cache[m] /\ c # NotLoaded /\ c \in Sessions
               /\ file' = [file EXCEPT ![id] = s]
               /\ cache'[m] = [c EXCEPT ![id] = s]
      <4>1. file'[id] = s /\ cache'[m][id] = s  BY <3>2 DEF TypeOK, Sessions
      <4>2. \A a \in Ids : a # id => cache'[m][a] = cache[m][a]
        BY <3>2 DEF Sessions
      <4> QED  BY <1>5, <2>2, <3>2, <4>1, <4>2 DEF OneRecordingFile
    <3> QED  BY <1>3, <3>1, <3>2
  <2> QED  BY <2>1, <2>2
<1>7. FreshCaches'  BY <1>2, <1>3 DEF FreshCaches
<1> QED  BY <1>5, <1>6, <1>7 DEF OneRecordingFile

\* A step that fills the current cache, if it was empty, and writes no file.
LEMMA CacheFilled ==
  ASSUME TypeOK, OneRecordingFile, FreshCaches, manager' = manager, file' = file,
         cache' = [cache EXCEPT ![manager] = cachedSessions(manager)]
  PROVE  OneRecordingFile' /\ FreshCaches'
<1>1. cache'[manager] = cachedSessions(manager)  BY DEF TypeOK
<1>2. \A m \in Managers : m # manager => cache'[m] = cache[m]  BY DEF TypeOK
<1>3. manager \in Nat  BY DEF TypeOK, Managers
<1> QED
  BY <1>1, <1>2, <1>3 DEF OneRecordingFile, FreshCaches, cachedSessions, Managers

\* A step that changes the record of one session that is not recording, and of
\* the current cache if it is loaded, into another that is not.
LEMMA RestReplaced ==
  ASSUME TypeOK, OneRecordingFile, FreshCaches, manager' = manager,
         NEW id \in Ids, ~IsRecording(file[id]), NEW s, NEW t, ~IsRecording(s),
         file' = [file EXCEPT ![id] = s],
         cache' = [cache EXCEPT ![manager] = Refreshed(cache[manager], id, t)]
  PROVE  OneRecordingFile' /\ FreshCaches'
<1>1. cache'[manager] = Refreshed(cache[manager], id, t)
      /\ cache[manager] \in Sessions \cup {NotLoaded}
  BY DEF TypeOK
<1>2. \A m \in Managers : m # manager => cache'[m] = cache[m]  BY DEF TypeOK
<1>3. manager \in Nat  BY DEF TypeOK, Managers
<1>4. \A a \in Ids : IsRecording(file'[a]) => a # id /\ IsRecording(file[a])
  BY DEF TypeOK, Sessions
<1>5. cache'[manager] # NotLoaded =>
        \A a \in Ids : a # id => cache'[manager][a] = cache[manager][a]
  BY <1>1 DEF Refreshed, Sessions
<1>6. cache'[manager] # NotLoaded => cache[manager] # NotLoaded  BY <1>1 DEF Refreshed
<1> QED
  BY <1>2, <1>3, <1>4, <1>5, <1>6 DEF OneRecordingFile, FreshCaches, Managers

\* A start asks its cache, and the cache knows the recording there is.
LEMMA StartIsAlone ==
  ASSUME TypeOK, OneRecordingFile, FreshCaches, NEW id \in Ids, NEW title \in Titles,
         Start(id, title)
  PROVE  OneRecordingFile' /\ FreshCaches'
<1> DEFINE s == [status |-> "recording", title |-> title]
<1>1. s \in Records /\ IsRecording(s)
  BY SentinelAssumption DEF Records, Statuses, IsRecording
<1>2. cachedSessions(manager) \in Sessions  BY CachedSessionsType
<1>3. \A a \in Ids : ~IsRecording(file[a])
  BY DEF Start, Lists, cachedSessions, OneRecordingFile
<1>4. \A a \in Ids : a # id => ~IsRecording(file'[a])
  BY <1>3 DEF Start, save, TypeOK, Sessions
<1>5. \/ cache'[manager] = NotLoaded
      \/ cache'[manager] = [cachedSessions(manager) EXCEPT ![id] = s]
  BY <1>1, <1>2, SaveLeaves DEF Start, TypeOK
<1>6. cache'[manager] # NotLoaded => IsRecording(cache'[manager][id])
  BY <1>1, <1>2, <1>5 DEF Sessions
<1>7. manager' = manager /\ manager \in Nat  BY DEF Start, TypeOK, Managers
<1>8. \A m \in Managers : m # manager => cache'[m] = cache[m]
  <2>1. PICK c : cache' = [cache EXCEPT ![manager] = c]  BY DEF Start, save
  <2> QED  BY <2>1 DEF TypeOK
<1> QED  BY <1>4, <1>6, <1>7, <1>8 DEF OneRecordingFile, FreshCaches, Managers

\* A launch makes no recording out of a session that was none, and its cache
\* has every recording that recovery could not save.
LEMMA RelaunchIsAlone ==
  ASSUME TypeOK, OneRecordingFile, Relaunch
  PROVE  OneRecordingFile' /\ FreshCaches'
<1>1. \A a \in Ids : IsRecording(file'[a]) => IsRecording(file[a])
  <2> SUFFICES ASSUME NEW a \in Ids, IsRecording(file'[a]) PROVE IsRecording(file[a])
    OBVIOUS
  <2> QED  BY DEF Relaunch, LaunchLeaves, IsRecording
<1>2. 1 \in Managers /\ cache'[1] = listed' /\ manager' = 1
  BY ManagersAssumption DEF Relaunch, Managers
<1>3. \A m \in Managers : m > 1 => cache'[m] = NotLoaded
  BY DEF Relaunch, Managers
<1>4. \A a \in Ids : IsRecording(file'[a]) => IsRecording(listed'[a])
  BY DEF Relaunch
<1> QED  BY <1>1, <1>2, <1>3, <1>4 DEF OneRecordingFile, FreshCaches

\* Every step leaves at most one recording file, known to the current cache.
LEMMA OneRecordingStep ==
  ASSUME TypeOK, OneRecordingFile, FreshCaches, [Next]_vars
  PROVE  OneRecordingFile' /\ FreshCaches'
<1> DEFINE Kept == OneRecordingFile' /\ FreshCaches'
<1>a. file \in Sessions /\ manager \in Managers  BY DEF TypeOK
<1>1. CASE ListSessions  BY <1>1, CacheFilled DEF ListSessions
<1>2. ASSUME NEW id \in Ids, NEW title \in Titles, Start(id, title) PROVE Kept
  BY <1>2, StartIsAlone
<1>3. ASSUME NEW id \in Ids, NEW title \in Titles, SetTitle(id, title) PROVE Kept
  <2>1. [file[id] EXCEPT !.title = title] \in Records
    BY <1>3 DEF SetTitle, Sessions, Records, TypeOK
  <2>2. IsRecording([file[id] EXCEPT !.title = title]) => IsRecording(file[id])
    BY <1>3, <1>a, <2>1 DEF IsRecording, SetTitle, Sessions, Records
  <2> QED  BY <1>3, <1>a, <2>1, <2>2, SaveBeginsNothing DEF SetTitle
<1>4. ASSUME NEW id \in Ids, StopBegins(id) PROVE Kept
  BY <1>4, CacheFilled DEF StopBegins
<1>5. ASSUME NEW id \in Ids, MarkFailed(id) PROVE Kept
  <2>1. [file[id] EXCEPT !.status = "failed"] \in Records
    BY <1>5 DEF MarkFailed, Sessions, Records, Statuses, TypeOK
  <2>2. ~IsRecording([file[id] EXCEPT !.status = "failed"])
    BY <1>5, <2>1, <1>a DEF IsRecording, MarkFailed, Sessions, Records
  <2> QED  BY <1>5, <1>a, <2>1, <2>2, SaveBeginsNothing DEF MarkFailed
<1>6. ASSUME NEW id \in Ids, ProcessBegins(id) PROVE Kept
  <2>1. file' = [file EXCEPT ![id] = file[id]]  BY <1>6, <1>a DEF ProcessBegins, Sessions
  <2> QED  BY <1>6, <2>1, RestReplaced DEF ProcessBegins
<1>7. ASSUME NEW id \in Ids, Delete(id) PROVE Kept
  <2>1. PICK s \in {Missing, file[id]} : file' = [file EXCEPT ![id] = s]
    BY <1>7, <1>a DEF Delete, Sessions
  <2>2. ~IsRecording(file[id]) /\ ~IsRecording(s)
    BY <1>7, <2>1 DEF Delete, IsRecording
  <2> QED  BY <1>7, <2>1, <2>2, RestReplaced DEF Delete
<1>8. ASSUME NEW m \in Managers, StopEnds(m) PROVE Kept
  <2>1. stopping[m].id \in Ids /\ stopping[m].session \in Records
    BY <1>8 DEF StopEnds, TypeOK
  <2>2. PICK end \in {"recorded", "failed"} :
          save(m, cache[m], stopping[m].id, [stopping[m].session EXCEPT !.status = end])
    BY <1>8 DEF StopEnds
  <2>3. /\ [stopping[m].session EXCEPT !.status = end] \in Records
        /\ ~IsRecording([stopping[m].session EXCEPT !.status = end])
    BY <2>1 DEF Records, Statuses, IsRecording
  <2> QED  BY <1>8, <2>1, <2>2, <2>3, SaveBeginsNothing DEF StopEnds
<1>9. ASSUME NEW m \in Managers, ProcessEnds(m) PROVE Kept
  <2> DEFINE id == processing[m].id
             s  == processing[m].session
  <2>1. id \in Ids /\ s \in Records  BY <1>9 DEF ProcessEnds, TypeOK
  <2>2. /\ [s EXCEPT !.status = "processed"] \in Records /\ AfterFailure(s) \in Records
        /\ ~IsRecording([s EXCEPT !.status = "processed"]) /\ ~IsRecording(AfterFailure(s))
    BY <2>1 DEF Records, Statuses, AfterFailure, IsRecording
  <2>3. PICK r \in Records, c \in {cache[m], NotLoaded} :
          save(m, c, id, r) /\ ~IsRecording(r)
    BY <1>9, <2>2 DEF ProcessEnds
  <2> QED  BY <1>9, <2>1, <2>3, SaveBeginsNothing DEF ProcessEnds
<1>10. CASE NewManager
  <2>1. manager \in Nat /\ manager' = manager + 1 /\ manager' \in Managers
        /\ UNCHANGED <<file, cache>>
    BY <1>10, ManagersAssumption DEF NewManager, TypeOK, Managers
  <2>2. cache'[manager'] = NotLoaded  BY <2>1 DEF FreshCaches
  <2> QED  BY <2>1, <2>2 DEF OneRecordingFile, FreshCaches, Managers
<1>11. CASE Relaunch  BY <1>11, RelaunchIsAlone
<1>12. ASSUME (\E id \in Ids : FolderDeletedOutside(id)) \/ UNCHANGED vars PROVE Kept
  BY <1>12 DEF FolderDeletedOutside, vars, OneRecordingFile, FreshCaches
<1> QED
  BY <1>1, <1>2, <1>3, <1>4, <1>5, <1>6, <1>7, <1>8, <1>9, <1>10, <1>11, <1>12 DEF Next

-----------------------------------------------------------------------------

\* The store starts empty, with nothing cached.
LEMMA InitFacts ==
  ASSUME Init
  PROVE  TypeOK /\ OnlyGhostsDiffer /\ CacheCoherent /\ Catalog!Init
BY ManagersAssumption
DEF Init, TypeOK, OnlyGhostsDiffer, CacheCoherent, Sessions, Managers, Catalog!Init

\* Every variable keeps its type, for any number of managers and every fault.
THEOREM TypeCorrect == Spec => []TypeOK
BY InitFacts, TypeStep, PTL DEF Spec

\* With one manager the cache never shows a session the files do not have, and
\* hides one only when its folder is gone and it is not recording.
THEOREM GhostsOnly ==
  ASSUME OneManager
  PROVE  Spec => []OnlyGhostsDiffer
<1>1. Init => OnlyGhostsDiffer  BY InitFacts
<1>2. TypeOK /\ OnlyGhostsDiffer /\ [Next]_vars => OnlyGhostsDiffer'  BY GhostStep
<1> QED  BY <1>1, <1>2, TypeCorrect, PTL DEF Spec

\* With one manager, and removals that succeed, a loaded cache is the files,
\* however writes fail and whatever call comes back late.
THEOREM Coherent ==
  ASSUME OneManager, ~RemoveMayFail
  PROVE  Spec => []CacheCoherent
<1>1. Init => CacheCoherent  BY InitFacts
<1>2. TypeOK /\ CacheCoherent /\ [Next]_vars => CacheCoherent'  BY CoherentStep
<1> QED  BY <1>1, <1>2, TypeCorrect, PTL DEF Spec

\* Under the same assumptions the files and the cache together are a map of
\* sessions: reads answer it, and starts and deletes are guarded by it.
THEOREM Refinement ==
  ASSUME OneManager, ~RemoveMayFail
  PROVE  Spec => ImplementsCatalog
<1>1. Init => Catalog!Init  BY InitFacts
<1>2. TypeOK /\ CacheCoherent /\ [Next]_vars => [Catalog!Next]_<<file, listed>>
  BY CatalogStep
<1> QED
  BY <1>1, <1>2, TypeCorrect, Coherent, PTL DEF Spec, ImplementsCatalog, Catalog!Spec

\* At most one session file says recording, for any number of managers and every
\* fault: a stale cache may show a recording that is over, never miss one.
THEOREM OneRecording == Spec => []OneRecordingFile
<1>1. Init => OneRecordingFile /\ FreshCaches
  BY SentinelAssumption DEF Init, OneRecordingFile, FreshCaches, IsRecording
<1>2. TypeOK /\ (OneRecordingFile /\ FreshCaches) /\ [Next]_vars
        => (OneRecordingFile /\ FreshCaches)'
  BY OneRecordingStep
<1> QED  BY <1>1, <1>2, TypeCorrect, PTL DEF Spec

=============================================================================
