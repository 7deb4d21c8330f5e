--------------------------- MODULE SessionCatalog ---------------------------
(***************************************************************************)
(* What SessionManager promises about its sessions, with no files and no   *)
(* cache: one map from ids to session records.  A read answers the map as  *)
(* it is, a recording starts only when none is running, and a session that *)
(* is recording never leaves the map.                                      *)
(***************************************************************************)
CONSTANTS Ids, Records, Missing

VARIABLES
  catalog,   \* the sessions there are
  listed     \* the sessions the last read answered

IsRecording(s) == s # Missing /\ s.status = "recording"

Catalogs == [Ids -> Records \cup {Missing}]

\* The only step that adds a recording.
Starts(id) ==
  /\ catalog[id] = Missing
  /\ \A other \in Ids : ~IsRecording(catalog[other])
  /\ \E s \in Records : IsRecording(s) /\ catalog' = [catalog EXCEPT ![id] = s]

\* Any other write or removal.
Changes ==
  /\ catalog' \in Catalogs
  /\ \A id \in Ids : IsRecording(catalog'[id]) => IsRecording(catalog[id])
  /\ \A id \in Ids : IsRecording(catalog[id]) => catalog'[id] # Missing

\* A read answers the map before or after the write it comes with.
Reads == listed' \in {catalog, catalog'}

Init == catalog = [id \in Ids |-> Missing] /\ listed = catalog

Next ==
  /\ (\E id \in Ids : Starts(id)) \/ Changes
  /\ Reads \/ UNCHANGED listed

Spec == Init /\ [][Next]_<<catalog, listed>>

=============================================================================
