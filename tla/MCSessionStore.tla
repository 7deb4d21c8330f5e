--------------------------- MODULE MCSessionStore ---------------------------
(***************************************************************************)
(* Small instances of SessionStore: two sessions are enough for one to be  *)
(* recording while the other is processed, renamed or deleted; two titles  *)
(* tell a stale copy from a fresh one.                                     *)
(***************************************************************************)
EXTENDS SessionStore, TLC

CONSTANTS a, b, t1, t2

OneId     == {a}
TwoIds    == {a, b}
OneTitle  == {t1}
TwoTitles == {t1, t2}

Interchangeable == Permutations(Ids) \cup Permutations(Titles)

\* No guard reads what was listed last, and OneRecordingFile is not about it.
Unlisted == <<file, folder, cache, manager, stopping, processing>>

=============================================================================
