------------------------ MODULE MCRecordingLifecycle ------------------------
(***************************************************************************)
(* Small instances of RecordingLifecycle: a start Task of the menu and one *)
(* of the detection banner, two stop Tasks, one or two reports of a failed *)
(* capture, one clean-up.  Tasks of the same kind are interchangeable;     *)
(* recordings are numbered and are not.                                    *)
(***************************************************************************)
EXTENDS RecordingLifecycle, TLC

CONSTANTS c1, c2, u1, u2, r1, r2, k1

NoClick    == {}
OneClick   == {c1}
TwoClicks  == {c1, c2}
OneStop    == {u1}
TwoStops   == {u1, u2}
OneReport  == {r1}
TwoReports == {r1, r2}
OneCleanup == {k1}

Interchangeable == Permutations(TwoStops) \cup Permutations(TwoReports)

=============================================================================
