------------------------- MODULE MCNotesPublishing -------------------------
(***************************************************************************)
(* Small instances of NotesPublishing: a placeholder and two real titles,  *)
(* two process runs (so the second is a re-process), one or two rename     *)
(* Tasks.                                                                  *)
(***************************************************************************)
EXTENDS NotesPublishing, TLC

CONSTANTS untitled, t1, t2, p1, p2, n1, n2, b1, k1

TwoTitles   == {untitled, t1}
ThreeTitles == {untitled, t1, t2}
OneRun      == {p1}
TwoRuns     == {p1, p2}
OneRename   == {n1}
TwoRenames  == {n1, n2}
NoRename    == {}
NoBackfill  == {}
OneBackfill == {b1}
NoReconcile == {}
OneReconcile == {k1}

Interchangeable == Permutations(Runs) \cup Permutations(Renames)

=============================================================================
