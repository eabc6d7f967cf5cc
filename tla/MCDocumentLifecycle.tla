------------------------ MODULE MCDocumentLifecycle -------------------------
(***************************************************************************)
(* Small instances of DocumentLifecycle for TLC.                           *)
(***************************************************************************)
EXTENDS DocumentLifecycle, TLC

\* Edits are interchangeable; sessions, whose order autoSave uses, are not.
EditSymmetry == Permutations(Edits)

=============================================================================
