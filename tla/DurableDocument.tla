--------------------------- MODULE DurableDocument ---------------------------
(***************************************************************************)
(* What the server promises about a document, whatever fails: it is kept   *)
(* in three copies, one in memory, one in a file, one in the storage.      *)
(* Users type, and what they typed reaches the memory one edit at a time;  *)
(* every other copy is taken from the one before it, as a whole.  Losing   *)
(* the memory falls back to the file, and nothing else is ever undone.     *)
(***************************************************************************)
CONSTANT Edits      \* the edits users may make, each at most once

VARIABLES typed,    \* the edits users made
          memory,   \* those in the document in memory
          file,     \* those in the document's file
          stored    \* those in the storage

vars == <<typed, memory, file, stored>>

Init ==
    /\ typed = {}
    /\ memory = {}
    /\ file = {}
    /\ stored = {}

\* A user makes an edit.
Type ==
    /\ \E e \in Edits \ typed : typed' = typed \cup {e}
    /\ UNCHANGED <<memory, file, stored>>

\* The document takes an edit some user made.
Take ==
    /\ \E e \in typed : memory' = memory \cup {e}
    /\ UNCHANGED <<typed, file, stored>>

\* The document is closed, or its process ends: the file is what is left.
Drop ==
    /\ memory' = file
    /\ UNCHANGED <<typed, file, stored>>

\* The document is written to its file.
Write ==
    /\ file' = memory
    /\ UNCHANGED <<typed, memory, stored>>

\* The file is uploaded to the storage.
Upload ==
    /\ stored' = file
    /\ UNCHANGED <<typed, memory, file>>

Next == Type \/ Take \/ Drop \/ Write \/ Upload

Spec == Init /\ [][Next]_vars
=============================================================================
