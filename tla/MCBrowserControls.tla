---- MODULE MCBrowserControls ----
(* A small instance of the parts of the browser client around the document. *)
EXTENDS BrowserControls

\* Two sessions of one user, and one of another.
MCUserOf == <<1, 1, 2>>

\* A file of several slices, one of a single slice, and an empty one.
MCSlicesOf == [f \in {"a", "b", "z"} |-> CASE f = "a" -> 2 [] f = "b" -> 1 [] f = "z" -> 0]

\* Tables of up to five entries.
MCMenuTables == UNION {[1..n -> {"item", "gone", "sep"}] : n \in 1..5}

====
