----------------------------- MODULE MCWsdServer ----------------------------
(***************************************************************************)
(* Small instances of WsdServer for TLC.                                   *)
(***************************************************************************)
EXTENDS WsdServer, TLC

DocSymmetry == Permutations(Docs)

=============================================================================
