---------------------------- MODULE MCImmichEdit ----------------------------
(***************************************************************************)
(* ImmichEdit for TLC: requests, sessions and files are interchangeable.   *)
(***************************************************************************)
EXTENDS ImmichEdit, TLC

EditSymmetry == Permutations(Requests) \cup Permutations(Sessions) \cup Permutations(Files)

=============================================================================
