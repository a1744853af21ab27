---------------------------- MODULE MCImmichPush ----------------------------
(***************************************************************************)
(* ImmichPush for TLC.  Requests are interchangeable, so the runs without  *)
(* liveness use their permutations as symmetry.                            *)
(***************************************************************************)
EXTENDS ImmichPush, TLC

RequestSymmetry == Permutations(Requests)

=============================================================================
