---- MODULE MCDriverSeat ----
(* DriverSeat for TLC. *)
EXTENDS DriverSeat, TLC

\* Users and requests may be exchanged.  Not for FollowersArrive: TLC's
\* symmetry reduction does not go with liveness.
SeatSymmetry == Permutations(Users) \cup Permutations(Requests)
====
