----------------------------- MODULE UploadJob -----------------------------
(***************************************************************************)
(* What a box promises about its Immich upload, without the web handlers,  *)
(* the task queue and the worker that provide it: the upload state a user  *)
(* sees, and whether some job still stands behind it.                      *)
(*                                                                         *)
(* A box may only say "in progress" while a job is responsible for it, and *)
(* every job ends by writing "uploaded" or "failed".  ImmichPush, without  *)
(* process crashes and box edits, implements this specification.           *)
(***************************************************************************)

VARIABLES
  state,   \* Box.immich_state
  active   \* some enqueued, running or about to be enqueued job exists

jobVars == <<state, active>>

Settled == {"uploaded", "failed"}

JobTypeOK ==
  /\ state \in {"not_uploaded", "in_progress"} \cup Settled
  /\ active \in BOOLEAN

JobInit ==
  /\ state = "not_uploaded"
  /\ active = FALSE

\* A user asks for the upload, or for another attempt.
Request ==
  /\ state' = "in_progress"
  /\ active' = TRUE

\* A job starts working: it (re)states that the upload is in progress.
Resume ==
  /\ active
  /\ state' = "in_progress"
  /\ UNCHANGED active

\* A job ends.  Another one may still be queued behind it.
Settle ==
  /\ active
  /\ state' \in Settled
  /\ active' \in BOOLEAN

JobNext == Request \/ Resume \/ Settle

JobSpec == JobInit /\ [][JobNext]_jobVars /\ WF_jobVars(Settle)

JobSafety == JobInit /\ [][JobNext]_jobVars

\* A box that says "in progress" has a job that will settle it.
InProgressHasJob == state = "in_progress" => active

=============================================================================
