--------------------------- MODULE MCScheduledJobs ---------------------------
(* A single job, the object and at most one task: nothing to permute. *)
EXTENDS ScheduledJobs
=============================================================================
