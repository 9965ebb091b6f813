------------------------ MODULE DeletionJobsLifecycle ------------------------
(* The job service implements JobLifecycle: the stage of a job is read off  *)
(* its durable row and the claim on its key, which outlives the row.        *)
EXTENDS DeletionJobs

StageOf(j) ==
  CASE db[j] = None -> IF Claimed(j) THEN "removed" ELSE "none"
    [] IsTerminal(db[j]) -> "finished"
    [] db[j] # None /\ db[j].phase \in Mutating -> "mutating"
    [] OTHER -> "accepted"

Lifecycle ==
  INSTANCE JobLifecycle
    WITH Jobs <- Requests, stage <- [j \in Requests |-> StageOf(j)], spent <- applied, lossy <- (faults > 0)

\* The service implements the abstract lifecycle of its jobs (deletion_jobs.py
\* and deletion_repository.py together), across crashes at any point.
ImplementsLifecycle == Lifecycle!Spec

=============================================================================
