---------------------------- MODULE MCDeliveries ----------------------------
(***************************************************************************)
(* Deliveries of webhooks, and the durable queue of jobs.  They meet in    *)
(* the safety lock alone, which each module has "others" take; so one run  *)
(* explores each of the two while the other one is at rest.                *)
(***************************************************************************)
EXTENDS WebhookCoordinator, TLC

CONSTANTS d1, d2, d3, e1, e2,   \* deliveries and events
          r1, r2, k1, k2, b1, b2  \* jobs, their keys and their bodies

VARIABLES sys, db, ledger, mem, queue, scheduled, delayed, unsettled, backoff, jobLock,
          wkPc, wkJob, wkRec, wkShared, wkDeleted, wkResult, pending, broken,
          req, loaded, victims, doomed, reply, dis, disJob, jobCrashes, jobFaults, runs, applied,
          explored  \* which of the two

jobVars == <<sys, db, ledger, mem, queue, scheduled, delayed, unsettled, backoff, jobLock,
             wkPc, wkJob, wkRec, wkShared, wkDeleted, wkResult, pending, broken,
             req, loaded, victims, doomed, reply, dis, disJob, jobCrashes, jobFaults, runs, applied>>

\* One event delivered three times, once followed and once preceded by another.
RepeatedPayload == (d1 :> <<e1, e2>>) @@ (d2 :> <<e2, e1>>) @@ (d3 :> <<e1>>)

\* Every job has its own key.
FreshKeys == (r1 :> k1) @@ (r2 :> k2)
FreshBodies == (r1 :> b1) @@ (r2 :> b2)

Jobs == INSTANCE DeletionJobs WITH
  Requests <- {r1, r2}, Keys <- {k1, k2}, KeyOf <- FreshKeys, BodyOf <- FreshBodies,
  MaxAttempts <- 2, HistoryLimit <- 1, CrashBudget <- 1, FaultBudget <- 0,
  lock <- jobLock, crashes <- jobCrashes, faults <- jobFaults

-----------------------------------------------------------------------------
\* The queue before its process starts, or its service up, without a job.
JobsInit ==
  /\ sys = (IF explored = "jobs" THEN "down" ELSE "ready")
  /\ wkPc = (IF explored = "jobs" THEN "dead" ELSE "idle")
  /\ db = [j \in {r1, r2} |-> None] /\ mem = db /\ ledger = [k \in {k1, k2} |-> None]
  /\ queue = <<>> /\ scheduled = {} /\ delayed = {} /\ unsettled = {} /\ backoff = {}
  /\ jobLock = "free"
  /\ wkJob = None /\ wkRec = None /\ wkShared = FALSE /\ wkDeleted = FALSE /\ wkResult = None
  /\ pending = <<>> /\ broken = FALSE
  /\ req = [r \in {r1, r2} |-> "new"] /\ loaded = db /\ doomed = db /\ reply = db
  /\ victims = [r \in {r1, r2} |-> {}]
  /\ dis = "idle" /\ disJob = None
  /\ jobCrashes = 0 /\ jobFaults = 0
  /\ runs = [j \in {r1, r2} |-> 0] /\ applied = {}

EitherInit == Init /\ explored \in {"webhook", "jobs"} /\ JobsInit

EitherNext ==
  \/ explored = "webhook" /\ Next /\ UNCHANGED <<jobVars, explored>>
  \/ explored = "jobs" /\ Jobs!Next /\ UNCHANGED <<vars, explored>>

\* Nothing that is fair is enabled in the part at rest.
EitherSpec ==
  EitherInit /\ [][EitherNext]_<<vars, jobVars, explored>> /\ Fairness /\ Jobs!Fairness

\* DeletionJobs' properties, under this module's names
ViewIsDurable == Jobs!ViewIsDurable
EveryJobEnds == Jobs!EveryJobEnds
=============================================================================
