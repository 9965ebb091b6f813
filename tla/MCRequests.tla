----------------------------- MODULE MCRequests -----------------------------
(***************************************************************************)
(* Calls that race: for the first administrator and the policy of access,  *)
(* and for the idempotency key of a deletion or of a batch of them.  The   *)
(* three components share no state here (each has the others' claims on    *)
(* the keys as steps of its own); one run explores each of them while the  *)
(* other two are at rest.                                                  *)
(***************************************************************************)
EXTENDS Access, TLC

CONSTANTS alice, bob, r1, r2, r3, r4, r5, k1, k4, k5, b1, b2, None

VARIABLES sys, db, ledger, jobMem, queue, scheduled, delayed, unsettled, backoff, jobLock,
          wkPc, wkJob, wkRec, wkShared, wkDeleted, wkResult, pending, broken,
          req, loaded, victims, doomed, reply, dis, disJob, jobCrashes, jobFaults, runs, applied

VARIABLES batchDb, batchLedger, born, obj, batchMem, batchQueue, batchScheduled, batchLock,
          pc, on, kid, todo, rest, batchReply, batchCrashes, batchFaults, ran

VARIABLE explored  \* which of the three

jobVars == <<sys, db, ledger, jobMem, queue, scheduled, delayed, unsettled, backoff, jobLock,
             wkPc, wkJob, wkRec, wkShared, wkDeleted, wkResult, pending, broken,
             req, loaded, victims, doomed, reply, dis, disJob, jobCrashes, jobFaults, runs, applied>>

batchVars == <<batchDb, batchLedger, born, obj, batchMem, batchQueue, batchScheduled, batchLock,
               pc, on, kid, todo, rest, batchReply, batchCrashes, batchFaults, ran>>

-----------------------------------------------------------------------------
(* Two identities and two profiles, one of them known to the older release. *)

Closed == [mode |-> "password_only", allowed |-> {}]
Shared == [mode |-> "both", allowed |-> {bob}]
BothPolicies == {Closed, Shared}
OldConfigs == {[policy |-> Closed, dry |-> TRUE, admin |-> alice, profiles |-> <<>>],
               [policy |-> Shared, dry |-> FALSE, admin |-> NoUser,
                profiles |-> <<[id |-> 1, enabled |-> TRUE, is_default |-> FALSE]>>]}

-----------------------------------------------------------------------------
(* Three calls share a key; two are one call that the client repeats, the  *)
(* third one asks for something else.  r4 and r5 have keys of their own.   *)

SharedKeys == (r1 :> k1) @@ (r2 :> k1) @@ (r3 :> k1)
SharedBodies == (r1 :> b1) @@ (r2 :> b1) @@ (r3 :> b2)
BatchKeys == SharedKeys @@ (r4 :> k4) @@ (r5 :> k5)
BatchBodies == SharedBodies @@ (r4 :> b1) @@ (r5 :> b1)
Interchangeable == Permutations({r1, r2})

Jobs == INSTANCE DeletionJobs WITH
  Requests <- {r1, r2, r3}, Keys <- {k1}, KeyOf <- SharedKeys, BodyOf <- SharedBodies,
  MaxAttempts <- 1, HistoryLimit <- 1, CrashBudget <- 1, FaultBudget <- 0,
  mem <- jobMem, lock <- jobLock, crashes <- jobCrashes, faults <- jobFaults

Batches == INSTANCE DeletionBatches WITH
  Requests <- {r1, r2, r3, r4, r5}, Keys <- {k1, k4, k5}, KeyOf <- BatchKeys,
  Bodies <- {b1, b2}, BodyOf <- BatchBodies,
  ChildCount <- 1, HistoryLimit <- 1, MaxPending <- 1, CrashBudget <- 1, FaultBudget <- 1,
  db <- batchDb, ledger <- batchLedger, mem <- batchMem, queue <- batchQueue,
  scheduled <- batchScheduled, lock <- batchLock, reply <- batchReply,
  crashes <- batchCrashes, faults <- batchFaults

-----------------------------------------------------------------------------
(* Two beginnings of the batches, both of them states that their Spec      *)
(* reaches; submissions that were answered an error (gone) do nothing      *)
(* more.  Either all is as in Init, but that jobs own the keys of r4 and   *)
(* r5.  Or the batches of r4 and r5 have completed, the worker has saved   *)
(* r5 and not yet pruned r4, which is beyond the limit of the history; r1  *)
(* and r2 are yet to come.                                                 *)

Calls == {r1, r2, r3, r4, r5}
Actors == Calls \cup {"worker", "boot"}
Completed == [status |-> "completed", kids |-> [c \in {1} |-> "completed"]]

Begin(past, gone, answer, owners) ==
  LET busy == past # {} IN
  /\ batchDb = [b \in Calls |-> IF b \in past THEN Completed ELSE None] /\ obj = batchDb
  /\ batchMem = [b \in Calls |-> IF b \in past THEN b ELSE None]
  /\ batchLedger = owners
  /\ born = [b \in Calls |-> IF b \notin past THEN 0 ELSE IF b = r4 THEN 1 ELSE 2]
  /\ batchQueue = <<>> /\ batchScheduled = {} /\ batchLock = "free"
  /\ pc = [a \in Actors |-> CASE a = "worker" -> IF busy THEN "prune" ELSE "dead"
                              [] a = "boot" -> IF busy THEN "ready" ELSE "down"
                              [] OTHER -> IF a \in past \cup gone THEN "done" ELSE "new"]
  /\ on = [a \in {"worker", "boot"} |-> IF busy /\ a = "worker" THEN r5 ELSE None] /\ kid = 1
  /\ todo = [a \in Actors |-> IF busy /\ a = "worker" THEN {r4} ELSE {}] /\ rest = {}
  /\ batchReply = [r \in Calls |-> CASE r \in past -> r [] r \in gone -> answer [] OTHER -> None]
  /\ batchCrashes = 0 /\ batchFaults = 0
  /\ ran = [b \in Calls |-> [c \in {1} |-> IF b \in past THEN 1 ELSE 0]]

BatchesInit ==
  \/ Begin({}, {r4, r5}, "conflict", (k1 :> None) @@ (k4 :> "single") @@ (k5 :> "single"))
  \/ explored = "batches" /\ Begin({r4, r5}, {r3}, "rejected", (k1 :> None) @@ (k4 :> r4) @@ (k5 :> r5))

\* A fresh installation stands for all where access is at rest.
CallsInit ==
  /\ explored \in {"access", "jobs", "batches"}
  /\ Init /\ (explored # "access" => disk = NoDisk /\ legacy = NoConfig)
  /\ Jobs!Init
  /\ BatchesInit

CallsNext ==
  \/ explored = "access" /\ Next /\ UNCHANGED <<jobVars, batchVars, explored>>
  \/ explored = "jobs" /\ Jobs!Next /\ UNCHANGED <<vars, batchVars, explored>>
  \/ explored = "batches" /\ Batches!Next /\ UNCHANGED <<vars, jobVars, explored>>

CallsSpec == CallsInit /\ [][CallsNext]_<<vars, jobVars, batchVars, explored>>

\* The properties of the jobs and of the batches, under this module's names
KeyOwnsOneJob == Jobs!KeyOwnsOneJob
KeyOwnsOneBatch == Batches!KeyOwnsOneBatch
=============================================================================
