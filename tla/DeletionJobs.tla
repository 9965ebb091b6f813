---------------------------- MODULE DeletionJobs ----------------------------
(***************************************************************************)
(* ManualDeletionJobService: the durable queue of confirmed manual         *)
(* deletions, its single worker, its progress writer and its SQLite        *)
(* repository, with client calls interleaved at every await, failed        *)
(* database writes and process crashes.                                    *)
(*                                                                         *)
(* A request is one POST of a deletion; the UUID the service mints for the *)
(* job is the request itself, so a job and the call that created it share  *)
(* a name.  KeyOf is the idempotency key the client sends, BodyOf the      *)
(* canonical request it is bound to.                                       *)
(*                                                                         *)
(* A job record is cut down to its phase and its attempt counter: the      *)
(* status is a function of the phase (queued, running, retry_wait,         *)
(* completed, failed), and "recording" stands for every phase reported     *)
(* after the first one.  A commit made in a worker thread and the step of  *)
(* the event loop that resumes on it are one action, except where other    *)
(* calls can tell them apart (create/insert and load/install).             *)
(***************************************************************************)
EXTENDS Naturals, Sequences, FiniteSets

CONSTANTS
  Requests,      \* submissions, hence also job identities
  Keys,          \* idempotency keys
  KeyOf, BodyOf, \* the key and the canonical body of each request
  MaxAttempts,   \* max_attempts of the service
  HistoryLimit,  \* finished jobs kept in the visible history
  CrashBudget,   \* bound: process crashes explored
  FaultBudget,   \* bound: failed database writes explored
  None           \* an absent row, object or answer

Mutating == {"cleaning", "recording"}
Terminal == {"completed", "failed"}
RunningPhases == {"planning"} \cup Mutating
Phases == {"queued", "retrying"} \cup RunningPhases \cup Terminal
Active == Phases \ Terminal
Record == [phase : Phases, attempts : Nat]

ASSUME ConstantsAssumption ==
  /\ IsFiniteSet(Requests)
  /\ KeyOf \in [Requests -> Keys]
  /\ MaxAttempts \in Nat \ {0}
  /\ {HistoryLimit, CrashBudget, FaultBudget} \subseteq Nat
  /\ None \notin Record
  /\ None \notin Requests
  /\ {"conflict", "retired", "rejected", "batch"} \cap Requests = {} /\ None # "batch"

VARIABLES
  sys,        \* "down", "recovering" or "ready"
  db,         \* manual_delete_jobs: durable row of each job
  ledger,     \* destructive_idempotency_ledger: the job, or some batch, that claimed each key
  mem,        \* _jobs (and its index by key): object of each visible job
  queue,      \* _queue
  scheduled,  \* _scheduled
  delayed,    \* _delayed_tasks
  unsettled,  \* jobs whose _settled event exists and is not set
  backoff,    \* jobs whose next_retry_at lies in the future
  lock,       \* holder of the shared execution lock: "free", "job", "other"
  wkPc, wkJob, wkRec,  \* the worker: control point, job, its record object
  wkShared,   \* the worker's object is the one in mem
  wkDeleted,  \* the run reported an action with status DELETED
  wkResult,   \* how the runner ended
  pending,    \* snapshots the progress writer has still to save
  broken,     \* the progress writer's sticky failure
  req,        \* control point of each submission
  loaded,     \* row a submission read and will install in mem
  victims, doomed, \* history rows a submission prunes, and the one it deletes
  reply,      \* answer of each submission: a job, or an error
  dis, disJob,     \* the call that holds the dismiss lock
  crashes, faults, \* consumed budgets
  runs,       \* history: runs of each job that reached its mutations
  applied     \* history: jobs with a deletion reported, or cut off by a crash

memVars == <<db, ledger, mem>>
schedVars == <<queue, scheduled, delayed, backoff>>
wkVars == <<wkPc, wkJob, wkRec, wkShared, wkDeleted, wkResult, pending, broken>>
reqVars == <<req, loaded, victims, doomed, reply>>
disVars == <<dis, disJob>>
budgetVars == <<crashes, faults>>
histVars == <<runs, applied>>
vars == <<sys, memVars, schedVars, unsettled, lock, wkVars, reqVars, disVars, budgetVars, histVars>>

WorkerPcs == {"dead", "idle", "save_running", "acquire", "verify", "save_verified", "report",
              "flush", "mutate", "drain", "finish"}
InFlight == {"lookup", "load", "install", "preview", "prune", "create", "insert"}

StoreType ==
  /\ sys \in {"down", "recovering", "ready"}
  /\ db \in [Requests -> Record \cup {None}]
  /\ ledger \in [Keys -> Requests \cup {"batch", None}]
  /\ mem \in [Requests -> Record \cup {None}]
  /\ crashes \in Nat /\ faults \in Nat
  /\ runs \in [Requests -> Nat] /\ applied \subseteq Requests

QueueType ==
  /\ queue \in Seq(Requests)
  /\ scheduled \subseteq Requests /\ delayed \subseteq Requests
  /\ unsettled \subseteq Requests /\ backoff \subseteq Requests
  /\ lock \in {"free", "job", "other"}

WorkerType ==
  /\ wkPc \in WorkerPcs
  /\ IF wkPc \in {"dead", "idle"}
       THEN wkJob = None /\ wkRec = None
       ELSE wkJob \in Requests /\ wkRec \in Record
  /\ wkResult \in {None, "success", "retryable", "terminal", "raised"}
  /\ pending \in Seq(Record)

FlagType == wkShared \in BOOLEAN /\ wkDeleted \in BOOLEAN /\ broken \in BOOLEAN

CallType ==
  /\ req \in [Requests -> {"new", "done", "lost"} \cup InFlight]
  /\ loaded \in [Requests -> Record \cup {None}]
  /\ victims \in [Requests -> SUBSET Requests]
  /\ doomed \in [Requests -> Requests \cup {None}]
  /\ reply \in [Requests -> Requests \cup {None, "conflict", "retired", "rejected"}]
  /\ \A r \in Requests :
       /\ req[r] = "install" => loaded[r] \in Record
       /\ req[r] = "prune" => doomed[r] \in Requests
       /\ req[r] \in {"load", "install"} => ledger[KeyOf[r]] \in Requests
  /\ dis \in {"idle", "wait", "delete"}
  /\ IF dis = "idle" THEN disJob = None ELSE disJob \in Requests

TypeOK == StoreType /\ QueueType /\ WorkerType /\ FlagType /\ CallType

Init ==
  /\ sys = "down"
  /\ db = [j \in Requests |-> None] /\ ledger = [k \in Keys |-> None]
  /\ mem = [j \in Requests |-> None]
  /\ queue = <<>> /\ scheduled = {} /\ delayed = {} /\ unsettled = {} /\ backoff = {}
  /\ lock = "free"
  /\ wkPc = "dead" /\ wkJob = None /\ wkRec = None
  /\ wkShared = FALSE /\ wkDeleted = FALSE /\ wkResult = None
  /\ pending = <<>> /\ broken = FALSE
  /\ req = [r \in Requests |-> "new"] /\ loaded = [r \in Requests |-> None]
  /\ victims = [r \in Requests |-> {}] /\ doomed = [r \in Requests |-> None]
  /\ reply = [r \in Requests |-> None]
  /\ dis = "idle" /\ disJob = None
  /\ crashes = 0 /\ faults = 0
  /\ runs = [j \in Requests |-> 0] /\ applied = {}

-----------------------------------------------------------------------------
(* Scheduling: _schedule_job and the loop of start() over every active job. *)

\* Mutant of IsActive: finished jobs count as active.
AnyJob(rec) == rec # None

IsActive(rec) == rec # None /\ rec.phase \in Active
IsTerminal(rec) == rec # None /\ rec.phase \in Terminal

\* next_retry_at lies in the future: the job waits in a delayed task.
MustWait(j, rec) == rec.phase = "retrying" /\ j \in backoff

Orders(S) ==
  {s \in [1..Cardinality(S) -> S] : \A a, b \in DOMAIN s : a # b => s[a] # s[b]}

ScheduleAll(S, m) ==
  LET fresh == S \ scheduled
      waiting == {j \in fresh : MustWait(j, m[j])}
  IN  /\ scheduled' = scheduled \cup fresh
      /\ delayed' = delayed \cup waiting
      /\ \E s \in Orders(fresh \ waiting) : queue' = queue \o s

\* Mutant of StartService: jobs that wait for a retry are not scheduled.
StartQueuedOnly ==
  /\ wkPc' = IF wkPc = "dead" THEN "idle" ELSE wkPc
  /\ ScheduleAll({j \in Requests : IsActive(mem[j]) /\ mem[j].phase # "retrying"}, mem)

\* start() once initialised: a dead worker is replaced, active jobs scheduled.
StartService ==
  /\ wkPc' = IF wkPc = "dead" THEN "idle" ELSE wkPc
  /\ ScheduleAll({j \in Requests : IsActive(mem[j])}, mem)

-----------------------------------------------------------------------------
(* Process start, recovery and crash.                                      *)

History(m) == {j \in Requests : IsTerminal(m[j]) /\ j \notin unsettled}
Overflow(m, reserve) ==
  IF Cardinality(History(m)) + reserve > HistoryLimit
    THEN Cardinality(History(m)) + reserve - HistoryLimit ELSE 0

\* start(), first call of a process: load_jobs.
Boot ==
  /\ sys = "down"
  /\ sys' = "recovering" /\ mem' = db
  /\ UNCHANGED <<db, ledger, schedVars, unsettled, lock, wkVars, reqVars, disVars, budgetVars, histVars>>

\* Mutant of Recovered: every interrupted run is retried.
RecoveredAlways(rec) == [rec EXCEPT !.phase = "retrying"]

\* What a row left RUNNING by a dead process becomes.
Recovered(rec) ==
  IF rec.phase = "planning"
    THEN [phase |-> "retrying", attempts |-> IF rec.attempts > 0 THEN rec.attempts - 1 ELSE 0]
    ELSE [rec EXCEPT !.phase = "failed"]

Interrupted(j) == mem[j] # None /\ mem[j].phase \in RunningPhases

\* Mutant of RecoverJob: the recovered record is not saved.
RecoverInMemory(j) ==
  /\ sys = "recovering" /\ Interrupted(j)
  /\ mem' = [mem EXCEPT ![j] = Recovered(mem[j])]
  /\ backoff' = backoff \ {j}
  /\ UNCHANGED <<sys, db, ledger, queue, scheduled, delayed, unsettled, lock, wkVars, reqVars, disVars,
                 budgetVars, histVars>>

RecoverJob(j) ==
  /\ sys = "recovering" /\ Interrupted(j)
  /\ mem' = [mem EXCEPT ![j] = Recovered(mem[j])]
  /\ db' = [db EXCEPT ![j] = Recovered(mem[j])]
  /\ backoff' = backoff \ {j}
  /\ UNCHANGED <<sys, ledger, queue, scheduled, delayed, unsettled, lock, wkVars, reqVars, disVars,
                 budgetVars, histVars>>

RecoveryDone == sys = "recovering" /\ \A j \in Requests : ~Interrupted(j)

\* _prune_history() of start(); which finished job is the oldest is left open.
BootPrune(j) ==
  /\ RecoveryDone /\ j \in History(mem) /\ Overflow(mem, 0) > 0
  /\ mem' = [mem EXCEPT ![j] = None] /\ db' = [db EXCEPT ![j] = None]
  /\ UNCHANGED <<sys, ledger, schedVars, unsettled, lock, wkVars, reqVars, disVars, budgetVars, histVars>>

BootDone ==
  /\ RecoveryDone /\ Overflow(mem, 0) = 0
  /\ sys' = "ready" /\ StartService
  /\ UNCHANGED <<memVars, unsettled, backoff, lock, wkJob, wkRec, wkShared, wkDeleted, wkResult, pending,
                 broken, reqVars, disVars, budgetVars, histVars>>

\* The run may have changed a downstream service.
MayHaveMutated == wkPc \in {"mutate", "drain"}

\* The process dies: only SQLite survives, calls in flight are never answered.
Crash ==
  /\ sys # "down" /\ crashes < CrashBudget
  /\ crashes' = crashes + 1
  /\ applied' = IF MayHaveMutated THEN applied \cup {wkJob} ELSE applied
  /\ sys' = "down" /\ mem' = [j \in Requests |-> None]
  /\ queue' = <<>> /\ scheduled' = {} /\ delayed' = {} /\ unsettled' = {} /\ lock' = "free"
  /\ wkPc' = "dead" /\ wkJob' = None /\ wkRec' = None /\ wkShared' = FALSE
  /\ wkDeleted' = FALSE /\ wkResult' = None /\ pending' = <<>> /\ broken' = FALSE
  /\ req' = [r \in Requests |-> IF req[r] \in InFlight THEN "lost" ELSE req[r]]
  /\ loaded' = [r \in Requests |-> None]
  /\ victims' = [r \in Requests |-> {}] /\ doomed' = [r \in Requests |-> None]
  /\ dis' = "idle" /\ disJob' = None
  /\ UNCHANGED <<db, ledger, backoff, reply, faults, runs>>

\* A next_retry_at is reached.
TimePasses(j) ==
  /\ j \in backoff /\ backoff' = backoff \ {j}
  /\ UNCHANGED <<sys, memVars, queue, scheduled, delayed, unsettled, lock, wkVars, reqVars, disVars,
                 budgetVars, histVars>>

\* Mutant of DelayedEnqueue: the job is not put on the queue.
DelayedDrop(j) ==
  /\ j \in delayed /\ j \notin backoff /\ delayed' = delayed \ {j}
  /\ UNCHANGED <<sys, memVars, queue, scheduled, unsettled, backoff, lock, wkVars, reqVars, disVars,
                 budgetVars, histVars>>

\* delayed_enqueue: the sleep of a delayed task ends.
DelayedEnqueue(j) ==
  /\ j \in delayed /\ j \notin backoff
  /\ delayed' = delayed \ {j} /\ queue' = Append(queue, j)
  /\ UNCHANGED <<sys, memVars, scheduled, unsettled, backoff, lock, wkVars, reqVars, disVars,
                 budgetVars, histVars>>

\* Batches, webhooks, the synchronous endpoint and download control.
OthersTakeLock ==
  /\ sys = "ready" /\ lock = "free" /\ lock' = "other"
  /\ UNCHANGED <<sys, memVars, schedVars, unsettled, wkVars, reqVars, disVars, budgetVars, histVars>>

OthersReleaseLock ==
  /\ lock = "other" /\ lock' = "free"
  /\ UNCHANGED <<sys, memVars, schedVars, unsettled, wkVars, reqVars, disVars, budgetVars, histVars>>

\* The batch service claims a key in the ledger both share.
BatchClaims(k) ==
  /\ ledger[k] = None /\ ledger' = [ledger EXCEPT ![k] = "batch"]
  /\ UNCHANGED <<sys, db, mem, schedVars, unsettled, lock, wkVars, reqVars, disVars, budgetVars, histVars>>

-----------------------------------------------------------------------------
(* The worker.                                                             *)

\* The worker changes its record; the visible object changes if it is the same.
SetRecord(rec) ==
  /\ wkRec' = rec
  /\ mem' = IF wkShared THEN [mem EXCEPT ![wkJob] = rec] ELSE mem

Failed(rec) == [rec EXCEPT !.phase = "failed"]

\* Mutant of Retried: the bound on attempts is off by one.
RetriedOnceMore(rec) ==
  IF rec.attempts > MaxAttempts THEN Failed(rec) ELSE [rec EXCEPT !.phase = "retrying"]

\* _retry_or_fail
Retried(rec) == IF rec.attempts >= MaxAttempts THEN Failed(rec) ELSE [rec EXCEPT !.phase = "retrying"]

\* The attempt is over: its record, next_retry_at, and the lock afterwards.
EndAttempt(rec, l) ==
  /\ SetRecord(rec)
  /\ backoff' = IF rec.phase = "retrying" THEN backoff \cup {wkJob} ELSE backoff \ {wkJob}
  /\ lock' = l /\ wkPc' = "finish"
  /\ UNCHANGED <<sys, db, ledger, queue, scheduled, delayed, unsettled, wkJob, wkShared, wkDeleted, wkResult,
                 reqVars, disVars, crashes, histVars>>

\* An exception other than a cancellation reaches _run_job, which leaves the
\* lock before handling it.
Raised(rec) == IF rec.phase = "planning" THEN Retried(rec) ELSE Failed(rec)

WorkerTake ==
  /\ wkPc = "idle" /\ queue # <<>>
  /\ LET j == Head(queue)
         rec == [phase |-> "planning", attempts |-> mem[j].attempts + 1]
     IN  /\ queue' = Tail(queue) /\ scheduled' = scheduled \ {j}
         /\ IF IsActive(mem[j])
              THEN /\ wkPc' = "save_running" /\ wkJob' = j /\ wkRec' = rec /\ wkShared' = TRUE
                   /\ mem' = [mem EXCEPT ![j] = rec]
                   /\ unsettled' = unsettled \cup {j} /\ backoff' = backoff \ {j}
              ELSE UNCHANGED <<wkPc, wkJob, wkRec, wkShared, mem, unsettled, backoff>>
  /\ UNCHANGED <<sys, db, ledger, delayed, lock, wkDeleted, wkResult, pending, broken, reqVars, disVars,
                 budgetVars, histVars>>

WorkerSaveRunning ==
  /\ wkPc = "save_running"
  /\ db' = [db EXCEPT ![wkJob] = wkRec] /\ wkPc' = "acquire"
  /\ pending' = <<>> /\ broken' = FALSE
  /\ UNCHANGED <<sys, ledger, mem, schedVars, unsettled, lock, wkJob, wkRec, wkShared, wkDeleted, wkResult,
                 reqVars, disVars, budgetVars, histVars>>

WorkerAcquire ==
  /\ wkPc = "acquire" /\ lock = "free"
  /\ lock' = "job" /\ wkPc' = "verify"
  /\ UNCHANGED <<sys, memVars, schedVars, unsettled, wkJob, wkRec, wkShared, wkDeleted, wkResult, pending,
                 broken, reqVars, disVars, budgetVars, histVars>>

\* library_item_changed, unsafe_plan or plan_changed.
VerifyRejects ==
  /\ wkPc = "verify" /\ EndAttempt(Failed(wkRec), "job")
  /\ UNCHANGED <<pending, broken, faults>>

\* preflight_failed, reported in the plan or raised by resolver or previewer.
VerifyFails ==
  /\ wkPc = "verify" /\ \E l \in {"job", "free"} : EndAttempt(Retried(wkRec), l)
  /\ UNCHANGED <<pending, broken, faults>>

VerifyPasses ==
  /\ wkPc = "verify" /\ wkPc' = "save_verified"
  /\ UNCHANGED <<sys, memVars, schedVars, unsettled, lock, wkJob, wkRec, wkShared, wkDeleted, wkResult,
                 pending, broken, reqVars, disVars, budgetVars, histVars>>

WorkerSaveVerified ==
  /\ wkPc = "save_verified"
  /\ db' = [db EXCEPT ![wkJob] = wkRec] /\ wkPc' = "report"
  /\ UNCHANGED <<sys, ledger, mem, schedVars, unsettled, lock, wkJob, wkRec, wkShared, wkDeleted, wkResult,
                 pending, broken, reqVars, disVars, budgetVars, histVars>>

-----------------------------------------------------------------------------
(* The run: progress reports, the ordered writer, downstream mutations.     *)

\* _OrderedJobWriter.submit: a snapshot replaces a waiting one of its phase.
Submitted(rec) ==
  IF pending # <<>> /\ pending[Len(pending)].phase = rec.phase
    THEN [pending EXCEPT ![Len(pending)] = rec] ELSE Append(pending, rec)

\* _JobProgressReporter: status, phase and a snapshot for the writer.
Report(phase) ==
  LET rec == [wkRec EXCEPT !.phase = phase]
  IN  SetRecord(rec) /\ pending' = Submitted(rec)

\* execute() reports its first mutating phase before it touches anything.
WorkerReport ==
  /\ wkPc = "report" /\ Report("cleaning") /\ wkPc' = "flush"
  /\ UNCHANGED <<sys, db, ledger, schedVars, unsettled, lock, wkJob, wkShared, wkDeleted, wkResult, broken,
                 reqVars, disVars, budgetVars, histVars>>

\* _drain
WriterSave ==
  /\ wkPc \in {"flush", "mutate", "drain"} /\ pending # <<>> /\ ~broken
  /\ db' = [db EXCEPT ![wkJob] = Head(pending)] /\ pending' = Tail(pending)
  /\ UNCHANGED <<sys, ledger, mem, schedVars, unsettled, lock, wkPc, wkJob, wkRec, wkShared, wkDeleted,
                 wkResult, broken, reqVars, disVars, budgetVars, histVars>>

\* Mutant of WorkerFlushed: the runner does not wait for the writer.
WorkerNotFlushed ==
  /\ wkPc = "flush"
  /\ wkPc' = "mutate" /\ wkDeleted' = FALSE /\ runs' = [runs EXCEPT ![wkJob] = @ + 1]
  /\ UNCHANGED <<sys, memVars, schedVars, unsettled, lock, wkJob, wkRec, wkShared, wkResult, pending, broken,
                 reqVars, disVars, budgetVars, applied>>

\* flush() returned: the durable phase is past planning, mutations may begin.
WorkerFlushed ==
  /\ wkPc = "flush" /\ pending = <<>> /\ ~broken
  /\ wkPc' = "mutate" /\ wkDeleted' = FALSE /\ runs' = [runs EXCEPT ![wkJob] = @ + 1]
  /\ UNCHANGED <<sys, memVars, schedVars, unsettled, lock, wkJob, wkRec, wkShared, wkResult, pending, broken,
                 reqVars, disVars, budgetVars, applied>>

\* flush() raised: the runner ends before its first mutation.
WorkerFlushFails ==
  /\ wkPc = "flush" /\ broken /\ EndAttempt(Raised(wkRec), "free")
  /\ UNCHANGED <<pending, broken, faults>>

\* The first deletion of the run is made and reported (more change nothing here).
Mutate ==
  /\ wkPc = "mutate" /\ ~wkDeleted /\ wkDeleted' = TRUE
  /\ applied' = applied \cup {wkJob}
  /\ Report(wkRec.phase)
  /\ UNCHANGED <<sys, db, ledger, schedVars, unsettled, lock, wkPc, wkJob, wkShared, wkResult, broken,
                 reqVars, disVars, budgetVars, runs>>

ReportRecording ==
  /\ wkPc = "mutate" /\ wkRec.phase = "cleaning" /\ Report("recording")
  /\ UNCHANGED <<sys, db, ledger, schedVars, unsettled, lock, wkPc, wkJob, wkShared, wkDeleted, wkResult,
                 broken, reqVars, disVars, budgetVars, histVars>>

\* The runner returns a result (success, an error that may be replayed, one
\* that may not) or raises; every result is recorded first.
RunnerEnds(result) ==
  /\ wkPc = "mutate" /\ (result # "raised" => wkRec.phase = "recording")
  /\ wkResult' = result /\ wkPc' = "drain"
  /\ UNCHANGED <<sys, memVars, schedVars, unsettled, lock, wkJob, wkRec, wkShared, wkDeleted, pending, broken,
                 reqVars, disVars, budgetVars, histVars>>

\* Mutant of Outcome: a partial result is retried like one that deleted nothing.
OutcomeOfPartial(rec, result, deleted) ==
  CASE result = "raised" -> Raised(rec)
    [] result = "success" -> [rec EXCEPT !.phase = "completed"]
    [] result = "retryable" -> Retried(rec)
    [] OTHER -> Failed(rec)

\* _run_job on the outcome of a run.
Outcome(rec, result, deleted) ==
  CASE result = "raised" -> Raised(rec)
    [] result = "success" -> [rec EXCEPT !.phase = "completed"]
    [] result = "retryable" /\ ~deleted -> Retried(rec)
    [] OTHER -> Failed(rec)

\* The writer is drained before the lock is left, whatever the runner did.
WorkerDrained ==
  /\ wkPc = "drain" /\ (pending = <<>> \/ broken)
  /\ EndAttempt(Outcome(wkRec, IF broken THEN "raised" ELSE wkResult, wkDeleted), "free")
  /\ UNCHANGED <<pending, broken, faults>>

\* _worker_loop ends an iteration: the settled event wakes a waiting dismissal.
Settle ==
  /\ unsettled' = unsettled \ {wkJob}
  /\ dis' = IF dis = "wait" /\ disJob = wkJob THEN "delete" ELSE dis
  /\ wkJob' = None /\ wkRec' = None /\ wkShared' = FALSE /\ wkDeleted' = FALSE /\ wkResult' = None

\* The last save of an attempt, and what follows it without an await.
WorkerFinish ==
  /\ wkPc = "finish" /\ wkPc' = "idle"
  /\ db' = [db EXCEPT ![wkJob] = wkRec]
  /\ lock' = IF lock = "job" THEN "free" ELSE lock
  /\ ScheduleAll({j \in {wkJob} : wkRec.phase = "retrying"}, [mem EXCEPT ![wkJob] = wkRec])
  /\ Settle
  /\ UNCHANGED <<sys, ledger, mem, backoff, pending, broken, reqVars, disJob, budgetVars, histVars>>

WorkerNext ==
  \/ WorkerTake \/ WorkerSaveRunning \/ WorkerAcquire
  \/ VerifyRejects \/ VerifyFails \/ VerifyPasses \/ WorkerSaveVerified
  \/ WorkerReport \/ WriterSave \/ WorkerFlushed \/ WorkerFlushFails
  \/ Mutate \/ ReportRecording
  \/ \E result \in {"success", "retryable", "terminal", "raised"} : RunnerEnds(result)
  \/ WorkerDrained \/ WorkerFinish

-----------------------------------------------------------------------------
(* A database write that fails.                                            *)

Fault == faults < FaultBudget /\ faults' = faults + 1

WriterFails ==
  /\ Fault /\ wkPc \in {"flush", "mutate", "drain"} /\ pending # <<>> /\ ~broken
  /\ broken' = TRUE
  /\ UNCHANGED <<sys, memVars, schedVars, unsettled, lock, wkPc, wkJob, wkRec, wkShared, wkDeleted, wkResult,
                 pending, reqVars, disVars, crashes, histVars>>

\* Inside the block that holds the lock the exception is handled as a failure.
LockedSaveFails ==
  /\ Fault /\ (wkPc = "save_verified" \/ (wkPc = "finish" /\ lock = "job"))
  /\ EndAttempt(Raised(wkRec), "free")
  /\ UNCHANGED <<pending, broken>>

\* Outside it, the exception ends the worker task; start() replaces it later.
WorkerDies ==
  /\ Fault /\ (wkPc = "save_running" \/ (wkPc = "finish" /\ lock # "job"))
  /\ wkPc' = "dead" /\ Settle
  /\ UNCHANGED <<sys, memVars, schedVars, lock, pending, broken, reqVars, disJob, crashes, histVars>>

FaultNext == WriterFails \/ LockedSaveFails \/ WorkerDies

-----------------------------------------------------------------------------
(* submit() and dismiss().                                                 *)

\* The index by key: the visible jobs created under the key of r.
Known(r) == {j \in Requests : mem[j] # None /\ KeyOf[j] = KeyOf[r]}

\* Mutant of Answer: the body is not compared.
AnswerAny(r, j) == j

\* _return_or_reject_idempotency_match
Answer(r, j) == IF BodyOf[j] = BodyOf[r] THEN j ELSE "conflict"

Reply(r, answer) == req' = [req EXCEPT ![r] = "done"] /\ reply' = [reply EXCEPT ![r] = answer]
Proceed(r, pc) == req' = [req EXCEPT ![r] = pc] /\ UNCHANGED reply

SubmitCall(r) ==
  /\ sys = "ready" /\ req[r] = "new" /\ StartService
  /\ \/ Known(r) = {} /\ Proceed(r, "lookup")
     \/ \E j \in Known(r) : Reply(r, Answer(r, j))
  /\ UNCHANGED <<sys, memVars, unsettled, backoff, lock, wkJob, wkRec, wkShared, wkDeleted, wkResult,
                 pending, broken, loaded, victims, doomed, disVars, budgetVars, histVars>>

\* preview() also goes through start().
PreviewCall ==
  /\ sys = "ready" /\ StartService
  /\ UNCHANGED <<sys, memVars, unsettled, backoff, lock, wkJob, wkRec, wkShared, wkDeleted, wkResult,
                 pending, broken, reqVars, disVars, budgetVars, histVars>>

\* _resolve_existing_ledger up to its await: only a single deletion of the
\* same canonical request matches.
ResolveExisting(r) ==
  LET j == ledger[KeyOf[r]]
      matches == j # "batch" /\ BodyOf[j] = BodyOf[r]
  IN  \/ ~matches /\ Reply(r, "conflict")
      \/ matches /\ mem[j] # None /\ Reply(r, j)
      \/ matches /\ mem[j] = None /\ Proceed(r, "load")

LookupLedger(r) ==
  /\ req[r] = "lookup"
  /\ IF ledger[KeyOf[r]] = None THEN Proceed(r, "preview") ELSE ResolveExisting(r)
  /\ UNCHANGED <<sys, memVars, schedVars, unsettled, lock, wkVars, loaded, victims, doomed, disVars,
                 budgetVars, histVars>>

\* load_job reads the row in a thread ...
LoadRow(r) ==
  /\ req[r] = "load"
  /\ IF db[ledger[KeyOf[r]]] = None
       THEN Reply(r, "retired") /\ UNCHANGED loaded
       ELSE Proceed(r, "install") /\ loaded' = [loaded EXCEPT ![r] = db[ledger[KeyOf[r]]]]
  /\ UNCHANGED <<sys, memVars, schedVars, unsettled, lock, wkVars, victims, doomed, disVars, budgetVars,
                 histVars>>

\* ... and the event loop makes it the visible object, whatever happened since.
InstallRow(r) ==
  /\ req[r] = "install"
  /\ LET j == ledger[KeyOf[r]]
     IN  /\ mem' = [mem EXCEPT ![j] = loaded[r]]
         /\ wkShared' = (wkShared /\ wkJob # j)
         /\ Reply(r, Answer(r, j))
  /\ loaded' = [loaded EXCEPT ![r] = None]
  /\ UNCHANGED <<sys, db, ledger, schedVars, unsettled, lock, wkPc, wkJob, wkRec, wkDeleted, wkResult,
                 pending, broken, victims, doomed, disVars, budgetVars, histVars>>

\* The plan cannot be built or was not the one confirmed.
SubmitRejected(r) ==
  /\ req[r] = "preview" /\ Reply(r, "rejected")
  /\ UNCHANGED <<sys, memVars, schedVars, unsettled, lock, wkVars, loaded, victims, doomed, disVars,
                 budgetVars, histVars>>

\* The loop of _prune_history: the object goes first, its row after an await.
PruneNext(r, rest) ==
  \/ /\ rest = {}
     /\ Proceed(r, "create")
     /\ victims' = [victims EXCEPT ![r] = {}] /\ doomed' = [doomed EXCEPT ![r] = None]
     /\ UNCHANGED <<mem, wkShared>>
  \/ \E j \in rest :
       /\ Proceed(r, "prune")
       /\ victims' = [victims EXCEPT ![r] = rest \ {j}] /\ doomed' = [doomed EXCEPT ![r] = j]
       /\ mem' = [mem EXCEPT ![j] = None]
       /\ wkShared' = (wkShared /\ wkJob # j)

PlanConfirmed(r) ==
  /\ req[r] = "preview"
  /\ \E rest \in SUBSET History(mem) :
       Cardinality(rest) = Overflow(mem, 1) /\ PruneNext(r, rest)
  /\ UNCHANGED <<sys, db, ledger, schedVars, unsettled, lock, wkPc, wkJob, wkRec, wkDeleted, wkResult,
                 pending, broken, loaded, disVars, budgetVars, histVars>>

PruneRow(r) ==
  /\ req[r] = "prune"
  /\ db' = [db EXCEPT ![doomed[r]] = None]
  /\ PruneNext(r, victims[r])
  /\ UNCHANGED <<sys, ledger, schedVars, unsettled, lock, wkPc, wkJob, wkRec, wkDeleted, wkResult,
                 pending, broken, loaded, disVars, budgetVars, histVars>>

NewRecord == [phase |-> "queued", attempts |-> 0]

\* create_job_with_idempotency: one transaction claims the key and saves the row.
CreateRow(r) ==
  /\ req[r] = "create"
  /\ IF ledger[KeyOf[r]] = None
       THEN /\ ledger' = [ledger EXCEPT ![KeyOf[r]] = r]
            /\ db' = [db EXCEPT ![r] = NewRecord]
            /\ Proceed(r, "insert")
       ELSE ResolveExisting(r) /\ UNCHANGED <<ledger, db>>
  /\ UNCHANGED <<sys, mem, schedVars, unsettled, lock, wkVars, loaded, victims, doomed, disVars,
                 budgetVars, histVars>>

InsertJob(r) ==
  /\ req[r] = "insert" /\ Reply(r, r)
  /\ mem' = [mem EXCEPT ![r] = NewRecord]
  /\ wkShared' = (wkShared /\ wkJob # r)
  /\ ScheduleAll({r}, mem')
  /\ UNCHANGED <<sys, db, ledger, unsettled, backoff, lock, wkPc, wkJob, wkRec, wkDeleted, wkResult,
                 pending, broken, loaded, victims, doomed, disVars, budgetVars, histVars>>

SubmitNext(r) ==
  \/ LookupLedger(r) \/ LoadRow(r) \/ InstallRow(r) \/ SubmitRejected(r) \/ PlanConfirmed(r)
  \/ PruneRow(r) \/ CreateRow(r) \/ InsertJob(r)

Dismiss(j) ==
  /\ sys = "ready" /\ dis = "idle" /\ IsTerminal(mem[j])
  /\ disJob' = j /\ dis' = IF j \in unsettled THEN "wait" ELSE "delete"
  /\ UNCHANGED <<sys, memVars, schedVars, unsettled, lock, wkVars, reqVars, budgetVars, histVars>>

DismissDelete ==
  /\ dis = "delete"
  /\ db' = [db EXCEPT ![disJob] = None] /\ mem' = [mem EXCEPT ![disJob] = None]
  /\ wkShared' = (wkShared /\ wkJob # disJob)
  /\ unsettled' = unsettled \ {disJob}
  /\ dis' = "idle" /\ disJob' = None
  /\ UNCHANGED <<sys, ledger, schedVars, lock, wkPc, wkJob, wkRec, wkDeleted, wkResult, pending, broken,
                 reqVars, budgetVars, histVars>>

-----------------------------------------------------------------------------
BootNext == Boot \/ BootDone \/ \E j \in Requests : RecoverJob(j) \/ BootPrune(j)

TimerNext == \E j \in Requests : TimePasses(j) \/ DelayedEnqueue(j)

Next ==
  \/ BootNext \/ Crash \/ TimerNext \/ OthersTakeLock \/ OthersReleaseLock
  \/ WorkerNext \/ FaultNext \/ PreviewCall \/ DismissDelete
  \/ \E r \in Requests : SubmitCall(r) \/ SubmitNext(r) \/ Dismiss(r)
  \/ \E k \in Keys : BatchClaims(k)

Spec == Init /\ [][Next]_vars

(***************************************************************************)
(* The event loop runs every ready task, threads finish their queries,     *)
(* plans are answered, sleeps end and other holders release the lock.      *)
(* asyncio.Lock wakes its waiters in order, so a worker that waits cannot  *)
(* be overtaken for ever: strong fairness on acquiring.  Nothing makes a   *)
(* client call, a write fail or the process crash.                         *)
(***************************************************************************)
Fairness ==
  /\ WF_vars(BootNext) /\ WF_vars(WorkerNext) /\ SF_vars(WorkerAcquire)
  /\ WF_vars(OthersReleaseLock)
  /\ \A j \in Requests : WF_vars(TimePasses(j)) /\ WF_vars(DelayedEnqueue(j)) /\ WF_vars(SubmitNext(j))

FairSpec == Spec /\ Fairness

-----------------------------------------------------------------------------
(* Properties.                                                             *)

\* While a run may be changing downstream services its durable row is never
\* one that recovery would replay: the first mutating phase is flushed before
\* the first mutation (manual_deletion.execute) and nothing overwrites it with
\* an older snapshot.
WriteAhead ==
  wkPc \in {"mutate", "drain"} => db[wkJob] = None \/ db[wkJob].phase \in Mutating

\* A job whose runs deleted something, or died where they might have, is never
\* run again: not by a retry, not by recovery, not by a repeated submission.
NoReplay == [][\A j \in applied : runs'[j] = runs[j]]_vars

\* Over crashes, restarts and failed writes together, a job reaches its
\* mutations at most max_attempts times.
AttemptBudget == \A j \in Requests : runs[j] <= MaxAttempts

\* A finished row is never reopened, and a row that was dismissed or pruned
\* never comes back: late snapshots and stale objects cannot resurrect a job.
Claimed(j) == ledger[KeyOf[j]] = j
FinishedIsFinal ==
  [][\A j \in Requests :
       /\ IsTerminal(db[j]) => db'[j] \in {db[j], None}
       /\ Claimed(j) /\ db[j] = None => db'[j] = None]_vars

\* All accepted answers under one key name one job, created under that key
\* from the same canonical request, whatever calls race.
KeyOwnsOneJob ==
  \A r \in Requests :
    reply[r] \in Requests =>
      /\ reply[r] = ledger[KeyOf[r]]
      /\ BodyOf[reply[r]] = BodyOf[r]

\* No job exists, durably, visibly, in the queue or in the worker, without
\* owning its key: a request that lost the race for a key leaves nothing behind.
OnlyClaimantsExist ==
  \A j \in Requests :
    db[j] # None \/ mem[j] # None \/ j \in scheduled \/ wkJob = j => Claimed(j)

\* While a worker lives, every visible unfinished job is in its hands or
\* scheduled: none waits for a client to call again.
NoJobForgotten ==
  sys = "ready" /\ wkPc # "dead" =>
    \A j \in Requests : IsActive(mem[j]) => j \in scheduled \/ (wkJob = j /\ wkShared)

\* Once everything in flight has ended, what the API shows is what a restart
\* would load.
ViewIsDurable ==
  sys = "ready" /\ wkPc = "idle" /\ dis = "idle" /\ (\A r \in Requests : req[r] \notin InFlight)
    => mem = db

\* However calls, timers and a crash fall, in the end every job accepted has
\* finished or been removed and stays so, as long as database writes succeed:
\* no job is left in a queue, in a delayed task or behind the lock for ever.
EveryJobEnds == <>[](\A j \in Requests : db[j] = None \/ IsTerminal(db[j]))

=============================================================================
