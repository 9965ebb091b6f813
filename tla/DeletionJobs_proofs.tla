------------------------- MODULE DeletionJobs_proofs -------------------------
(***************************************************************************)
(* Proofs about DeletionJobs, for every set of submissions, assignment of  *)
(* keys and bodies, attempt limit, history limit and number of crashes and *)
(* failed writes, in three parts:                                          *)
(*   - types, one job per idempotency key, and the durable phase ahead of  *)
(*     the mutations;                                                      *)
(*   - no job is run again: the safety of retries, restarts and late       *)
(*     saves, where every submission carries a key of its own;             *)
(*   - what callers and restarts see: no job is forgotten, the view is the *)
(*     store once all is quiet, and the service implements the abstract    *)
(*     lifecycle of JobLifecycle step by step.                             *)
(***************************************************************************)
EXTENDS DeletionJobsLifecycle, FiniteSetTheorems, TLAPS

USE DEF memVars, schedVars, wkVars, reqVars, disVars, budgetVars, histVars

-----------------------------------------------------------------------------
(* What the helpers return.                                                *)

LEMMA OrdersAreSequences ==
  ASSUME NEW S \in SUBSET Requests, NEW s \in Orders(S)
  PROVE  s \in Seq(Requests)
<1>1. IsFiniteSet(S)
  BY ConstantsAssumption, FS_Subset
<1>2. Cardinality(S) \in Nat
  BY <1>1, FS_CardinalityType
<1>3. s \in [1..Cardinality(S) -> Requests]
  BY DEF Orders
<1> QED
  BY <1>2, <1>3

LEMMA ScheduleAllType ==
  ASSUME QueueType, NEW S \in SUBSET Requests, NEW m, ScheduleAll(S, m)
  PROVE  /\ scheduled' \subseteq Requests /\ delayed' \subseteq Requests
         /\ queue' \in Seq(Requests)
<1> DEFINE fresh == S \ scheduled
           waiting == {j \in fresh : MustWait(j, m[j])}
<1>1. PICK s \in Orders(fresh \ waiting) : queue' = queue \o s
  BY DEF ScheduleAll
<1>2. fresh \ waiting \in SUBSET Requests
  OBVIOUS
<1>3. s \in Seq(Requests)
  BY <1>2, OrdersAreSequences
<1>4. queue' \in Seq(Requests)
  BY <1>1, <1>3 DEF QueueType
<1>5. scheduled' = scheduled \cup fresh /\ delayed' = delayed \cup waiting
  BY DEF ScheduleAll
<1> QED
  BY <1>4, <1>5 DEF QueueType

LEMMA RecordType ==
  ASSUME NEW rec \in Record, NEW phase \in Phases
  PROVE  [rec EXCEPT !.phase = phase] \in Record /\ [rec EXCEPT !.phase = phase].phase = phase
BY DEF Record

LEMMA RecoveredType == \A rec \in Record : Recovered(rec) \in Record
BY DEF Recovered, Record, Phases, Terminal

LEMMA FailedType ==
  \A rec \in Record : Failed(rec) \in Record /\ Retried(rec) \in Record /\ Raised(rec) \in Record
<1> SUFFICES ASSUME NEW rec \in Record
             PROVE  Failed(rec) \in Record /\ Retried(rec) \in Record /\ Raised(rec) \in Record
  OBVIOUS
<1>1. Failed(rec) \in Record /\ Retried(rec) \in Record
  BY RecordType DEF Failed, Retried, Phases, Terminal
<1> QED
  BY <1>1 DEF Raised

LEMMA OutcomeType == \A rec \in Record : \A result, deleted : Outcome(rec, result, deleted) \in Record
BY FailedType, RecordType DEF Outcome, Phases, Terminal

LEMMA NewRecordType == NewRecord \in Record
BY DEF NewRecord, Record, Phases

\* Between taking a job and finishing with it the worker holds a record.
LEMMA Busy ==
  ASSUME TypeOK, wkPc \notin {"dead", "idle"}
  PROVE  wkJob \in Requests /\ wkRec \in Record
BY DEF TypeOK, WorkerType

LEMMA SubmittedType ==
  ASSUME NEW rec \in Record, pending \in Seq(Record)
  PROVE  Submitted(rec) \in Seq(Record)
BY DEF Submitted

\* Every action that ends an attempt does so from a busy worker.
EndsAttempt == VerifyRejects \/ VerifyFails \/ WorkerFlushFails \/ WorkerDrained \/ LockedSaveFails

LEMMA EndsAttemptWith ==
  ASSUME TypeOK, EndsAttempt
  PROVE  /\ wkPc \in {"verify", "flush", "drain", "save_verified", "finish"}
         /\ wkJob \in Requests /\ wkRec \in Record
         /\ \E rec \in Record, l \in {"free", "job"} : EndAttempt(rec, l)
         /\ pending' = pending /\ broken' = broken
         /\ faults' \in Nat
<1>1. wkPc \in {"verify", "flush", "drain", "save_verified", "finish"}
  BY DEF EndsAttempt, VerifyRejects, VerifyFails, WorkerFlushFails, WorkerDrained, LockedSaveFails
<1>2. wkJob \in Requests /\ wkRec \in Record
  BY <1>1 DEF TypeOK, WorkerType
<1>3. /\ \E rec \in Record, l \in {"free", "job"} : EndAttempt(rec, l)
      /\ pending' = pending /\ broken' = broken
  BY <1>2, FailedType, OutcomeType
  DEF EndsAttempt, VerifyRejects, VerifyFails, WorkerFlushFails, WorkerDrained, LockedSaveFails
<1>4. faults' \in Nat
  BY DEF EndsAttempt, VerifyRejects, VerifyFails, WorkerFlushFails, WorkerDrained, LockedSaveFails, Fault,
         TypeOK, StoreType
<1> QED
  BY <1>1, <1>2, <1>3, <1>4

\* Every action that reports progress changes the worker's phase.
Reports == WorkerReport \/ Mutate \/ ReportRecording

LEMMA ReportsWith ==
  ASSUME TypeOK, Reports
  PROVE  /\ wkPc \in {"report", "mutate"} /\ wkPc' \in {"flush", "mutate"}
         /\ wkJob \in Requests /\ wkRec \in Record
         /\ \E rec \in Record : SetRecord(rec) /\ pending' = Submitted(rec)
<1>1. wkPc \in {"report", "mutate"} /\ wkPc' \in {"flush", "mutate"}
  BY DEF Reports, WorkerReport, Mutate, ReportRecording
<1>2. wkJob \in Requests /\ wkRec \in Record
  BY <1>1 DEF TypeOK, WorkerType
<1>3. wkRec.phase \in Phases /\ {"cleaning", "recording"} \subseteq Phases
  BY <1>2 DEF Record, Phases, RunningPhases, Mutating
<1>4. PICK phase \in Phases : Report(phase)
  BY <1>3 DEF Reports, WorkerReport, Mutate, ReportRecording
<1> QED
  BY <1>1, <1>2, <1>4, RecordType DEF Report

-----------------------------------------------------------------------------
LEMMA StoreStep ==
  ASSUME TypeOK, [Next]_vars
  PROVE  StoreType'
<1>1. CASE Boot \/ BootDone \/ (\E j \in Requests : BootPrune(j))
  BY <1>1 DEF TypeOK, StoreType, Boot, BootDone, BootPrune
<1>2. CASE (\E j \in Requests : TimePasses(j)) \/ (\E j \in Requests : DelayedEnqueue(j)) \/ OthersTakeLock
  BY <1>2 DEF TypeOK, StoreType, TimePasses, DelayedEnqueue, OthersTakeLock
<1>3. CASE OthersReleaseLock \/ (\E k \in Keys : BatchClaims(k)) \/ WorkerAcquire \/ VerifyPasses
  BY <1>3 DEF TypeOK, StoreType, OthersReleaseLock, BatchClaims, WorkerAcquire, VerifyPasses
<1>4. CASE (\E result \in {"success", "retryable", "terminal", "raised"} : RunnerEnds(result)) \/
              PreviewCall \/ DismissDelete
  BY <1>4 DEF TypeOK, StoreType, RunnerEnds, PreviewCall, DismissDelete
<1>5. CASE (\E r \in Requests : SubmitCall(r)) \/ (\E r \in Requests : LookupLedger(r)) \/ (\E r \in
              Requests : LoadRow(r))
  BY <1>5 DEF TypeOK, StoreType, SubmitCall, LookupLedger, LoadRow
<1>6. CASE (\E r \in Requests : SubmitRejected(r)) \/ (\E j \in Requests : Dismiss(j))
  BY <1>6 DEF TypeOK, StoreType, SubmitRejected, Dismiss
<1>7. CASE UNCHANGED vars
  BY <1>7 DEF TypeOK, StoreType, vars
<1>8. ASSUME NEW j \in Requests, RecoverJob(j) PROVE StoreType'
  <2>1. mem[j] \in Record
    BY <1>8 DEF RecoverJob, Interrupted, TypeOK, StoreType
  <2>2. Recovered(mem[j]) \in Record
    BY <2>1, RecoveredType
  <2> QED
    BY <1>8, <2>2 DEF RecoverJob, TypeOK, StoreType
<1>9. CASE Crash
  <2>1. MayHaveMutated => wkJob \in Requests
    BY DEF MayHaveMutated, TypeOK, WorkerType
  <2>2. applied' \subseteq Requests
    BY <1>9, <2>1 DEF Crash, TypeOK, StoreType
  <2>3. mem' \in [Requests -> Record \cup {None}]
    BY <1>9 DEF Crash
  <2> QED
    BY <1>9, <2>2, <2>3 DEF Crash, TypeOK, StoreType
<1>10. CASE WorkerTake
  <2> DEFINE j == Head(queue)
  <2>1. j \in Requests
    BY <1>10 DEF WorkerTake, TypeOK, QueueType
  <2>2. CASE IsActive(mem[j])
    <3>1. mem[j] \in Record
      BY <2>1, <2>2 DEF IsActive, TypeOK, StoreType
    <3>2. [phase |-> "planning", attempts |-> mem[j].attempts + 1] \in Record
      BY <3>1 DEF Record, Phases, RunningPhases
    <3> QED
      BY <1>10, <2>1, <2>2, <3>2 DEF WorkerTake, TypeOK, StoreType
  <2>3. CASE ~IsActive(mem[j])
    BY <1>10, <2>3 DEF WorkerTake, TypeOK, StoreType
  <2> QED
    BY <2>2, <2>3
<1>11. CASE WorkerSaveRunning
  BY <1>11, Busy DEF WorkerSaveRunning, TypeOK, StoreType
<1>12. CASE EndsAttempt
  <2>1. PICK rec \in Record, l \in {"free", "job"} : EndAttempt(rec, l)
    BY <1>12, EndsAttemptWith
  <2>2. wkJob \in Requests /\ faults' \in Nat
    BY <1>12, EndsAttemptWith
  <2> QED
    BY <2>1, <2>2 DEF EndAttempt, SetRecord, TypeOK, StoreType
<1>13. CASE WorkerSaveVerified
  BY <1>13, Busy DEF WorkerSaveVerified, TypeOK, StoreType
<1>14. CASE Reports
  <2>1. PICK rec \in Record : SetRecord(rec)
    BY <1>14, ReportsWith
  <2>2. wkJob \in Requests
    BY <1>14, ReportsWith
  <2>3. mem' \in [Requests -> Record \cup {None}]
    BY <2>1, <2>2 DEF SetRecord, TypeOK, StoreType
  <2> QED
    BY <1>14, <2>2, <2>3 DEF Reports, WorkerReport, Mutate, ReportRecording, TypeOK, StoreType
<1>15. CASE WriterSave
  <2>1. Head(pending) \in Record
    BY <1>15 DEF WriterSave, TypeOK, WorkerType
  <2> QED
    BY <1>15, <2>1, Busy DEF WriterSave, TypeOK, StoreType
<1>16. CASE WorkerFlushed
  <2>1. runs' \in [Requests -> Nat]
    BY <1>16, Busy DEF WorkerFlushed, TypeOK, StoreType
  <2> QED
    BY <1>16, <2>1 DEF WorkerFlushed, TypeOK, StoreType
<1>17. CASE WorkerFinish
  BY <1>17, Busy DEF WorkerFinish, TypeOK, StoreType
<1>18. CASE WriterFails
  BY <1>18 DEF WriterFails, Fault, TypeOK, StoreType
<1>19. CASE WorkerDies
  BY <1>19 DEF WorkerDies, Fault, Settle, TypeOK, StoreType
<1>20. ASSUME NEW r \in Requests, InstallRow(r) PROVE StoreType'
  <2>1. loaded[r] \in Record /\ ledger[KeyOf[r]] \in Requests
    BY <1>20 DEF InstallRow, TypeOK, CallType
  <2> QED
    BY <1>20, <2>1 DEF InstallRow, TypeOK, StoreType
<1>21. ASSUME NEW r \in Requests, PlanConfirmed(r) PROVE StoreType'
  <2>1. mem' \in [Requests -> Record \cup {None}]
    BY <1>21 DEF PlanConfirmed, PruneNext, TypeOK, StoreType
  <2> QED
    BY <1>21, <2>1 DEF PlanConfirmed, TypeOK, StoreType
<1>22. ASSUME NEW r \in Requests, PruneRow(r) PROVE StoreType'
  <2>1. mem' \in [Requests -> Record \cup {None}]
    BY <1>22 DEF PruneRow, PruneNext, TypeOK, StoreType
  <2> QED
    BY <1>22, <2>1 DEF PruneRow, TypeOK, StoreType
<1>23. ASSUME NEW r \in Requests, CreateRow(r) PROVE StoreType'
  <2>1. KeyOf[r] \in Keys
    BY ConstantsAssumption
  <2> QED
    BY <1>23, <2>1, NewRecordType DEF CreateRow, TypeOK, StoreType
<1>24. ASSUME NEW r \in Requests, InsertJob(r) PROVE StoreType'
  BY <1>24, NewRecordType DEF InsertJob, TypeOK, StoreType
<1> QED
  BY <1>1, <1>2, <1>3, <1>4, <1>5, <1>6, <1>7, <1>8, <1>9, <1>10, <1>11, <1>12, <1>13, <1>14, <1>15, <1>16,
      <1>17, <1>18, <1>19, <1>20, <1>21, <1>22, <1>23, <1>24
  DEF Next, BootNext, TimerNext, WorkerNext, FaultNext, SubmitNext, EndsAttempt, Reports

LEMMA QueueStep ==
  ASSUME TypeOK, [Next]_vars
  PROVE  QueueType'
<1>1. CASE Boot \/ (\E j \in Requests : RecoverJob(j)) \/ (\E j \in Requests : BootPrune(j))
  BY <1>1 DEF TypeOK, QueueType, Boot, RecoverJob, BootPrune
<1>2. CASE (\E j \in Requests : TimePasses(j)) \/ OthersTakeLock \/ OthersReleaseLock \/ (\E k \in Keys : BatchClaims(k))
  BY <1>2 DEF TypeOK, QueueType, TimePasses, OthersTakeLock, OthersReleaseLock, BatchClaims
<1>3. CASE WorkerTake \/ WorkerSaveRunning \/ WorkerAcquire
  BY <1>3 DEF TypeOK, QueueType, WorkerTake, WorkerSaveRunning, WorkerAcquire
<1>4. CASE VerifyPasses \/ WorkerSaveVerified \/ Reports
  BY <1>4 DEF TypeOK, QueueType, VerifyPasses, WorkerSaveVerified, Reports, WorkerReport, Mutate,
      ReportRecording
<1>5. CASE WriterSave \/ WorkerFlushed \/ (\E result \in {"success", "retryable", "terminal", "raised"} :
              RunnerEnds(result))
  BY <1>5 DEF TypeOK, QueueType, WriterSave, WorkerFlushed, RunnerEnds
<1>6. CASE WriterFails \/ DismissDelete \/ (\E r \in Requests : LookupLedger(r))
  BY <1>6 DEF TypeOK, QueueType, WriterFails, DismissDelete, LookupLedger
<1>7. CASE (\E r \in Requests : LoadRow(r)) \/ (\E r \in Requests : InstallRow(r)) \/ (\E r \in Requests :
              SubmitRejected(r))
  BY <1>7 DEF TypeOK, QueueType, LoadRow, InstallRow, SubmitRejected
<1>8. CASE (\E r \in Requests : PlanConfirmed(r)) \/ (\E r \in Requests : PruneRow(r)) \/ (\E r \in Requests
              : CreateRow(r))
  BY <1>8 DEF TypeOK, QueueType, PlanConfirmed, PruneRow, CreateRow
<1>9. CASE (\E j \in Requests : Dismiss(j))
  BY <1>9 DEF TypeOK, QueueType, Dismiss
<1>10. CASE UNCHANGED vars
  BY <1>10 DEF TypeOK, QueueType, vars
<1>11. CASE Crash
  BY <1>11 DEF Crash, TypeOK, QueueType
<1>12. ASSUME NEW j \in Requests, DelayedEnqueue(j) PROVE QueueType'
  BY <1>12 DEF DelayedEnqueue, TypeOK, QueueType
<1>13. CASE BootDone
  <2> DEFINE S == {j \in Requests : IsActive(mem[j])}
  <2>1. ScheduleAll(S, mem) /\ S \in SUBSET Requests
    BY <1>13 DEF BootDone, StartService
  <2>2. /\ scheduled' \subseteq Requests /\ delayed' \subseteq Requests
        /\ queue' \in Seq(Requests)
    BY <2>1, ScheduleAllType DEF TypeOK
  <2> QED
    BY <1>13, <2>2 DEF BootDone, Settle, TypeOK, QueueType
<1>14. CASE PreviewCall
  <2> DEFINE S == {j \in Requests : IsActive(mem[j])}
  <2>1. ScheduleAll(S, mem) /\ S \in SUBSET Requests
    BY <1>14 DEF PreviewCall, StartService
  <2>2. /\ scheduled' \subseteq Requests /\ delayed' \subseteq Requests
        /\ queue' \in Seq(Requests)
    BY <2>1, ScheduleAllType DEF TypeOK
  <2> QED
    BY <1>14, <2>2 DEF PreviewCall, Settle, TypeOK, QueueType
<1>15. ASSUME NEW r \in Requests, SubmitCall(r) PROVE QueueType'
  <2> DEFINE S == {j \in Requests : IsActive(mem[j])}
  <2>1. ScheduleAll(S, mem) /\ S \in SUBSET Requests
    BY <1>15 DEF SubmitCall, StartService
  <2>2. /\ scheduled' \subseteq Requests /\ delayed' \subseteq Requests
        /\ queue' \in Seq(Requests)
    BY <2>1, ScheduleAllType DEF TypeOK
  <2> QED
    BY <1>15, <2>2 DEF SubmitCall, Settle, TypeOK, QueueType
<1>16. ASSUME NEW r \in Requests, InsertJob(r) PROVE QueueType'
  <2> DEFINE S == {r}
  <2>1. ScheduleAll(S, mem') /\ S \in SUBSET Requests
    BY <1>16 DEF InsertJob
  <2>2. /\ scheduled' \subseteq Requests /\ delayed' \subseteq Requests
        /\ queue' \in Seq(Requests)
    BY <2>1, ScheduleAllType DEF TypeOK
  <2> QED
    BY <1>16, <2>2 DEF InsertJob, Settle, TypeOK, QueueType
<1>17. CASE WorkerFinish
  <2> DEFINE S == {j \in {wkJob} : wkRec.phase = "retrying"}
  <2>1. ScheduleAll(S, [mem EXCEPT ![wkJob] = wkRec]) /\ S \in SUBSET Requests
    BY <1>17, Busy DEF WorkerFinish
  <2>2. /\ scheduled' \subseteq Requests /\ delayed' \subseteq Requests
        /\ queue' \in Seq(Requests)
    BY <2>1, ScheduleAllType DEF TypeOK
  <2> QED
    BY <1>17, <2>2 DEF WorkerFinish, Settle, TypeOK, QueueType
<1>18. CASE WorkerDies
  BY <1>18 DEF WorkerDies, Settle, TypeOK, QueueType
<1>19. CASE EndsAttempt
  <2>1. PICK rec \in Record, l \in {"free", "job"} : EndAttempt(rec, l)
    BY <1>19, EndsAttemptWith
  <2>2. wkJob \in Requests
    BY <1>19, EndsAttemptWith
  <2> QED
    BY <2>1, <2>2 DEF EndAttempt, TypeOK, QueueType
<1> QED
  BY <1>1, <1>2, <1>3, <1>4, <1>5, <1>6, <1>7, <1>8, <1>9, <1>10, <1>11, <1>12, <1>13, <1>14, <1>15, <1>16,
      <1>17, <1>18, <1>19
  DEF Next, BootNext, TimerNext, WorkerNext, FaultNext, SubmitNext, EndsAttempt, Reports

LEMMA WorkerStep ==
  ASSUME TypeOK, [Next]_vars
  PROVE  WorkerType'
<1>1. CASE Boot \/ (\E j \in Requests : RecoverJob(j)) \/ (\E j \in Requests : BootPrune(j))
  BY <1>1 DEF TypeOK, WorkerType, Boot, RecoverJob, BootPrune
<1>2. CASE (\E j \in Requests : TimePasses(j)) \/ (\E j \in Requests : DelayedEnqueue(j)) \/ OthersTakeLock
  BY <1>2 DEF TypeOK, WorkerType, TimePasses, DelayedEnqueue, OthersTakeLock
<1>3. CASE OthersReleaseLock \/ (\E k \in Keys : BatchClaims(k)) \/ WriterSave \/ WriterFails
  BY <1>3 DEF TypeOK, WorkerType, OthersReleaseLock, BatchClaims, WriterSave, WriterFails
<1>4. CASE DismissDelete \/ (\E r \in Requests : LookupLedger(r)) \/ (\E r \in Requests : LoadRow(r))
  BY <1>4 DEF TypeOK, WorkerType, DismissDelete, LookupLedger, LoadRow
<1>5. CASE (\E r \in Requests : InstallRow(r)) \/ (\E r \in Requests : SubmitRejected(r)) \/ (\E r \in
              Requests : PlanConfirmed(r))
  BY <1>5 DEF TypeOK, WorkerType, InstallRow, SubmitRejected, PlanConfirmed
<1>6. CASE (\E r \in Requests : PruneRow(r)) \/ (\E r \in Requests : CreateRow(r)) \/ (\E r \in Requests :
              InsertJob(r))
  BY <1>6 DEF TypeOK, WorkerType, PruneRow, CreateRow, InsertJob
<1>7. CASE (\E j \in Requests : Dismiss(j))
  BY <1>7 DEF TypeOK, WorkerType, Dismiss
<1>8. CASE UNCHANGED vars
  BY <1>8 DEF TypeOK, WorkerType, vars
<1>9. CASE BootDone
  BY <1>9 DEF BootDone, StartService, TypeOK, WorkerType, WorkerPcs
<1>10. CASE PreviewCall
  BY <1>10 DEF PreviewCall, StartService, TypeOK, WorkerType, WorkerPcs
<1>11. ASSUME NEW r \in Requests, SubmitCall(r) PROVE WorkerType'
  BY <1>11 DEF SubmitCall, StartService, TypeOK, WorkerType, WorkerPcs
<1>12. CASE Crash
  BY <1>12 DEF Crash, TypeOK, WorkerType, WorkerPcs
<1>13. CASE WorkerTake
  <2> DEFINE j == Head(queue)
             rec == [phase |-> "planning", attempts |-> mem[j].attempts + 1]
  <2>1. j \in Requests
    BY <1>13 DEF WorkerTake, TypeOK, QueueType
  <2>2. CASE IsActive(mem[j])
    <3>1. mem[j] \in Record
      BY <2>1, <2>2 DEF IsActive, TypeOK, StoreType
    <3>2. rec \in Record
      BY <3>1 DEF Record, Phases, RunningPhases
    <3>3. wkPc' = "save_running" /\ wkJob' = j /\ wkRec' = rec
      BY <1>13, <2>2 DEF WorkerTake
    <3> QED
      BY <1>13, <2>1, <3>2, <3>3 DEF WorkerTake, TypeOK, WorkerType, WorkerPcs
  <2>3. CASE ~IsActive(mem[j])
    BY <1>13, <2>3 DEF WorkerTake, TypeOK, WorkerType
  <2> QED
    BY <2>2, <2>3
<1>14. CASE WorkerSaveRunning
  BY <1>14, Busy DEF WorkerSaveRunning, TypeOK, WorkerType, WorkerPcs
<1>15. CASE WorkerAcquire
  BY <1>15, Busy DEF WorkerAcquire, TypeOK, WorkerType, WorkerPcs
<1>16. CASE VerifyPasses
  BY <1>16, Busy DEF VerifyPasses, TypeOK, WorkerType, WorkerPcs
<1>17. CASE WorkerSaveVerified
  BY <1>17, Busy DEF WorkerSaveVerified, TypeOK, WorkerType, WorkerPcs
<1>18. CASE WorkerFlushed
  BY <1>18, Busy DEF WorkerFlushed, TypeOK, WorkerType, WorkerPcs
<1>19. ASSUME NEW result \in {"success", "retryable", "terminal", "raised"}, RunnerEnds(result) PROVE WorkerType'
  BY <1>19, Busy DEF RunnerEnds, TypeOK, WorkerType, WorkerPcs
<1>20. CASE EndsAttempt
  <2>1. PICK rec \in Record, l \in {"free", "job"} : EndAttempt(rec, l)
    BY <1>20, EndsAttemptWith
  <2>2. wkJob \in Requests /\ pending' = pending
    BY <1>20, EndsAttemptWith
  <2>3. wkPc' = "finish" /\ wkJob' = wkJob /\ wkRec' = rec /\ wkResult' = wkResult
    BY <2>1 DEF EndAttempt, SetRecord
  <2> QED
    BY <2>2, <2>3 DEF TypeOK, WorkerType, WorkerPcs
<1>21. CASE Reports
  <2>1. PICK rec \in Record : SetRecord(rec) /\ pending' = Submitted(rec)
    BY <1>21, ReportsWith
  <2>2. wkPc' \in {"flush", "mutate"} /\ wkJob \in Requests
    BY <1>21, ReportsWith
  <2>3. pending' \in Seq(Record)
    BY <2>1, SubmittedType DEF TypeOK, WorkerType
  <2>4. wkJob' = wkJob /\ wkResult' = wkResult
    BY <1>21 DEF Reports, WorkerReport, Mutate, ReportRecording
  <2> QED
    BY <2>1, <2>2, <2>3, <2>4 DEF SetRecord, TypeOK, WorkerType, WorkerPcs
<1>22. CASE WorkerFinish
  BY <1>22 DEF WorkerFinish, Settle, TypeOK, WorkerType, WorkerPcs
<1>23. CASE WorkerDies
  BY <1>23 DEF WorkerDies, Settle, TypeOK, WorkerType, WorkerPcs
<1> QED
  BY <1>1, <1>2, <1>3, <1>4, <1>5, <1>6, <1>7, <1>8, <1>9, <1>10, <1>11, <1>12, <1>13, <1>14, <1>15, <1>16,
      <1>17, <1>18, <1>19, <1>20, <1>21, <1>22, <1>23
  DEF Next, BootNext, TimerNext, WorkerNext, FaultNext, SubmitNext, EndsAttempt, Reports

LEMMA FlagStep ==
  ASSUME TypeOK, [Next]_vars
  PROVE  FlagType'
<1>1. CASE Boot \/ BootDone \/ (\E j \in Requests : RecoverJob(j))
  BY <1>1, Zenon DEF TypeOK, FlagType, Boot, BootDone, RecoverJob
<1>2. CASE (\E j \in Requests : BootPrune(j)) \/ Crash \/ (\E j \in Requests : TimePasses(j))
  BY <1>2, Zenon DEF TypeOK, FlagType, BootPrune, Crash, TimePasses
<1>3. CASE (\E j \in Requests : DelayedEnqueue(j)) \/ OthersTakeLock \/ OthersReleaseLock \/ (\E k \in Keys : BatchClaims(k))
  BY <1>3, Zenon DEF TypeOK, FlagType, DelayedEnqueue, OthersTakeLock, OthersReleaseLock, BatchClaims
<1>4. CASE WorkerTake \/ WorkerSaveRunning \/ WorkerAcquire
  BY <1>4, Zenon DEF TypeOK, FlagType, WorkerTake, WorkerSaveRunning, WorkerAcquire
<1>5. CASE EndsAttempt \/ VerifyPasses \/ WorkerSaveVerified
  BY <1>5, Zenon DEF TypeOK, FlagType, EndsAttempt, VerifyRejects, VerifyFails, WorkerFlushFails,
      WorkerDrained, LockedSaveFails, EndAttempt, VerifyPasses, WorkerSaveVerified
<1>6. CASE Reports \/ WriterSave \/ WorkerFlushed
  BY <1>6, Zenon DEF TypeOK, FlagType, Reports, WorkerReport, Mutate, ReportRecording, WriterSave,
      WorkerFlushed
<1>7. CASE (\E result \in {"success", "retryable", "terminal", "raised"} : RunnerEnds(result)) \/
              WriterFails \/ PreviewCall
  BY <1>7, Zenon DEF TypeOK, FlagType, RunnerEnds, WriterFails, PreviewCall
<1>8. CASE DismissDelete \/ (\E r \in Requests : SubmitCall(r)) \/ (\E r \in Requests : LookupLedger(r))
  BY <1>8, Zenon DEF TypeOK, FlagType, DismissDelete, SubmitCall, LookupLedger
<1>9. CASE (\E r \in Requests : LoadRow(r)) \/ (\E r \in Requests : InstallRow(r)) \/ (\E r \in Requests :
              SubmitRejected(r))
  BY <1>9, Zenon DEF TypeOK, FlagType, LoadRow, InstallRow, SubmitRejected
<1>10. CASE (\E r \in Requests : CreateRow(r)) \/ (\E r \in Requests : InsertJob(r)) \/ (\E j \in Requests :
              Dismiss(j))
  BY <1>10, Zenon DEF TypeOK, FlagType, CreateRow, InsertJob, Dismiss
<1>11. CASE UNCHANGED vars
  BY <1>11, Zenon DEF TypeOK, FlagType, vars
<1>12. CASE WorkerFinish
  BY <1>12, Zenon DEF WorkerFinish, Settle, TypeOK, FlagType
<1>13. CASE WorkerDies
  BY <1>13, Zenon DEF WorkerDies, Settle, TypeOK, FlagType
<1>14. ASSUME NEW r \in Requests, PlanConfirmed(r) PROVE FlagType'
  <2>1. wkShared' \in BOOLEAN
    BY <1>14, Zenon DEF PlanConfirmed, PruneNext, TypeOK, FlagType
  <2> QED
    BY <1>14, <2>1, Zenon DEF PlanConfirmed, TypeOK, FlagType
<1>15. ASSUME NEW r \in Requests, PruneRow(r) PROVE FlagType'
  <2>1. wkShared' \in BOOLEAN
    BY <1>15, Zenon DEF PruneRow, PruneNext, TypeOK, FlagType
  <2> QED
    BY <1>15, <2>1, Zenon DEF PruneRow, TypeOK, FlagType
<1> QED
  BY <1>1, <1>2, <1>3, <1>4, <1>5, <1>6, <1>7, <1>8, <1>9, <1>10, <1>11, <1>12, <1>13, <1>14, <1>15
  DEF Next, BootNext, TimerNext, WorkerNext, FaultNext, SubmitNext, EndsAttempt, Reports

LEMMA CallStep ==
  ASSUME TypeOK, [Next]_vars
  PROVE  CallType'
<1>1. CASE Boot \/ BootDone \/ (\E j \in Requests : RecoverJob(j))
  BY <1>1 DEF TypeOK, CallType, Boot, BootDone, RecoverJob
<1>2. CASE (\E j \in Requests : BootPrune(j)) \/ Crash \/ (\E j \in Requests : TimePasses(j))
  BY <1>2 DEF TypeOK, CallType, BootPrune, Crash, TimePasses
<1>3. CASE (\E j \in Requests : DelayedEnqueue(j)) \/ OthersTakeLock \/ OthersReleaseLock
  BY <1>3 DEF TypeOK, CallType, DelayedEnqueue, OthersTakeLock, OthersReleaseLock
<1>4. CASE WorkerTake \/ WorkerSaveRunning \/ WorkerAcquire
  BY <1>4 DEF TypeOK, CallType, WorkerTake, WorkerSaveRunning, WorkerAcquire
<1>5. CASE EndsAttempt \/ VerifyPasses \/ WorkerSaveVerified
  BY <1>5 DEF TypeOK, CallType, EndsAttempt, VerifyRejects, VerifyFails, WorkerFlushFails, WorkerDrained,
      LockedSaveFails, EndAttempt, VerifyPasses, WorkerSaveVerified
<1>6. CASE Reports \/ WriterSave \/ WorkerFlushed
  BY <1>6 DEF TypeOK, CallType, Reports, WorkerReport, Mutate, ReportRecording, WriterSave, WorkerFlushed
<1>7. CASE (\E result \in {"success", "retryable", "terminal", "raised"} : RunnerEnds(result)) \/
              WriterFails \/ PreviewCall
  BY <1>7 DEF TypeOK, CallType, RunnerEnds, WriterFails, PreviewCall
<1>8. CASE DismissDelete \/ (\E j \in Requests : Dismiss(j))
  BY <1>8 DEF TypeOK, CallType, DismissDelete, Dismiss
<1>9. CASE UNCHANGED vars
  BY <1>9 DEF TypeOK, CallType, vars
<1>10. CASE WorkerFinish
  BY <1>10, Busy DEF WorkerFinish, Settle, TypeOK, CallType
<1>11. CASE WorkerDies
  BY <1>11 DEF WorkerDies, Settle, TypeOK, CallType
<1>12. ASSUME NEW r \in Requests, SubmitCall(r) PROVE CallType'
  <2>1. req' \in [Requests -> {"new", "done", "lost"} \cup InFlight]
    BY <1>12 DEF SubmitCall, Reply, Proceed, Known, Answer, InFlight, TypeOK, CallType
  <2>2. loaded' \in [Requests -> Record \cup {None}]
    BY <1>12 DEF SubmitCall, Reply, Proceed, Known, Answer, TypeOK, StoreType, CallType
  <2>3. victims' \in [Requests -> SUBSET Requests] /\ doomed' \in [Requests -> Requests \cup {None}]
    BY <1>12 DEF SubmitCall, Reply, Proceed, Known, Answer, TypeOK, CallType
  <2>4. reply' \in [Requests -> Requests \cup {None, "conflict", "retired", "rejected"}]
    BY <1>12 DEF SubmitCall, Reply, Proceed, Known, Answer, TypeOK, CallType
  <2>5. ASSUME NEW t \in Requests
        PROVE  /\ req'[t] = "install" => loaded'[t] \in Record
               /\ req'[t] = "prune" => doomed'[t] \in Requests
               /\ req'[t] \in {"load", "install"} => ledger'[KeyOf[t]] \in Requests
    BY <1>12, ConstantsAssumption DEF SubmitCall, Reply, Proceed, Known, Answer, InFlight, TypeOK, StoreType, CallType
  <2> QED
    BY <1>12, <2>1, <2>2, <2>3, <2>4, <2>5 DEF SubmitCall, TypeOK, CallType
<1>13. ASSUME NEW r \in Requests, LookupLedger(r) PROVE CallType'
  <2>0. /\ KeyOf[r] \in Keys
        /\ ledger[KeyOf[r]] \notin {None, "batch"} => ledger[KeyOf[r]] \in Requests
    BY ConstantsAssumption DEF TypeOK, StoreType
  <2>1. req' \in [Requests -> {"new", "done", "lost"} \cup InFlight]
    BY <1>13, <2>0 DEF LookupLedger, Reply, Proceed, ResolveExisting, InFlight, TypeOK, CallType
  <2>2. loaded' \in [Requests -> Record \cup {None}]
    BY <1>13, <2>0 DEF LookupLedger, Reply, Proceed, ResolveExisting, TypeOK, StoreType, CallType
  <2>3. victims' \in [Requests -> SUBSET Requests] /\ doomed' \in [Requests -> Requests \cup {None}]
    BY <1>13, <2>0 DEF LookupLedger, Reply, Proceed, ResolveExisting, TypeOK, CallType
  <2>4. reply' \in [Requests -> Requests \cup {None, "conflict", "retired", "rejected"}]
    BY <1>13, <2>0 DEF LookupLedger, Reply, Proceed, ResolveExisting, TypeOK, CallType
  <2>5. ASSUME NEW t \in Requests
        PROVE  /\ req'[t] = "install" => loaded'[t] \in Record
               /\ req'[t] = "prune" => doomed'[t] \in Requests
               /\ req'[t] \in {"load", "install"} => ledger'[KeyOf[t]] \in Requests
    BY <1>13, <2>0, ConstantsAssumption DEF LookupLedger, Reply, Proceed, ResolveExisting, InFlight, TypeOK, StoreType, CallType
  <2> QED
    BY <1>13, <2>1, <2>2, <2>3, <2>4, <2>5 DEF LookupLedger, TypeOK, CallType
<1>14. ASSUME NEW r \in Requests, LoadRow(r) PROVE CallType'
  <2>0. ledger[KeyOf[r]] \in Requests
    BY <1>14 DEF LoadRow, TypeOK, CallType
  <2>1. req' \in [Requests -> {"new", "done", "lost"} \cup InFlight]
    BY <1>14, <2>0 DEF LoadRow, Reply, Proceed, InFlight, TypeOK, CallType
  <2>2. loaded' \in [Requests -> Record \cup {None}]
    BY <1>14, <2>0 DEF LoadRow, Reply, Proceed, TypeOK, StoreType, CallType
  <2>3. victims' \in [Requests -> SUBSET Requests] /\ doomed' \in [Requests -> Requests \cup {None}]
    BY <1>14, <2>0 DEF LoadRow, Reply, Proceed, TypeOK, CallType
  <2>4. reply' \in [Requests -> Requests \cup {None, "conflict", "retired", "rejected"}]
    BY <1>14, <2>0 DEF LoadRow, Reply, Proceed, TypeOK, CallType
  <2>5. ASSUME NEW t \in Requests
        PROVE  /\ req'[t] = "install" => loaded'[t] \in Record
               /\ req'[t] = "prune" => doomed'[t] \in Requests
               /\ req'[t] \in {"load", "install"} => ledger'[KeyOf[t]] \in Requests
    BY <1>14, <2>0, ConstantsAssumption DEF LoadRow, Reply, Proceed, InFlight, TypeOK, StoreType, CallType
  <2> QED
    BY <1>14, <2>1, <2>2, <2>3, <2>4, <2>5 DEF LoadRow, TypeOK, CallType
<1>15. ASSUME NEW r \in Requests, InstallRow(r) PROVE CallType'
  <2>0. ledger[KeyOf[r]] \in Requests
    BY <1>15 DEF InstallRow, TypeOK, CallType
  <2>1. req' \in [Requests -> {"new", "done", "lost"} \cup InFlight]
    BY <1>15, <2>0 DEF InstallRow, Reply, Proceed, Answer, InFlight, TypeOK, CallType
  <2>2. loaded' \in [Requests -> Record \cup {None}]
    BY <1>15, <2>0 DEF InstallRow, Reply, Proceed, Answer, TypeOK, StoreType, CallType
  <2>3. victims' \in [Requests -> SUBSET Requests] /\ doomed' \in [Requests -> Requests \cup {None}]
    BY <1>15, <2>0 DEF InstallRow, Reply, Proceed, Answer, TypeOK, CallType
  <2>4. reply' \in [Requests -> Requests \cup {None, "conflict", "retired", "rejected"}]
    BY <1>15, <2>0 DEF InstallRow, Reply, Proceed, Answer, TypeOK, CallType
  <2>5. ASSUME NEW t \in Requests
        PROVE  /\ req'[t] = "install" => loaded'[t] \in Record
               /\ req'[t] = "prune" => doomed'[t] \in Requests
               /\ req'[t] \in {"load", "install"} => ledger'[KeyOf[t]] \in Requests
    BY <1>15, <2>0, ConstantsAssumption DEF InstallRow, Reply, Proceed, Answer, InFlight, TypeOK, StoreType, CallType
  <2> QED
    BY <1>15, <2>1, <2>2, <2>3, <2>4, <2>5 DEF InstallRow, TypeOK, CallType
<1>16. ASSUME NEW r \in Requests, SubmitRejected(r) PROVE CallType'
  <2>1. req' \in [Requests -> {"new", "done", "lost"} \cup InFlight]
    BY <1>16 DEF SubmitRejected, Reply, Proceed, InFlight, TypeOK, CallType
  <2>2. loaded' \in [Requests -> Record \cup {None}]
    BY <1>16 DEF SubmitRejected, Reply, Proceed, TypeOK, StoreType, CallType
  <2>3. victims' \in [Requests -> SUBSET Requests] /\ doomed' \in [Requests -> Requests \cup {None}]
    BY <1>16 DEF SubmitRejected, Reply, Proceed, TypeOK, CallType
  <2>4. reply' \in [Requests -> Requests \cup {None, "conflict", "retired", "rejected"}]
    BY <1>16 DEF SubmitRejected, Reply, Proceed, TypeOK, CallType
  <2>5. ASSUME NEW t \in Requests
        PROVE  /\ req'[t] = "install" => loaded'[t] \in Record
               /\ req'[t] = "prune" => doomed'[t] \in Requests
               /\ req'[t] \in {"load", "install"} => ledger'[KeyOf[t]] \in Requests
    BY <1>16, ConstantsAssumption DEF SubmitRejected, Reply, Proceed, InFlight, TypeOK, StoreType, CallType
  <2> QED
    BY <1>16, <2>1, <2>2, <2>3, <2>4, <2>5 DEF SubmitRejected, TypeOK, CallType
<1>17. ASSUME NEW r \in Requests, PlanConfirmed(r) PROVE CallType'
  <2>0. History(mem) \subseteq Requests
    BY DEF History
  <2>1. req' \in [Requests -> {"new", "done", "lost"} \cup InFlight]
    BY <1>17, <2>0 DEF PlanConfirmed, Reply, Proceed, PruneNext, InFlight, TypeOK, CallType
  <2>2. loaded' \in [Requests -> Record \cup {None}]
    BY <1>17, <2>0 DEF PlanConfirmed, Reply, Proceed, PruneNext, TypeOK, StoreType, CallType
  <2>3. victims' \in [Requests -> SUBSET Requests] /\ doomed' \in [Requests -> Requests \cup {None}]
    BY <1>17, <2>0 DEF PlanConfirmed, Reply, Proceed, PruneNext, TypeOK, CallType
  <2>4. reply' \in [Requests -> Requests \cup {None, "conflict", "retired", "rejected"}]
    BY <1>17, <2>0 DEF PlanConfirmed, Reply, Proceed, PruneNext, TypeOK, CallType
  <2>5. ASSUME NEW t \in Requests
        PROVE  /\ req'[t] = "install" => loaded'[t] \in Record
               /\ req'[t] = "prune" => doomed'[t] \in Requests
               /\ req'[t] \in {"load", "install"} => ledger'[KeyOf[t]] \in Requests
    BY <1>17, <2>0, ConstantsAssumption DEF PlanConfirmed, Reply, Proceed, PruneNext, InFlight, TypeOK, StoreType, CallType
  <2> QED
    BY <1>17, <2>1, <2>2, <2>3, <2>4, <2>5 DEF PlanConfirmed, TypeOK, CallType
<1>18. ASSUME NEW r \in Requests, PruneRow(r) PROVE CallType'
  <2>0. victims[r] \subseteq Requests
    BY DEF TypeOK, CallType
  <2>1. req' \in [Requests -> {"new", "done", "lost"} \cup InFlight]
    BY <1>18, <2>0 DEF PruneRow, Reply, Proceed, PruneNext, InFlight, TypeOK, CallType
  <2>2. loaded' \in [Requests -> Record \cup {None}]
    BY <1>18, <2>0 DEF PruneRow, Reply, Proceed, PruneNext, TypeOK, StoreType, CallType
  <2>3. victims' \in [Requests -> SUBSET Requests] /\ doomed' \in [Requests -> Requests \cup {None}]
    BY <1>18, <2>0 DEF PruneRow, Reply, Proceed, PruneNext, TypeOK, CallType
  <2>4. reply' \in [Requests -> Requests \cup {None, "conflict", "retired", "rejected"}]
    BY <1>18, <2>0 DEF PruneRow, Reply, Proceed, PruneNext, TypeOK, CallType
  <2>5. ASSUME NEW t \in Requests
        PROVE  /\ req'[t] = "install" => loaded'[t] \in Record
               /\ req'[t] = "prune" => doomed'[t] \in Requests
               /\ req'[t] \in {"load", "install"} => ledger'[KeyOf[t]] \in Requests
    BY <1>18, <2>0, ConstantsAssumption DEF PruneRow, Reply, Proceed, PruneNext, InFlight, TypeOK, StoreType, CallType
  <2> QED
    BY <1>18, <2>1, <2>2, <2>3, <2>4, <2>5 DEF PruneRow, TypeOK, CallType
<1>19. ASSUME NEW r \in Requests, CreateRow(r) PROVE CallType'
  <2>0. /\ KeyOf[r] \in Keys
        /\ ledger[KeyOf[r]] \notin {None, "batch"} => ledger[KeyOf[r]] \in Requests
    BY ConstantsAssumption DEF TypeOK, StoreType
  <2>1. req' \in [Requests -> {"new", "done", "lost"} \cup InFlight]
    BY <1>19, <2>0 DEF CreateRow, Reply, Proceed, ResolveExisting, InFlight, TypeOK, CallType
  <2>2. loaded' \in [Requests -> Record \cup {None}]
    BY <1>19, <2>0 DEF CreateRow, Reply, Proceed, ResolveExisting, TypeOK, StoreType, CallType
  <2>3. victims' \in [Requests -> SUBSET Requests] /\ doomed' \in [Requests -> Requests \cup {None}]
    BY <1>19, <2>0 DEF CreateRow, Reply, Proceed, ResolveExisting, TypeOK, CallType
  <2>4. reply' \in [Requests -> Requests \cup {None, "conflict", "retired", "rejected"}]
    BY <1>19, <2>0 DEF CreateRow, Reply, Proceed, ResolveExisting, TypeOK, CallType
  <2>5. ASSUME NEW t \in Requests
        PROVE  /\ req'[t] = "install" => loaded'[t] \in Record
               /\ req'[t] = "prune" => doomed'[t] \in Requests
               /\ req'[t] \in {"load", "install"} => ledger'[KeyOf[t]] \in Requests
    BY <1>19, <2>0, ConstantsAssumption DEF CreateRow, Reply, Proceed, ResolveExisting, InFlight, TypeOK, StoreType, CallType
  <2> QED
    BY <1>19, <2>1, <2>2, <2>3, <2>4, <2>5 DEF CreateRow, TypeOK, CallType
<1>20. ASSUME NEW r \in Requests, InsertJob(r) PROVE CallType'
  <2>1. req' \in [Requests -> {"new", "done", "lost"} \cup InFlight]
    BY <1>20 DEF InsertJob, Reply, Proceed, InFlight, TypeOK, CallType
  <2>2. loaded' \in [Requests -> Record \cup {None}]
    BY <1>20 DEF InsertJob, Reply, Proceed, TypeOK, StoreType, CallType
  <2>3. victims' \in [Requests -> SUBSET Requests] /\ doomed' \in [Requests -> Requests \cup {None}]
    BY <1>20 DEF InsertJob, Reply, Proceed, TypeOK, CallType
  <2>4. reply' \in [Requests -> Requests \cup {None, "conflict", "retired", "rejected"}]
    BY <1>20 DEF InsertJob, Reply, Proceed, TypeOK, CallType
  <2>5. ASSUME NEW t \in Requests
        PROVE  /\ req'[t] = "install" => loaded'[t] \in Record
               /\ req'[t] = "prune" => doomed'[t] \in Requests
               /\ req'[t] \in {"load", "install"} => ledger'[KeyOf[t]] \in Requests
    BY <1>20, ConstantsAssumption DEF InsertJob, Reply, Proceed, InFlight, TypeOK, StoreType, CallType
  <2> QED
    BY <1>20, <2>1, <2>2, <2>3, <2>4, <2>5 DEF InsertJob, TypeOK, CallType
<1>21. ASSUME NEW k \in Keys, BatchClaims(k) PROVE CallType'
  <2>1. /\ ledger' = [ledger EXCEPT ![k] = "batch"] /\ ledger[k] = None
        /\ UNCHANGED <<req, loaded, victims, doomed, reply, dis, disJob>>
    BY <1>21 DEF BatchClaims, reqVars, disVars
  <2>2. \A r \in Requests : ledger[KeyOf[r]] \in Requests => ledger'[KeyOf[r]] = ledger[KeyOf[r]]
    BY <2>1, ConstantsAssumption DEF TypeOK, StoreType
  <2> QED
    BY <2>1, <2>2 DEF TypeOK, CallType
<1> QED
  BY <1>1, <1>2, <1>3, <1>4, <1>5, <1>6, <1>7, <1>8, <1>9, <1>10, <1>11, <1>12, <1>13, <1>14, <1>15, <1>16,
      <1>17, <1>18, <1>19, <1>20, <1>21
  DEF Next, BootNext, TimerNext, WorkerNext, FaultNext, SubmitNext, EndsAttempt, Reports

LEMMA InitType == Init => TypeOK
<1> SUFFICES ASSUME Init PROVE TypeOK
  OBVIOUS
<1>1. StoreType
  BY ConstantsAssumption DEF Init, StoreType
<1>2. QueueType
  BY DEF Init, QueueType
<1>3. WorkerType
  BY DEF Init, WorkerType, WorkerPcs
<1>4. FlagType
  BY Zenon DEF Init, FlagType
<1>5. CallType
  BY DEF Init, CallType
<1> QED
  BY <1>1, <1>2, <1>3, <1>4, <1>5 DEF TypeOK

LEMMA StepType == TypeOK /\ [Next]_vars => TypeOK'
BY StoreStep, QueueStep, WorkerStep, FlagStep, CallStep DEF TypeOK

\* Every variable keeps its type: rows and objects are records of a phase and
\* an attempt counter, a busy worker holds one, a submission that installs or
\* prunes has something to install or prune.
THEOREM TypeCorrect == Spec => []TypeOK
BY InitType, StepType, PTL DEF Spec

-----------------------------------------------------------------------------
(* Keys.                                                                   *)

\* A job only ever claims the key it was submitted under.
LedgerSound == \A k \in Keys : ledger[k] \in Requests => KeyOf[ledger[k]] = k

\* The row was created: the claim on the key precedes the visible object.
InsertsClaimed == \A r \in Requests : req[r] = "insert" => Claimed(r)

ClaimsInv == LedgerSound /\ InsertsClaimed /\ OnlyClaimantsExist

LEMMA LedgerChanges ==
  ASSUME TypeOK, [Next]_vars
  PROVE  \/ ledger' = ledger
         \/ \E r \in Requests : ledger[KeyOf[r]] = None /\ ledger' = [ledger EXCEPT ![KeyOf[r]] = r]
         \/ \E k \in Keys : ledger[k] = None /\ ledger' = [ledger EXCEPT ![k] = "batch"]
<1>1. CASE Boot \/ BootDone \/ (\E j \in Requests : RecoverJob(j)) \/ (\E j \in Requests : BootPrune(j)) \/
              Crash \/ (\E j \in Requests : TimePasses(j)) \/ (\E j \in Requests : DelayedEnqueue(j)) \/
              OthersTakeLock
  BY <1>1 DEF Boot, BootDone, RecoverJob, BootPrune, Crash, TimePasses, DelayedEnqueue, OthersTakeLock
<1>2. CASE OthersReleaseLock \/ WorkerTake \/ WorkerSaveRunning \/ WorkerAcquire \/ EndsAttempt \/
              VerifyPasses \/ WorkerSaveVerified \/ Reports
  BY <1>2 DEF OthersReleaseLock, WorkerTake, WorkerSaveRunning, WorkerAcquire, EndsAttempt, VerifyRejects,
      VerifyFails, WorkerFlushFails, WorkerDrained, LockedSaveFails, EndAttempt, VerifyPasses,
      WorkerSaveVerified, Reports, WorkerReport, Mutate, ReportRecording
<1>3. CASE WriterSave \/ WorkerFlushed \/ (\E result \in {"success", "retryable", "terminal", "raised"} :
              RunnerEnds(result)) \/ WorkerFinish \/ WriterFails \/ WorkerDies \/ PreviewCall \/
              DismissDelete
  BY <1>3 DEF WriterSave, WorkerFlushed, RunnerEnds, WorkerFinish, WriterFails, WorkerDies, PreviewCall,
      DismissDelete
<1>4. CASE (\E r \in Requests : SubmitCall(r)) \/ (\E r \in Requests : LookupLedger(r)) \/ (\E r \in
              Requests : LoadRow(r)) \/ (\E r \in Requests : InstallRow(r)) \/ (\E r \in Requests :
              SubmitRejected(r)) \/ (\E r \in Requests : PlanConfirmed(r)) \/ (\E r \in Requests :
              PruneRow(r)) \/ (\E r \in Requests : InsertJob(r))
  BY <1>4 DEF SubmitCall, LookupLedger, LoadRow, InstallRow, SubmitRejected, PlanConfirmed, PruneRow,
      InsertJob
<1>5. CASE (\E j \in Requests : Dismiss(j))
  BY <1>5 DEF Dismiss
<1>6. CASE UNCHANGED vars
  BY <1>6 DEF vars
<1>7. ASSUME NEW r \in Requests, CreateRow(r) PROVE \/ ledger' = ledger
         \/ \E x \in Requests : ledger[KeyOf[x]] = None /\ ledger' = [ledger EXCEPT ![KeyOf[x]] = x]
  BY <1>7 DEF CreateRow
<1>8. ASSUME NEW k \in Keys, BatchClaims(k)
      PROVE  ledger[k] = None /\ ledger' = [ledger EXCEPT ![k] = "batch"]
  BY <1>8 DEF BatchClaims
<1> QED
  BY <1>1, <1>2, <1>3, <1>4, <1>5, <1>6, <1>7, <1>8
  DEF Next, BootNext, TimerNext, WorkerNext, FaultNext, SubmitNext, EndsAttempt, Reports

LEMMA ClaimsStay ==
  ASSUME TypeOK, [Next]_vars
  PROVE  \A j \in Requests : Claimed(j) => Claimed(j)'
<1>1. \A j \in Requests : KeyOf[j] \in Keys /\ j # None
  BY ConstantsAssumption
<1> QED
  BY <1>1, LedgerChanges DEF Claimed, TypeOK, StoreType

LEMMA LedgerSoundStep ==
  ASSUME TypeOK, LedgerSound, [Next]_vars
  PROVE  LedgerSound'
<1>1. "batch" \notin Requests /\ \A j \in Requests : KeyOf[j] \in Keys /\ j # None
  BY ConstantsAssumption
<1>2. CASE \E k \in Keys : ledger[k] = None /\ ledger' = [ledger EXCEPT ![k] = "batch"]
  BY <1>1, <1>2 DEF LedgerSound, TypeOK, StoreType
<1> QED
  BY <1>1, <1>2, LedgerChanges DEF LedgerSound, TypeOK, StoreType

LEMMA InsertsClaimedStep ==
  ASSUME TypeOK, InsertsClaimed, [Next]_vars
  PROVE  InsertsClaimed'
<1>1. CASE Boot \/ BootDone \/ (\E j \in Requests : RecoverJob(j)) \/ (\E j \in Requests : BootPrune(j))
  BY <1>1, ClaimsStay DEF InsertsClaimed, Boot, BootDone, RecoverJob, BootPrune
<1>2. CASE (\E j \in Requests : TimePasses(j)) \/ (\E j \in Requests : DelayedEnqueue(j)) \/ OthersTakeLock
              \/ OthersReleaseLock \/ (\E k \in Keys : BatchClaims(k))
  BY <1>2, ClaimsStay DEF InsertsClaimed, TimePasses, DelayedEnqueue, OthersTakeLock, OthersReleaseLock, BatchClaims
<1>3. CASE WorkerTake \/ WorkerSaveRunning \/ WorkerAcquire \/ EndsAttempt
  BY <1>3, ClaimsStay DEF InsertsClaimed, WorkerTake, WorkerSaveRunning, WorkerAcquire, EndsAttempt,
      VerifyRejects, VerifyFails, WorkerFlushFails, WorkerDrained, LockedSaveFails, EndAttempt
<1>4. CASE VerifyPasses \/ WorkerSaveVerified \/ Reports \/ WriterSave
  BY <1>4, ClaimsStay DEF InsertsClaimed, VerifyPasses, WorkerSaveVerified, Reports, WorkerReport, Mutate,
      ReportRecording, WriterSave
<1>5. CASE WorkerFlushed \/ (\E result \in {"success", "retryable", "terminal", "raised"} :
              RunnerEnds(result)) \/ WorkerFinish \/ WriterFails
  BY <1>5, ClaimsStay DEF InsertsClaimed, WorkerFlushed, RunnerEnds, WorkerFinish, WriterFails
<1>6. CASE WorkerDies \/ PreviewCall \/ DismissDelete \/ (\E j \in Requests : Dismiss(j))
  BY <1>6, ClaimsStay DEF InsertsClaimed, WorkerDies, PreviewCall, DismissDelete, Dismiss
<1>7. CASE UNCHANGED vars
  BY <1>7, ClaimsStay DEF InsertsClaimed, vars
<1>8. ASSUME NEW r \in Requests, SubmitCall(r) PROVE InsertsClaimed'
  BY <1>8, ClaimsStay DEF InsertsClaimed, SubmitCall, Reply, Proceed, TypeOK, CallType
<1>9. ASSUME NEW r \in Requests, LookupLedger(r) PROVE InsertsClaimed'
  BY <1>9, ClaimsStay DEF InsertsClaimed, LookupLedger, ResolveExisting, Reply, Proceed, TypeOK, CallType
<1>10. ASSUME NEW r \in Requests, LoadRow(r) PROVE InsertsClaimed'
  BY <1>10, ClaimsStay DEF InsertsClaimed, LoadRow, Reply, Proceed, TypeOK, CallType
<1>11. ASSUME NEW r \in Requests, InstallRow(r) PROVE InsertsClaimed'
  BY <1>11, ClaimsStay DEF InsertsClaimed, InstallRow, Reply, TypeOK, CallType
<1>12. ASSUME NEW r \in Requests, SubmitRejected(r) PROVE InsertsClaimed'
  BY <1>12, ClaimsStay DEF InsertsClaimed, SubmitRejected, Reply, TypeOK, CallType
<1>13. ASSUME NEW r \in Requests, PlanConfirmed(r) PROVE InsertsClaimed'
  BY <1>13, ClaimsStay DEF InsertsClaimed, PlanConfirmed, PruneNext, Proceed, TypeOK, CallType
<1>14. ASSUME NEW r \in Requests, PruneRow(r) PROVE InsertsClaimed'
  BY <1>14, ClaimsStay DEF InsertsClaimed, PruneRow, PruneNext, Proceed, TypeOK, CallType
<1>15. ASSUME NEW r \in Requests, CreateRow(r) PROVE InsertsClaimed'
  <2>1. KeyOf[r] \in Keys
    BY ConstantsAssumption
  <2>2. req'[r] = "insert" => Claimed(r)'
    BY <1>15, <2>1 DEF CreateRow, ResolveExisting, Reply, Proceed, Claimed, TypeOK, CallType, StoreType
  <2>3. \A t \in Requests \ {r} : req'[t] = req[t]
    BY <1>15 DEF CreateRow, ResolveExisting, Reply, Proceed, TypeOK, CallType
  <2> QED
    BY <2>2, <2>3, ClaimsStay DEF InsertsClaimed
<1>16. ASSUME NEW r \in Requests, InsertJob(r) PROVE InsertsClaimed'
  BY <1>16, ClaimsStay DEF InsertsClaimed, InsertJob, Reply, TypeOK, CallType
<1>17. CASE Crash
  BY <1>17, ClaimsStay DEF InsertsClaimed, Crash, InFlight, TypeOK, CallType
<1> QED
  BY <1>1, <1>2, <1>3, <1>4, <1>5, <1>6, <1>7, <1>8, <1>9, <1>10, <1>11, <1>12, <1>13, <1>14, <1>15, <1>16,
      <1>17
  DEF Next, BootNext, TimerNext, WorkerNext, FaultNext, SubmitNext, EndsAttempt, Reports

LEMMA OnlyClaimantsStep ==
  ASSUME TypeOK, ClaimsInv, [Next]_vars
  PROVE  OnlyClaimantsExist'
<1>1. CASE Boot \/ (\E j \in Requests : TimePasses(j)) \/ (\E j \in Requests : DelayedEnqueue(j)) \/
              OthersTakeLock
  BY <1>1, ClaimsStay DEF OnlyClaimantsExist, ClaimsInv, Boot, TimePasses, DelayedEnqueue, OthersTakeLock
<1>2. CASE OthersReleaseLock \/ (\E k \in Keys : BatchClaims(k)) \/ WorkerAcquire \/ VerifyPasses \/ WorkerFlushed
  BY <1>2, ClaimsStay DEF OnlyClaimantsExist, ClaimsInv, OthersReleaseLock, BatchClaims, WorkerAcquire, VerifyPasses,
      WorkerFlushed
<1>3. CASE (\E result \in {"success", "retryable", "terminal", "raised"} : RunnerEnds(result)) \/
              WriterFails \/ (\E r \in Requests : LookupLedger(r)) \/ (\E r \in Requests : LoadRow(r))
  BY <1>3, ClaimsStay DEF OnlyClaimantsExist, ClaimsInv, RunnerEnds, WriterFails, LookupLedger, LoadRow
<1>4. CASE (\E r \in Requests : SubmitRejected(r)) \/ (\E j \in Requests : Dismiss(j))
  BY <1>4, ClaimsStay DEF OnlyClaimantsExist, ClaimsInv, SubmitRejected, Dismiss
<1>5. CASE UNCHANGED vars
  BY <1>5, ClaimsStay DEF OnlyClaimantsExist, ClaimsInv, vars
<1>6. ASSUME NEW j \in Requests, RecoverJob(j) PROVE OnlyClaimantsExist'
  BY <1>6, ClaimsStay DEF RecoverJob, Interrupted, ClaimsInv, OnlyClaimantsExist, TypeOK, StoreType
<1>7. CASE BootDone
  BY <1>7, ClaimsStay DEF BootDone, StartService, ScheduleAll, IsActive, ClaimsInv, OnlyClaimantsExist, TypeOK, StoreType
<1>8. CASE PreviewCall
  BY <1>8, ClaimsStay DEF PreviewCall, StartService, ScheduleAll, IsActive, ClaimsInv, OnlyClaimantsExist, TypeOK, StoreType
<1>9. ASSUME NEW r \in Requests, SubmitCall(r) PROVE OnlyClaimantsExist'
  BY <1>9, ClaimsStay DEF SubmitCall, StartService, ScheduleAll, IsActive, ClaimsInv, OnlyClaimantsExist, TypeOK, StoreType
<1>10. CASE WorkerTake
  <2> DEFINE j == Head(queue)
  <2>1. j \in Requests
    BY <1>10 DEF WorkerTake, TypeOK, QueueType
  <2>2. IsActive(mem[j]) => Claimed(j)
    BY <2>1 DEF IsActive, ClaimsInv, OnlyClaimantsExist
  <2>3. mem' = mem \/ (IsActive(mem[j]) /\ \A t \in Requests \ {j} : mem'[t] = mem[t])
    BY <1>10, <2>1 DEF WorkerTake, TypeOK, StoreType
  <2>4. wkJob' = wkJob \/ (IsActive(mem[j]) /\ wkJob' = j)
    BY <1>10 DEF WorkerTake
  <2>5. db' = db /\ scheduled' \subseteq scheduled
    BY <1>10 DEF WorkerTake
  <2> QED
    BY <2>1, <2>2, <2>3, <2>4, <2>5, ClaimsStay DEF ClaimsInv, OnlyClaimantsExist
<1>11. CASE WorkerSaveRunning
  BY <1>11, ClaimsStay, Busy DEF WorkerSaveRunning, ClaimsInv, OnlyClaimantsExist, TypeOK, StoreType
<1>12. CASE WorkerSaveVerified
  BY <1>12, ClaimsStay, Busy DEF WorkerSaveVerified, ClaimsInv, OnlyClaimantsExist, TypeOK, StoreType
<1>13. CASE WriterSave
  BY <1>13, ClaimsStay, Busy DEF WriterSave, ClaimsInv, OnlyClaimantsExist, TypeOK, StoreType
<1>14. CASE WorkerFinish
  <2>1. wkJob \in Requests /\ Claimed(wkJob)
    BY <1>14, Busy DEF WorkerFinish, ClaimsInv, OnlyClaimantsExist
  <2>2. scheduled' \subseteq scheduled \cup {wkJob}
    BY <1>14 DEF WorkerFinish, ScheduleAll
  <2> QED
    BY <1>14, <2>1, <2>2, ClaimsStay, ConstantsAssumption
    DEF WorkerFinish, Settle, ClaimsInv, OnlyClaimantsExist, TypeOK, StoreType
<1>15. CASE WorkerDies
  BY <1>15, ClaimsStay, ConstantsAssumption DEF WorkerDies, Settle, ClaimsInv, OnlyClaimantsExist, TypeOK, StoreType
<1>16. CASE EndsAttempt
  <2>1. wkJob \in Requests /\ Claimed(wkJob)
    BY <1>16, EndsAttemptWith DEF ClaimsInv, OnlyClaimantsExist
  <2>2. PICK rec \in Record, l \in {"free", "job"} : EndAttempt(rec, l)
    BY <1>16, EndsAttemptWith
  <2> QED
    BY <2>1, <2>2, ClaimsStay DEF EndAttempt, SetRecord, ClaimsInv, OnlyClaimantsExist, TypeOK, StoreType
<1>17. CASE Reports
  <2>1. wkJob \in Requests /\ Claimed(wkJob)
    BY <1>17, ReportsWith DEF ClaimsInv, OnlyClaimantsExist
  <2>2. PICK rec \in Record : SetRecord(rec)
    BY <1>17, ReportsWith
  <2>3. db' = db /\ scheduled' = scheduled /\ wkJob' = wkJob
    BY <1>17 DEF Reports, WorkerReport, Mutate, ReportRecording
  <2> QED
    BY <2>1, <2>2, <2>3, ClaimsStay DEF SetRecord, ClaimsInv, OnlyClaimantsExist, TypeOK, StoreType
<1>18. ASSUME NEW r \in Requests, InstallRow(r) PROVE OnlyClaimantsExist'
  <2> DEFINE j == ledger[KeyOf[r]]
  <2>1. KeyOf[r] \in Keys /\ j \in Requests /\ j # None
    BY <1>18, ConstantsAssumption DEF InstallRow, TypeOK, CallType
  <2>2. Claimed(j)
    BY <2>1 DEF ClaimsInv, LedgerSound, Claimed
  <2>3. \A t \in Requests \ {j} : mem'[t] = mem[t]
    BY <1>18 DEF InstallRow, TypeOK, StoreType
  <2>4. db' = db /\ scheduled' = scheduled /\ wkJob' = wkJob
    BY <1>18 DEF InstallRow
  <2> QED
    BY <2>2, <2>3, <2>4, ClaimsStay DEF ClaimsInv, OnlyClaimantsExist
<1>19. ASSUME NEW r \in Requests, PlanConfirmed(r) PROVE OnlyClaimantsExist'
  <2>1. \A t \in Requests : mem'[t] # None => mem[t] # None
    BY <1>19 DEF PlanConfirmed, PruneNext, TypeOK, StoreType
  <2> QED
    BY <1>19, <2>1, ClaimsStay DEF PlanConfirmed, ClaimsInv, OnlyClaimantsExist
<1>20. ASSUME NEW r \in Requests, PruneRow(r) PROVE OnlyClaimantsExist'
  <2>1. \A t \in Requests : mem'[t] # None => mem[t] # None
    BY <1>20 DEF PruneRow, PruneNext, TypeOK, StoreType
  <2>2. \A t \in Requests : db'[t] # None => db[t] # None
    BY <1>20 DEF PruneRow, TypeOK, StoreType
  <2> QED
    BY <1>20, <2>1, <2>2, ClaimsStay DEF PruneRow, ClaimsInv, OnlyClaimantsExist
<1>21. ASSUME NEW r \in Requests, CreateRow(r) PROVE OnlyClaimantsExist'
  <2>1. KeyOf[r] \in Keys
    BY ConstantsAssumption
  <2>2. db' = db \/ (Claimed(r)' /\ \A t \in Requests \ {r} : db'[t] = db[t])
    BY <1>21, <2>1 DEF CreateRow, Claimed, TypeOK, StoreType
  <2> QED
    BY <1>21, <2>2, ClaimsStay DEF CreateRow, ClaimsInv, OnlyClaimantsExist
<1>22. ASSUME NEW r \in Requests, InsertJob(r) PROVE OnlyClaimantsExist'
  <2>1. Claimed(r)
    BY <1>22 DEF InsertJob, ClaimsInv, InsertsClaimed
  <2>2. \A t \in Requests \ {r} : mem'[t] = mem[t]
    BY <1>22 DEF InsertJob, TypeOK, StoreType
  <2>3. scheduled' \subseteq scheduled \cup {r}
    BY <1>22 DEF InsertJob, ScheduleAll
  <2> QED
    BY <1>22, <2>1, <2>2, <2>3, ClaimsStay DEF InsertJob, ClaimsInv, OnlyClaimantsExist
<1>23. CASE Crash
  BY <1>23, ClaimsStay, ConstantsAssumption DEF Crash, ClaimsInv, OnlyClaimantsExist, TypeOK, StoreType
<1>24. ASSUME NEW j \in Requests, BootPrune(j) PROVE OnlyClaimantsExist'
  BY <1>24, ClaimsStay DEF BootPrune, ClaimsInv, OnlyClaimantsExist, TypeOK, StoreType
<1>25. CASE DismissDelete
  BY <1>25, ClaimsStay DEF DismissDelete, ClaimsInv, OnlyClaimantsExist, TypeOK, StoreType
<1> QED
  BY <1>1, <1>2, <1>3, <1>4, <1>5, <1>6, <1>7, <1>8, <1>9, <1>10, <1>11, <1>12, <1>13, <1>14, <1>15, <1>16,
      <1>17, <1>18, <1>19, <1>20, <1>21, <1>22, <1>23, <1>24, <1>25
  DEF Next, BootNext, TimerNext, WorkerNext, FaultNext, SubmitNext, EndsAttempt, Reports

\* What KeyOwnsOneJob says of one submission.
SoundReply(r) ==
  reply[r] \in Requests => reply[r] = ledger[KeyOf[r]] /\ BodyOf[reply[r]] = BodyOf[r]

\* An answer once given stays sound, since no claim is ever withdrawn.
LEMMA RepliesStand ==
  ASSUME TypeOK, KeyOwnsOneJob, [Next]_vars
  PROVE  \A r \in Requests : reply'[r] = reply[r] => SoundReply(r)'
<1>1. \A r \in Requests : KeyOf[r] \in Keys /\ r # None
  BY ConstantsAssumption
<1>2. \A k \in Keys : ledger[k] # None => ledger'[k] = ledger[k]
  BY <1>1, LedgerChanges DEF TypeOK, StoreType
<1> QED
  BY <1>1, <1>2 DEF KeyOwnsOneJob, SoundReply

LEMMA KeyOwnsStep ==
  ASSUME TypeOK, ClaimsInv, KeyOwnsOneJob, [Next]_vars
  PROVE  KeyOwnsOneJob'
<1>1. CASE Boot \/ BootDone \/ (\E j \in Requests : RecoverJob(j)) \/ (\E j \in Requests : BootPrune(j))
  BY <1>1, RepliesStand DEF KeyOwnsOneJob, SoundReply, Boot, BootDone, RecoverJob, BootPrune
<1>2. CASE Crash \/ (\E j \in Requests : TimePasses(j)) \/ (\E j \in Requests : DelayedEnqueue(j)) \/
              OthersTakeLock
  BY <1>2, RepliesStand DEF KeyOwnsOneJob, SoundReply, Crash, TimePasses, DelayedEnqueue, OthersTakeLock
<1>3. CASE OthersReleaseLock \/ (\E k \in Keys : BatchClaims(k)) \/ WorkerTake \/ WorkerSaveRunning \/ WorkerAcquire
  BY <1>3, RepliesStand DEF KeyOwnsOneJob, SoundReply, OthersReleaseLock, BatchClaims, WorkerTake, WorkerSaveRunning,
      WorkerAcquire
<1>4. CASE EndsAttempt \/ VerifyPasses \/ WorkerSaveVerified \/ Reports
  BY <1>4, RepliesStand DEF KeyOwnsOneJob, SoundReply, EndsAttempt, VerifyRejects, VerifyFails,
      WorkerFlushFails, WorkerDrained, LockedSaveFails, EndAttempt, VerifyPasses, WorkerSaveVerified,
      Reports, WorkerReport, Mutate, ReportRecording
<1>5. CASE WriterSave \/ WorkerFlushed \/ (\E result \in {"success", "retryable", "terminal", "raised"} :
              RunnerEnds(result)) \/ WorkerFinish
  BY <1>5, RepliesStand DEF KeyOwnsOneJob, SoundReply, WriterSave, WorkerFlushed, RunnerEnds, WorkerFinish
<1>6. CASE WriterFails \/ WorkerDies \/ PreviewCall \/ DismissDelete
  BY <1>6, RepliesStand DEF KeyOwnsOneJob, SoundReply, WriterFails, WorkerDies, PreviewCall, DismissDelete
<1>7. CASE (\E j \in Requests : Dismiss(j))
  BY <1>7, RepliesStand DEF KeyOwnsOneJob, SoundReply, Dismiss
<1>8. CASE UNCHANGED vars
  BY <1>8, RepliesStand DEF KeyOwnsOneJob, SoundReply, vars
<1>9. ASSUME NEW r \in Requests, SubmitCall(r) PROVE KeyOwnsOneJob'
  <2>0. {"conflict", "retired", "rejected"} \cap Requests = {} /\ None \notin Requests /\ KeyOf[r] \in Keys
    BY ConstantsAssumption
  <2>1. ASSUME NEW j \in Known(r) PROVE ledger[KeyOf[r]] = j
    BY <2>1 DEF Known, ClaimsInv, OnlyClaimantsExist, Claimed
  <2>2. ledger' = ledger
    BY <1>9 DEF SubmitCall
  <2>3. reply'[r] = reply[r] \/ \E j \in Known(r) : reply'[r] = Answer(r, j)
    BY <1>9 DEF SubmitCall, Reply, Proceed, TypeOK, CallType
  <2>4. SoundReply(r)'
    BY <2>0, <2>1, <2>2, <2>3, RepliesStand DEF SoundReply, Answer
  <2>5. \A t \in Requests \ {r} : reply'[t] = reply[t]
    BY <1>9 DEF SubmitCall, Reply, Proceed, TypeOK, CallType
  <2> QED
    BY <2>4, <2>5, RepliesStand DEF KeyOwnsOneJob, SoundReply
<1>10. ASSUME NEW r \in Requests, LookupLedger(r) PROVE KeyOwnsOneJob'
  <2>0. {"conflict", "retired", "rejected"} \cap Requests = {} /\ None \notin Requests /\ KeyOf[r] \in Keys
    BY ConstantsAssumption
  <2>1. SoundReply(r)'
    BY <1>10, RepliesStand, <2>0 DEF LookupLedger, ResolveExisting, Reply, Proceed, SoundReply, ClaimsInv, TypeOK, CallType
  <2>2. \A t \in Requests \ {r} : reply'[t] = reply[t]
    BY <1>10 DEF LookupLedger, ResolveExisting, Reply, Proceed, TypeOK, CallType
  <2> QED
    BY <2>1, <2>2, RepliesStand DEF KeyOwnsOneJob, SoundReply
<1>11. ASSUME NEW r \in Requests, LoadRow(r) PROVE KeyOwnsOneJob'
  <2>0. {"conflict", "retired", "rejected"} \cap Requests = {} /\ None \notin Requests /\ KeyOf[r] \in Keys
    BY ConstantsAssumption
  <2>1. SoundReply(r)'
    BY <1>11, RepliesStand, <2>0 DEF LoadRow, Reply, Proceed, SoundReply, ClaimsInv, TypeOK, CallType
  <2>2. \A t \in Requests \ {r} : reply'[t] = reply[t]
    BY <1>11 DEF LoadRow, Reply, Proceed, TypeOK, CallType
  <2> QED
    BY <2>1, <2>2, RepliesStand DEF KeyOwnsOneJob, SoundReply
<1>12. ASSUME NEW r \in Requests, InstallRow(r) PROVE KeyOwnsOneJob'
  <2>0. {"conflict", "retired", "rejected"} \cap Requests = {} /\ None \notin Requests /\ KeyOf[r] \in Keys
    BY ConstantsAssumption
  <2>1. SoundReply(r)'
    BY <1>12, RepliesStand, <2>0 DEF InstallRow, Answer, Reply, Proceed, SoundReply, ClaimsInv, TypeOK, CallType
  <2>2. \A t \in Requests \ {r} : reply'[t] = reply[t]
    BY <1>12 DEF InstallRow, Answer, Reply, Proceed, TypeOK, CallType
  <2> QED
    BY <2>1, <2>2, RepliesStand DEF KeyOwnsOneJob, SoundReply
<1>13. ASSUME NEW r \in Requests, SubmitRejected(r) PROVE KeyOwnsOneJob'
  <2>0. {"conflict", "retired", "rejected"} \cap Requests = {} /\ None \notin Requests /\ KeyOf[r] \in Keys
    BY ConstantsAssumption
  <2>1. SoundReply(r)'
    BY <1>13, RepliesStand, <2>0 DEF SubmitRejected, Reply, Proceed, SoundReply, ClaimsInv, TypeOK, CallType
  <2>2. \A t \in Requests \ {r} : reply'[t] = reply[t]
    BY <1>13 DEF SubmitRejected, Reply, Proceed, TypeOK, CallType
  <2> QED
    BY <2>1, <2>2, RepliesStand DEF KeyOwnsOneJob, SoundReply
<1>14. ASSUME NEW r \in Requests, CreateRow(r) PROVE KeyOwnsOneJob'
  <2>0. {"conflict", "retired", "rejected"} \cap Requests = {} /\ None \notin Requests /\ KeyOf[r] \in Keys
    BY ConstantsAssumption
  <2>1. SoundReply(r)'
    BY <1>14, RepliesStand, <2>0 DEF CreateRow, ResolveExisting, Reply, Proceed, SoundReply, ClaimsInv, TypeOK, CallType
  <2>2. \A t \in Requests \ {r} : reply'[t] = reply[t]
    BY <1>14 DEF CreateRow, ResolveExisting, Reply, Proceed, TypeOK, CallType
  <2> QED
    BY <2>1, <2>2, RepliesStand DEF KeyOwnsOneJob, SoundReply
<1>15. ASSUME NEW r \in Requests, InsertJob(r) PROVE KeyOwnsOneJob'
  <2>0. {"conflict", "retired", "rejected"} \cap Requests = {} /\ None \notin Requests /\ KeyOf[r] \in Keys
    BY ConstantsAssumption
  <2>1. ledger[KeyOf[r]] = r /\ ledger' = ledger
    BY <1>15 DEF InsertJob, ClaimsInv, InsertsClaimed, Claimed
  <2>2. reply' = [reply EXCEPT ![r] = r]
    BY <1>15 DEF InsertJob, Reply
  <2>3. SoundReply(r)'
    BY <2>1, <2>2 DEF SoundReply, TypeOK, CallType
  <2> QED
    BY <2>2, <2>3, RepliesStand DEF KeyOwnsOneJob, SoundReply, TypeOK, CallType
<1>16. ASSUME NEW r \in Requests, PlanConfirmed(r) PROVE KeyOwnsOneJob'
  BY <1>16, RepliesStand DEF PlanConfirmed, PruneNext, Proceed, KeyOwnsOneJob, SoundReply
<1>17. ASSUME NEW r \in Requests, PruneRow(r) PROVE KeyOwnsOneJob'
  BY <1>17, RepliesStand DEF PruneRow, PruneNext, Proceed, KeyOwnsOneJob, SoundReply
<1> QED
  BY <1>1, <1>2, <1>3, <1>4, <1>5, <1>6, <1>7, <1>8, <1>9, <1>10, <1>11, <1>12, <1>13, <1>14, <1>15, <1>16,
      <1>17
  DEF Next, BootNext, TimerNext, WorkerNext, FaultNext, SubmitNext, EndsAttempt, Reports

LEMMA ClaimsStart == Init => ClaimsInv /\ KeyOwnsOneJob
<1> SUFFICES ASSUME Init PROVE ClaimsInv /\ KeyOwnsOneJob
  OBVIOUS
<1>1. None \notin Requests
  BY ConstantsAssumption
<1> QED
  BY <1>1 DEF Init, ClaimsInv, LedgerSound, InsertsClaimed, OnlyClaimantsExist, KeyOwnsOneJob

LEMMA ClaimsStep == TypeOK /\ ClaimsInv /\ [Next]_vars => ClaimsInv'
<1> SUFFICES ASSUME TypeOK, ClaimsInv, [Next]_vars PROVE ClaimsInv'
  OBVIOUS
<1>1. LedgerSound /\ InsertsClaimed
  BY DEF ClaimsInv
<1> QED
  BY <1>1, LedgerSoundStep, InsertsClaimedStep, OnlyClaimantsStep DEF ClaimsInv

LEMMA ClaimsAlways == Spec => []ClaimsInv
<1>1. TypeOK /\ ClaimsInv /\ [Next]_vars => ClaimsInv'
  BY ClaimsStep
<1> QED
  BY <1>1, ClaimsStart, TypeCorrect, PTL DEF Spec

\* No row, object, queue entry or run belongs to a submission that did not
\* win its key: create_job_with_idempotency claims and saves in one
\* transaction, and what fails to claim leaves nothing behind.
THEOREM ClaimantsOnly == Spec => []OnlyClaimantsExist
<1>1. ClaimsInv => OnlyClaimantsExist
  BY DEF ClaimsInv
<1> QED
  BY <1>1, ClaimsAlways, PTL

\* However many calls race under one key, through the index, the ledger or
\* the transaction, those that are accepted are answered with the same job.
THEOREM OneJobPerKey == Spec => []KeyOwnsOneJob
<1>1. TypeOK /\ ClaimsInv /\ KeyOwnsOneJob /\ [Next]_vars => KeyOwnsOneJob'
  BY KeyOwnsStep
<1> QED
  BY <1>1, ClaimsStart, ClaimsAlways, TypeCorrect, PTL DEF Spec

-----------------------------------------------------------------------------
(* The durable phase is ahead of the mutations.                            *)

IsMutating(rec) == rec.phase \in Mutating

\* Before the service is ready no worker exists, so recovery rewrites no row
\* under a run.
RecoversAlone == sys # "ready" => wkPc = "dead"

\* From its first report to its last snapshot a run shows mutating phases only.
OnlyMutatingSnapshots ==
  /\ wkPc \in {"flush", "mutate", "drain"} =>
       IsMutating(wkRec) /\ \A i \in DOMAIN pending : IsMutating(pending[i])
  /\ wkPc \in {"acquire", "verify", "save_verified", "report"} => pending = <<>>

\* A writer that has nothing left to save has saved a mutating phase.
FlushedRow == db[wkJob] = None \/ IsMutating(db[wkJob])
WriterDone ==
  wkPc \in {"mutate", "drain"} \/ (wkPc = "flush" /\ pending = <<>>) => FlushedRow

AheadInv == RecoversAlone /\ OnlyMutatingSnapshots /\ WriterDone

LEMMA RecoversAloneStep ==
  ASSUME TypeOK, RecoversAlone, [Next]_vars
  PROVE  RecoversAlone'
<1>1. CASE Boot \/ BootDone \/ (\E j \in Requests : RecoverJob(j)) \/ (\E j \in Requests : BootPrune(j))
  BY <1>1 DEF RecoversAlone, StartService, Boot, BootDone, RecoverJob, BootPrune
<1>2. CASE Crash \/ (\E j \in Requests : TimePasses(j)) \/ (\E j \in Requests : DelayedEnqueue(j)) \/
              OthersTakeLock
  BY <1>2 DEF RecoversAlone, StartService, Crash, TimePasses, DelayedEnqueue, OthersTakeLock
<1>3. CASE OthersReleaseLock \/ (\E k \in Keys : BatchClaims(k)) \/ WorkerTake \/ WorkerSaveRunning \/ WorkerAcquire
  BY <1>3 DEF RecoversAlone, StartService, OthersReleaseLock, BatchClaims, WorkerTake, WorkerSaveRunning, WorkerAcquire
<1>4. CASE VerifyPasses \/ WorkerSaveVerified \/ Reports \/ WriterSave
  BY <1>4 DEF RecoversAlone, StartService, VerifyPasses, WorkerSaveVerified, Reports, WorkerReport, Mutate,
      ReportRecording, WriterSave
<1>5. CASE WorkerFlushed \/ (\E result \in {"success", "retryable", "terminal", "raised"} :
              RunnerEnds(result)) \/ WorkerFinish \/ WriterFails
  BY <1>5 DEF RecoversAlone, StartService, WorkerFlushed, RunnerEnds, WorkerFinish, WriterFails
<1>6. CASE WorkerDies \/ PreviewCall \/ DismissDelete \/ (\E r \in Requests : SubmitCall(r))
  BY <1>6 DEF RecoversAlone, StartService, WorkerDies, PreviewCall, DismissDelete, SubmitCall
<1>7. CASE (\E r \in Requests : LookupLedger(r)) \/ (\E r \in Requests : LoadRow(r)) \/ (\E r \in Requests :
              InstallRow(r)) \/ (\E r \in Requests : SubmitRejected(r))
  BY <1>7 DEF RecoversAlone, StartService, LookupLedger, LoadRow, InstallRow, SubmitRejected
<1>8. CASE (\E r \in Requests : PlanConfirmed(r)) \/ (\E r \in Requests : PruneRow(r)) \/ (\E r \in Requests
              : CreateRow(r)) \/ (\E r \in Requests : InsertJob(r))
  BY <1>8 DEF RecoversAlone, StartService, PlanConfirmed, PruneRow, CreateRow, InsertJob
<1>9. CASE (\E j \in Requests : Dismiss(j))
  BY <1>9 DEF RecoversAlone, StartService, Dismiss
<1>10. CASE UNCHANGED vars
  BY <1>10 DEF RecoversAlone, StartService, vars
<1>11. CASE EndsAttempt
  BY <1>11, EndsAttemptWith DEF EndAttempt, RecoversAlone
<1> QED
  BY <1>1, <1>2, <1>3, <1>4, <1>5, <1>6, <1>7, <1>8, <1>9, <1>10, <1>11
  DEF Next, BootNext, TimerNext, WorkerNext, FaultNext, SubmitNext, EndsAttempt, Reports

LEMMA SubmittedSnapshots ==
  ASSUME pending \in Seq(Record), NEW rec \in Record, IsMutating(rec),
         \A i \in DOMAIN pending : IsMutating(pending[i])
  PROVE  Submitted(rec) # <<>> /\ \A i \in DOMAIN Submitted(rec) : IsMutating(Submitted(rec)[i])
<1>1. CASE pending # <<>> /\ pending[Len(pending)].phase = rec.phase
  <2>1. Submitted(rec) = [pending EXCEPT ![Len(pending)] = rec]
    BY <1>1 DEF Submitted
  <2>2. Len(pending) \in DOMAIN pending
    BY <1>1
  <2> QED
    BY <2>1, <2>2
<1>2. CASE ~(pending # <<>> /\ pending[Len(pending)].phase = rec.phase)
  <2>1. Submitted(rec) = Append(pending, rec)
    BY <1>2 DEF Submitted
  <2> QED
    BY <2>1
<1> QED
  BY <1>1, <1>2

LEMMA ReportSnapshots ==
  ASSUME TypeOK, OnlyMutatingSnapshots, Reports
  PROVE  /\ IsMutating(wkRec') /\ pending' # <<>>
         /\ \A i \in DOMAIN pending' : IsMutating(pending'[i])
<1>1. wkRec \in Record /\ pending \in Seq(Record)
  BY ReportsWith DEF TypeOK, WorkerType
<1>2. \A i \in DOMAIN pending : IsMutating(pending[i])
  BY DEF Reports, WorkerReport, Mutate, ReportRecording, OnlyMutatingSnapshots
<1>3. wkPc = "mutate" => wkRec.phase \in Mutating
  BY DEF OnlyMutatingSnapshots, IsMutating
<1>4. PICK phase \in Mutating : Report(phase)
  BY <1>3 DEF Reports, WorkerReport, Mutate, ReportRecording, Mutating
<1> DEFINE rec == [wkRec EXCEPT !.phase = phase]
<1>5. rec \in Record /\ IsMutating(rec)
  BY <1>1, RecordType DEF IsMutating, Mutating, Phases, RunningPhases
<1>6. wkRec' = rec /\ pending' = Submitted(rec)
  BY <1>4 DEF Report, SetRecord
<1>7. Submitted(rec) # <<>> /\ \A i \in DOMAIN Submitted(rec) : IsMutating(Submitted(rec)[i])
  BY <1>1, <1>2, <1>5, SubmittedSnapshots
<1> QED
  BY <1>5, <1>6, <1>7

LEMMA SnapshotsStep ==
  ASSUME TypeOK, OnlyMutatingSnapshots, [Next]_vars
  PROVE  OnlyMutatingSnapshots'
<1>1. CASE Boot \/ BootDone \/ (\E j \in Requests : RecoverJob(j)) \/ (\E j \in Requests : BootPrune(j))
  BY <1>1 DEF OnlyMutatingSnapshots, StartService, Boot, BootDone, RecoverJob, BootPrune
<1>2. CASE Crash \/ (\E j \in Requests : TimePasses(j)) \/ (\E j \in Requests : DelayedEnqueue(j)) \/
              OthersTakeLock
  BY <1>2 DEF OnlyMutatingSnapshots, StartService, Crash, TimePasses, DelayedEnqueue, OthersTakeLock
<1>3. CASE OthersReleaseLock \/ (\E k \in Keys : BatchClaims(k)) \/ WorkerTake \/ WorkerSaveRunning \/ WorkerAcquire
  BY <1>3 DEF OnlyMutatingSnapshots, StartService, OthersReleaseLock, BatchClaims, WorkerTake, WorkerSaveRunning,
      WorkerAcquire
<1>4. CASE VerifyPasses \/ WorkerSaveVerified \/ WorkerFlushed \/ (\E result \in {"success", "retryable",
              "terminal", "raised"} : RunnerEnds(result))
  BY <1>4 DEF OnlyMutatingSnapshots, StartService, VerifyPasses, WorkerSaveVerified, WorkerFlushed,
      RunnerEnds
<1>5. CASE WorkerFinish \/ WriterFails \/ WorkerDies \/ PreviewCall
  BY <1>5 DEF OnlyMutatingSnapshots, StartService, WorkerFinish, WriterFails, WorkerDies, PreviewCall
<1>6. CASE DismissDelete \/ (\E r \in Requests : SubmitCall(r)) \/ (\E r \in Requests : LookupLedger(r)) \/
              (\E r \in Requests : LoadRow(r))
  BY <1>6 DEF OnlyMutatingSnapshots, StartService, DismissDelete, SubmitCall, LookupLedger, LoadRow
<1>7. CASE (\E r \in Requests : InstallRow(r)) \/ (\E r \in Requests : SubmitRejected(r)) \/ (\E r \in
              Requests : PlanConfirmed(r)) \/ (\E r \in Requests : PruneRow(r))
  BY <1>7 DEF OnlyMutatingSnapshots, StartService, InstallRow, SubmitRejected, PlanConfirmed, PruneRow
<1>8. CASE (\E r \in Requests : CreateRow(r)) \/ (\E r \in Requests : InsertJob(r)) \/ (\E j \in Requests :
              Dismiss(j))
  BY <1>8 DEF OnlyMutatingSnapshots, StartService, CreateRow, InsertJob, Dismiss
<1>9. CASE UNCHANGED vars
  BY <1>9 DEF OnlyMutatingSnapshots, StartService, vars
<1>10. CASE EndsAttempt
  <2>1. wkPc' = "finish"
    BY <1>10, EndsAttemptWith DEF EndAttempt
  <2> QED
    BY <2>1 DEF OnlyMutatingSnapshots
<1>11. CASE Reports
  <2>1. wkPc' \in {"flush", "mutate"}
    BY <1>11, ReportsWith
  <2> QED
    BY <1>11, <2>1, ReportSnapshots DEF OnlyMutatingSnapshots
<1>12. CASE WriterSave
  <2>1. pending \in Seq(Record) /\ pending # <<>> /\ pending' = Tail(pending)
    BY <1>12 DEF WriterSave, TypeOK, WorkerType
  <2>2. \A i \in DOMAIN Tail(pending) : Tail(pending)[i] = pending[i + 1] /\ i + 1 \in DOMAIN pending
    BY <2>1
  <2> QED
    BY <1>12, <2>1, <2>2 DEF WriterSave, OnlyMutatingSnapshots
<1> QED
  BY <1>1, <1>2, <1>3, <1>4, <1>5, <1>6, <1>7, <1>8, <1>9, <1>10, <1>11, <1>12
  DEF Next, BootNext, TimerNext, WorkerNext, FaultNext, SubmitNext, EndsAttempt, Reports

LEMMA WriterDoneStep ==
  ASSUME TypeOK, ClaimsInv, AheadInv, [Next]_vars
  PROVE  WriterDone'
<1>1. CASE Boot \/ BootDone \/ Crash \/ (\E j \in Requests : TimePasses(j))
  BY <1>1 DEF AheadInv, WriterDone, FlushedRow, StartService, Boot, BootDone, Crash, TimePasses
<1>2. CASE (\E j \in Requests : DelayedEnqueue(j)) \/ OthersTakeLock \/ OthersReleaseLock \/ (\E k \in Keys : BatchClaims(k)) \/ WorkerTake
  BY <1>2 DEF AheadInv, WriterDone, FlushedRow, StartService, DelayedEnqueue, OthersTakeLock,
      OthersReleaseLock, BatchClaims, WorkerTake
<1>3. CASE WorkerSaveRunning \/ WorkerAcquire \/ VerifyPasses \/ WorkerSaveVerified
  BY <1>3 DEF AheadInv, WriterDone, FlushedRow, StartService, WorkerSaveRunning, WorkerAcquire,
      VerifyPasses, WorkerSaveVerified
<1>4. CASE WorkerFlushed \/ (\E result \in {"success", "retryable", "terminal", "raised"} :
              RunnerEnds(result)) \/ WorkerFinish \/ WriterFails
  BY <1>4 DEF AheadInv, WriterDone, FlushedRow, StartService, WorkerFlushed, RunnerEnds, WorkerFinish,
      WriterFails
<1>5. CASE WorkerDies \/ PreviewCall \/ (\E r \in Requests : SubmitCall(r)) \/ (\E r \in Requests :
              LookupLedger(r))
  BY <1>5 DEF AheadInv, WriterDone, FlushedRow, StartService, WorkerDies, PreviewCall, SubmitCall,
      LookupLedger
<1>6. CASE (\E r \in Requests : LoadRow(r)) \/ (\E r \in Requests : InstallRow(r)) \/ (\E r \in Requests :
              SubmitRejected(r)) \/ (\E r \in Requests : PlanConfirmed(r))
  BY <1>6 DEF AheadInv, WriterDone, FlushedRow, StartService, LoadRow, InstallRow, SubmitRejected,
      PlanConfirmed
<1>7. CASE (\E r \in Requests : InsertJob(r)) \/ (\E j \in Requests : Dismiss(j))
  BY <1>7 DEF AheadInv, WriterDone, FlushedRow, StartService, InsertJob, Dismiss
<1>8. CASE UNCHANGED vars
  BY <1>8 DEF AheadInv, WriterDone, FlushedRow, StartService, vars
<1>9. ASSUME NEW j \in Requests, RecoverJob(j) PROVE WriterDone'
  <2>1. wkPc = "dead" /\ wkPc' = wkPc
    BY <1>9 DEF RecoverJob, RecoveryDone, AheadInv, RecoversAlone
  <2> QED
    BY <2>1 DEF WriterDone
<1>10. ASSUME NEW j \in Requests, BootPrune(j) PROVE WriterDone'
  <2>1. wkPc = "dead" /\ wkPc' = wkPc
    BY <1>10 DEF BootPrune, RecoveryDone, AheadInv, RecoversAlone
  <2> QED
    BY <2>1 DEF WriterDone
<1>11. CASE EndsAttempt
  <2>1. wkPc' = "finish"
    BY <1>11, EndsAttemptWith DEF EndAttempt
  <2> QED
    BY <2>1 DEF WriterDone
<1>12. CASE Reports
  <2>1. pending' # <<>>
    BY <1>12, ReportSnapshots DEF AheadInv
  <2>2. wkPc' \in {"flush", "mutate"} /\ (wkPc' = "mutate" => wkPc = "mutate")
    BY <1>12 DEF Reports, WorkerReport, Mutate, ReportRecording
  <2>3. db' = db /\ wkJob' = wkJob
    BY <1>12 DEF Reports, WorkerReport, Mutate, ReportRecording
  <2> QED
    BY <2>1, <2>2, <2>3 DEF AheadInv, WriterDone, FlushedRow
<1>13. CASE WriterSave
  <2>1. pending \in Seq(Record) /\ pending # <<>> /\ wkJob \in Requests
    BY <1>13, Busy DEF WriterSave, TypeOK, WorkerType
  <2>2. IsMutating(Head(pending))
    BY <1>13, <2>1 DEF WriterSave, AheadInv, OnlyMutatingSnapshots
  <2>3. db'[wkJob] = Head(pending) /\ wkJob' = wkJob
    BY <1>13, <2>1 DEF WriterSave, TypeOK, StoreType
  <2> QED
    BY <2>2, <2>3 DEF WriterDone, FlushedRow
<1>14. ASSUME NEW r \in Requests, PruneRow(r) PROVE WriterDone'
  <2>1. \A j \in Requests : db'[j] = db[j] \/ db'[j] = None
    BY <1>14 DEF PruneRow, TypeOK, StoreType
  <2>2. wkPc' = wkPc /\ wkJob' = wkJob /\ pending' = pending
    BY <1>14 DEF PruneRow
  <2>3. wkPc \in {"flush", "mutate", "drain"} => wkJob \in Requests
    BY DEF TypeOK, WorkerType
  <2> QED
    BY <2>1, <2>2, <2>3 DEF AheadInv, WriterDone, FlushedRow
<1>15. CASE DismissDelete
  <2>1. \A j \in Requests : db'[j] = db[j] \/ db'[j] = None
    BY <1>15 DEF DismissDelete, TypeOK, StoreType
  <2>2. wkPc' = wkPc /\ wkJob' = wkJob /\ pending' = pending
    BY <1>15 DEF DismissDelete
  <2>3. wkPc \in {"flush", "mutate", "drain"} => wkJob \in Requests
    BY DEF TypeOK, WorkerType
  <2> QED
    BY <2>1, <2>2, <2>3 DEF AheadInv, WriterDone, FlushedRow
<1>16. ASSUME NEW r \in Requests, CreateRow(r) PROVE WriterDone'
  <2>1. wkPc' = wkPc /\ wkJob' = wkJob /\ pending' = pending
    BY <1>16 DEF CreateRow
  <2>2. wkPc \in {"flush", "mutate", "drain"} => wkJob \in Requests /\ wkJob # None /\ Claimed(wkJob)
    BY ConstantsAssumption DEF ClaimsInv, OnlyClaimantsExist, TypeOK, WorkerType
  <2>3. ledger[KeyOf[r]] # None => db' = db
    BY <1>16 DEF CreateRow
  <2>4. ledger[KeyOf[r]] = None => ~(wkJob # None /\ wkJob = r /\ Claimed(wkJob))
    BY DEF Claimed
  <2>5. \A j \in Requests \ {r} : db'[j] = db[j]
    BY <1>16 DEF CreateRow, TypeOK, StoreType
  <2> QED
    BY <2>1, <2>2, <2>3, <2>4, <2>5 DEF AheadInv, WriterDone, FlushedRow
<1> QED
  BY <1>1, <1>2, <1>3, <1>4, <1>5, <1>6, <1>7, <1>8, <1>9, <1>10, <1>11, <1>12, <1>13, <1>14, <1>15, <1>16
  DEF Next, BootNext, TimerNext, WorkerNext, FaultNext, SubmitNext, EndsAttempt, Reports

LEMMA AheadAlways == Spec => []AheadInv
<1>1. Init => AheadInv
  BY DEF Init, AheadInv, RecoversAlone, OnlyMutatingSnapshots, WriterDone
<1>2. ASSUME TypeOK, ClaimsInv, AheadInv, [Next]_vars
      PROVE  AheadInv'
  <2>1. RecoversAlone /\ OnlyMutatingSnapshots
    BY <1>2 DEF AheadInv
  <2> QED
    BY <1>2, <2>1, RecoversAloneStep, SnapshotsStep, WriterDoneStep DEF AheadInv
<1> QED
  BY <1>1, <1>2, TypeCorrect, ClaimsAlways, PTL DEF Spec

\* No run touches a downstream service before its durable row says that it
\* may, and nothing takes that back while the run lasts: not a late snapshot
\* of the writer, not a racing submission, not recovery.
THEOREM WriteAheadHolds == Spec => []WriteAhead
<1>1. AheadInv => WriteAhead
  BY DEF AheadInv, WriterDone, FlushedRow, IsMutating, WriteAhead
<1> QED
  BY <1>1, AheadAlways, PTL

-----------------------------------------------------------------------------
(* No job is run again.  (Under a repeated key the service may replace the *)
(* object of a job by an older copy of its row, and what follows fails:    *)
(* the run jobs_replay.)                                                   *)

\* No two submissions share a key: the hypothesis of the theorems from here on.
DistinctKeys == \A r, s \in Requests : KeyOf[r] = KeyOf[s] => r = s

-----------------------------------------------------------------------------
(* The inductive invariant.                                                *)

\* A key is claimed by its only call, which has then passed the ledger.
ClaimedByCaller ==
  \A r \in Requests :
    ledger[KeyOf[r]] \in Requests => Claimed(r) /\ req[r] \in {"insert", "done", "lost"}

\* Until the process is ready it serves no call, and recovery keeps what it
\* shows and what is stored the same.
QuietUntilReady ==
  /\ sys # "ready" => dis = "idle" /\ \A r \in Requests : req[r] \notin InFlight
  /\ sys = "recovering" => mem = db

HasJob == wkPc \notin {"dead", "idle"}

\* The worker's object is the visible one, and its job can be neither pruned
\* nor dismissed meanwhile.
WorkerOwnsJob == HasJob => wkShared /\ mem[wkJob] = wkRec /\ wkJob \in unsettled

PhaseFollowsRun ==
  /\ wkPc \in {"save_running", "acquire", "verify", "save_verified", "report"} => wkRec.phase = "planning"
  /\ wkPc \in {"flush", "mutate", "drain"} => wkRec.phase \in Mutating
  /\ wkPc = "finish" => wkRec.phase \in Terminal \cup {"retrying"}

\* What is visible is stored, and what is stored as finished is shown as such.
VisibleHasRow ==
  \A j \in Requests : mem[j] # None => db[j] # None /\ (IsTerminal(db[j]) => mem[j] = db[j])

OpenWhileHeld == HasJob => ~IsTerminal(db[wkJob])

\* Only the worker shows a mutating phase.
MutatingIsHeld ==
  sys = "ready" =>
    \A j \in Requests :
      mem[j] # None /\ mem[j].phase \in Mutating => wkJob = j /\ wkPc \in {"flush", "mutate", "drain"}

\* What was run or deleted was a job.
HistoryIsClaimed == \A j \in Requests : j \in applied \/ runs[j] # 0 => Claimed(j)

\* Between its transaction and its insertion a new job is untouched.
CreatedIsNew ==
  \A r \in Requests :
    req[r] = "insert" => db[r] = NewRecord /\ mem[r] = None /\ r \notin applied /\ runs[r] = 0

\* A job that is over, and one that the history may drop as well.
Ended(j) == Claimed(j) /\ req[j] # "insert" /\ ~IsActive(mem[j])
Removable(j) == Ended(j) /\ j \notin unsettled

RemovesEnded ==
  /\ \A r \in Requests :
       req[r] = "prune" => mem[doomed[r]] = None /\ \A j \in victims[r] \cup {doomed[r]} : Removable(j)
  /\ dis = "wait" => Ended(disJob)
  /\ dis = "delete" => Removable(disJob)

OwnedInv ==
  /\ ClaimedByCaller /\ QuietUntilReady /\ WorkerOwnsJob /\ PhaseFollowsRun
  /\ VisibleHasRow /\ OpenWhileHeld /\ MutatingIsHeld
  /\ HistoryIsClaimed /\ CreatedIsNew /\ RemovesEnded

Inv == TypeOK /\ ClaimsInv /\ AheadInv /\ OwnedInv

LEMMA HeldJob == TypeOK => IF HasJob THEN wkJob \in Requests /\ wkRec \in Record ELSE wkJob = None
BY DEF TypeOK, WorkerType, HasJob

-----------------------------------------------------------------------------
(* What single steps do in a state that satisfies the invariant.           *)

\* A batch holds the key, which is answered to the call.
Declined(r) ==
  /\ ledger[KeyOf[r]] = "batch" /\ req' = [req EXCEPT ![r] = "done"] /\ reply' = [reply EXCEPT ![r] = "conflict"]
  /\ UNCHANGED <<sys, memVars, schedVars, unsettled, lock, wkVars, loaded, victims, doomed, disVars, budgetVars,
                 histVars>>

\* With a key of its own no call finds another job under it.
LEMMA NothingToResolve ==
  ASSUME TypeOK, ClaimedByCaller, NEW r \in Requests
  PROVE  /\ ~LoadRow(r) /\ ~InstallRow(r)
         /\ LookupLedger(r) => \/ req' = [req EXCEPT ![r] = "preview"] /\ ledger[KeyOf[r]] = None
                               \/ Declined(r)
         /\ CreateRow(r) => \/ /\ ledger[KeyOf[r]] = None /\ ledger' = [ledger EXCEPT ![KeyOf[r]] = r]
                               /\ db' = [db EXCEPT ![r] = NewRecord] /\ req' = [req EXCEPT ![r] = "insert"]
                            \/ Declined(r)
<1>1. ledger[KeyOf[r]] \in Requests => req[r] \notin {"load", "install", "lookup", "create"}
  BY DEF ClaimedByCaller
<1>2. req[r] \in {"load", "install"} => ledger[KeyOf[r]] \in Requests
  BY DEF TypeOK, CallType
<1>3. ledger[KeyOf[r]] \in Requests \cup {"batch", None}
  BY ConstantsAssumption DEF TypeOK, StoreType
<1>4. ASSUME ledger[KeyOf[r]] = "batch", ResolveExisting(r)
      PROVE  req' = [req EXCEPT ![r] = "done"] /\ reply' = [reply EXCEPT ![r] = "conflict"]
  BY <1>4 DEF ResolveExisting, Reply
<1>5. CASE LookupLedger(r)
  BY <1>1, <1>2, <1>3, <1>4, <1>5, ConstantsAssumption
  DEF LoadRow, InstallRow, LookupLedger, CreateRow, Proceed, Declined, memVars
<1>6. CASE CreateRow(r)
  BY <1>1, <1>2, <1>3, <1>4, <1>6, ConstantsAssumption
  DEF LoadRow, InstallRow, LookupLedger, CreateRow, Proceed, Declined, memVars
<1> QED
  BY <1>1, <1>2, <1>5, <1>6 DEF LoadRow, InstallRow

\* How an attempt ends, and when it may end in a retry.
LEMMA EndsIn ==
  ASSUME TypeOK, WorkerOwnsJob, PhaseFollowsRun, EndsAttempt
  PROVE  /\ HasJob /\ wkJob \in Requests /\ wkRec \in Record
         /\ wkPc' = "finish" /\ wkRec' \in Record /\ wkRec'.attempts = wkRec.attempts
         /\ mem' = [mem EXCEPT ![wkJob] = wkRec']
         /\ \/ wkRec'.phase \in Terminal
            \/ /\ wkRec'.phase = "retrying" /\ wkRec.attempts < MaxAttempts
               /\ wkPc \in {"verify", "save_verified"} \/ (wkPc = "drain" /\ ~wkDeleted)
         /\ wkPc = "finish" => wkRec'.phase \in Terminal
         /\ UNCHANGED <<sys, db, ledger, queue, scheduled, delayed, unsettled, wkJob, wkShared, wkDeleted,
                        req, loaded, victims, doomed, reply, dis, disJob, crashes, runs, applied, pending>>
         /\ faults' = faults \/ faults' = faults + 1
<1>1. wkPc \in {"verify", "flush", "drain", "save_verified", "finish"} /\ wkJob \in Requests /\ wkRec \in Record
  BY EndsAttemptWith
<1>2. wkShared
  BY <1>1 DEF WorkerOwnsJob, HasJob
<1>3. \A rec \in Record : \A l : EndAttempt(rec, l) =>
        /\ wkPc' = "finish" /\ wkRec' = rec /\ mem' = [mem EXCEPT ![wkJob] = rec]
        /\ UNCHANGED <<sys, db, ledger, queue, scheduled, delayed, unsettled, wkJob, wkShared, wkDeleted,
                       req, loaded, victims, doomed, reply, dis, disJob, crashes, runs, applied>>
  BY <1>2 DEF EndAttempt, SetRecord
<1>4. /\ Failed(wkRec) \in Record /\ Failed(wkRec).phase = "failed" /\ Failed(wkRec).attempts = wkRec.attempts
      /\ Retried(wkRec) \in Record /\ Retried(wkRec).attempts = wkRec.attempts
      /\ \/ Retried(wkRec).phase = "failed"
         \/ Retried(wkRec).phase = "retrying" /\ wkRec.attempts < MaxAttempts
  BY <1>1, FailedType, ConstantsAssumption DEF Failed, Retried, Record
<1>5. wkRec.phase # "planning" => Raised(wkRec) = Failed(wkRec)
  BY DEF Raised
<1>6. CASE VerifyRejects
  BY <1>6, <1>1, <1>3, <1>4 DEF VerifyRejects, HasJob, Terminal
<1>7. CASE VerifyFails
  BY <1>7, <1>1, <1>3, <1>4 DEF VerifyFails, HasJob, Terminal
<1>8. CASE WorkerFlushFails
  <2>1. wkPc = "flush" /\ wkRec.phase # "planning"
    BY <1>8 DEF WorkerFlushFails, PhaseFollowsRun, Mutating
  <2> QED
    BY <1>8, <2>1, <1>1, <1>3, <1>4, <1>5 DEF WorkerFlushFails, HasJob, Terminal
<1>9. CASE WorkerDrained
  <2>1. wkPc = "drain" /\ wkRec.phase # "planning"
    BY <1>9 DEF WorkerDrained, PhaseFollowsRun, Mutating
  <2> DEFINE result == IF broken THEN "raised" ELSE wkResult
             rec == Outcome(wkRec, result, wkDeleted)
  <2>2. EndAttempt(rec, "free") /\ pending' = pending /\ faults' = faults
    BY <1>9 DEF WorkerDrained
  <2>3. rec \in Record /\ rec.attempts = wkRec.attempts
    BY <2>1, <1>1, <1>4, <1>5, OutcomeType DEF Outcome, Record
  <2>4. rec.phase \in Terminal \/ (rec = Retried(wkRec) /\ ~wkDeleted)
    BY <2>1, <1>1, <1>4, <1>5 DEF Outcome, Record, Terminal
  <2> QED
    BY <2>1, <2>2, <2>3, <2>4, <1>1, <1>3, <1>4 DEF HasJob, Terminal
<1>10. CASE LockedSaveFails
  <2>1. /\ wkPc \in {"save_verified", "finish"} /\ EndAttempt(Raised(wkRec), "free")
        /\ pending' = pending /\ faults' = faults + 1
    BY <1>10 DEF LockedSaveFails, Fault
  <2>2. wkPc = "finish" => wkRec.phase # "planning"
    BY DEF PhaseFollowsRun, Terminal
  <2>3. Raised(wkRec) = Retried(wkRec) \/ Raised(wkRec) = Failed(wkRec)
    BY DEF Raised
  <2> QED
    BY <2>1, <2>2, <2>3, <1>1, <1>3, <1>4, <1>5 DEF HasJob, Terminal
<1> QED
  BY <1>6, <1>7, <1>8, <1>9, <1>10 DEF EndsAttempt

LEMMA ReportsIn ==
  ASSUME TypeOK, WorkerOwnsJob, PhaseFollowsRun, Reports
  PROVE  /\ HasJob /\ wkJob \in Requests /\ wkRec \in Record
         /\ wkRec' \in Record /\ wkRec'.phase \in Mutating /\ wkRec'.attempts = wkRec.attempts
         /\ mem' = [mem EXCEPT ![wkJob] = wkRec'] /\ pending' = Submitted(wkRec')
         /\ \/ wkPc = "report" /\ wkPc' = "flush" /\ applied' = applied /\ wkDeleted' = wkDeleted
            \/ wkPc = "mutate" /\ wkPc' = "mutate" /\ applied' = applied /\ wkDeleted' = wkDeleted
            \/ wkPc = "mutate" /\ wkPc' = "mutate" /\ applied' = applied \cup {wkJob} /\ wkDeleted' = TRUE
         /\ UNCHANGED <<sys, db, ledger, queue, scheduled, delayed, unsettled, wkJob, wkShared,
                        req, loaded, victims, doomed, reply, dis, disJob, crashes, faults, runs>>
<1>1. wkPc \in {"report", "mutate"} /\ wkJob \in Requests /\ wkRec \in Record
  BY ReportsWith
<1>2. wkShared
  BY <1>1 DEF WorkerOwnsJob, HasJob
<1>3. PICK phase \in Mutating : Report(phase)
  BY DEF Reports, WorkerReport, Mutate, ReportRecording, PhaseFollowsRun, Mutating
<1>4. wkRec' = [wkRec EXCEPT !.phase = phase] /\ mem' = [mem EXCEPT ![wkJob] = wkRec'] /\ pending' = Submitted(wkRec')
  BY <1>2, <1>3 DEF Report, SetRecord
<1>5. wkRec' \in Record /\ wkRec'.phase \in Mutating /\ wkRec'.attempts = wkRec.attempts
  BY <1>1, <1>3, <1>4 DEF Record, Phases, RunningPhases
<1>6. /\ \/ wkPc = "report" /\ wkPc' = "flush" /\ applied' = applied /\ wkDeleted' = wkDeleted
         \/ wkPc = "mutate" /\ wkPc' = "mutate" /\ applied' = applied /\ wkDeleted' = wkDeleted
         \/ wkPc = "mutate" /\ wkPc' = "mutate" /\ applied' = applied \cup {wkJob} /\ wkDeleted' = TRUE
      /\ UNCHANGED <<sys, db, ledger, queue, scheduled, delayed, unsettled, wkJob, wkShared,
                     req, loaded, victims, doomed, reply, dis, disJob, crashes, faults, runs>>
  BY DEF Reports, WorkerReport, Mutate, ReportRecording
<1> QED
  BY <1>1, <1>4, <1>5, <1>6 DEF HasJob

\* Pruning hides at most one job, one that the history may drop.
LEMMA PrunesRemovable ==
  ASSUME TypeOK, WorkerOwnsJob, NEW r \in Requests, NEW rest \in SUBSET Requests, PruneNext(r, rest),
         \A j \in rest : j \notin unsettled
  PROVE  \/ /\ rest = {} /\ req' = [req EXCEPT ![r] = "create"]
            /\ victims' = [victims EXCEPT ![r] = {}] /\ doomed' = [doomed EXCEPT ![r] = None]
            /\ UNCHANGED <<mem, wkShared>>
         \/ \E j \in rest :
              /\ req' = [req EXCEPT ![r] = "prune"]
              /\ victims' = [victims EXCEPT ![r] = rest \ {j}] /\ doomed' = [doomed EXCEPT ![r] = j]
              /\ mem' = [mem EXCEPT ![j] = None]
              /\ HasJob => wkShared' /\ wkJob # j
<1>1. ASSUME NEW j \in rest
      PROVE  HasJob => wkShared /\ wkJob # j
  BY <1>1 DEF WorkerOwnsJob
<1> QED
  BY <1>1 DEF PruneNext, Proceed

\* A step that leaves a state in which the process is not ready.
LEMMA StepsUntilReady ==
  ASSUME RecoversAlone, QuietUntilReady, sys # "ready", [Next]_vars
  PROVE  \/ Boot \/ BootDone \/ Crash \/ OthersReleaseLock \/ (\E k \in Keys : BatchClaims(k)) \/ UNCHANGED vars
         \/ \E j \in Requests : RecoverJob(j) \/ BootPrune(j) \/ TimePasses(j) \/ DelayedEnqueue(j)
<1>1. wkPc = "dead" /\ dis = "idle" /\ \A r \in Requests : req[r] \notin InFlight
  BY DEF RecoversAlone, QuietUntilReady
<1>2. ~WorkerNext
  BY <1>1 DEF WorkerNext, WorkerTake, WorkerSaveRunning, WorkerAcquire, VerifyRejects, VerifyFails, VerifyPasses,
     WorkerSaveVerified, WorkerReport, WriterSave, WorkerFlushed, WorkerFlushFails, Mutate, ReportRecording,
     RunnerEnds, WorkerDrained, WorkerFinish
<1>3. ~FaultNext
  BY <1>1 DEF FaultNext, WriterFails, LockedSaveFails, WorkerDies
<1>4. \A r \in Requests : ~SubmitNext(r)
  BY <1>1 DEF SubmitNext, LookupLedger, LoadRow, InstallRow, SubmitRejected, PlanConfirmed, PruneRow, CreateRow,
     InsertJob, InFlight
<1>5. ~OthersTakeLock /\ ~PreviewCall /\ ~DismissDelete /\ \A r \in Requests : ~SubmitCall(r) /\ ~Dismiss(r)
  BY <1>1 DEF OthersTakeLock, PreviewCall, DismissDelete, SubmitCall, Dismiss
<1> QED
  BY <1>2, <1>3, <1>4, <1>5 DEF Next, BootNext, TimerNext

\* Only a crash takes the process out of the ready state.
LEMMA ReadyStays ==
  ASSUME sys = "ready", [Next]_vars, ~Crash
  PROVE  sys' = "ready" /\ ~Boot /\ ~BootDone /\ \A j \in Requests : ~RecoverJob(j) /\ ~BootPrune(j)
<1>0. ~Boot /\ ~BootDone /\ \A j \in Requests : ~RecoverJob(j) /\ ~BootPrune(j)
  BY DEF Boot, BootDone, RecoverJob, BootPrune, RecoveryDone
<1>1. CASE (\E i \in Requests : TimePasses(i)) \/ (\E i \in Requests : DelayedEnqueue(i)) \/
      OthersTakeLock \/ OthersReleaseLock \/ (\E k \in Keys : BatchClaims(k)) \/ WorkerTake \/ WorkerSaveRunning \/ WorkerAcquire \/
      EndsAttempt
  BY <1>1, <1>0 DEF TimePasses, DelayedEnqueue, OthersTakeLock, OthersReleaseLock, BatchClaims, WorkerTake,
        WorkerSaveRunning, WorkerAcquire, EndsAttempt, VerifyRejects, VerifyFails, WorkerFlushFails,
        WorkerDrained, LockedSaveFails, EndAttempt
<1>2. CASE VerifyPasses \/ WorkerSaveVerified \/ Reports \/ WriterSave \/ WorkerFlushed \/ (\E
      result \in {"success", "retryable", "terminal", "raised"} : RunnerEnds(result)) \/
      WorkerFinish \/ WriterFails
  BY <1>2, <1>0 DEF VerifyPasses, WorkerSaveVerified, Reports, WorkerReport, Mutate,
        ReportRecording, WriterSave, WorkerFlushed, RunnerEnds, WorkerFinish, WriterFails
<1>3. CASE WorkerDies \/ PreviewCall \/ DismissDelete \/ (\E r \in Requests : SubmitCall(r)) \/ (\E
      r \in Requests : LookupLedger(r)) \/ (\E r \in Requests : LoadRow(r)) \/ (\E r \in Requests :
      InstallRow(r)) \/ (\E r \in Requests : SubmitRejected(r))
  BY <1>3, <1>0 DEF WorkerDies, PreviewCall, DismissDelete, SubmitCall, LookupLedger, LoadRow,
        InstallRow, SubmitRejected
<1>4. CASE (\E r \in Requests : PlanConfirmed(r)) \/ (\E r \in Requests : PruneRow(r)) \/ (\E r \in
      Requests : CreateRow(r)) \/ (\E r \in Requests : InsertJob(r)) \/ (\E i \in Requests :
      Dismiss(i)) \/ UNCHANGED vars
  BY <1>4, <1>0 DEF PlanConfirmed, PruneRow, CreateRow, InsertJob, Dismiss, vars
<1> QED
  BY <1>1, <1>2, <1>3, <1>4, <1>0
  DEF Next, BootNext, TimerNext, WorkerNext, FaultNext, SubmitNext, EndsAttempt, Reports

LEMMA ClaimedByCallerStep ==
  ASSUME Inv, DistinctKeys, [Next]_vars
  PROVE  ClaimedByCaller'
<1> USE DEF Inv, OwnedInv
<1>1. CASE Boot \/ BootDone \/ (\E j \in Requests : RecoverJob(j)) \/ (\E j \in Requests :
      BootPrune(j)) \/ (\E i \in Requests : TimePasses(i)) \/ (\E i \in Requests :
      DelayedEnqueue(i)) \/ OthersTakeLock
  BY <1>1 DEF ClaimedByCaller, Claimed, Boot, BootDone, RecoverJob, BootPrune, TimePasses,
        DelayedEnqueue, OthersTakeLock
<1>2. CASE OthersReleaseLock \/ WorkerTake \/ WorkerSaveRunning \/ WorkerAcquire \/ EndsAttempt \/
      VerifyPasses \/ WorkerSaveVerified
  BY <1>2 DEF ClaimedByCaller, Claimed, OthersReleaseLock, WorkerTake, WorkerSaveRunning,
        WorkerAcquire, EndsAttempt, VerifyRejects, VerifyFails, WorkerFlushFails, WorkerDrained,
        LockedSaveFails, EndAttempt, VerifyPasses, WorkerSaveVerified
<1>3. CASE Reports \/ WriterSave \/ WorkerFlushed \/ (\E result \in {"success", "retryable",
      "terminal", "raised"} : RunnerEnds(result)) \/ WorkerFinish \/ WriterFails \/ WorkerDies
  BY <1>3 DEF ClaimedByCaller, Claimed, Reports, WorkerReport, Mutate, ReportRecording, WriterSave,
        WorkerFlushed, RunnerEnds, WorkerFinish, Settle, WriterFails, WorkerDies
<1>4. CASE PreviewCall \/ DismissDelete \/ (\E i \in Requests : Dismiss(i)) \/ UNCHANGED vars
  BY <1>4 DEF ClaimedByCaller, Claimed, PreviewCall, DismissDelete, Dismiss, vars
<1>5. CASE Crash
  BY <1>5 DEF Crash, ClaimedByCaller, Claimed, InFlight, TypeOK, CallType
<1>6. ASSUME NEW r \in Requests, SubmitCall(r) PROVE ClaimedByCaller'
  BY <1>6 DEF SubmitCall, Reply, Proceed, ClaimedByCaller, Claimed, TypeOK, CallType
<1>7. ASSUME NEW r \in Requests, LookupLedger(r), ~Declined(r) PROVE ClaimedByCaller'
  <2>1. ledger' = ledger /\ ledger[KeyOf[r]] = None /\ req' = [req EXCEPT ![r] = "preview"]
    BY <1>7, NothingToResolve DEF LookupLedger
  <2> QED
    BY <2>1, ConstantsAssumption DEF ClaimedByCaller, Claimed, TypeOK, CallType
<1>8. ASSUME NEW r \in Requests, LoadRow(r) \/ InstallRow(r) PROVE ClaimedByCaller'
  BY <1>8, NothingToResolve
<1>9. ASSUME NEW r \in Requests, SubmitRejected(r) PROVE ClaimedByCaller'
  BY <1>9 DEF SubmitRejected, Reply, ClaimedByCaller, Claimed, TypeOK, CallType
<1>10. ASSUME NEW r \in Requests, PlanConfirmed(r) PROVE ClaimedByCaller'
  BY <1>10 DEF PlanConfirmed, PruneNext, Proceed, ClaimedByCaller, Claimed, TypeOK, CallType
<1>11. ASSUME NEW r \in Requests, PruneRow(r) PROVE ClaimedByCaller'
  BY <1>11 DEF PruneRow, PruneNext, Proceed, ClaimedByCaller, Claimed, TypeOK, CallType
<1>12. ASSUME NEW r \in Requests, CreateRow(r), ~Declined(r) PROVE ClaimedByCaller'
  <2>1. ledger' = [ledger EXCEPT ![KeyOf[r]] = r] /\ req' = [req EXCEPT ![r] = "insert"]
    BY <1>12, NothingToResolve
  <2>2. \A t \in Requests : KeyOf[t] \in Keys /\ (t # r => KeyOf[t] # KeyOf[r])
    BY ConstantsAssumption DEF DistinctKeys
  <2> QED
    BY <2>1, <2>2 DEF ClaimedByCaller, Claimed, TypeOK, StoreType, CallType
<1>13. ASSUME NEW r \in Requests, InsertJob(r) PROVE ClaimedByCaller'
  BY <1>13 DEF InsertJob, Reply, ClaimedByCaller, Claimed, TypeOK, CallType
<1>14. ASSUME NEW k \in Keys, BatchClaims(k) PROVE ClaimedByCaller'
  <2>1. ledger' = [ledger EXCEPT ![k] = "batch"] /\ req' = req
    BY <1>14 DEF BatchClaims, reqVars
  <2>2. "batch" \notin Requests /\ \A t \in Requests : KeyOf[t] \in Keys
    BY ConstantsAssumption
  <2> QED
    BY <2>1, <2>2 DEF ClaimedByCaller, Claimed, TypeOK, StoreType
<1>15. ASSUME NEW r \in Requests, Declined(r) PROVE ClaimedByCaller'
  BY <1>15 DEF Declined, memVars, ClaimedByCaller, Claimed, TypeOK, CallType
<1> QED
  BY <1>1, <1>2, <1>3, <1>4, <1>5, <1>6, <1>7, <1>8, <1>9, <1>10, <1>11, <1>12, <1>13, <1>14, <1>15
  DEF Next, BootNext, TimerNext, WorkerNext, FaultNext, SubmitNext, EndsAttempt, Reports

LEMMA QuietStep ==
  ASSUME Inv, [Next]_vars
  PROVE  QuietUntilReady'
<1> USE DEF Inv, OwnedInv
<1>1. CASE Crash
  BY <1>1 DEF Crash, QuietUntilReady, InFlight, TypeOK, CallType
<1>2. CASE sys = "ready" /\ ~Crash
  BY <1>2, ReadyStays DEF QuietUntilReady
<1>3. CASE sys # "ready"
  <2>1. CASE Boot \/ BootDone
    BY <1>3, <2>1 DEF Boot, BootDone, QuietUntilReady
  <2>2. CASE OthersReleaseLock \/ (\E k \in Keys : BatchClaims(k)) \/ UNCHANGED vars
    BY <1>3, <2>2 DEF OthersReleaseLock, BatchClaims, vars, QuietUntilReady
  <2>3. ASSUME NEW j \in Requests, RecoverJob(j) \/ BootPrune(j) PROVE QuietUntilReady'
    BY <1>3, <2>3 DEF RecoverJob, BootPrune, QuietUntilReady, RecoveryDone
  <2>4. ASSUME NEW j \in Requests, TimePasses(j) \/ DelayedEnqueue(j) PROVE QuietUntilReady'
    BY <1>3, <2>4 DEF TimePasses, DelayedEnqueue, QuietUntilReady
  <2> QED
    BY <1>1, <1>3, <2>1, <2>2, <2>3, <2>4, StepsUntilReady DEF AheadInv
<1> QED
  BY <1>1, <1>2, <1>3

LEMMA WorkerOwnsStep ==
  ASSUME Inv, [Next]_vars
  PROVE  WorkerOwnsJob'
<1> USE DEF Inv, OwnedInv
<1>1. CASE Crash \/ (\E i \in Requests : TimePasses(i)) \/ (\E i \in Requests : DelayedEnqueue(i))
      \/ OthersTakeLock \/ OthersReleaseLock \/ (\E k \in Keys : BatchClaims(k)) \/ WorkerSaveRunning
  BY <1>1 DEF WorkerOwnsJob, HasJob, Crash, TimePasses, DelayedEnqueue, OthersTakeLock,
        OthersReleaseLock, BatchClaims, WorkerSaveRunning
<1>2. CASE WorkerAcquire \/ VerifyPasses \/ WorkerSaveVerified \/ WriterSave \/ WorkerFlushed \/ (\E
      result \in {"success", "retryable", "terminal", "raised"} : RunnerEnds(result))
  BY <1>2 DEF WorkerOwnsJob, HasJob, WorkerAcquire, VerifyPasses, WorkerSaveVerified, WriterSave,
        WorkerFlushed, RunnerEnds
<1>3. CASE WorkerFinish \/ WriterFails \/ WorkerDies \/ (\E r \in Requests : LookupLedger(r)) \/ (\E
      r \in Requests : SubmitRejected(r)) \/ (\E r \in Requests : CreateRow(r))
  BY <1>3 DEF WorkerOwnsJob, HasJob, WorkerFinish, Settle, WriterFails, WorkerDies, LookupLedger,
        SubmitRejected, CreateRow
<1>4. CASE (\E i \in Requests : Dismiss(i))
  BY <1>4 DEF WorkerOwnsJob, HasJob, Dismiss
<1>5. CASE UNCHANGED vars
  BY <1>5 DEF vars, WorkerOwnsJob, HasJob
<1>6. CASE Boot \/ BootDone \/ (\E j \in Requests : RecoverJob(j) \/ BootPrune(j))
  <2>1. wkPc = "dead" /\ wkPc' \in {"dead", "idle"}
    BY <1>6 DEF AheadInv, RecoversAlone, Boot, BootDone, StartService, RecoverJob, BootPrune, RecoveryDone
  <2> QED
    BY <2>1 DEF WorkerOwnsJob, HasJob
<1>7. CASE PreviewCall \/ (\E r \in Requests : SubmitCall(r))
  <2>1. /\ wkPc' = wkPc \/ (wkPc = "dead" /\ wkPc' = "idle")
        /\ UNCHANGED <<mem, unsettled, wkJob, wkRec, wkShared>>
    BY <1>7 DEF PreviewCall, SubmitCall, StartService
  <2> QED
    BY <2>1 DEF WorkerOwnsJob, HasJob
<1>8. CASE WorkerTake
  <2>1. Head(queue) \in Requests
    BY <1>8 DEF WorkerTake, TypeOK, QueueType
  <2> QED
    BY <1>8, <2>1 DEF WorkerTake, WorkerOwnsJob, HasJob, TypeOK, StoreType
<1>9. CASE EndsAttempt
  BY <1>9, EndsIn DEF WorkerOwnsJob, HasJob, TypeOK, StoreType
<1>10. CASE Reports
  <2>1. wkJob \in Requests /\ wkShared /\ wkJob \in unsettled
    BY <1>10, ReportsIn DEF WorkerOwnsJob
  <2>2. mem' = [mem EXCEPT ![wkJob] = wkRec'] /\ wkJob' = wkJob /\ wkShared' = wkShared /\ unsettled' = unsettled
    BY <1>10, ReportsIn
  <2> QED
    BY <2>1, <2>2 DEF WorkerOwnsJob, TypeOK, StoreType
<1>11. CASE DismissDelete
  <2>1. disJob \in Requests /\ disJob \notin unsettled
    BY <1>11 DEF DismissDelete, RemovesEnded, Removable, TypeOK, CallType
  <2> QED
    BY <1>11, <2>1, HeldJob DEF DismissDelete, WorkerOwnsJob, HasJob, TypeOK, StoreType
<1>12. ASSUME NEW r \in Requests, LoadRow(r) \/ InstallRow(r) PROVE WorkerOwnsJob'
  BY <1>12, NothingToResolve
<1>13. ASSUME NEW r \in Requests, PlanConfirmed(r) PROVE WorkerOwnsJob'
  <2>1. PICK rest \in SUBSET Requests : PruneNext(r, rest) /\ \A j \in rest : j \notin unsettled
    BY <1>13 DEF PlanConfirmed, History
  <2>2. UNCHANGED <<wkPc, wkJob, wkRec, unsettled>>
    BY <1>13 DEF PlanConfirmed
  <2>3. CASE UNCHANGED <<mem, wkShared>>
    BY <2>2, <2>3 DEF WorkerOwnsJob, HasJob
  <2>4. ASSUME NEW j \in Requests, mem' = [mem EXCEPT ![j] = None], HasJob => wkShared' /\ wkJob # j
        PROVE  WorkerOwnsJob'
    BY <2>2, <2>4, HeldJob DEF WorkerOwnsJob, HasJob, TypeOK, StoreType
  <2> QED
    BY <2>1, <2>3, <2>4, PrunesRemovable
<1>14. ASSUME NEW r \in Requests, PruneRow(r) PROVE WorkerOwnsJob'
  <2>1. PruneNext(r, victims[r]) /\ victims[r] \in SUBSET Requests /\ \A j \in victims[r] : j \notin unsettled
    BY <1>14 DEF PruneRow, RemovesEnded, Removable, TypeOK, CallType
  <2>2. UNCHANGED <<wkPc, wkJob, wkRec, unsettled>>
    BY <1>14 DEF PruneRow
  <2>3. CASE UNCHANGED <<mem, wkShared>>
    BY <2>2, <2>3 DEF WorkerOwnsJob, HasJob
  <2>4. ASSUME NEW j \in Requests, mem' = [mem EXCEPT ![j] = None], HasJob => wkShared' /\ wkJob # j
        PROVE  WorkerOwnsJob'
    BY <2>2, <2>4, HeldJob DEF WorkerOwnsJob, HasJob, TypeOK, StoreType
  <2> QED
    BY <2>1, <2>3, <2>4, PrunesRemovable
<1>15. ASSUME NEW r \in Requests, InsertJob(r) PROVE WorkerOwnsJob'
  <2>1. mem[r] = None
    BY <1>15 DEF InsertJob, CreatedIsNew
  <2>2. HasJob => wkJob # r
    BY <2>1, Busy, ConstantsAssumption DEF WorkerOwnsJob, HasJob
  <2> QED
    BY <1>15, <2>2, HeldJob DEF InsertJob, WorkerOwnsJob, HasJob, TypeOK, StoreType
<1> QED
  BY <1>1, <1>2, <1>3, <1>4, <1>5, <1>6, <1>7, <1>8, <1>9, <1>10, <1>11, <1>12, <1>13, <1>14, <1>15
  DEF Next, BootNext, TimerNext, WorkerNext, FaultNext, SubmitNext, EndsAttempt, Reports

LEMMA PhaseStep ==
  ASSUME Inv, [Next]_vars
  PROVE  PhaseFollowsRun'
<1> USE DEF Inv, OwnedInv
<1>1. CASE Boot \/ (\E j \in Requests : RecoverJob(j)) \/ (\E j \in Requests : BootPrune(j)) \/
      Crash \/ (\E i \in Requests : TimePasses(i)) \/ (\E i \in Requests : DelayedEnqueue(i)) \/
      OthersTakeLock
  BY <1>1 DEF PhaseFollowsRun, Boot, RecoverJob, BootPrune, Crash, TimePasses, DelayedEnqueue,
        OthersTakeLock
<1>2. CASE OthersReleaseLock \/ (\E k \in Keys : BatchClaims(k)) \/ WorkerSaveRunning \/ WorkerAcquire \/ VerifyPasses \/
      WorkerSaveVerified \/ WriterSave \/ WorkerFlushed
  BY <1>2 DEF PhaseFollowsRun, OthersReleaseLock, BatchClaims, WorkerSaveRunning, WorkerAcquire, VerifyPasses,
        WorkerSaveVerified, WriterSave, WorkerFlushed
<1>3. CASE (\E result \in {"success", "retryable", "terminal", "raised"} : RunnerEnds(result)) \/
      WorkerFinish \/ WriterFails \/ WorkerDies \/ DismissDelete \/ (\E r \in Requests :
      LookupLedger(r)) \/ (\E r \in Requests : SubmitRejected(r))
  BY <1>3 DEF PhaseFollowsRun, RunnerEnds, WorkerFinish, Settle, WriterFails, WorkerDies,
        DismissDelete, LookupLedger, SubmitRejected
<1>4. CASE (\E r \in Requests : PlanConfirmed(r)) \/ (\E r \in Requests : PruneRow(r)) \/ (\E r \in
      Requests : CreateRow(r)) \/ (\E r \in Requests : InsertJob(r)) \/ (\E i \in Requests :
      Dismiss(i)) \/ UNCHANGED vars
  BY <1>4 DEF PhaseFollowsRun, PlanConfirmed, PruneRow, CreateRow, InsertJob, Dismiss, vars
<1>5. CASE BootDone \/ PreviewCall \/ (\E r \in Requests : SubmitCall(r))
  <2>1. (wkPc' = wkPc \/ wkPc' = "idle") /\ wkRec' = wkRec
    BY <1>5 DEF BootDone, PreviewCall, SubmitCall, StartService
  <2> QED
    BY <2>1 DEF PhaseFollowsRun
<1>6. CASE WorkerTake
  BY <1>6 DEF WorkerTake, PhaseFollowsRun
<1>7. CASE EndsAttempt
  BY <1>7, EndsIn DEF PhaseFollowsRun
<1>8. CASE Reports
  BY <1>8, ReportsIn DEF PhaseFollowsRun
<1>9. ASSUME NEW r \in Requests, LoadRow(r) \/ InstallRow(r) PROVE PhaseFollowsRun'
  BY <1>9, NothingToResolve
<1> QED
  BY <1>1, <1>2, <1>3, <1>4, <1>5, <1>6, <1>7, <1>8, <1>9
  DEF Next, BootNext, TimerNext, WorkerNext, FaultNext, SubmitNext, EndsAttempt, Reports

\* A call or a removal takes at most one object out of sight.
LEMMA PruneEffect ==
  ASSUME Inv, NEW r \in Requests, PlanConfirmed(r) \/ PruneRow(r)
  PROVE  /\ mem' = mem \/ \E j \in Requests : mem' = [mem EXCEPT ![j] = None] /\ Removable(j)
         /\ \A t \in Requests : req'[t] = "insert" => req[t] = "insert"
         /\ UNCHANGED <<sys, ledger, queue, scheduled, delayed, unsettled, wkPc, wkJob, wkRec, wkDeleted, pending,
                        dis, disJob, crashes, faults, runs, applied>>
         /\ \/ db' = db
            \/ db' = [db EXCEPT ![doomed[r]] = None] /\ doomed[r] \in Requests /\ Removable(doomed[r])
               /\ mem[doomed[r]] = None
<1> USE DEF Inv, OwnedInv
<1>1. CASE PlanConfirmed(r)
  <2>1. PICK rest \in SUBSET History(mem) : PruneNext(r, rest)
    BY <1>1 DEF PlanConfirmed
  <2>2. \A j \in rest : j \in Requests /\ j \notin unsettled /\ mem[j] # None /\ ~IsActive(mem[j])
    BY DEF History, IsTerminal, IsActive, Active
  <2>3. \A j \in rest : Removable(j)
    BY <2>2 DEF Removable, Ended, ClaimsInv, OnlyClaimantsExist, CreatedIsNew
  <2>4. rest \in SUBSET Requests
    BY <2>2
  <2>5. /\ mem' = mem \/ \E j \in rest : mem' = [mem EXCEPT ![j] = None]
        /\ \A t \in Requests : req'[t] = "insert" => req[t] = "insert"
    BY <2>1, <2>2, <2>4, PrunesRemovable DEF TypeOK, CallType
  <2> QED
    BY <1>1, <2>3, <2>4, <2>5 DEF PlanConfirmed
<1>2. CASE PruneRow(r)
  <2>1. /\ PruneNext(r, victims[r]) /\ victims[r] \in SUBSET Requests /\ \A j \in victims[r] : Removable(j)
        /\ doomed[r] \in Requests /\ Removable(doomed[r]) /\ mem[doomed[r]] = None
    BY <1>2 DEF PruneRow, RemovesEnded, TypeOK, CallType
  <2>2. \A j \in victims[r] : j \notin unsettled
    BY <2>1 DEF Removable
  <2>3. /\ mem' = mem \/ \E j \in victims[r] : mem' = [mem EXCEPT ![j] = None]
        /\ \A t \in Requests : req'[t] = "insert" => req[t] = "insert"
    BY <2>1, <2>2, PrunesRemovable DEF TypeOK, CallType
  <2> QED
    BY <1>2, <2>1, <2>3 DEF PruneRow
<1> QED
  BY <1>1, <1>2

\* What the worker writes while it has a job.
LEMMA SavesIn ==
  ASSUME Inv, WorkerSaveRunning \/ WorkerSaveVerified \/ WriterSave \/ WorkerFinish
  PROVE  /\ wkJob \in Requests /\ mem' = mem /\ mem[wkJob] = wkRec /\ wkRec \in Record
         /\ UNCHANGED <<sys, ledger, req, loaded, victims, doomed, disJob, crashes, faults, runs, applied>>
         /\ \E rec \in Record :
              /\ db' = [db EXCEPT ![wkJob] = rec]
              /\ \/ WorkerFinish /\ rec = wkRec /\ rec.phase \in Terminal \cup {"retrying"}
                 \/ rec = wkRec /\ wkRec.phase = "planning" /\ wkJob' = wkJob /\ wkPc' \in {"acquire", "report"}
                 \/ /\ WriterSave /\ rec = Head(pending) /\ rec.phase \in Mutating
                    /\ pending \in Seq(Record) /\ pending # <<>>
                    /\ wkJob' = wkJob /\ wkPc \in {"flush", "mutate", "drain"} /\ wkPc' = wkPc
<1> USE DEF Inv, OwnedInv
<1>1. HasJob /\ mem' = mem
  BY DEF WorkerSaveRunning, WorkerSaveVerified, WriterSave, WorkerFinish, HasJob
<1>2. wkJob \in Requests /\ wkRec \in Record /\ mem[wkJob] = wkRec
  BY <1>1, HeldJob DEF WorkerOwnsJob
<1>3. UNCHANGED <<sys, ledger, req, loaded, victims, doomed, disJob, crashes, faults, runs, applied>>
  BY DEF WorkerSaveRunning, WorkerSaveVerified, WriterSave, WorkerFinish
<1>4. CASE WriterSave
  <2>1. pending \in Seq(Record) /\ pending # <<>>
    BY <1>4 DEF WriterSave, TypeOK, WorkerType
  <2>2. Head(pending) \in Record /\ Head(pending) = pending[1] /\ 1 \in DOMAIN pending
    BY <2>1
  <2>3. Head(pending).phase \in Mutating
    BY <1>4, <2>2 DEF WriterSave, AheadInv, OnlyMutatingSnapshots, IsMutating
  <2> QED
    BY <1>2, <1>3, <1>4, <2>1, <2>2, <2>3 DEF WriterSave
<1>5. CASE WorkerSaveRunning \/ WorkerSaveVerified
  BY <1>1, <1>2, <1>3, <1>5 DEF WorkerSaveRunning, WorkerSaveVerified, PhaseFollowsRun
<1>6. CASE WorkerFinish
  BY <1>1, <1>2, <1>3, <1>6 DEF WorkerFinish, PhaseFollowsRun
<1> QED
  BY <1>4, <1>5, <1>6

LEMMA DismissEffect ==
  ASSUME Inv, DismissDelete
  PROVE  /\ disJob \in Requests /\ Removable(disJob) /\ wkJob # disJob
         /\ mem' = [mem EXCEPT ![disJob] = None] /\ db' = [db EXCEPT ![disJob] = None]
         /\ unsettled' = unsettled \ {disJob}
         /\ UNCHANGED <<sys, ledger, queue, scheduled, delayed, wkPc, wkJob, wkRec, wkDeleted, pending, req, victims,
                        doomed, crashes, faults, runs, applied>>
<1> USE DEF Inv, OwnedInv
<1>1. disJob \in Requests /\ Removable(disJob)
  BY DEF DismissDelete, RemovesEnded, TypeOK, CallType
<1>2. wkJob # disJob
  BY <1>1, HeldJob, ConstantsAssumption DEF Removable, WorkerOwnsJob
<1> QED
  BY <1>1, <1>2 DEF DismissDelete

LEMMA VisibleHasRowStep ==
  ASSUME Inv, [Next]_vars
  PROVE  VisibleHasRow'
<1> USE DEF Inv, OwnedInv
<1>1. CASE BootDone \/ (\E i \in Requests : TimePasses(i)) \/ (\E i \in Requests :
      DelayedEnqueue(i)) \/ OthersTakeLock \/ OthersReleaseLock \/ (\E k \in Keys : BatchClaims(k)) \/ WorkerAcquire
  BY <1>1 DEF VisibleHasRow, BootDone, TimePasses, DelayedEnqueue, OthersTakeLock,
        OthersReleaseLock, BatchClaims, WorkerAcquire
<1>2. CASE VerifyPasses \/ WorkerFlushed \/ (\E result \in {"success", "retryable", "terminal",
      "raised"} : RunnerEnds(result)) \/ WriterFails \/ WorkerDies \/ PreviewCall
  BY <1>2 DEF VisibleHasRow, VerifyPasses, WorkerFlushed, RunnerEnds, WriterFails, WorkerDies,
        PreviewCall
<1>3. CASE (\E r \in Requests : SubmitCall(r)) \/ (\E r \in Requests : LookupLedger(r)) \/ (\E r \in
      Requests : SubmitRejected(r)) \/ (\E i \in Requests : Dismiss(i)) \/ UNCHANGED vars
  BY <1>3 DEF VisibleHasRow, SubmitCall, LookupLedger, SubmitRejected, Dismiss, vars
<1>4. CASE Boot
  BY <1>4 DEF Boot, VisibleHasRow
<1>5. ASSUME NEW j \in Requests, RecoverJob(j) \/ BootPrune(j) PROVE VisibleHasRow'
  BY <1>5 DEF RecoverJob, BootPrune, RecoveryDone, QuietUntilReady, VisibleHasRow
<1>6. CASE Crash
  BY <1>6 DEF Crash, VisibleHasRow
<1>7. CASE WorkerTake
  <2>1. Head(queue) \in Requests
    BY <1>7 DEF WorkerTake, TypeOK, QueueType
  <2>2. ~IsActive(mem[Head(queue)]) => mem' = mem
    BY <1>7 DEF WorkerTake
  <2>3. IsActive(mem[Head(queue)]) => db[Head(queue)] # None /\ ~IsTerminal(db[Head(queue)])
    BY <2>1 DEF VisibleHasRow, IsActive, IsTerminal, Active
  <2> QED
    BY <1>7, <2>1, <2>2, <2>3 DEF WorkerTake, VisibleHasRow, TypeOK, StoreType
<1>8. CASE WorkerSaveRunning \/ WorkerSaveVerified \/ WriterSave \/ WorkerFinish
  <2>1. wkJob \in Requests /\ mem' = mem /\ mem[wkJob] = wkRec
    BY <1>8, SavesIn
  <2>2. PICK rec \in Record : db' = [db EXCEPT ![wkJob] = rec] /\ (rec = wkRec \/ rec.phase \in Mutating)
    BY <1>8, SavesIn
  <2>3. rec # None /\ (rec.phase \in Mutating => ~IsTerminal(rec))
    BY ConstantsAssumption DEF IsTerminal, Terminal, Mutating
  <2> QED
    BY <2>1, <2>2, <2>3 DEF VisibleHasRow, TypeOK, StoreType
<1>9. CASE EndsAttempt
  <2>1. HasJob /\ wkJob \in Requests /\ mem[wkJob] = wkRec /\ wkRec # None
    BY <1>9, EndsIn, ConstantsAssumption DEF WorkerOwnsJob
  <2>2. db[wkJob] # None /\ ~IsTerminal(db[wkJob])
    BY <2>1 DEF VisibleHasRow, OpenWhileHeld
  <2> QED
    BY <1>9, <2>1, <2>2, EndsIn DEF VisibleHasRow, TypeOK, StoreType
<1>10. CASE Reports
  <2>1. HasJob /\ wkJob \in Requests /\ mem[wkJob] = wkRec /\ wkRec # None
    BY <1>10, ReportsIn, ConstantsAssumption DEF WorkerOwnsJob
  <2>2. db[wkJob] # None /\ ~IsTerminal(db[wkJob])
    BY <2>1 DEF VisibleHasRow, OpenWhileHeld
  <2>3. mem' = [mem EXCEPT ![wkJob] = wkRec'] /\ db' = db
    BY <1>10, ReportsIn
  <2> QED
    BY <2>1, <2>2, <2>3 DEF VisibleHasRow, TypeOK, StoreType
<1>11. CASE DismissDelete
  BY <1>11, DismissEffect DEF VisibleHasRow, TypeOK, StoreType
<1>12. ASSUME NEW r \in Requests, LoadRow(r) \/ InstallRow(r) PROVE VisibleHasRow'
  BY <1>12, NothingToResolve
<1>13. ASSUME NEW r \in Requests, PlanConfirmed(r) \/ PruneRow(r) PROVE VisibleHasRow'
  <2>1. \A j \in Requests : mem'[j] = mem[j] \/ mem'[j] = None
    BY <1>13, PruneEffect DEF TypeOK, StoreType
  <2>2. \A j \in Requests : db'[j] = db[j] \/ mem[j] = None
    BY <1>13, PruneEffect DEF TypeOK, StoreType
  <2> QED
    BY <2>1, <2>2 DEF VisibleHasRow
<1>14. ASSUME NEW r \in Requests, CreateRow(r), ~Declined(r) PROVE VisibleHasRow'
  <2>1. mem[r] = None
    BY <1>14, NothingToResolve, ConstantsAssumption DEF ClaimsInv, OnlyClaimantsExist, Claimed
  <2> QED
    BY <1>14, <2>1, NothingToResolve DEF CreateRow, VisibleHasRow, TypeOK, StoreType
<1>15. ASSUME NEW r \in Requests, InsertJob(r) PROVE VisibleHasRow'
  BY <1>15, NewRecordType, ConstantsAssumption DEF InsertJob, CreatedIsNew, VisibleHasRow, TypeOK, StoreType
<1>16. ASSUME NEW r \in Requests, Declined(r) PROVE VisibleHasRow'
  BY <1>16 DEF Declined, memVars, VisibleHasRow
<1> QED
  BY <1>1, <1>2, <1>3, <1>4, <1>5, <1>6, <1>7, <1>8, <1>9, <1>10, <1>11, <1>12, <1>13, <1>14, <1>15, <1>16
  DEF Next, BootNext, TimerNext, WorkerNext, FaultNext, SubmitNext, EndsAttempt, Reports

LEMMA OpenWhileHeldStep ==
  ASSUME Inv, [Next]_vars
  PROVE  OpenWhileHeld'
<1> USE DEF Inv, OwnedInv
<1>1. CASE (\E i \in Requests : TimePasses(i)) \/ (\E i \in Requests : DelayedEnqueue(i)) \/
      OthersTakeLock \/ OthersReleaseLock \/ (\E k \in Keys : BatchClaims(k)) \/ WorkerAcquire \/ VerifyPasses
  BY <1>1 DEF OpenWhileHeld, HasJob, TimePasses, DelayedEnqueue, OthersTakeLock, OthersReleaseLock, BatchClaims,
        WorkerAcquire, VerifyPasses
<1>2. CASE WorkerFlushed \/ (\E result \in {"success", "retryable", "terminal", "raised"} :
      RunnerEnds(result)) \/ WriterFails \/ WorkerDies \/ (\E r \in Requests : LookupLedger(r)) \/
      (\E r \in Requests : SubmitRejected(r))
  BY <1>2 DEF OpenWhileHeld, HasJob, WorkerFlushed, RunnerEnds, WriterFails, WorkerDies,
        LookupLedger, SubmitRejected
<1>3. CASE (\E r \in Requests : InsertJob(r)) \/ (\E i \in Requests : Dismiss(i)) \/ UNCHANGED vars
  BY <1>3 DEF OpenWhileHeld, HasJob, InsertJob, Dismiss, vars
<1>4. CASE Boot \/ BootDone \/ Crash \/ (\E j \in Requests : RecoverJob(j) \/ BootPrune(j))
  <2>1. wkPc' \in {"dead", "idle"}
    BY <1>4 DEF AheadInv, RecoversAlone, Boot, BootDone, StartService, RecoverJob, BootPrune, RecoveryDone, Crash
  <2> QED
    BY <2>1 DEF OpenWhileHeld, HasJob
<1>5. CASE PreviewCall \/ (\E r \in Requests : SubmitCall(r))
  <2>1. (wkPc' = wkPc \/ wkPc' = "idle") /\ UNCHANGED <<db, wkJob>>
    BY <1>5 DEF PreviewCall, SubmitCall, StartService
  <2> QED
    BY <2>1 DEF OpenWhileHeld, HasJob
<1>6. CASE WorkerTake
  <2>1. Head(queue) \in Requests /\ wkPc = "idle" /\ db' = db
    BY <1>6 DEF WorkerTake, TypeOK, QueueType
  <2>2. IsActive(mem[Head(queue)]) => ~IsTerminal(db[Head(queue)])
    BY <2>1 DEF VisibleHasRow, IsActive, IsTerminal, Active
  <2>3. \/ wkPc' = "idle"
        \/ IsActive(mem[Head(queue)]) /\ wkJob' = Head(queue)
    BY <1>6, <2>1 DEF WorkerTake
  <2> QED
    BY <2>1, <2>2, <2>3 DEF OpenWhileHeld, HasJob
<1>7. CASE WorkerFinish
  BY <1>7 DEF WorkerFinish, OpenWhileHeld, HasJob
<1>8. CASE WorkerSaveRunning \/ WorkerSaveVerified \/ WriterSave
  <2>1. PICK rec \in Record : /\ db' = [db EXCEPT ![wkJob] = rec] /\ wkJob \in Requests /\ wkJob' = wkJob
                              /\ rec.phase \in Mutating \cup {"planning"}
    BY <1>8, SavesIn DEF WorkerSaveRunning, WorkerSaveVerified, WriterSave, WorkerFinish
  <2>2. ~IsTerminal(rec)
    BY <2>1 DEF IsTerminal, Terminal, Mutating
  <2> QED
    BY <2>1, <2>2 DEF OpenWhileHeld, TypeOK, StoreType
<1>9. CASE EndsAttempt
  BY <1>9, EndsIn DEF OpenWhileHeld
<1>10. CASE Reports
  BY <1>10, ReportsIn DEF OpenWhileHeld
<1>11. CASE DismissDelete
  BY <1>11, DismissEffect, HeldJob DEF OpenWhileHeld, HasJob, IsTerminal, TypeOK, StoreType
<1>12. ASSUME NEW r \in Requests, LoadRow(r) \/ InstallRow(r) PROVE OpenWhileHeld'
  BY <1>12, NothingToResolve
<1>13. ASSUME NEW r \in Requests, PlanConfirmed(r) \/ PruneRow(r) PROVE OpenWhileHeld'
  <2>1. \A j \in Requests : db'[j] = db[j] \/ db'[j] = None
    BY <1>13, PruneEffect DEF TypeOK, StoreType
  <2>2. wkPc' = wkPc /\ wkJob' = wkJob
    BY <1>13, PruneEffect
  <2> QED
    BY <2>1, <2>2, HeldJob DEF OpenWhileHeld, HasJob, IsTerminal
<1>14. ASSUME NEW r \in Requests, CreateRow(r), ~Declined(r) PROVE OpenWhileHeld'
  <2>1. ~IsTerminal(NewRecord) /\ db' = [db EXCEPT ![r] = NewRecord] /\ wkPc' = wkPc /\ wkJob' = wkJob
    BY <1>14, NothingToResolve DEF CreateRow, NewRecord, IsTerminal, Terminal
  <2> QED
    BY <2>1, HeldJob DEF OpenWhileHeld, HasJob, TypeOK, StoreType
<1>15. ASSUME NEW r \in Requests, Declined(r) PROVE OpenWhileHeld'
  BY <1>15 DEF Declined, memVars, wkVars, OpenWhileHeld, HasJob
<1> QED
  BY <1>1, <1>2, <1>3, <1>4, <1>5, <1>6, <1>7, <1>8, <1>9, <1>10, <1>11, <1>12, <1>13, <1>14, <1>15
  DEF Next, BootNext, TimerNext, WorkerNext, FaultNext, SubmitNext, EndsAttempt, Reports

LEMMA MutatingIsHeldStep ==
  ASSUME Inv, [Next]_vars
  PROVE  MutatingIsHeld'
<1> USE DEF Inv, OwnedInv
<1>1. CASE (\E i \in Requests : TimePasses(i)) \/ (\E i \in Requests : DelayedEnqueue(i)) \/
      OthersTakeLock \/ OthersReleaseLock \/ (\E k \in Keys : BatchClaims(k)) \/ WorkerSaveRunning \/ WorkerAcquire
  BY <1>1 DEF MutatingIsHeld, TimePasses, DelayedEnqueue, OthersTakeLock, OthersReleaseLock, BatchClaims,
        WorkerSaveRunning, WorkerAcquire
<1>2. CASE VerifyPasses \/ WorkerSaveVerified \/ WriterSave \/ WorkerFlushed \/ (\E result \in
      {"success", "retryable", "terminal", "raised"} : RunnerEnds(result)) \/ WriterFails
  BY <1>2 DEF MutatingIsHeld, VerifyPasses, WorkerSaveVerified, WriterSave, WorkerFlushed,
        RunnerEnds, WriterFails
<1>3. CASE (\E r \in Requests : LookupLedger(r)) \/ (\E r \in Requests : SubmitRejected(r)) \/ (\E r
      \in Requests : CreateRow(r)) \/ (\E i \in Requests : Dismiss(i)) \/ UNCHANGED vars
  BY <1>3 DEF MutatingIsHeld, LookupLedger, SubmitRejected, CreateRow, Dismiss, vars
<1>4. CASE Boot \/ Crash \/ (\E j \in Requests : RecoverJob(j) \/ BootPrune(j))
  BY <1>4 DEF Boot, Crash, RecoverJob, BootPrune, RecoveryDone, MutatingIsHeld
<1>5. CASE BootDone
  BY <1>5 DEF BootDone, RecoveryDone, Interrupted, RunningPhases, MutatingIsHeld
<1>6. CASE PreviewCall \/ (\E r \in Requests : SubmitCall(r))
  <2>1. (wkPc' = wkPc \/ wkPc = "dead") /\ UNCHANGED <<sys, mem, wkJob>>
    BY <1>6 DEF PreviewCall, SubmitCall, StartService
  <2> QED
    BY <2>1 DEF MutatingIsHeld
<1>7. CASE WorkerTake
  <2>1. Head(queue) \in Requests /\ wkPc = "idle" /\ sys' = sys
    BY <1>7 DEF WorkerTake, TypeOK, QueueType
  <2>2. \/ mem' = mem
        \/ \E rec : mem' = [mem EXCEPT ![Head(queue)] = rec] /\ rec.phase \notin Mutating
    BY <1>7 DEF WorkerTake, Mutating
  <2> QED
    BY <2>1, <2>2 DEF MutatingIsHeld, TypeOK, StoreType
<1>8. CASE EndsAttempt
  <2>1. wkRec'.phase \notin Mutating /\ wkJob \in Requests /\ mem' = [mem EXCEPT ![wkJob] = wkRec'] /\ sys' = sys
    BY <1>8, EndsIn DEF Mutating, Terminal
  <2> QED
    BY <2>1 DEF MutatingIsHeld, TypeOK, StoreType
<1>9. CASE Reports
  <2>1. /\ wkPc' \in {"flush", "mutate"} /\ wkJob' = wkJob /\ wkJob \in Requests /\ sys' = sys
        /\ mem' = [mem EXCEPT ![wkJob] = wkRec']
    BY <1>9, ReportsIn
  <2> QED
    BY <2>1 DEF MutatingIsHeld, TypeOK, StoreType
<1>10. CASE WorkerFinish \/ WorkerDies
  <2>1. wkPc \in {"finish", "save_running"} /\ UNCHANGED <<sys, mem>>
    BY <1>10 DEF WorkerFinish, WorkerDies
  <2> QED
    BY <2>1 DEF MutatingIsHeld
<1>11. CASE DismissDelete
  BY <1>11, DismissEffect DEF MutatingIsHeld, TypeOK, StoreType
<1>12. ASSUME NEW r \in Requests, LoadRow(r) \/ InstallRow(r) PROVE MutatingIsHeld'
  BY <1>12, NothingToResolve
<1>13. ASSUME NEW r \in Requests, PlanConfirmed(r) \/ PruneRow(r) PROVE MutatingIsHeld'
  <2>1. \A j \in Requests : mem'[j] = mem[j] \/ mem'[j] = None
    BY <1>13, PruneEffect DEF TypeOK, StoreType
  <2>2. UNCHANGED <<sys, wkPc, wkJob>>
    BY <1>13, PruneEffect
  <2> QED
    BY <2>1, <2>2 DEF MutatingIsHeld
<1>14. ASSUME NEW r \in Requests, InsertJob(r) PROVE MutatingIsHeld'
  <2>1. NewRecord.phase \notin Mutating
    BY DEF NewRecord, Mutating
  <2> QED
    BY <1>14, <2>1 DEF InsertJob, MutatingIsHeld, TypeOK, StoreType
<1> QED
  BY <1>1, <1>2, <1>3, <1>4, <1>5, <1>6, <1>7, <1>8, <1>9, <1>10, <1>11, <1>12, <1>13, <1>14
  DEF Next, BootNext, TimerNext, WorkerNext, FaultNext, SubmitNext, EndsAttempt, Reports

LEMMA HistoryIsClaimedStep ==
  ASSUME Inv, [Next]_vars
  PROVE  HistoryIsClaimed'
<1> USE DEF Inv, OwnedInv
<1>1. CASE Boot \/ BootDone \/ (\E j \in Requests : RecoverJob(j)) \/ (\E j \in Requests :
      BootPrune(j)) \/ (\E i \in Requests : TimePasses(i)) \/ (\E i \in Requests :
      DelayedEnqueue(i)) \/ OthersTakeLock
  BY <1>1, ClaimsStay DEF HistoryIsClaimed, Boot, BootDone, RecoverJob, BootPrune, TimePasses,
        DelayedEnqueue, OthersTakeLock
<1>2. CASE OthersReleaseLock \/ (\E k \in Keys : BatchClaims(k)) \/ WorkerTake \/ WorkerSaveRunning \/ WorkerAcquire \/ EndsAttempt \/
      VerifyPasses \/ WorkerSaveVerified
  BY <1>2, ClaimsStay DEF HistoryIsClaimed, OthersReleaseLock, BatchClaims, WorkerTake, WorkerSaveRunning,
        WorkerAcquire, EndsAttempt, VerifyRejects, VerifyFails, WorkerFlushFails, WorkerDrained,
        LockedSaveFails, EndAttempt, VerifyPasses, WorkerSaveVerified
<1>3. CASE WriterSave \/ (\E result \in {"success", "retryable", "terminal", "raised"} :
      RunnerEnds(result)) \/ WorkerFinish \/ WriterFails \/ WorkerDies \/ PreviewCall \/
      DismissDelete
  BY <1>3, ClaimsStay DEF HistoryIsClaimed, WriterSave, RunnerEnds, WorkerFinish, WriterFails,
        WorkerDies, PreviewCall, DismissDelete
<1>4. CASE (\E r \in Requests : SubmitCall(r)) \/ (\E r \in Requests : LookupLedger(r)) \/ (\E r \in
      Requests : LoadRow(r)) \/ (\E r \in Requests : InstallRow(r)) \/ (\E r \in Requests :
      SubmitRejected(r)) \/ (\E r \in Requests : PlanConfirmed(r)) \/ (\E r \in Requests :
      PruneRow(r))
  BY <1>4, ClaimsStay DEF HistoryIsClaimed, SubmitCall, LookupLedger, LoadRow, InstallRow,
        SubmitRejected, PlanConfirmed, PruneRow
<1>5. CASE (\E r \in Requests : CreateRow(r)) \/ (\E r \in Requests : InsertJob(r)) \/ (\E j \in
      Requests : Dismiss(j)) \/ UNCHANGED vars
  BY <1>5, ClaimsStay DEF HistoryIsClaimed, CreateRow, InsertJob, Dismiss, vars
<1>6. CASE Crash
  <2>1. MayHaveMutated => wkJob \in Requests /\ Claimed(wkJob)
    BY HeldJob DEF MayHaveMutated, HasJob, ClaimsInv, OnlyClaimantsExist
  <2> QED
    BY <1>6, <2>1, ClaimsStay DEF Crash, HistoryIsClaimed
<1>7. CASE Reports
  <2>1. wkJob \in Requests /\ Claimed(wkJob)
    BY <1>7, ReportsIn DEF ClaimsInv, OnlyClaimantsExist
  <2> QED
    BY <1>7, <2>1, ReportsIn, ClaimsStay DEF HistoryIsClaimed
<1>8. CASE WorkerFlushed
  <2>1. wkJob \in Requests /\ Claimed(wkJob)
    BY <1>8, HeldJob DEF WorkerFlushed, HasJob, ClaimsInv, OnlyClaimantsExist
  <2> QED
    BY <1>8, <2>1, ClaimsStay DEF WorkerFlushed, HistoryIsClaimed, TypeOK, StoreType
<1> QED
  BY <1>1, <1>2, <1>3, <1>4, <1>5, <1>6, <1>7, <1>8
  DEF Next, BootNext, TimerNext, WorkerNext, FaultNext, SubmitNext, EndsAttempt, Reports

LEMMA CreatedIsNewStep ==
  ASSUME Inv, [Next]_vars
  PROVE  CreatedIsNew'
<1> USE DEF Inv, OwnedInv
<1>0. ASSUME NEW r \in Requests, req[r] = "insert"
      PROVE  HasJob => wkJob # r
  BY <1>0, HeldJob, ConstantsAssumption DEF CreatedIsNew, WorkerOwnsJob
<1>1. CASE BootDone \/ (\E i \in Requests : TimePasses(i)) \/ (\E i \in Requests :
      DelayedEnqueue(i)) \/ OthersTakeLock \/ OthersReleaseLock \/ (\E k \in Keys : BatchClaims(k)) \/ WorkerAcquire
  BY <1>1 DEF CreatedIsNew, BootDone, TimePasses, DelayedEnqueue, OthersTakeLock, OthersReleaseLock, BatchClaims,
        WorkerAcquire
<1>2. CASE VerifyPasses \/ (\E result \in {"success", "retryable", "terminal", "raised"} :
      RunnerEnds(result)) \/ WriterFails \/ WorkerDies \/ PreviewCall \/ (\E i \in Requests :
      Dismiss(i))
  BY <1>2 DEF CreatedIsNew, VerifyPasses, RunnerEnds, WriterFails, WorkerDies, PreviewCall, Dismiss
<1>3. CASE UNCHANGED vars
  BY <1>3 DEF CreatedIsNew, vars
<1>4. CASE Boot \/ (\E j \in Requests : RecoverJob(j) \/ BootPrune(j))
  BY <1>4 DEF Boot, RecoverJob, BootPrune, RecoveryDone, QuietUntilReady, InFlight, CreatedIsNew
<1>5. ASSUME NEW r \in Requests, SubmitCall(r) PROVE CreatedIsNew'
  BY <1>5 DEF SubmitCall, Reply, Proceed, CreatedIsNew, TypeOK, CallType
<1>6. CASE Crash
  BY <1>6 DEF Crash, InFlight, CreatedIsNew, TypeOK, CallType
<1>7. CASE WorkerTake
  <2>1. Head(queue) \in Requests
    BY <1>7 DEF WorkerTake, TypeOK, QueueType
  <2>2. mem' = mem \/ (mem[Head(queue)] # None /\ \E rec : mem' = [mem EXCEPT ![Head(queue)] = rec])
    BY <1>7 DEF WorkerTake, IsActive
  <2>3. UNCHANGED <<req, db, applied, runs>>
    BY <1>7 DEF WorkerTake
  <2> QED
    BY <2>1, <2>2, <2>3 DEF CreatedIsNew, TypeOK, StoreType
<1>8. CASE WorkerSaveRunning \/ WorkerSaveVerified \/ WriterSave \/ WorkerFinish
  <2>1. /\ wkJob \in Requests /\ UNCHANGED <<mem, req, runs, applied>>
        /\ \E rec \in Record : db' = [db EXCEPT ![wkJob] = rec]
    BY <1>8, SavesIn
  <2>2. HasJob
    BY <1>8 DEF WorkerSaveRunning, WorkerSaveVerified, WriterSave, WorkerFinish, HasJob
  <2> QED
    BY <1>0, <2>1, <2>2 DEF CreatedIsNew, TypeOK, StoreType
<1>9. CASE WorkerFlushed
  <2>1. HasJob /\ wkJob \in Requests /\ UNCHANGED <<mem, db, req, applied>>
    BY <1>9, HeldJob DEF WorkerFlushed, HasJob
  <2> QED
    BY <1>0, <1>9, <2>1 DEF WorkerFlushed, CreatedIsNew, TypeOK, StoreType
<1>10. CASE EndsAttempt
  BY <1>0, <1>10, EndsIn DEF CreatedIsNew, TypeOK, StoreType
<1>11. CASE Reports
  <2>1. /\ HasJob /\ wkJob \in Requests /\ UNCHANGED <<db, req, runs>>
        /\ mem' = [mem EXCEPT ![wkJob] = wkRec'] /\ applied' \subseteq applied \cup {wkJob}
    BY <1>11, ReportsIn
  <2> QED
    BY <1>0, <2>1 DEF CreatedIsNew, TypeOK, StoreType
<1>12. CASE DismissDelete
  BY <1>12, DismissEffect DEF Removable, Ended, CreatedIsNew, TypeOK, StoreType
<1>13. ASSUME NEW r \in Requests, LookupLedger(r) \/ LoadRow(r) \/ InstallRow(r), ~Declined(r) PROVE CreatedIsNew'
  BY <1>13, NothingToResolve DEF LookupLedger, CreatedIsNew, TypeOK, CallType
<1>14. ASSUME NEW r \in Requests, SubmitRejected(r) PROVE CreatedIsNew'
  BY <1>14 DEF SubmitRejected, Reply, CreatedIsNew, TypeOK, CallType
<1>15. ASSUME NEW r \in Requests, PlanConfirmed(r) \/ PruneRow(r) PROVE CreatedIsNew'
  <2>1. \A j \in Requests : mem'[j] = mem[j] \/ mem'[j] = None
    BY <1>15, PruneEffect DEF TypeOK, StoreType
  <2>2. \A j \in Requests : db'[j] = db[j] \/ Ended(j)
    BY <1>15, PruneEffect DEF Removable, TypeOK, StoreType
  <2>3. UNCHANGED <<runs, applied>> /\ \A t \in Requests : req'[t] = "insert" => req[t] = "insert"
    BY <1>15, PruneEffect
  <2> QED
    BY <2>1, <2>2, <2>3 DEF Ended, CreatedIsNew
<1>16. ASSUME NEW r \in Requests, CreateRow(r), ~Declined(r) PROVE CreatedIsNew'
  <2>1. ~Claimed(r)
    BY <1>16, NothingToResolve, ConstantsAssumption DEF Claimed
  <2>2. mem[r] = None /\ r \notin applied /\ runs[r] = 0
    BY <2>1 DEF ClaimsInv, OnlyClaimantsExist, HistoryIsClaimed
  <2> QED
    BY <1>16, <2>2, NothingToResolve DEF CreateRow, CreatedIsNew, TypeOK, StoreType, CallType
<1>17. ASSUME NEW r \in Requests, InsertJob(r) PROVE CreatedIsNew'
  BY <1>17 DEF InsertJob, Reply, CreatedIsNew, TypeOK, StoreType, CallType
<1>18. ASSUME NEW r \in Requests, Declined(r) PROVE CreatedIsNew'
  BY <1>18 DEF Declined, memVars, histVars, CreatedIsNew, TypeOK, CallType
<1> QED
  BY <1>1, <1>2, <1>3, <1>4, <1>5, <1>6, <1>7, <1>8, <1>9, <1>10, <1>11, <1>12, <1>13, <1>14, <1>15,
        <1>16, <1>17, <1>18
  DEF Next, BootNext, TimerNext, WorkerNext, FaultNext, SubmitNext, EndsAttempt, Reports

StaysOver(j) ==
  Ended(j)' /\ (j \notin unsettled => j \notin unsettled') /\ (mem[j] = None => mem'[j] = None)

\* A job that is over stays so for the rest of the process: no call and no
\* attempt brings it back.
LEMMA EndedStays ==
  ASSUME Inv, [Next]_vars, sys = "ready", ~Crash, NEW j \in Requests, Ended(j)
  PROVE  StaysOver(j)
<1> USE DEF Inv, OwnedInv
<1>0. /\ ~Boot /\ ~BootDone /\ \A t \in Requests : ~RecoverJob(t) /\ ~BootPrune(t)
      /\ Claimed(j)'
  BY ReadyStays, ClaimsStay DEF Ended
<1> USE DEF StaysOver
<1> HIDE DEF Claimed
<1>1. CASE (\E i \in Requests : TimePasses(i)) \/ (\E i \in Requests : DelayedEnqueue(i)) \/
      OthersTakeLock \/ OthersReleaseLock \/ (\E k \in Keys : BatchClaims(k)) \/ WorkerSaveRunning \/ WorkerAcquire \/ VerifyPasses
  BY <1>1, <1>0 DEF Ended, TimePasses, DelayedEnqueue, OthersTakeLock, OthersReleaseLock, BatchClaims,
        WorkerSaveRunning, WorkerAcquire, VerifyPasses
<1>2. CASE WorkerSaveVerified \/ WriterSave \/ WorkerFlushed \/ (\E result \in {"success",
      "retryable", "terminal", "raised"} : RunnerEnds(result)) \/ WorkerFinish \/ WriterFails \/
      WorkerDies
  BY <1>2, <1>0 DEF Ended, WorkerSaveVerified, WriterSave, WorkerFlushed, RunnerEnds, WorkerFinish,
        Settle, WriterFails, WorkerDies
<1>3. CASE PreviewCall \/ (\E i \in Requests : Dismiss(i)) \/ UNCHANGED vars
  BY <1>3, <1>0 DEF Ended, PreviewCall, Dismiss, vars
<1>4. ASSUME NEW r \in Requests, SubmitCall(r) PROVE StaysOver(j)
  BY <1>0, <1>4 DEF SubmitCall, Reply, Proceed, Ended, TypeOK, CallType
<1>5. CASE WorkerTake
  <2>1. Head(queue) \in Requests /\ req' = req
    BY <1>5 DEF WorkerTake, TypeOK, QueueType
  <2>2. \/ mem' = mem /\ unsettled' = unsettled
        \/ /\ IsActive(mem[Head(queue)]) /\ unsettled' = unsettled \cup {Head(queue)}
           /\ \E rec : mem' = [mem EXCEPT ![Head(queue)] = rec]
    BY <1>5 DEF WorkerTake
  <2> QED
    BY <1>0, <2>1, <2>2 DEF Ended, TypeOK, StoreType
<1>6. CASE EndsAttempt
  <2>1. /\ HasJob /\ wkJob \in Requests /\ mem' = [mem EXCEPT ![wkJob] = wkRec'] /\ UNCHANGED <<req, unsettled>>
        /\ wkPc = "finish" => wkRec'.phase \in Terminal
    BY <1>6, EndsIn
  <2>2. wkJob = j => wkPc = "finish"
    BY <2>1, HeldJob, ConstantsAssumption
    DEF WorkerOwnsJob, PhaseFollowsRun, Ended, IsActive, Active, Phases, RunningPhases, Mutating, Terminal, TypeOK,
        WorkerType, WorkerPcs, HasJob
  <2>3. wkRec'.phase \in Terminal => ~IsActive(wkRec')
    BY DEF IsActive, Active
  <2>4. mem[wkJob] # None
    BY <1>6, <2>1, EndsIn, ConstantsAssumption DEF WorkerOwnsJob
  <2> QED
    BY <1>0, <2>1, <2>2, <2>3, <2>4 DEF Ended, TypeOK, StoreType
<1>7. CASE Reports
  <2>1. /\ HasJob /\ wkJob \in Requests /\ mem' = [mem EXCEPT ![wkJob] = wkRec'] /\ UNCHANGED <<req, unsettled>>
        /\ wkPc \in {"report", "mutate"} /\ wkRec \in Record
    BY <1>7, ReportsIn
  <2>2. mem[wkJob] = wkRec /\ wkRec # None /\ wkRec.phase \in {"planning"} \cup Mutating
    BY <2>1, ConstantsAssumption DEF WorkerOwnsJob, PhaseFollowsRun
  <2>3. IsActive(wkRec)
    BY <2>2 DEF IsActive, Active, Phases, RunningPhases, Mutating, Terminal
  <2>4. wkJob # j
    BY <2>2, <2>3 DEF Ended
  <2>5. mem'[j] = mem[j]
    BY <2>1, <2>4 DEF TypeOK, StoreType
  <2> QED
    BY <1>0, <2>1, <2>5 DEF Ended
<1>8. CASE DismissDelete
  BY <1>0, <1>8, DismissEffect DEF Ended, IsActive, TypeOK, StoreType
<1>9. ASSUME NEW r \in Requests, LookupLedger(r) \/ LoadRow(r) \/ InstallRow(r), ~Declined(r) PROVE StaysOver(j)
  BY <1>0, <1>9, NothingToResolve DEF LookupLedger, Ended, TypeOK, CallType
<1>10. ASSUME NEW r \in Requests, SubmitRejected(r) PROVE StaysOver(j)
  BY <1>0, <1>10 DEF SubmitRejected, Reply, Ended, TypeOK, CallType
<1>11. ASSUME NEW r \in Requests, PlanConfirmed(r) \/ PruneRow(r) PROVE StaysOver(j)
  <2>1. mem'[j] = mem[j] \/ mem'[j] = None
    BY <1>11, PruneEffect DEF TypeOK, StoreType
  <2>2. UNCHANGED unsettled /\ (req'[j] = "insert" => req[j] = "insert")
    BY <1>11, PruneEffect
  <2> QED
    BY <1>0, <2>1, <2>2 DEF Ended, IsActive
<1>12. ASSUME NEW r \in Requests, CreateRow(r), ~Declined(r) PROVE StaysOver(j)
  <2>1. r # j
    BY <1>12, NothingToResolve, ConstantsAssumption DEF Ended, Claimed
  <2> QED
    BY <1>0, <1>12, <2>1, NothingToResolve DEF CreateRow, Ended, TypeOK, CallType
<1>13. ASSUME NEW r \in Requests, InsertJob(r) PROVE StaysOver(j)
  BY <1>0, <1>13 DEF InsertJob, Reply, Ended, TypeOK, StoreType, CallType
<1>14. ASSUME NEW r \in Requests, Declined(r) PROVE StaysOver(j)
  BY <1>0, <1>14 DEF Declined, memVars, Ended, TypeOK, CallType
<1> QED
  BY <1>1, <1>2, <1>3, <1>4, <1>5, <1>6, <1>7, <1>8, <1>9, <1>10, <1>11, <1>12, <1>13, <1>14, <1>0
  DEF Next, BootNext, TimerNext, WorkerNext, FaultNext, SubmitNext, EndsAttempt, Reports

\* The pruning of a call goes on as it was begun.
LEMMA PruneCallKept ==
  ASSUME Inv, [Next]_vars, NEW r \in Requests, req'[r] = "prune", ~PlanConfirmed(r), ~PruneRow(r)
  PROVE  req[r] = "prune" /\ victims'[r] = victims[r] /\ doomed'[r] = doomed[r]
<1> USE DEF Inv
<1>1. CASE Boot \/ BootDone \/ (\E j \in Requests : RecoverJob(j)) \/ (\E j \in Requests :
      BootPrune(j)) \/ (\E i \in Requests : TimePasses(i)) \/ (\E i \in Requests :
      DelayedEnqueue(i)) \/ OthersTakeLock
  BY <1>1 DEF Boot, BootDone, RecoverJob, BootPrune, TimePasses, DelayedEnqueue, OthersTakeLock
<1>2. CASE OthersReleaseLock \/ (\E k \in Keys : BatchClaims(k)) \/ WorkerTake \/ WorkerSaveRunning \/ WorkerAcquire \/ EndsAttempt \/
      VerifyPasses \/ WorkerSaveVerified
  BY <1>2 DEF OthersReleaseLock, BatchClaims, WorkerTake, WorkerSaveRunning, WorkerAcquire, EndsAttempt,
        VerifyRejects, VerifyFails, WorkerFlushFails, WorkerDrained, LockedSaveFails, EndAttempt,
        VerifyPasses, WorkerSaveVerified
<1>3. CASE Reports \/ WriterSave \/ WorkerFlushed \/ (\E result \in {"success", "retryable",
      "terminal", "raised"} : RunnerEnds(result)) \/ WorkerFinish \/ WriterFails \/ WorkerDies
  BY <1>3 DEF Reports, WorkerReport, Mutate, ReportRecording, WriterSave, WorkerFlushed, RunnerEnds,
        WorkerFinish, WriterFails, WorkerDies
<1>4. CASE PreviewCall \/ DismissDelete \/ (\E i \in Requests : Dismiss(i)) \/ UNCHANGED vars
  BY <1>4 DEF PreviewCall, DismissDelete, Dismiss, vars
<1>5. CASE Crash
  BY <1>5 DEF Crash, InFlight, TypeOK, CallType
<1>6. ASSUME NEW t \in Requests, SubmitCall(t) PROVE req[r] = "prune" /\ victims'[r] = victims[r] /\ doomed'[r] = doomed[r]
  BY <1>6 DEF SubmitCall, Reply, Proceed, TypeOK, CallType
<1>7. ASSUME NEW t \in Requests, LookupLedger(t) \/ LoadRow(t) \/ InstallRow(t), ~Declined(t)
      PROVE req[r] = "prune" /\ victims'[r] = victims[r] /\ doomed'[r] = doomed[r]
  BY <1>7, NothingToResolve DEF OwnedInv, LookupLedger, TypeOK, CallType
<1>8. ASSUME NEW t \in Requests, SubmitRejected(t) \/ InsertJob(t)
      PROVE req[r] = "prune" /\ victims'[r] = victims[r] /\ doomed'[r] = doomed[r]
  BY <1>8 DEF SubmitRejected, InsertJob, Reply, TypeOK, CallType
<1>9. ASSUME NEW t \in Requests, PlanConfirmed(t) \/ PruneRow(t)
      PROVE req[r] = "prune" /\ victims'[r] = victims[r] /\ doomed'[r] = doomed[r]
  <2>1. t # r
    BY <1>9
  <2> QED
    BY <1>9, <2>1 DEF PlanConfirmed, PruneRow, PruneNext, Proceed, TypeOK, CallType
<1>10. ASSUME NEW t \in Requests, CreateRow(t), ~Declined(t) PROVE req[r] = "prune" /\ victims'[r] = victims[r] /\ doomed'[r] = doomed[r]
  BY <1>10, NothingToResolve DEF OwnedInv, CreateRow, TypeOK, CallType
<1>11. ASSUME NEW t \in Requests, Declined(t) PROVE req[r] = "prune" /\ victims'[r] = victims[r] /\ doomed'[r] = doomed[r]
  BY <1>11 DEF Declined, TypeOK, CallType
<1> QED
  BY <1>1, <1>2, <1>3, <1>4, <1>5, <1>6, <1>7, <1>8, <1>9, <1>10, <1>11
  DEF Next, BootNext, TimerNext, WorkerNext, FaultNext, SubmitNext, EndsAttempt, Reports

\* A dismissal waits for, and then removes, a job that is over.
LEMMA DismissKept ==
  ASSUME Inv, [Next]_vars, sys = "ready", ~Crash
  PROVE  /\ dis' = "wait" => Ended(disJob)'
         /\ dis' = "delete" => Removable(disJob)'
<1> USE DEF Inv
<1> DEFINE Kept == /\ dis' = "wait" => Ended(disJob)'
                   /\ dis' = "delete" => Removable(disJob)'
<1> SUFFICES Kept
  OBVIOUS
<1>0. /\ dis = "wait" => disJob \in Requests /\ Ended(disJob)
      /\ dis = "delete" => disJob \in Requests /\ Ended(disJob) /\ disJob \notin unsettled
  BY DEF OwnedInv, RemovesEnded, Removable, TypeOK, CallType
<1>1. ASSUME NEW j \in Requests, Ended(j)
      PROVE  Ended(j)' /\ (j \notin unsettled => j \notin unsettled')
  BY <1>1, EndedStays DEF StaysOver
<1>2. ASSUME UNCHANGED <<dis, disJob>>
      PROVE  Kept
  BY <1>0, <1>1, <1>2 DEF Removable
<1>3. CASE WorkerFinish \/ WorkerDies
  <2>1. disJob' = disJob /\ unsettled' = unsettled \ {wkJob}
    BY <1>3 DEF WorkerFinish, WorkerDies, Settle
  <2>2. dis' = dis \/ (dis = "wait" /\ disJob = wkJob /\ dis' = "delete")
    BY <1>3 DEF WorkerFinish, WorkerDies, Settle
  <2> QED
    BY <1>0, <1>1, <2>1, <2>2 DEF Removable
<1>4. ASSUME NEW j \in Requests, Dismiss(j)
      PROVE  Kept
  <2>1. Ended(j)
    BY <1>4 DEF Dismiss, Ended, IsTerminal, IsActive, Active, OwnedInv, ClaimsInv, OnlyClaimantsExist, CreatedIsNew
  <2>2. disJob' = j /\ dis' = IF j \in unsettled THEN "wait" ELSE "delete"
    BY <1>4 DEF Dismiss
  <2> QED
    BY <1>1, <2>1, <2>2 DEF Removable
<1>5. CASE DismissDelete
  BY <1>5 DEF DismissDelete
<1> HIDE DEF Kept
<1>6. ASSUME Boot \/ BootDone \/ \E j \in Requests : RecoverJob(j) \/ BootPrune(j)
      PROVE  Kept
  BY <1>6, ReadyStays
<1>7. CASE (\E i \in Requests : TimePasses(i)) \/ (\E i \in Requests : DelayedEnqueue(i)) \/
      OthersTakeLock \/ OthersReleaseLock \/ (\E k \in Keys : BatchClaims(k)) \/ WorkerTake \/ WorkerSaveRunning \/ WorkerAcquire
  BY <1>7, <1>2 DEF TimePasses, DelayedEnqueue, OthersTakeLock, OthersReleaseLock, BatchClaims, WorkerTake,
        WorkerSaveRunning, WorkerAcquire
<1>8. CASE EndsAttempt \/ VerifyPasses \/ WorkerSaveVerified \/ Reports \/ WriterSave \/
      WorkerFlushed \/ (\E result \in {"success", "retryable", "terminal", "raised"} :
      RunnerEnds(result))
  BY <1>8, <1>2 DEF EndsAttempt, VerifyRejects, VerifyFails, WorkerFlushFails, WorkerDrained,
        LockedSaveFails, EndAttempt, VerifyPasses, WorkerSaveVerified, Reports, WorkerReport,
        Mutate, ReportRecording, WriterSave, WorkerFlushed, RunnerEnds
<1>9. CASE WriterFails \/ PreviewCall \/ (\E r \in Requests : SubmitCall(r)) \/ (\E r \in Requests :
      LookupLedger(r)) \/ (\E r \in Requests : LoadRow(r)) \/ (\E r \in Requests : InstallRow(r)) \/
      (\E r \in Requests : SubmitRejected(r))
  BY <1>9, <1>2 DEF WriterFails, PreviewCall, SubmitCall, LookupLedger, LoadRow, InstallRow,
        SubmitRejected
<1>10. CASE (\E r \in Requests : PlanConfirmed(r)) \/ (\E r \in Requests : PruneRow(r)) \/ (\E r \in
      Requests : CreateRow(r)) \/ (\E r \in Requests : InsertJob(r)) \/ UNCHANGED vars
  BY <1>10, <1>2 DEF PlanConfirmed, PruneRow, CreateRow, InsertJob, vars
<1> QED
  BY <1>1, <1>2, <1>3, <1>4, <1>5, <1>6, <1>7, <1>8, <1>9, <1>10
  DEF Next, BootNext, TimerNext, WorkerNext, FaultNext, SubmitNext, EndsAttempt, Reports

LEMMA RemovesEndedStep ==
  ASSUME Inv, [Next]_vars
  PROVE  RemovesEnded'
<1> USE DEF Inv, OwnedInv
<1>1. CASE Crash
  BY <1>1 DEF Crash, InFlight, RemovesEnded, TypeOK, CallType
<1>2. CASE sys # "ready" /\ ~Crash
  <2>1. UNCHANGED <<req, dis>>
    BY <1>2, StepsUntilReady DEF AheadInv, Boot, BootDone, OthersReleaseLock, BatchClaims, vars, RecoverJob, BootPrune, TimePasses,
       DelayedEnqueue
  <2>2. dis = "idle" /\ \A r \in Requests : req[r] # "prune"
    BY <1>2 DEF QuietUntilReady, InFlight
  <2> QED
    BY <2>1, <2>2 DEF RemovesEnded
<1>3. CASE sys = "ready" /\ ~Crash
  <2>1. \A j \in Requests : /\ Ended(j) => Ended(j)'
                            /\ Removable(j) => Removable(j)'
    BY <1>3, EndedStays DEF Removable, StaysOver
  <2>2. ASSUME NEW r \in Requests, req'[r] = "prune"
        PROVE  mem'[doomed'[r]] = None /\ \A j \in victims'[r] \cup {doomed'[r]} : Removable(j)'
    <3>1. CASE PlanConfirmed(r) \/ PruneRow(r)
      <4>1. PICK rest \in SUBSET Requests : PruneNext(r, rest) /\ \A j \in rest : Removable(j)
        <5>1. CASE PlanConfirmed(r)
          <6>1. \A j \in History(mem) : Removable(j)
            BY DEF History, Removable, Ended, IsTerminal, IsActive, Active, ClaimsInv, OnlyClaimantsExist, CreatedIsNew
          <6> QED
            BY <5>1, <6>1 DEF PlanConfirmed, History
        <5>2. CASE PruneRow(r)
          BY <5>2 DEF PruneRow, RemovesEnded, TypeOK, CallType
        <5> QED
          BY <3>1, <5>1, <5>2
      <4>2. \A j \in rest : j \notin unsettled
        BY <4>1 DEF Removable
      <4>3. req' = [req EXCEPT ![r] = "create"] => FALSE
        BY <2>2 DEF TypeOK, CallType
      <4>4. PICK j \in rest : /\ victims' = [victims EXCEPT ![r] = rest \ {j}] /\ doomed' = [doomed EXCEPT ![r] = j]
                              /\ mem' = [mem EXCEPT ![j] = None]
        BY <4>1, <4>2, <4>3, PrunesRemovable
      <4>5. victims'[r] = rest \ {j} /\ doomed'[r] = j /\ mem'[j] = None
        BY <4>1, <4>4 DEF TypeOK, CallType, StoreType
      <4> QED
        BY <2>1, <4>1, <4>5
    <3>2. CASE ~PlanConfirmed(r) /\ ~PruneRow(r)
      <4>1. req[r] = "prune" /\ victims'[r] = victims[r] /\ doomed'[r] = doomed[r]
        BY <1>3, <2>2, <3>2, PruneCallKept
      <4>2. /\ mem[doomed[r]] = None /\ doomed[r] \in Requests
            /\ \A j \in victims[r] \cup {doomed[r]} : Removable(j) /\ j \in Requests
        BY <4>1 DEF RemovesEnded, TypeOK, CallType
      <4>3. mem'[doomed[r]] = None
        BY <1>3, <4>2, EndedStays DEF Removable, StaysOver
      <4> QED
        BY <2>1, <4>1, <4>2, <4>3
    <3> QED
      BY <3>1, <3>2
  <2>3. dis' = "wait" => Ended(disJob)'
    BY <1>3, <2>1, DismissKept
  <2>4. dis' = "delete" => Removable(disJob)'
    BY <1>3, <2>1, DismissKept
  <2> QED
    BY <2>2, <2>3, <2>4 DEF RemovesEnded
<1> QED
  BY <1>1, <1>2, <1>3

LEMMA OwnedStart == Init => OwnedInv
<1> SUFFICES ASSUME Init PROVE OwnedInv
  OBVIOUS
<1>1. ConstantsAssumption
  BY ConstantsAssumption
<1> QED
  BY <1>1 DEF Init, OwnedInv, ClaimedByCaller, QuietUntilReady, WorkerOwnsJob, HasJob, PhaseFollowsRun, VisibleHasRow,
     OpenWhileHeld, MutatingIsHeld, HistoryIsClaimed, CreatedIsNew, RemovesEnded, InFlight, Mutating, ConstantsAssumption

LEMMA OwnedAlways ==
  ASSUME DistinctKeys
  PROVE  Spec => []Inv
<1>1. ASSUME Inv, [Next]_vars
      PROVE  OwnedInv'
  BY <1>1, ClaimedByCallerStep, QuietStep, WorkerOwnsStep, PhaseStep, VisibleHasRowStep, OpenWhileHeldStep,
     MutatingIsHeldStep, HistoryIsClaimedStep, CreatedIsNewStep, RemovesEndedStep DEF OwnedInv
<1>2. TypeOK /\ ClaimsInv /\ AheadInv /\ OwnedInv /\ [Next]_vars => OwnedInv'
  BY <1>1 DEF Inv
<1>3. TypeOK /\ ClaimsInv /\ AheadInv /\ OwnedInv => Inv
  BY DEF Inv
<1> QED
  BY <1>2, <1>3, OwnedStart, TypeCorrect, ClaimsAlways, AheadAlways, PTL DEF Spec

-----------------------------------------------------------------------------
(* A finished row is final.                                                *)

LEMMA RowsStep ==
  ASSUME Inv, [Next]_vars, NEW j \in Requests
  PROVE  /\ IsTerminal(db[j]) => db'[j] \in {db[j], None}
         /\ Claimed(j) /\ db[j] = None => db'[j] = None
<1> USE DEF Inv, OwnedInv
<1> DEFINE Kept == /\ IsTerminal(db[j]) => db'[j] \in {db[j], None}
                   /\ Claimed(j) /\ db[j] = None => db'[j] = None
<1> SUFFICES Kept
  OBVIOUS
<1>1. ASSUME db'[j] = db[j] \/ db'[j] = None
      PROVE  Kept
  BY <1>1
<1> HIDE DEF Kept
<1>2. CASE Boot \/ BootDone \/ Crash \/ (\E i \in Requests : TimePasses(i)) \/ (\E i \in Requests :
      DelayedEnqueue(i)) \/ OthersTakeLock \/ OthersReleaseLock \/ (\E k \in Keys : BatchClaims(k))
  BY <1>2, <1>1 DEF Boot, BootDone, Crash, TimePasses, DelayedEnqueue, OthersTakeLock,
        OthersReleaseLock, BatchClaims
<1>3. CASE WorkerTake \/ WorkerAcquire \/ EndsAttempt \/ VerifyPasses \/ Reports \/ WorkerFlushed \/
      (\E result \in {"success", "retryable", "terminal", "raised"} : RunnerEnds(result))
  BY <1>3, <1>1 DEF WorkerTake, WorkerAcquire, EndsAttempt, VerifyRejects, VerifyFails,
        WorkerFlushFails, WorkerDrained, LockedSaveFails, EndAttempt, VerifyPasses, Reports,
        WorkerReport, Mutate, ReportRecording, WorkerFlushed, RunnerEnds
<1>4. CASE WriterFails \/ WorkerDies \/ PreviewCall \/ (\E r \in Requests : SubmitCall(r)) \/ (\E r
      \in Requests : LookupLedger(r)) \/ (\E r \in Requests : SubmitRejected(r)) \/ (\E r \in
      Requests : InsertJob(r))
  BY <1>4, <1>1 DEF WriterFails, WorkerDies, PreviewCall, SubmitCall, LookupLedger, SubmitRejected,
        InsertJob
<1>5. CASE (\E i \in Requests : Dismiss(i)) \/ UNCHANGED vars
  BY <1>5, <1>1 DEF Dismiss, vars
<1>6. ASSUME NEW t \in Requests, RecoverJob(t) PROVE Kept
  <2>1. mem = db /\ db' = [db EXCEPT ![t] = Recovered(mem[t])] /\ db[t] # None /\ db[t].phase \in RunningPhases
    BY <1>6 DEF RecoverJob, Interrupted, QuietUntilReady
  <2>2. ~IsTerminal(db[t])
    BY <2>1 DEF IsTerminal, RunningPhases, Mutating, Terminal
  <2> QED
    BY <2>1, <2>2 DEF Kept, TypeOK, StoreType
<1>7. ASSUME NEW t \in Requests, BootPrune(t) PROVE Kept
  BY <1>1, <1>7 DEF BootPrune, TypeOK, StoreType
<1>8. CASE WorkerSaveRunning \/ WorkerSaveVerified \/ WriterSave \/ WorkerFinish
  <2>1. HasJob /\ wkJob \in Requests /\ mem[wkJob] = wkRec /\ wkRec # None
    BY <1>8, SavesIn, ConstantsAssumption DEF WorkerSaveRunning, WorkerSaveVerified, WriterSave, WorkerFinish, HasJob
  <2>2. db[wkJob] # None /\ ~IsTerminal(db[wkJob])
    BY <2>1 DEF VisibleHasRow, OpenWhileHeld
  <2>3. \E rec \in Record : db' = [db EXCEPT ![wkJob] = rec]
    BY <1>8, SavesIn
  <2> QED
    BY <2>1, <2>2, <2>3 DEF Kept, TypeOK, StoreType
<1>9. CASE DismissDelete
  BY <1>1, <1>9, DismissEffect DEF TypeOK, StoreType
<1>10. ASSUME NEW r \in Requests, LoadRow(r) \/ InstallRow(r) PROVE Kept
  BY <1>10, NothingToResolve
<1>11. ASSUME NEW r \in Requests, PlanConfirmed(r) \/ PruneRow(r) PROVE Kept
  BY <1>1, <1>11, PruneEffect DEF TypeOK, StoreType
<1>12. ASSUME NEW r \in Requests, CreateRow(r), ~Declined(r) PROVE Kept
  <2>1. ~Claimed(r) /\ db' = [db EXCEPT ![r] = NewRecord]
    BY <1>12, NothingToResolve, ConstantsAssumption DEF Claimed
  <2>2. db[r] = None
    BY <2>1 DEF ClaimsInv, OnlyClaimantsExist
  <2> QED
    BY <2>1, <2>2 DEF Kept, IsTerminal, TypeOK, StoreType
<1>13. ASSUME NEW r \in Requests, Declined(r) PROVE Kept
  BY <1>1, <1>13 DEF Declined, Kept, memVars, Claimed
<1> QED
  BY <1>1, <1>2, <1>3, <1>4, <1>5, <1>6, <1>7, <1>8, <1>9, <1>10, <1>11, <1>12, <1>13
  DEF Next, BootNext, TimerNext, WorkerNext, FaultNext, SubmitNext, EndsAttempt, Reports

\* Recovery, late snapshots of the progress writer, a failed save repeated
\* after a restart, a prune or a dismissal: none of them reopens a finished
\* row or brings back one that was removed.
THEOREM FinishedRowsStay ==
  ASSUME DistinctKeys
  PROVE  Spec => FinishedIsFinal
<1>1. Inv /\ [Next]_vars =>
        [\A j \in Requests : /\ IsTerminal(db[j]) => db'[j] \in {db[j], None}
                             /\ Claimed(j) /\ db[j] = None => db'[j] = None]_vars
  BY RowsStep
<1> QED
  BY <1>1, OwnedAlways, PTL DEF Spec, FinishedIsFinal

-----------------------------------------------------------------------------
(* A job that may have deleted something is not run again.                 *)

\* A row or object that neither recovery nor the worker would run again.
Unrepeatable(rec) == rec = None \/ rec.phase \in Mutating \cup Terminal

SpentJobs ==
  \A j \in applied :
    /\ Unrepeatable(db[j]) /\ Unrepeatable(mem[j])
    /\ wkJob = j => wkPc \in {"mutate", "drain", "finish"} /\ (wkPc # "finish" => wkDeleted)

LEMMA SpentStep ==
  ASSUME Inv, SpentJobs, [Next]_vars
  PROVE  SpentJobs'
<1> USE DEF Inv, OwnedInv
<1>0. applied \subseteq Requests /\ \A j \in applied : Claimed(j)
  BY DEF HistoryIsClaimed, TypeOK, StoreType
<1>1. CASE (\E i \in Requests : TimePasses(i)) \/ (\E i \in Requests : DelayedEnqueue(i)) \/
      OthersTakeLock \/ OthersReleaseLock \/ (\E k \in Keys : BatchClaims(k)) \/ WorkerAcquire \/ VerifyPasses
  BY <1>1 DEF SpentJobs, TimePasses, DelayedEnqueue, OthersTakeLock, OthersReleaseLock, BatchClaims,
        WorkerAcquire, VerifyPasses
<1>2. CASE (\E result \in {"success", "retryable", "terminal", "raised"} : RunnerEnds(result)) \/
      WriterFails \/ (\E r \in Requests : LookupLedger(r)) \/ (\E r \in Requests :
      SubmitRejected(r)) \/ (\E i \in Requests : Dismiss(i)) \/ UNCHANGED vars
  BY <1>2 DEF SpentJobs, RunnerEnds, WriterFails, LookupLedger, SubmitRejected, Dismiss, vars
<1>3. CASE Boot
  BY <1>3 DEF Boot, SpentJobs
<1>4. ASSUME NEW j \in Requests, RecoverJob(j) PROVE SpentJobs'
  <2>1. mem = db /\ mem' = [mem EXCEPT ![j] = Recovered(mem[j])] /\ db' = mem' /\ mem[j].phase \in RunningPhases
    BY <1>4 DEF RecoverJob, Interrupted, QuietUntilReady
  <2>2. UNCHANGED <<applied, wkPc, wkJob, wkDeleted>>
    BY <1>4 DEF RecoverJob
  <2>3. mem[j].phase \in Mutating \cup Terminal => Recovered(mem[j]).phase = "failed"
    <3>1. mem[j] \in Record
      BY <1>4 DEF RecoverJob, Interrupted, TypeOK, StoreType
    <3> QED
      BY <3>1 DEF Recovered, Record, Mutating, Terminal
  <2>4. j \in applied => Unrepeatable(Recovered(mem[j]))
    BY <1>4, <2>3 DEF SpentJobs, Unrepeatable, RecoverJob, Interrupted, Terminal
  <2> QED
    BY <1>0, <2>1, <2>2, <2>4 DEF SpentJobs, TypeOK, StoreType
<1>5. ASSUME NEW j \in Requests, BootPrune(j) PROVE SpentJobs'
  BY <1>0, <1>5 DEF BootPrune, SpentJobs, Unrepeatable, TypeOK, StoreType
<1>6. CASE BootDone \/ PreviewCall \/ (\E r \in Requests : SubmitCall(r))
  <2>1. (wkPc' = wkPc \/ wkPc = "dead") /\ UNCHANGED <<db, mem, wkJob, wkDeleted, applied>>
    BY <1>6 DEF BootDone, PreviewCall, SubmitCall, StartService
  <2> QED
    BY <2>1 DEF SpentJobs
<1>7. CASE Crash
  <2>1. MayHaveMutated => wkJob \in Requests /\ Unrepeatable(db[wkJob])
    BY HeldJob DEF MayHaveMutated, HasJob, AheadInv, WriterDone, FlushedRow, IsMutating, Unrepeatable
  <2>2. applied' \subseteq Requests /\ \A j \in applied' : Unrepeatable(db[j])
    BY <1>0, <1>7, <2>1 DEF Crash, SpentJobs
  <2> QED
    BY <1>7, <2>2, ConstantsAssumption DEF Crash, SpentJobs, Unrepeatable
<1>8. CASE WorkerTake
  <2>1. Head(queue) \in Requests /\ wkPc = "idle" /\ sys = "ready"
    BY <1>8 DEF WorkerTake, AheadInv, RecoversAlone, TypeOK, QueueType
  <2>2. wkJob \notin applied
    BY <2>1 DEF SpentJobs
  <2>3. IsActive(mem[Head(queue)]) => Head(queue) \notin applied
    BY <2>1 DEF SpentJobs, Unrepeatable, MutatingIsHeld, IsActive, Active
  <2> QED
    BY <1>8, <2>1, <2>2, <2>3 DEF WorkerTake, SpentJobs, TypeOK, StoreType
<1>9. CASE WorkerSaveRunning \/ WorkerSaveVerified \/ WriterSave
  <2>1. /\ wkJob \in Requests /\ UNCHANGED <<mem, wkJob, wkDeleted, applied>> /\ mem[wkJob] = wkRec
        /\ wkPc \notin {"mutate", "drain"} => wkPc' \notin {"mutate", "drain", "finish"} \/ wkPc = "finish"
    BY <1>9, SavesIn DEF WorkerSaveRunning, WorkerSaveVerified, WriterSave
  <2>2. wkPc' = wkPc \/ wkRec.phase = "planning"
    BY <1>9 DEF WorkerSaveRunning, WorkerSaveVerified, WriterSave, PhaseFollowsRun
  <2>3. wkRec.phase = "planning" => wkJob \notin applied
    BY <2>1, HeldJob, <1>9, ConstantsAssumption
    DEF SpentJobs, Unrepeatable, HasJob, Mutating, Terminal, WorkerSaveRunning, WorkerSaveVerified, WriterSave
  <2>4. PICK rec \in Record : db' = [db EXCEPT ![wkJob] = rec] /\ (rec.phase \in Mutating \/ wkRec.phase = "planning")
    BY <1>9, SavesIn DEF WorkerSaveRunning, WorkerSaveVerified, WriterSave, WorkerFinish
  <2> QED
    BY <1>0, <2>1, <2>2, <2>3, <2>4 DEF SpentJobs, Unrepeatable, TypeOK, StoreType
<1>10. CASE WorkerFinish
  <2>1. /\ wkJob \in Requests /\ UNCHANGED <<mem, applied>> /\ db' = [db EXCEPT ![wkJob] = wkRec]
        /\ mem[wkJob] = wkRec
    BY <1>10, SavesIn DEF WorkerFinish
  <2>2. wkJob' = None
    BY <1>10 DEF WorkerFinish, Settle
  <2> QED
    BY <1>0, <2>1, <2>2, ConstantsAssumption DEF SpentJobs, TypeOK, StoreType
<1>11. CASE WorkerDies
  BY <1>0, <1>11, ConstantsAssumption DEF WorkerDies, Settle, SpentJobs
<1>12. CASE WorkerFlushed
  <2>1. wkJob \notin applied
    BY <1>12 DEF WorkerFlushed, SpentJobs
  <2> QED
    BY <1>12, <2>1 DEF WorkerFlushed, SpentJobs
<1>13. CASE EndsAttempt
  <2>1. /\ HasJob /\ wkJob \in Requests /\ mem' = [mem EXCEPT ![wkJob] = wkRec'] /\ wkPc' = "finish"
        /\ UNCHANGED <<db, wkJob, applied>>
    BY <1>13, EndsIn
  <2>2. wkRec'.phase \in Terminal \/ wkPc \in {"verify", "save_verified"} \/ (wkPc = "drain" /\ ~wkDeleted)
    BY <1>13, EndsIn
  <2>3. wkJob \in applied => wkRec'.phase \in Terminal
    BY <2>2 DEF SpentJobs
  <2> QED
    BY <1>0, <2>1, <2>3 DEF SpentJobs, Unrepeatable, TypeOK, StoreType
<1>14. CASE Reports
  <2>1. /\ HasJob /\ wkJob \in Requests /\ mem' = [mem EXCEPT ![wkJob] = wkRec'] /\ wkRec'.phase \in Mutating
        /\ UNCHANGED <<db, wkJob>>
    BY <1>14, ReportsIn
  <2>2. CASE applied' = applied /\ wkDeleted' = wkDeleted /\ (wkPc = "report" \/ (wkPc = "mutate" /\ wkPc' = "mutate"))
    <3>1. wkPc = "report" => wkJob \notin applied
      BY DEF SpentJobs
    <3> QED
      BY <1>0, <2>1, <2>2, <3>1 DEF SpentJobs, Unrepeatable, TypeOK, StoreType
  <2>3. CASE wkPc = "mutate" /\ wkPc' = "mutate" /\ applied' = applied \cup {wkJob} /\ wkDeleted' = TRUE
    <3>1. Unrepeatable(db[wkJob])
      BY <2>3 DEF AheadInv, WriterDone, FlushedRow, IsMutating, Unrepeatable
    <3> QED
      BY <1>0, <2>1, <2>3, <3>1 DEF SpentJobs, Unrepeatable, TypeOK, StoreType
  <2> QED
    BY <1>14, <2>2, <2>3, ReportsIn
<1>15. CASE DismissDelete
  BY <1>0, <1>15, DismissEffect DEF SpentJobs, Unrepeatable, TypeOK, StoreType
<1>16. ASSUME NEW r \in Requests, LoadRow(r) \/ InstallRow(r) PROVE SpentJobs'
  BY <1>16, NothingToResolve
<1>17. ASSUME NEW r \in Requests, PlanConfirmed(r) \/ PruneRow(r) PROVE SpentJobs'
  <2>1. \A j \in Requests : mem'[j] = mem[j] \/ mem'[j] = None
    BY <1>17, PruneEffect DEF TypeOK, StoreType
  <2>2. \A j \in Requests : db'[j] = db[j] \/ db'[j] = None
    BY <1>17, PruneEffect DEF TypeOK, StoreType
  <2>3. UNCHANGED <<wkPc, wkJob, wkDeleted, applied>>
    BY <1>17, PruneEffect
  <2> QED
    BY <1>0, <2>1, <2>2, <2>3 DEF SpentJobs, Unrepeatable
<1>18. ASSUME NEW r \in Requests, CreateRow(r), ~Declined(r) PROVE SpentJobs'
  <2>1. r \notin applied
    BY <1>0, <1>18, NothingToResolve, ConstantsAssumption DEF Claimed
  <2> QED
    BY <1>0, <1>18, <2>1, NothingToResolve DEF CreateRow, SpentJobs, TypeOK, StoreType
<1>19. ASSUME NEW r \in Requests, InsertJob(r) PROVE SpentJobs'
  <2>1. r \notin applied
    BY <1>19 DEF InsertJob, CreatedIsNew
  <2> QED
    BY <1>0, <1>19, <2>1 DEF InsertJob, SpentJobs, TypeOK, StoreType
<1>20. ASSUME NEW r \in Requests, Declined(r) PROVE SpentJobs'
  BY <1>0, <1>20 DEF Declined, SpentJobs, memVars, wkVars, histVars
<1> QED
  BY <1>1, <1>2, <1>3, <1>4, <1>5, <1>6, <1>7, <1>8, <1>9, <1>10, <1>11, <1>12, <1>13, <1>14, <1>15,
        <1>16, <1>17, <1>18, <1>19, <1>20
  DEF Next, BootNext, TimerNext, WorkerNext, FaultNext, SubmitNext, EndsAttempt, Reports

LEMMA SpentAlways ==
  ASSUME DistinctKeys
  PROVE  Spec => []SpentJobs
<1>1. Init => SpentJobs
  BY DEF Init, SpentJobs
<1>2. Inv /\ SpentJobs /\ [Next]_vars => SpentJobs'
  BY SpentStep
<1> QED
  BY <1>1, <1>2, OwnedAlways, PTL DEF Spec

\* The only step that counts a run.
LEMMA RunsStep ==
  ASSUME [Next]_vars
  PROVE  runs' = runs \/ (wkPc = "flush" /\ runs' = [runs EXCEPT ![wkJob] = @ + 1] /\ WorkerFlushed)
<1>1. CASE Boot \/ BootDone \/ (\E j \in Requests : RecoverJob(j)) \/ (\E j \in Requests :
      BootPrune(j)) \/ Crash \/ (\E i \in Requests : TimePasses(i)) \/ (\E i \in Requests :
      DelayedEnqueue(i)) \/ OthersTakeLock
  BY <1>1 DEF Boot, BootDone, RecoverJob, BootPrune, Crash, TimePasses, DelayedEnqueue,
        OthersTakeLock
<1>2. CASE OthersReleaseLock \/ (\E k \in Keys : BatchClaims(k)) \/ WorkerTake \/ WorkerSaveRunning \/ WorkerAcquire \/ EndsAttempt \/
      VerifyPasses \/ WorkerSaveVerified \/ Reports
  BY <1>2 DEF OthersReleaseLock, BatchClaims, WorkerTake, WorkerSaveRunning, WorkerAcquire, EndsAttempt,
        VerifyRejects, VerifyFails, WorkerFlushFails, WorkerDrained, LockedSaveFails, EndAttempt,
        VerifyPasses, WorkerSaveVerified, Reports, WorkerReport, Mutate, ReportRecording
<1>3. CASE WriterSave \/ (\E result \in {"success", "retryable", "terminal", "raised"} :
      RunnerEnds(result)) \/ WorkerFinish \/ WriterFails \/ WorkerDies \/ PreviewCall \/
      DismissDelete \/ (\E r \in Requests : SubmitCall(r))
  BY <1>3 DEF WriterSave, RunnerEnds, WorkerFinish, WriterFails, WorkerDies, PreviewCall,
        DismissDelete, SubmitCall
<1>4. CASE (\E r \in Requests : LookupLedger(r)) \/ (\E r \in Requests : LoadRow(r)) \/ (\E r \in
      Requests : InstallRow(r)) \/ (\E r \in Requests : SubmitRejected(r)) \/ (\E r \in Requests :
      PlanConfirmed(r)) \/ (\E r \in Requests : PruneRow(r)) \/ (\E r \in Requests : CreateRow(r))
      \/ (\E r \in Requests : InsertJob(r))
  BY <1>4 DEF LookupLedger, LoadRow, InstallRow, SubmitRejected, PlanConfirmed, PruneRow, CreateRow,
        InsertJob
<1>5. CASE (\E i \in Requests : Dismiss(i)) \/ UNCHANGED vars
  BY <1>5 DEF Dismiss, vars
<1>6. CASE WorkerFlushed
  BY <1>6 DEF WorkerFlushed
<1> QED
  BY <1>1, <1>2, <1>3, <1>4, <1>5, <1>6
  DEF Next, BootNext, TimerNext, WorkerNext, FaultNext, SubmitNext, EndsAttempt, Reports

\* Once a run has deleted something, or died where it might have, neither a
\* retry, nor recovery after a restart, nor another call runs the job again.
THEOREM SpentJobsRest ==
  ASSUME DistinctKeys
  PROVE  Spec => NoReplay
<1>1. ASSUME TypeOK, SpentJobs, [Next]_vars, NEW j \in applied
      PROVE  runs'[j] = runs[j]
  <2>1. j \in Requests
    BY <1>1 DEF TypeOK, StoreType
  <2>2. wkPc = "flush" => wkJob # j
    BY <1>1 DEF SpentJobs
  <2> QED
    BY <1>1, <2>1, <2>2, RunsStep DEF TypeOK, StoreType
<1>2. TypeOK /\ SpentJobs /\ [Next]_vars => [\A j \in applied : runs'[j] = runs[j]]_vars
  BY <1>1
<1> QED
  BY <1>2, TypeCorrect, SpentAlways, PTL DEF Spec, NoReplay

-----------------------------------------------------------------------------
(* Attempts are counted across restarts.                                   *)

\* A record has paid for the runs its job has had, and one that can lead to a
\* run leaves one to spare; a crash before the run refunds the attempt.
Paid(j, rec) ==
  rec # None =>
    /\ runs[j] <= rec.attempts
    /\ rec.phase = "planning" => runs[j] < rec.attempts
    /\ rec.phase \in {"queued", "retrying", "planning"} => runs[j] < MaxAttempts

RunsArePaid ==
  \A j \in Requests : Paid(j, db[j]) /\ Paid(j, mem[j]) /\ runs[j] <= MaxAttempts

NextRunIsPaid == wkPc = "flush" => runs[wkJob] < wkRec.attempts /\ runs[wkJob] < MaxAttempts

\* From its first save on, an attempt is stored under one number.
AttemptKept ==
  wkPc \in {"acquire", "verify", "save_verified", "report", "flush", "mutate", "drain"} =>
    /\ db[wkJob] # None => db[wkJob].attempts = wkRec.attempts
    /\ \A i \in DOMAIN pending : pending[i].attempts = wkRec.attempts

BudgetInv == RunsArePaid /\ NextRunIsPaid /\ AttemptKept

LEMMA SubmittedAttempts ==
  ASSUME pending \in Seq(Record), NEW rec \in Record, NEW n,
         rec.attempts = n, \A i \in DOMAIN pending : pending[i].attempts = n
  PROVE  \A i \in DOMAIN Submitted(rec) : Submitted(rec)[i].attempts = n
<1>1. CASE Submitted(rec) = [pending EXCEPT ![Len(pending)] = rec]
  BY <1>1
<1>2. CASE Submitted(rec) = Append(pending, rec)
  BY <1>2
<1> QED
  BY <1>1, <1>2 DEF Submitted

LEMMA AttemptKeptStep ==
  ASSUME Inv, AttemptKept, [Next]_vars
  PROVE  AttemptKept'
<1> USE DEF Inv, OwnedInv
<1>1. CASE (\E i \in Requests : TimePasses(i)) \/ (\E i \in Requests : DelayedEnqueue(i)) \/
      OthersTakeLock \/ OthersReleaseLock \/ (\E k \in Keys : BatchClaims(k)) \/ WorkerAcquire \/ VerifyPasses
  BY <1>1 DEF AttemptKept, TimePasses, DelayedEnqueue, OthersTakeLock, OthersReleaseLock, BatchClaims,
        WorkerAcquire, VerifyPasses
<1>2. CASE WorkerFlushed \/ (\E result \in {"success", "retryable", "terminal", "raised"} :
      RunnerEnds(result)) \/ WriterFails \/ WorkerDies \/ (\E r \in Requests : LookupLedger(r)) \/
      (\E r \in Requests : SubmitRejected(r))
  BY <1>2 DEF AttemptKept, WorkerFlushed, RunnerEnds, WriterFails, WorkerDies, Settle, LookupLedger,
        SubmitRejected
<1>3. CASE (\E r \in Requests : InsertJob(r)) \/ (\E i \in Requests : Dismiss(i)) \/ UNCHANGED vars
  BY <1>3 DEF AttemptKept, InsertJob, Dismiss, vars
<1>4. CASE Boot \/ BootDone \/ Crash \/ (\E j \in Requests : RecoverJob(j) \/ BootPrune(j))
  <2>1. wkPc' \in {"dead", "idle"}
    BY <1>4 DEF AheadInv, RecoversAlone, Boot, BootDone, StartService, RecoverJob, BootPrune, RecoveryDone, Crash
  <2> QED
    BY <2>1 DEF AttemptKept
<1>5. CASE PreviewCall \/ (\E r \in Requests : SubmitCall(r))
  <2>1. (wkPc' = wkPc \/ wkPc' = "idle") /\ UNCHANGED <<db, wkJob, wkRec, pending>>
    BY <1>5 DEF PreviewCall, SubmitCall, StartService
  <2> QED
    BY <2>1 DEF AttemptKept
<1>6. CASE WorkerTake \/ WorkerFinish \/ EndsAttempt
  <2>1. wkPc' \in {"idle", "save_running", "finish"}
    BY <1>6, EndsIn DEF WorkerTake, WorkerFinish
  <2> QED
    BY <2>1 DEF AttemptKept
<1>7. CASE WorkerSaveRunning \/ WorkerSaveVerified
  <2>1. wkJob \in Requests /\ db' = [db EXCEPT ![wkJob] = wkRec] /\ wkJob' = wkJob /\ wkRec' = wkRec
    BY <1>7, SavesIn DEF WorkerSaveRunning, WorkerSaveVerified
  <2>2. pending' = <<>> \/ (wkPc = "save_verified" /\ pending' = pending)
    BY <1>7 DEF WorkerSaveRunning, WorkerSaveVerified
  <2> QED
    BY <2>1, <2>2 DEF AttemptKept, TypeOK, StoreType
<1>8. CASE WriterSave
  <2>0. wkPc \in {"flush", "mutate", "drain"}
    BY <1>8 DEF WriterSave
  <2>1. pending \in Seq(Record) /\ pending # <<>> /\ pending' = Tail(pending) /\ wkJob \in Requests
    BY <1>8, <2>0 DEF WriterSave, TypeOK, WorkerType
  <2>2. /\ Head(pending) = pending[1] /\ 1 \in DOMAIN pending
        /\ \A i \in DOMAIN Tail(pending) : Tail(pending)[i] = pending[i + 1] /\ i + 1 \in DOMAIN pending
    BY <2>1
  <2>3. \A i \in DOMAIN pending : pending[i].attempts = wkRec.attempts
    BY <2>0 DEF AttemptKept
  <2>4. db'[wkJob] = Head(pending) /\ wkJob' = wkJob /\ wkRec' = wkRec
    BY <1>8, <2>1 DEF WriterSave, TypeOK, StoreType
  <2> QED
    BY <2>1, <2>2, <2>3, <2>4 DEF AttemptKept
<1>9. CASE Reports
  <2>1. /\ wkPc \in {"report", "mutate"} /\ wkRec' \in Record /\ wkRec'.attempts = wkRec.attempts
        /\ pending' = Submitted(wkRec') /\ db' = db /\ wkJob' = wkJob
    BY <1>9, ReportsIn
  <2>2. /\ db[wkJob] # None => db[wkJob].attempts = wkRec.attempts
        /\ \A i \in DOMAIN pending : pending[i].attempts = wkRec.attempts
    BY <2>1 DEF AttemptKept
  <2>3. pending \in Seq(Record)
    BY DEF TypeOK, WorkerType
  <2>4. \A i \in DOMAIN Submitted(wkRec') : Submitted(wkRec')[i].attempts = wkRec.attempts
    BY <2>1, <2>2, <2>3, SubmittedAttempts
  <2> QED
    BY <2>1, <2>2, <2>4 DEF AttemptKept
<1>10. CASE DismissDelete
  <2>1. db' = [db EXCEPT ![disJob] = None] /\ wkJob # disJob /\ UNCHANGED <<wkPc, wkJob, wkRec, pending>>
    BY <1>10, DismissEffect
  <2> QED
    BY <2>1, HeldJob DEF AttemptKept, HasJob, TypeOK, StoreType
<1>11. ASSUME NEW r \in Requests, LoadRow(r) \/ InstallRow(r) PROVE AttemptKept'
  BY <1>11, NothingToResolve
<1>12. ASSUME NEW r \in Requests, PlanConfirmed(r) \/ PruneRow(r) PROVE AttemptKept'
  <2>1. \A j \in Requests : db'[j] = db[j] \/ db'[j] = None
    BY <1>12, PruneEffect DEF TypeOK, StoreType
  <2>2. UNCHANGED <<wkPc, wkJob, wkRec, pending>>
    BY <1>12, PruneEffect
  <2> QED
    BY <2>1, <2>2, HeldJob DEF AttemptKept, HasJob
<1>13. ASSUME NEW r \in Requests, CreateRow(r), ~Declined(r) PROVE AttemptKept'
  <2>1. HasJob => wkJob # r
    BY <1>13, NothingToResolve, HeldJob, ConstantsAssumption DEF ClaimsInv, OnlyClaimantsExist, Claimed
  <2>2. db' = [db EXCEPT ![r] = NewRecord] /\ UNCHANGED <<wkPc, wkJob, wkRec, pending>>
    BY <1>13, NothingToResolve DEF CreateRow
  <2> QED
    BY <2>1, <2>2, HeldJob DEF AttemptKept, HasJob, TypeOK, StoreType
<1>14. ASSUME NEW r \in Requests, Declined(r) PROVE AttemptKept'
  BY <1>14 DEF Declined, AttemptKept, memVars, wkVars
<1> QED
  BY <1>1, <1>2, <1>3, <1>4, <1>5, <1>6, <1>7, <1>8, <1>9, <1>10, <1>11, <1>12, <1>13, <1>14
  DEF Next, BootNext, TimerNext, WorkerNext, FaultNext, SubmitNext, EndsAttempt, Reports

\* A step that counts no run keeps every other record paid for.
LEMMA PaidStep ==
  ASSUME Inv, BudgetInv, [Next]_vars, ~WorkerFlushed, NEW j \in Requests
  PROVE  Paid(j, db'[j]) /\ Paid(j, mem'[j])
<1> USE DEF Inv, OwnedInv
<1> DEFINE Kept == Paid(j, db'[j]) /\ Paid(j, mem'[j])
<1> SUFFICES Kept
  OBVIOUS
<1>0. Paid(j, db[j]) /\ Paid(j, mem[j]) /\ Paid(j, None) /\ runs[j] \in Nat
  BY DEF BudgetInv, RunsArePaid, Paid, TypeOK, StoreType
<1>1. ASSUME db'[j] \in {db[j], None}, mem'[j] \in {mem[j], db[j], None}
      PROVE  Kept
  BY <1>0, <1>1
<1> HIDE DEF Kept
<1>2. CASE BootDone \/ (\E i \in Requests : TimePasses(i)) \/ (\E i \in Requests :
      DelayedEnqueue(i)) \/ OthersTakeLock \/ OthersReleaseLock \/ (\E k \in Keys : BatchClaims(k)) \/ WorkerAcquire \/ VerifyPasses
  BY <1>2, <1>1 DEF BootDone, TimePasses, DelayedEnqueue, OthersTakeLock, OthersReleaseLock, BatchClaims,
        WorkerAcquire, VerifyPasses
<1>3. CASE (\E result \in {"success", "retryable", "terminal", "raised"} : RunnerEnds(result)) \/
      WriterFails \/ WorkerDies \/ PreviewCall \/ (\E r \in Requests : SubmitCall(r)) \/ (\E r \in
      Requests : LookupLedger(r)) \/ (\E r \in Requests : SubmitRejected(r))
  BY <1>3, <1>1 DEF RunnerEnds, WriterFails, WorkerDies, PreviewCall, SubmitCall, LookupLedger,
        SubmitRejected
<1>4. CASE (\E i \in Requests : Dismiss(i)) \/ UNCHANGED vars
  BY <1>4, <1>1 DEF Dismiss, vars
<1>5. CASE Boot \/ Crash
  BY <1>1, <1>5 DEF Boot, Crash
<1>6. ASSUME NEW t \in Requests, RecoverJob(t) PROVE Kept
  <2>1. mem[t] \in Record /\ mem[t].phase \in RunningPhases /\ mem[t].attempts \in Nat
    BY <1>6 DEF RecoverJob, Interrupted, Record, TypeOK, StoreType
  <2>2. Paid(t, mem[t]) /\ mem[t] # None /\ runs[t] \in Nat
    BY <1>6 DEF RecoverJob, Interrupted, BudgetInv, RunsArePaid, TypeOK, StoreType
  <2>3. Paid(t, Recovered(mem[t]))
    <3>1. CASE mem[t].phase = "planning"
      BY <2>1, <2>2, <3>1 DEF Recovered, Paid
    <3>2. CASE mem[t].phase # "planning"
      BY <2>1, <2>2, <3>2 DEF Recovered, Paid, Record
    <3> QED
      BY <3>1, <3>2
  <2> QED
    BY <1>0, <1>6, <2>3 DEF Kept, RecoverJob, TypeOK, StoreType
<1>7. ASSUME NEW t \in Requests, BootPrune(t) PROVE Kept
  BY <1>1, <1>7 DEF BootPrune, TypeOK, StoreType
<1>8. CASE WorkerTake
  <2> DEFINE h == Head(queue)
             rec == [phase |-> "planning", attempts |-> mem[h].attempts + 1]
  <2>1. h \in Requests /\ wkPc = "idle" /\ sys = "ready" /\ db' = db
    BY <1>8 DEF WorkerTake, AheadInv, RecoversAlone, TypeOK, QueueType
  <2>2. CASE ~IsActive(mem[h])
    BY <1>1, <1>8, <2>1, <2>2 DEF WorkerTake
  <2>3. CASE IsActive(mem[h])
    <3>1. mem[h] \in Record /\ mem[h] # None /\ mem[h].phase \in {"queued", "retrying", "planning"}
      BY <2>1, <2>3 DEF IsActive, MutatingIsHeld, Active, Phases, RunningPhases, TypeOK, StoreType
    <3>2. mem[h].attempts \in Nat /\ runs[h] \in Nat /\ Paid(h, mem[h])
      BY <2>1, <3>1 DEF Record, BudgetInv, RunsArePaid, TypeOK, StoreType
    <3>3. Paid(h, rec)
      BY <3>1, <3>2 DEF Paid
    <3>4. mem' = [mem EXCEPT ![h] = rec]
      BY <1>8, <2>3 DEF WorkerTake
    <3> QED
      BY <1>0, <2>1, <3>3, <3>4 DEF Kept, TypeOK, StoreType
  <2> QED
    BY <2>2, <2>3
<1>9. CASE WorkerSaveRunning \/ WorkerSaveVerified \/ WriterSave \/ WorkerFinish
  <2>1. wkJob \in Requests /\ mem' = mem /\ mem[wkJob] = wkRec /\ Paid(wkJob, wkRec) /\ wkRec # None
    BY <1>9, SavesIn, ConstantsAssumption DEF BudgetInv, RunsArePaid
  <2>2. PICK rec \in Record :
          /\ db' = [db EXCEPT ![wkJob] = rec]
          /\ rec = wkRec \/ (rec.phase \in Mutating /\ rec.attempts = wkRec.attempts)
    <3>1. CASE WriterSave
      <4>1. PICK rec \in Record : db' = [db EXCEPT ![wkJob] = rec] /\ rec.phase \in Mutating /\ rec = Head(pending)
        BY <3>1, SavesIn DEF WorkerFinish, WriterSave, WorkerSaveRunning, WorkerSaveVerified, PhaseFollowsRun
      <4>2. pending \in Seq(Record) /\ pending # <<>>
        BY <3>1 DEF WriterSave, TypeOK, WorkerType
      <4>3. Head(pending) = pending[1] /\ 1 \in DOMAIN pending
        BY <4>2
      <4>4. Head(pending).attempts = wkRec.attempts
        BY <3>1, <4>3 DEF WriterSave, BudgetInv, AttemptKept
      <4> QED
        BY <4>1, <4>4
    <3>2. CASE ~WriterSave
      BY <1>9, <3>2, SavesIn
    <3> QED
      BY <3>1, <3>2
  <2>3. rec.phase \in Mutating /\ rec.attempts = wkRec.attempts => Paid(wkJob, rec)
    BY <2>1 DEF Paid, Mutating
  <2> QED
    BY <1>0, <2>1, <2>2, <2>3 DEF Kept, TypeOK, StoreType
<1>10. CASE EndsAttempt
  <2>1. /\ wkJob \in Requests /\ mem' = [mem EXCEPT ![wkJob] = wkRec'] /\ db' = db
        /\ wkRec' \in Record /\ wkRec'.attempts = wkRec.attempts /\ wkRec.attempts \in Nat
        /\ wkRec'.phase \in Terminal \/ (wkRec'.phase = "retrying" /\ wkRec.attempts < MaxAttempts)
    BY <1>10, EndsIn DEF Record
  <2>2. mem[wkJob] = wkRec /\ Paid(wkJob, wkRec) /\ wkRec # None /\ runs[wkJob] \in Nat
    BY <1>10, EndsIn, ConstantsAssumption DEF WorkerOwnsJob, BudgetInv, RunsArePaid, TypeOK, StoreType
  <2>3. Paid(wkJob, wkRec')
    BY <2>1, <2>2, ConstantsAssumption DEF Paid, Terminal
  <2> QED
    BY <1>0, <2>1, <2>3 DEF Kept, TypeOK, StoreType
<1>11. CASE Reports
  <2>1. /\ wkJob \in Requests /\ mem' = [mem EXCEPT ![wkJob] = wkRec'] /\ db' = db
        /\ wkRec'.phase \in Mutating /\ wkRec'.attempts = wkRec.attempts
    BY <1>11, ReportsIn
  <2>2. mem[wkJob] = wkRec /\ Paid(wkJob, wkRec) /\ wkRec # None
    BY <1>11, ReportsIn, ConstantsAssumption DEF WorkerOwnsJob, BudgetInv, RunsArePaid
  <2>3. Paid(wkJob, wkRec')
    BY <2>1, <2>2 DEF Paid, Mutating
  <2> QED
    BY <1>0, <2>1, <2>3 DEF Kept, TypeOK, StoreType
<1>12. CASE DismissDelete
  BY <1>1, <1>12, DismissEffect DEF TypeOK, StoreType
<1>13. ASSUME NEW r \in Requests, LoadRow(r) \/ InstallRow(r) PROVE Kept
  BY <1>13, NothingToResolve
<1>14. ASSUME NEW r \in Requests, PlanConfirmed(r) \/ PruneRow(r) PROVE Kept
  BY <1>1, <1>14, PruneEffect DEF TypeOK, StoreType
<1>15. ASSUME NEW r \in Requests, CreateRow(r), ~Declined(r) PROVE Kept
  <2>1. runs[r] = 0
    BY <1>15, NothingToResolve, ConstantsAssumption DEF HistoryIsClaimed, Claimed
  <2>2. Paid(r, NewRecord)
    BY <2>1, ConstantsAssumption DEF Paid, NewRecord
  <2> QED
    BY <1>0, <1>15, <2>2, NothingToResolve DEF Kept, CreateRow, TypeOK, StoreType
<1>16. ASSUME NEW r \in Requests, InsertJob(r) PROVE Kept
  <2>1. runs[r] = 0
    BY <1>16 DEF InsertJob, CreatedIsNew
  <2>2. Paid(r, NewRecord)
    BY <2>1, ConstantsAssumption DEF Paid, NewRecord
  <2> QED
    BY <1>0, <1>16, <2>2 DEF Kept, InsertJob, TypeOK, StoreType
<1>17. ASSUME NEW r \in Requests, Declined(r) PROVE Kept
  BY <1>0, <1>1, <1>17 DEF Declined, Kept, memVars, histVars
<1> QED
  BY <1>1, <1>2, <1>3, <1>4, <1>5, <1>6, <1>7, <1>8, <1>9, <1>10, <1>11, <1>12, <1>13, <1>14, <1>15,
        <1>16, <1>17
  DEF Next, BootNext, TimerNext, WorkerNext, FaultNext, SubmitNext, EndsAttempt, Reports

LEMMA RunsArePaidStep ==
  ASSUME Inv, BudgetInv, [Next]_vars
  PROVE  RunsArePaid'
<1> USE DEF Inv, OwnedInv
<1>1. CASE ~WorkerFlushed
  <2>1. runs' = runs
    BY <1>1, RunsStep
  <2> QED
    BY <1>1, <2>1, PaidStep DEF BudgetInv, RunsArePaid, Paid
<1>2. CASE WorkerFlushed
  <2>1. /\ wkPc = "flush" /\ pending = <<>> /\ UNCHANGED <<db, mem>> /\ wkJob \in Requests /\ wkRec \in Record
        /\ runs' = [runs EXCEPT ![wkJob] = @ + 1]
    BY <1>2, HeldJob DEF WorkerFlushed, HasJob
  <2>2. mem[wkJob] = wkRec /\ wkRec.phase \in Mutating
    BY <2>1 DEF WorkerOwnsJob, HasJob, PhaseFollowsRun
  <2>3. db[wkJob] = None \/ (db[wkJob].phase \in Mutating /\ db[wkJob].attempts = wkRec.attempts)
    BY <2>1 DEF AheadInv, WriterDone, FlushedRow, IsMutating, BudgetInv, AttemptKept
  <2>4. runs[wkJob] \in Nat /\ wkRec.attempts \in Nat /\ runs[wkJob] < wkRec.attempts /\ runs[wkJob] < MaxAttempts
    BY <2>1 DEF BudgetInv, NextRunIsPaid, Record, TypeOK, StoreType
  <2>5. runs'[wkJob] <= wkRec.attempts /\ runs'[wkJob] <= MaxAttempts
    BY <2>1, <2>4, ConstantsAssumption DEF TypeOK, StoreType
  <2>6. \A rec : rec.phase \in Mutating /\ rec.attempts = wkRec.attempts =>
          /\ runs'[wkJob] <= rec.attempts /\ rec.phase # "planning"
          /\ rec.phase \notin {"queued", "retrying", "planning"}
    BY <2>5 DEF Mutating
  <2>7. /\ (Paid(wkJob, db[wkJob]))' /\ (Paid(wkJob, mem[wkJob]))'
    <3>1. db' = db /\ mem' = mem /\ wkJob' = wkJob
      BY <1>2 DEF WorkerFlushed
    <3> QED
      BY <2>2, <2>3, <2>6, <3>1 DEF Paid
  <2>8. \A j \in Requests \ {wkJob} : runs'[j] = runs[j]
    BY <2>1 DEF TypeOK, StoreType
  <2>9. \A j \in Requests \ {wkJob} : (Paid(j, db[j]))' /\ (Paid(j, mem[j]))' /\ runs'[j] <= MaxAttempts
    BY <2>1, <2>8 DEF BudgetInv, RunsArePaid, Paid
  <2>10. wkJob' = wkJob
    BY <1>2 DEF WorkerFlushed
  <2> QED
    BY <2>5, <2>7, <2>9, <2>10 DEF RunsArePaid, Paid
<1> QED
  BY <1>1, <1>2

LEMMA NextRunIsPaidStep ==
  ASSUME Inv, BudgetInv, [Next]_vars
  PROVE  NextRunIsPaid'
<1> USE DEF Inv, OwnedInv
<1>1. CASE Boot \/ (\E j \in Requests : RecoverJob(j)) \/ (\E j \in Requests : BootPrune(j)) \/
      Crash \/ (\E i \in Requests : TimePasses(i)) \/ (\E i \in Requests : DelayedEnqueue(i)) \/
      OthersTakeLock
  BY <1>1 DEF BudgetInv, NextRunIsPaid, Boot, RecoverJob, BootPrune, Crash, TimePasses,
        DelayedEnqueue, OthersTakeLock
<1>2. CASE OthersReleaseLock \/ (\E k \in Keys : BatchClaims(k)) \/ WorkerSaveRunning \/ WorkerAcquire \/ VerifyPasses \/
      WorkerSaveVerified \/ WriterSave \/ (\E result \in {"success", "retryable", "terminal",
      "raised"} : RunnerEnds(result))
  BY <1>2 DEF BudgetInv, NextRunIsPaid, OthersReleaseLock, BatchClaims, WorkerSaveRunning, WorkerAcquire,
        VerifyPasses, WorkerSaveVerified, WriterSave, RunnerEnds
<1>3. CASE WorkerFinish \/ WriterFails \/ WorkerDies \/ DismissDelete \/ (\E r \in Requests :
      LookupLedger(r)) \/ (\E r \in Requests : SubmitRejected(r)) \/ (\E r \in Requests :
      PlanConfirmed(r))
  BY <1>3 DEF BudgetInv, NextRunIsPaid, WorkerFinish, Settle, WriterFails, WorkerDies,
        DismissDelete, LookupLedger, SubmitRejected, PlanConfirmed
<1>4. CASE (\E r \in Requests : PruneRow(r)) \/ (\E r \in Requests : CreateRow(r)) \/ (\E r \in
      Requests : InsertJob(r)) \/ (\E i \in Requests : Dismiss(i)) \/ UNCHANGED vars
  BY <1>4 DEF BudgetInv, NextRunIsPaid, PruneRow, CreateRow, InsertJob, Dismiss, vars
<1>5. CASE BootDone \/ PreviewCall \/ (\E r \in Requests : SubmitCall(r))
  <2>1. (wkPc' = wkPc \/ wkPc' = "idle") /\ UNCHANGED <<runs, wkJob, wkRec>>
    BY <1>5 DEF BootDone, PreviewCall, SubmitCall, StartService
  <2> QED
    BY <2>1 DEF BudgetInv, NextRunIsPaid
<1>6. CASE WorkerTake \/ EndsAttempt \/ WorkerFlushed
  <2>1. wkPc' # "flush"
    BY <1>6, EndsIn DEF WorkerTake, WorkerFlushed
  <2> QED
    BY <2>1 DEF NextRunIsPaid
<1>7. CASE Reports
  <2>1. CASE wkPc = "report"
    <3>1. wkRec.phase = "planning" /\ mem[wkJob] = wkRec /\ wkJob \in Requests /\ wkRec # None
      BY <1>7, <2>1, ReportsIn, ConstantsAssumption DEF PhaseFollowsRun, WorkerOwnsJob
    <3>2. runs[wkJob] < wkRec.attempts /\ runs[wkJob] < MaxAttempts
      BY <3>1 DEF BudgetInv, RunsArePaid, Paid
    <3>3. wkRec'.attempts = wkRec.attempts /\ UNCHANGED <<runs, wkJob>>
      BY <1>7, ReportsIn
    <3> QED
      BY <3>2, <3>3 DEF NextRunIsPaid
  <2>2. CASE wkPc # "report"
    <3>1. wkPc' = "mutate"
      BY <1>7, <2>2, ReportsIn
    <3> QED
      BY <3>1 DEF NextRunIsPaid
  <2> QED
    BY <2>1, <2>2
<1>8. ASSUME NEW r \in Requests, LoadRow(r) \/ InstallRow(r) PROVE NextRunIsPaid'
  BY <1>8, NothingToResolve
<1> QED
  BY <1>1, <1>2, <1>3, <1>4, <1>5, <1>6, <1>7, <1>8
  DEF Next, BootNext, TimerNext, WorkerNext, FaultNext, SubmitNext, EndsAttempt, Reports

LEMMA BudgetAlways ==
  ASSUME DistinctKeys
  PROVE  Spec => []BudgetInv
<1>1. Init => BudgetInv
  BY ConstantsAssumption DEF Init, BudgetInv, RunsArePaid, Paid, NextRunIsPaid, AttemptKept
<1>2. Inv /\ BudgetInv /\ [Next]_vars => BudgetInv'
  BY RunsArePaidStep, NextRunIsPaidStep, AttemptKeptStep DEF BudgetInv
<1> QED
  BY <1>1, <1>2, OwnedAlways, PTL DEF Spec

\* However often the process dies, writes fail and attempts are refunded, the
\* runs that reach their mutations stay within max_attempts.
THEOREM RunsAreBounded ==
  ASSUME DistinctKeys
  PROVE  Spec => []AttemptBudget
<1>1. BudgetInv => AttemptBudget
  BY DEF BudgetInv, RunsArePaid, AttemptBudget
<1> QED
  BY <1>1, BudgetAlways, PTL

-----------------------------------------------------------------------------
(* No job is forgotten.                                                    *)

LEMMA NotForgottenStep ==
  ASSUME Inv, DistinctKeys, NoJobForgotten, [Next]_vars
  PROVE  NoJobForgotten'
<1> USE DEF Inv, OwnedInv
<1>0. WorkerOwnsJob'
  BY WorkerOwnsStep
<1>1. ASSUME sys' = "ready" /\ wkPc' # "dead" => sys = "ready" /\ wkPc # "dead", scheduled \subseteq scheduled',
             \A j \in Requests : mem'[j] = mem[j] \/ ~IsActive(mem'[j]) \/ (wkJob = j /\ HasJob) \/ j \in scheduled',
             wkJob' = wkJob, HasJob' <=> HasJob
      PROVE  NoJobForgotten'
  <2>1. \A j \in Requests : wkJob = j => HasJob
    BY HeldJob, ConstantsAssumption
  <2>2. \A j \in Requests : wkJob' = j => wkShared'
    BY <1>0, <1>1, <2>1 DEF WorkerOwnsJob
  <2> QED
    BY <1>1, <2>1, <2>2 DEF NoJobForgotten, IsActive
<1>2. CASE (\E j \in Requests : TimePasses(j)) \/ (\E j \in Requests : DelayedEnqueue(j)) \/
      OthersTakeLock \/ OthersReleaseLock \/ (\E k \in Keys : BatchClaims(k)) \/ WorkerSaveRunning \/ WorkerAcquire
  BY <1>2, <1>1 DEF HasJob, TimePasses, DelayedEnqueue, OthersTakeLock, OthersReleaseLock, BatchClaims,
        WorkerSaveRunning, WorkerAcquire
<1>3. CASE VerifyPasses \/ WorkerSaveVerified \/ WriterSave \/ WorkerFlushed \/ (\E result \in
      {"success", "retryable", "terminal", "raised"} : RunnerEnds(result)) \/ WriterFails
  BY <1>3, <1>1 DEF HasJob, VerifyPasses, WorkerSaveVerified, WriterSave, WorkerFlushed, RunnerEnds,
        WriterFails
<1>4. CASE (\E r \in Requests : LookupLedger(r)) \/ (\E r \in Requests : SubmitRejected(r)) \/ (\E r
      \in Requests : CreateRow(r)) \/ (\E j \in Requests : Dismiss(j)) \/ UNCHANGED vars
  BY <1>4, <1>1 DEF HasJob, LookupLedger, SubmitRejected, CreateRow, Dismiss, vars
<1>5. CASE Boot \/ Crash \/ (\E j \in Requests : RecoverJob(j) \/ BootPrune(j))
  BY <1>5 DEF Boot, Crash, RecoverJob, BootPrune, RecoveryDone, NoJobForgotten
<1>6. CASE BootDone \/ PreviewCall \/ (\E r \in Requests : SubmitCall(r))
  <2>1. StartService /\ mem' = mem
    BY <1>6 DEF BootDone, PreviewCall, SubmitCall
  <2>2. \A j \in Requests : IsActive(mem[j]) => j \in scheduled'
    BY <2>1 DEF StartService, ScheduleAll
  <2> QED
    BY <2>1, <2>2 DEF NoJobForgotten
<1>7. CASE WorkerTake
  <2>1. Head(queue) \in Requests /\ wkPc = "idle" /\ wkJob = None
    BY <1>7 DEF WorkerTake, TypeOK, QueueType, WorkerType
  <2> QED
    BY <1>7, <2>1, ConstantsAssumption DEF WorkerTake, NoJobForgotten, TypeOK, StoreType
<1>8. CASE EndsAttempt
  <2>1. HasJob' /\ HasJob /\ wkPc # "dead"
    BY <1>8, EndsIn DEF HasJob
  <2> QED
    BY <1>1, <1>8, <2>1, EndsIn DEF TypeOK, StoreType
<1>9. CASE Reports
  <2>1. HasJob' /\ HasJob /\ wkPc # "dead"
    BY <1>9, ReportsIn DEF HasJob
  <2> QED
    BY <1>1, <1>9, <2>1, ReportsIn DEF TypeOK, StoreType
<1>10. CASE WorkerFinish
  <2>1. wkJob \in Requests /\ mem' = mem /\ mem[wkJob] = wkRec /\ wkRec.phase \in Terminal \cup {"retrying"}
    BY <1>10, SavesIn DEF WorkerFinish, PhaseFollowsRun
  <2>2. scheduled' = scheduled \cup {j \in {wkJob} : wkRec.phase = "retrying"} /\ sys' = sys /\ wkPc = "finish"
    BY <1>10 DEF WorkerFinish, ScheduleAll
  <2>3. IsActive(mem[wkJob]) => wkJob \in scheduled'
    BY <2>1, <2>2 DEF IsActive, Active
  <2> QED
    BY <2>1, <2>2, <2>3 DEF NoJobForgotten
<1>11. CASE WorkerDies
  BY <1>11 DEF WorkerDies, NoJobForgotten
<1>12. CASE DismissDelete
  <2>1. \A j \in Requests : mem'[j] = mem[j] \/ ~IsActive(mem'[j])
    BY <1>12, DismissEffect DEF IsActive, TypeOK, StoreType
  <2> QED
    BY <1>1, <1>12, <2>1, DismissEffect DEF HasJob
<1>13. ASSUME NEW r \in Requests, LoadRow(r) \/ InstallRow(r) PROVE NoJobForgotten'
  BY <1>13, NothingToResolve
<1>14. ASSUME NEW r \in Requests, PlanConfirmed(r) \/ PruneRow(r) PROVE NoJobForgotten'
  <2>1. \A j \in Requests : mem'[j] = mem[j] \/ ~IsActive(mem'[j])
    BY <1>14, PruneEffect DEF IsActive, TypeOK, StoreType
  <2> QED
    BY <1>1, <1>14, <2>1, PruneEffect DEF HasJob
<1>15. ASSUME NEW r \in Requests, InsertJob(r) PROVE NoJobForgotten'
  <2>1. /\ mem' = [mem EXCEPT ![r] = NewRecord] /\ scheduled' = scheduled \cup {r}
        /\ UNCHANGED <<sys, wkPc, wkJob>>
    BY <1>15 DEF InsertJob, ScheduleAll
  <2> QED
    BY <1>1, <2>1 DEF HasJob, TypeOK, StoreType
<1> QED
  BY <1>1, <1>2, <1>3, <1>4, <1>5, <1>6, <1>7, <1>8, <1>9, <1>10, <1>11, <1>12, <1>13, <1>14, <1>15
  DEF Next, BootNext, TimerNext, WorkerNext, FaultNext, SubmitNext, EndsAttempt, Reports

\* While a worker lives, every visible unfinished job is in its hands or
\* scheduled: no attempt, retry, restart or call leaves one to be started by a
\* later call.
THEOREM NoneIsForgotten ==
  ASSUME DistinctKeys
  PROVE  Spec => []NoJobForgotten
<1>1. Init => NoJobForgotten
  BY DEF Init, NoJobForgotten
<1>2. Inv /\ NoJobForgotten /\ [Next]_vars => NoJobForgotten'
  BY NotForgottenStep
<1> QED
  BY <1>1, <1>2, OwnedAlways, PTL DEF Spec

-----------------------------------------------------------------------------
(* What is visible is what is stored.                                      *)

\* A call has dropped the object of a finished job and is about to delete its row.
BeingPruned(j) ==
  mem[j] = None /\ IsTerminal(db[j]) /\ \E r \in Requests : req[r] = "prune" /\ doomed[r] = j

\* Only the worker, an insertion and a prune in progress show something else.
InStep(j) == mem[j] = db[j] \/ wkJob = j \/ req[j] = "insert" \/ BeingPruned(j)

VisibleIsStored == sys = "ready" /\ faults = 0 => \A j \in Requests : InStep(j)

\* A removable job in sight is one that finished.
LEMMA RemovableIsStored ==
  ASSUME Inv, \A j \in Requests : InStep(j), NEW j \in Requests, Removable(j)
  PROVE  /\ wkJob # j
         /\ mem[j] # None => IsTerminal(db[j])
         /\ ~IsActive(db[j])
<1> USE DEF Inv, OwnedInv
<1>1. wkJob # j
  BY HeldJob, ConstantsAssumption DEF Removable, WorkerOwnsJob
<1>2. mem[j] = db[j] \/ BeingPruned(j)
  BY <1>1 DEF InStep, Removable, Ended
<1>3. mem[j] = None \/ IsTerminal(mem[j])
  <2>1. mem[j] # None => mem[j].phase \in Phases
    BY DEF TypeOK, StoreType, Record
  <2> QED
    BY <2>1 DEF Removable, Ended, IsActive, IsTerminal, Active
<1> QED
  BY <1>1, <1>2, <1>3 DEF BeingPruned, IsTerminal, IsActive, Active

LEMMA PruneKeepsInStep ==
  ASSUME Inv, \A j \in Requests : InStep(j), NEW r \in Requests, PlanConfirmed(r) \/ PruneRow(r), NEW j \in Requests
  PROVE  InStep(j)'
<1> USE DEF Inv, OwnedInv
<1>1. \/ PlanConfirmed(r) /\ db' = db /\ req[r] = "preview"
      \/ /\ PruneRow(r) /\ db' = [db EXCEPT ![doomed[r]] = None] /\ req[r] = "prune"
         /\ doomed[r] \in Requests /\ mem[doomed[r]] = None /\ Removable(doomed[r])
  BY DEF PlanConfirmed, PruneRow, RemovesEnded, TypeOK, CallType
<1>2. PICK rest \in SUBSET Requests : PruneNext(r, rest) /\ \A v \in rest : Removable(v)
  <2>1. CASE PlanConfirmed(r)
    <3>1. \A v \in History(mem) : Removable(v)
      BY DEF History, Removable, Ended, IsTerminal, IsActive, Active, ClaimsInv, OnlyClaimantsExist, CreatedIsNew
    <3> QED
      BY <2>1, <3>1 DEF PlanConfirmed, History
  <2>2. CASE PruneRow(r)
    BY <2>2 DEF PruneRow, RemovesEnded, TypeOK, CallType
  <2> QED
    BY <2>1, <2>2
<1>3. wkJob' = wkJob
  BY PruneEffect
<1>4. db'[j] = db[j] \/ (db'[j] = None /\ mem[j] = None /\ req[r] = "prune" /\ doomed[r] = j)
  BY <1>1 DEF TypeOK, StoreType
<1>5. \A t \in Requests \ {r} : req'[t] = req[t] /\ doomed'[t] = doomed[t]
  BY <1>2 DEF PruneNext, Proceed, TypeOK, CallType
<1>6. \A v \in rest : v \notin unsettled
  BY <1>2 DEF Removable
<1>7. CASE mem'[j] = mem[j]
  <2>1. CASE db'[j] = None /\ mem[j] = None
    BY <1>7, <2>1 DEF InStep
  <2>2. CASE db'[j] = db[j] /\ ~(req[r] = "prune" /\ doomed[r] = j)
    <3>1. req[r] # "insert"
      BY <1>1
    <3>2. BeingPruned(j) => BeingPruned(j)'
      BY <1>5, <1>7, <2>2 DEF BeingPruned, IsTerminal
    <3> QED
      BY <1>3, <1>5, <1>7, <2>2, <3>1, <3>2 DEF InStep
  <2>3. CASE req[r] = "prune" /\ doomed[r] = j
    <3>1. db'[j] = None /\ mem[j] = None
      BY <1>1, <2>3 DEF TypeOK, StoreType
    <3> QED
      BY <1>7, <3>1 DEF InStep
  <2> QED
    BY <1>4, <2>1, <2>2, <2>3
<1>8. CASE mem'[j] # mem[j]
  <2>1. /\ mem' = [mem EXCEPT ![j] = None] /\ req' = [req EXCEPT ![r] = "prune"] /\ doomed' = [doomed EXCEPT ![r] = j]
        /\ j \in rest
    BY <1>2, <1>6, <1>8, PrunesRemovable DEF TypeOK, StoreType
  <2>2. mem'[j] = None /\ req'[r] = "prune" /\ doomed'[r] = j /\ mem[j] # None
    BY <1>8, <2>1 DEF TypeOK, StoreType, CallType
  <2>3. IsTerminal(db[j]) /\ db'[j] = db[j]
    BY <1>2, <1>4, <2>1, <2>2, RemovableIsStored
  <2> QED
    BY <2>2, <2>3 DEF InStep, BeingPruned, IsTerminal
<1> QED
  BY <1>7, <1>8

\* Failed writes are never forgotten.
LEMMA FaultsStep ==
  ASSUME [Next]_vars
  PROVE  faults' = faults \/ faults' = faults + 1
<1>1. CASE Boot \/ BootDone \/ (\E j \in Requests : RecoverJob(j)) \/ (\E j \in Requests :
      BootPrune(j)) \/ Crash \/ (\E j \in Requests : TimePasses(j)) \/ (\E j \in Requests :
      DelayedEnqueue(j)) \/ OthersTakeLock
  BY <1>1 DEF Fault, Boot, BootDone, RecoverJob, BootPrune, Crash, TimePasses, DelayedEnqueue,
        OthersTakeLock
<1>2. CASE OthersReleaseLock \/ (\E k \in Keys : BatchClaims(k)) \/ WorkerTake \/ WorkerSaveRunning \/ WorkerAcquire \/ VerifyPasses \/
      WorkerSaveVerified \/ Reports \/ WriterSave
  BY <1>2 DEF Fault, OthersReleaseLock, BatchClaims, WorkerTake, WorkerSaveRunning, WorkerAcquire, VerifyPasses,
        WorkerSaveVerified, Reports, WorkerReport, Mutate, ReportRecording, WriterSave
<1>3. CASE WorkerFlushed \/ (\E result \in {"success", "retryable", "terminal", "raised"} :
      RunnerEnds(result)) \/ WorkerFinish \/ WriterFails \/ WorkerDies \/ PreviewCall \/
      DismissDelete \/ (\E r \in Requests : SubmitCall(r))
  BY <1>3 DEF Fault, WorkerFlushed, RunnerEnds, WorkerFinish, WriterFails, WorkerDies, PreviewCall,
        DismissDelete, SubmitCall
<1>4. CASE (\E r \in Requests : LookupLedger(r)) \/ (\E r \in Requests : LoadRow(r)) \/ (\E r \in
      Requests : InstallRow(r)) \/ (\E r \in Requests : SubmitRejected(r)) \/ (\E r \in Requests :
      PlanConfirmed(r)) \/ (\E r \in Requests : PruneRow(r)) \/ (\E r \in Requests : CreateRow(r))
      \/ (\E r \in Requests : InsertJob(r))
  BY <1>4 DEF Fault, LookupLedger, LoadRow, InstallRow, SubmitRejected, PlanConfirmed, PruneRow,
        CreateRow, InsertJob
<1>5. CASE (\E j \in Requests : Dismiss(j)) \/ UNCHANGED vars
  BY <1>5 DEF Fault, Dismiss, vars
<1>6. CASE EndsAttempt
  BY <1>6 DEF EndsAttempt, VerifyRejects, VerifyFails, WorkerFlushFails, WorkerDrained, LockedSaveFails, Fault
<1> QED
  BY <1>1, <1>2, <1>3, <1>4, <1>5, <1>6
  DEF Next, BootNext, TimerNext, WorkerNext, FaultNext, SubmitNext, EndsAttempt, Reports

LEMMA VisibleIsStoredStep ==
  ASSUME Inv, DistinctKeys, VisibleIsStored, [Next]_vars
  PROVE  VisibleIsStored'
<1> USE DEF Inv, OwnedInv
<1>0. faults' = faults \/ faults' # 0
  <2>1. faults \in Nat
    BY DEF TypeOK, StoreType
  <2> QED
    BY <2>1, FaultsStep
<1>1. ASSUME sys = "ready", sys' = "ready", faults' = faults, UNCHANGED <<doomed, wkJob>>,
             \A j \in Requests : (req[j] = "insert" => req'[j] = "insert") /\ (req[j] = "prune" => req'[j] = "prune"),
             \A j \in Requests : wkJob = j \/ (mem'[j] = mem[j] /\ db'[j] = db[j])
      PROVE  VisibleIsStored'
  <2>1. \A j \in Requests : InStep(j) => InStep(j)'
    BY <1>1 DEF InStep, BeingPruned, IsTerminal
  <2> QED
    BY <1>1, <2>1 DEF VisibleIsStored
<1>2. CASE sys # "ready"
  <2>1. CASE BootDone
    <3>1. mem = db /\ mem' = mem /\ db' = db
      BY <2>1 DEF BootDone, RecoveryDone, QuietUntilReady
    <3> QED
      BY <3>1 DEF VisibleIsStored, InStep
  <2>2. CASE ~BootDone
    <3>1. sys' # "ready"
      BY <1>2, <2>2, StepsUntilReady DEF AheadInv, Boot, Crash, OthersReleaseLock, BatchClaims, vars, RecoverJob, BootPrune,
         TimePasses, DelayedEnqueue
    <3> QED
      BY <3>1 DEF VisibleIsStored
  <2> QED
    BY <2>1, <2>2
<1>3. CASE faults' # faults \/ faults # 0 \/ sys' # "ready"
  BY <1>0, <1>3 DEF VisibleIsStored
<1>4. CASE sys = "ready" /\ sys' = "ready" /\ faults' = faults /\ faults = 0
  <2>1. CASE (\E j \in Requests : TimePasses(j)) \/ (\E j \in Requests : DelayedEnqueue(j)) \/
        OthersTakeLock \/ OthersReleaseLock \/ (\E k \in Keys : BatchClaims(k)) \/ WorkerAcquire \/ VerifyPasses
    BY <1>1, <1>4, <2>1 DEF TimePasses, DelayedEnqueue, OthersTakeLock, OthersReleaseLock, BatchClaims,
          WorkerAcquire, VerifyPasses
  <2>2. CASE WorkerFlushed \/ (\E result \in {"success", "retryable", "terminal", "raised"} :
        RunnerEnds(result)) \/ PreviewCall \/ (\E j \in Requests : Dismiss(j)) \/ UNCHANGED vars
    BY <1>1, <1>4, <2>2 DEF WorkerFlushed, RunnerEnds, PreviewCall, Dismiss, vars
  <2>3. CASE WorkerTake
    <3>1. Head(queue) \in Requests /\ wkJob = None
      BY <2>3 DEF WorkerTake, TypeOK, QueueType, WorkerType
    <3>2. wkJob \notin Requests
      BY <3>1, ConstantsAssumption
    <3>3. \A j \in Requests : (mem'[j] = mem[j] \/ wkJob' = j) /\ db'[j] = db[j] /\ UNCHANGED <<req, doomed>>
      BY <2>3, <3>1 DEF WorkerTake, TypeOK, StoreType
    <3>4. \A j \in Requests : InStep(j) => InStep(j)'
      BY <3>2, <3>3 DEF InStep, BeingPruned, IsTerminal
    <3> QED
      BY <1>4, <3>4 DEF VisibleIsStored
  <2>4. CASE WorkerSaveRunning \/ WorkerSaveVerified \/ WriterSave
    <3>1. \A j \in Requests : wkJob = j \/ (mem'[j] = mem[j] /\ db'[j] = db[j])
      BY <2>4, SavesIn DEF TypeOK, StoreType
    <3> QED
      BY <1>1, <1>4, <2>4, <3>1 DEF WorkerSaveRunning, WorkerSaveVerified, WriterSave
  <2>5. CASE EndsAttempt
    BY <1>1, <1>4, <2>5, EndsIn DEF TypeOK, StoreType
  <2>6. CASE Reports
    BY <1>1, <1>4, <2>6, ReportsIn DEF TypeOK, StoreType
  <2>7. CASE WorkerFinish
    <3>1. mem' = mem /\ mem[wkJob] = wkRec /\ wkJob \in Requests
      BY <2>7, SavesIn
    <3>2. db' = [db EXCEPT ![wkJob] = wkRec] /\ UNCHANGED <<req, doomed>>
      BY <2>7 DEF WorkerFinish
    <3>3. db'[wkJob] = mem[wkJob] /\ \A j \in Requests \ {wkJob} : db'[j] = db[j]
      BY <3>1, <3>2 DEF TypeOK, StoreType
    <3>4. \A j \in Requests : InStep(j) => InStep(j)'
      BY <3>1, <3>2, <3>3 DEF InStep, BeingPruned, IsTerminal
    <3> QED
      BY <1>4, <3>4 DEF VisibleIsStored
  <2>8. CASE WriterFails \/ WorkerDies
    <3>1. faults' # faults
      BY <2>8 DEF WriterFails, WorkerDies, Fault, TypeOK, StoreType
    <3> QED
      BY <1>4, <3>1
  <2>9. CASE DismissDelete
    <3>1. /\ mem' = [mem EXCEPT ![disJob] = None] /\ db' = [db EXCEPT ![disJob] = None]
          /\ UNCHANGED <<req, doomed, wkJob>>
      BY <2>9, DismissEffect
    <3>2. \A j \in Requests : (mem'[j] = None /\ db'[j] = None) \/ (mem'[j] = mem[j] /\ db'[j] = db[j])
      BY <3>1 DEF TypeOK, StoreType
    <3>3. \A j \in Requests : InStep(j) => InStep(j)'
      BY <3>1, <3>2 DEF InStep, BeingPruned, IsTerminal
    <3> QED
      BY <1>4, <3>3 DEF VisibleIsStored
  <2>10. ASSUME NEW r \in Requests, SubmitCall(r) \/ LookupLedger(r) \/ SubmitRejected(r) \/ (CreateRow(r) /\ Declined(r))
        PROVE  VisibleIsStored'
    <3>1. req[r] \in {"new", "lookup", "preview", "create"} /\ UNCHANGED <<mem, db, doomed, wkJob>>
      BY <2>10 DEF SubmitCall, LookupLedger, SubmitRejected, CreateRow, Declined, memVars, wkVars
    <3>2. \A j \in Requests \ {r} : req'[j] = req[j]
      BY <2>10, NothingToResolve DEF SubmitCall, SubmitRejected, Declined, Reply, Proceed, TypeOK, CallType
    <3> QED
      BY <1>1, <1>4, <3>1, <3>2
  <2>11. ASSUME NEW r \in Requests, LoadRow(r) \/ InstallRow(r)
        PROVE  VisibleIsStored'
    BY <2>11, NothingToResolve
  <2>12. ASSUME NEW r \in Requests, PlanConfirmed(r) \/ PruneRow(r)
        PROVE  VisibleIsStored'
    BY <1>4, <2>12, PruneKeepsInStep DEF VisibleIsStored
  <2>13. ASSUME NEW r \in Requests, CreateRow(r), ~Declined(r)
        PROVE  VisibleIsStored'
    <3>1. /\ db' = [db EXCEPT ![r] = NewRecord] /\ req' = [req EXCEPT ![r] = "insert"]
          /\ req[r] = "create" /\ UNCHANGED <<mem, doomed, wkJob>>
      BY <2>13, NothingToResolve DEF CreateRow
    <3>2. /\ req'[r] = "insert"
          /\ \A j \in Requests \ {r} : db'[j] = db[j] /\ req'[j] = req[j]
      BY <3>1 DEF TypeOK, StoreType, CallType
    <3>3. \A j \in Requests : InStep(j) => InStep(j)'
      BY <3>1, <3>2 DEF InStep, BeingPruned, IsTerminal
    <3> QED
      BY <1>4, <3>3 DEF VisibleIsStored
  <2>14. ASSUME NEW r \in Requests, InsertJob(r)
        PROVE  VisibleIsStored'
    <3>1. /\ mem' = [mem EXCEPT ![r] = NewRecord] /\ req' = [req EXCEPT ![r] = "done"]
          /\ req[r] = "insert" /\ db[r] = NewRecord /\ UNCHANGED <<db, doomed, wkJob>>
      BY <2>14 DEF InsertJob, Reply, CreatedIsNew
    <3>2. /\ mem'[r] = db'[r]
          /\ \A j \in Requests \ {r} : mem'[j] = mem[j] /\ req'[j] = req[j]
      BY <3>1 DEF TypeOK, StoreType, CallType
    <3>3. \A j \in Requests : InStep(j) => InStep(j)'
      BY <3>1, <3>2 DEF InStep, BeingPruned, IsTerminal
    <3> QED
      BY <1>4, <3>3 DEF VisibleIsStored
  <2>15. ASSUME Boot \/ BootDone \/ Crash \/ \E j \in Requests : RecoverJob(j) \/ BootPrune(j)
        PROVE  VisibleIsStored'
    BY <1>4, <2>15, ReadyStays DEF Crash
  <2> QED
    BY <2>1, <2>2, <2>3, <2>4, <2>5, <2>6, <2>7, <2>8, <2>9, <2>10, <2>11, <2>12, <2>13, <2>14,
          <2>15
    DEF Next, BootNext, TimerNext, WorkerNext, FaultNext, SubmitNext, EndsAttempt, Reports
<1> QED
  BY <1>2, <1>3, <1>4

LEMMA VisibleAlways ==
  ASSUME DistinctKeys
  PROVE  Spec => []VisibleIsStored
<1>1. Init => VisibleIsStored
  BY DEF Init, VisibleIsStored
<1>2. Inv /\ VisibleIsStored /\ [Next]_vars => VisibleIsStored'
  BY VisibleIsStoredStep
<1> QED
  BY <1>1, <1>2, OwnedAlways, PTL DEF Spec

\* As long as no write of the store has failed, what the API shows once all
\* calls and attempts have ended is what a restart would load.
THEOREM ViewMatchesStore ==
  ASSUME DistinctKeys
  PROVE  Spec => [](faults = 0 => ViewIsDurable)
<1>1. ASSUME TypeOK, VisibleIsStored, faults = 0
      PROVE  ViewIsDurable
  <2>1. ASSUME sys = "ready", wkPc = "idle", \A r \in Requests : req[r] \notin InFlight
        PROVE  mem = db
    <3>1. wkJob = None /\ None \notin Requests
      BY <1>1, <2>1, HeldJob, ConstantsAssumption DEF HasJob
    <3>2. \A j \in Requests : mem[j] = db[j]
      BY <1>1, <2>1, <3>1 DEF VisibleIsStored, InStep, BeingPruned, InFlight
    <3> QED
      BY <1>1, <3>2 DEF TypeOK, StoreType
  <2> QED
    BY <2>1 DEF ViewIsDurable
<1>2. TypeOK /\ VisibleIsStored => (faults = 0 => ViewIsDurable)
  BY <1>1
<1> QED
  BY <1>2, TypeCorrect, VisibleAlways, PTL


-----------------------------------------------------------------------------
(* The service implements the lifecycle of its jobs.                       *)

Stages == [j \in Requests |-> StageOf(j)]

LEMMA StageOfRow ==
  ASSUME TypeOK, NEW j \in Requests
  PROVE  /\ db[j] = None => StageOf(j) = IF Claimed(j) THEN "removed" ELSE "none"
         /\ IsTerminal(db[j]) => StageOf(j) = "finished"
         /\ db[j] # None /\ db[j].phase \in Mutating => StageOf(j) = "mutating"
         /\ db[j] # None /\ db[j].phase \in {"queued", "retrying", "planning"} => StageOf(j) = "accepted"
         /\ \/ db[j] = None \/ IsTerminal(db[j]) \/ db[j].phase \in Mutating
            \/ db[j].phase \in {"queued", "retrying", "planning"}
<1>1. db[j] # None => db[j] \in Record /\ db[j].phase \in Phases
  BY DEF TypeOK, StoreType, Record
<1> QED
  BY <1>1 DEF StageOf, IsTerminal, Terminal, Mutating, Phases, RunningPhases

\* A step that leaves rows, claims and deletions alone changes no stage.
LEMMA SameStages ==
  ASSUME UNCHANGED <<db, ledger>>
  PROVE  Stages' = Stages
BY DEF Stages, StageOf, Claimed, IsTerminal

\* A step that saves or deletes the row of one job moves that job only.
LEMMA OneStage ==
  ASSUME NEW j \in Requests, \A t \in Requests \ {j} : db'[t] = db[t] /\ (Claimed(t)' <=> Claimed(t))
  PROVE  Stages' = [Stages EXCEPT ![j] = StageOf(j)']
<1>1. \A t \in Requests \ {j} : StageOf(t)' = StageOf(t)
  BY DEF StageOf, IsTerminal
<1> QED
  BY <1>1 DEF Stages

\* What the store promises in every reachable state.
StoreInv == Inv /\ SpentJobs /\ VisibleIsStored

\* The mutating stage is on disk before anything is deleted.
LEMMA MutatesOnDisk ==
  ASSUME StoreInv, wkPc \in {"mutate", "drain"}
  PROVE  wkJob \in Requests /\ StageOf(wkJob) = "mutating"
<1> USE DEF StoreInv, Inv, OwnedInv
<1>1. wkJob \in Requests /\ mem[wkJob] # None
  BY HeldJob, ConstantsAssumption DEF WorkerOwnsJob, HasJob
<1>2. db[wkJob] # None /\ db[wkJob].phase \in Mutating
  BY <1>1 DEF AheadInv, WriterDone, FlushedRow, IsMutating, VisibleHasRow
<1> QED
  BY <1>1, <1>2, StageOfRow

\* The worker saves the row of the job it holds.
LEMMA SavesAsLifecycle ==
  ASSUME StoreInv, NEW j \in Requests, j = wkJob,
         WorkerSaveRunning \/ WorkerSaveVerified \/ WriterSave \/ WorkerFinish
  PROVE  Lifecycle!Next \/ UNCHANGED <<Stages, applied, faults>>
<1> USE DEF StoreInv, Inv, OwnedInv
<1>1. /\ mem[j] = wkRec /\ wkRec \in Record /\ wkRec # None /\ HasJob
      /\ UNCHANGED <<ledger, applied, faults>>
  BY SavesIn, ConstantsAssumption DEF WorkerSaveRunning, WorkerSaveVerified, WriterSave, WorkerFinish, HasJob
<1>2. db[j] # None /\ ~IsTerminal(db[j])
  BY <1>1 DEF VisibleHasRow, OpenWhileHeld
<1>3. StageOf(j) \in {"accepted", "mutating"}
  BY <1>1, <1>2, StageOfRow
<1>4. PICK rec \in Record :
        /\ db' = [db EXCEPT ![j] = rec]
        /\ \/ WorkerFinish /\ rec = wkRec /\ rec.phase \in Terminal \cup {"retrying"}
           \/ rec = wkRec /\ wkRec.phase = "planning"
           \/ rec.phase \in Mutating /\ wkPc \in {"flush", "mutate", "drain"}
  BY SavesIn
<1>5. db'[j] = rec /\ rec # None /\ \A t \in Requests \ {j} : db'[t] = db[t] /\ (Claimed(t)' <=> Claimed(t))
  BY <1>1, <1>4, ConstantsAssumption DEF TypeOK, StoreType, Claimed
<1>6. /\ rec.phase \in Terminal => StageOf(j)' = "finished"
      /\ rec.phase \in Mutating => StageOf(j)' = "mutating"
      /\ rec.phase \in {"planning", "retrying"} => StageOf(j)' = "accepted"
  BY <1>5 DEF StageOf, IsTerminal, Terminal, Mutating
<1>7. Stages' = [Stages EXCEPT ![j] = StageOf(j)'] /\ Stages[j] = StageOf(j)
  BY <1>1, <1>5, OneStage DEF Stages
<1>8. CASE rec.phase \in Terminal
  <2>1. Lifecycle!Finish(j)
    BY <1>1, <1>3, <1>6, <1>7, <1>8 DEF Lifecycle!Finish, Lifecycle!Move, Stages
  <2> QED
    BY <1>1, <2>1 DEF Lifecycle!Next
<1>9. CASE rec.phase \in Mutating
  <2>1. CASE StageOf(j) = "mutating"
    BY <1>1, <1>6, <1>7, <1>9, <2>1 DEF Stages
  <2>2. CASE StageOf(j) = "accepted"
    <3>1. wkPc = "flush"
      BY <1>4, <1>9, <2>2, MutatesOnDisk DEF PhaseFollowsRun, Mutating, Terminal
    <3>2. j \notin applied
      BY <3>1 DEF SpentJobs
    <3>3. Lifecycle!Begin(j)
      BY <1>1, <1>6, <1>7, <1>9, <2>2, <3>2 DEF Lifecycle!Begin, Lifecycle!Move, Stages
    <3> QED
      BY <1>1, <3>3 DEF Lifecycle!Next
  <2> QED
    BY <1>3, <2>1, <2>2
<1>10. CASE rec.phase \in {"planning", "retrying"}
  <2>1. CASE StageOf(j) = "accepted"
    BY <1>1, <1>6, <1>7, <1>10, <2>1 DEF Stages
  <2>2. CASE StageOf(j) = "mutating"
    <3>1. rec = wkRec
      BY <1>4, <1>10 DEF Mutating
    <3>2. j \notin applied
      BY <1>1, <1>10, <3>1 DEF SpentJobs, Unrepeatable, Mutating, Terminal
    <3>3. Lifecycle!GoBack(j)
      BY <1>1, <1>6, <1>7, <1>10, <2>2, <3>2 DEF Lifecycle!GoBack, Lifecycle!Move, Stages
    <3> QED
      BY <1>1, <3>3 DEF Lifecycle!Next
  <2> QED
    BY <1>3, <2>1, <2>2
<1> QED
  BY <1>4, <1>8, <1>9, <1>10

\* The row of a removable job is deleted.
LEMMA RemovesAsLifecycle ==
  ASSUME StoreInv, NEW j \in Requests, Claimed(j), db' = [db EXCEPT ![j] = None], UNCHANGED <<ledger, applied, faults>>,
         IsActive(db[j]) => faults > 0
  PROVE  Lifecycle!Next \/ UNCHANGED <<Stages, applied, faults>>
<1> USE DEF StoreInv, Inv
<1>1. db'[j] = None /\ Claimed(j)' /\ \A t \in Requests \ {j} : db'[t] = db[t] /\ (Claimed(t)' <=> Claimed(t))
  BY DEF Claimed, TypeOK, StoreType
<1>2. StageOf(j)' = "removed"
  BY <1>1 DEF StageOf, IsTerminal
<1>3. Stages' = [Stages EXCEPT ![j] = "removed"] /\ Stages[j] = StageOf(j)
  BY <1>1, <1>2, OneStage DEF Stages
<1>4. CASE db[j] = None
  <2>1. StageOf(j) = "removed"
    BY <1>4, StageOfRow
  <2> QED
    BY <1>3, <2>1 DEF Stages
<1>5. CASE db[j] # None
  <2>1. \/ StageOf(j) = "finished"
        \/ StageOf(j) \in {"accepted", "mutating"} /\ faults > 0
    BY <1>5, StageOfRow DEF IsActive, Active, Phases, RunningPhases, Terminal, Mutating, TypeOK, StoreType, Record
  <2>2. Lifecycle!Remove(j)
    BY <1>3, <2>1 DEF Lifecycle!Remove, Lifecycle!Move, Stages
  <2> QED
    BY <2>2 DEF Lifecycle!Next
<1> QED
  BY <1>4, <1>5

\* Every step of the service is a step of the lifecycle of one job, the loss of
\* a write, or none of its concern.
LEMMA StepsAsLifecycle ==
  ASSUME StoreInv, [Next]_vars
  PROVE  Lifecycle!Next \/ UNCHANGED <<Stages, applied, faults>>
<1> USE DEF StoreInv, Inv, OwnedInv
<1> DEFINE Goal == Lifecycle!Next \/ UNCHANGED <<Stages, applied, faults>>
<1> SUFFICES Goal
  OBVIOUS
<1>1. ASSUME UNCHANGED <<db, ledger, applied, faults>>
      PROVE  Goal
  BY <1>1, SameStages
<1>2. ASSUME UNCHANGED <<db, ledger, applied>>, faults' = faults + 1
      PROVE  Goal
  <2>1. faults' > 0
    BY <1>2 DEF TypeOK, StoreType
  <2>2. Lifecycle!LoseWrite
    BY <1>2, <2>1, SameStages DEF Lifecycle!LoseWrite, Stages
  <2> QED
    BY <2>2 DEF Lifecycle!Next
<1>3. ASSUME wkPc \in {"mutate", "drain"}, UNCHANGED <<db, ledger, faults>>, applied' = applied \cup {wkJob}
      PROVE  Goal
  <2>1. wkJob \in Requests /\ StageOf(wkJob) = "mutating"
    BY <1>3, MutatesOnDisk
  <2>2. Lifecycle!Spend(wkJob)
    BY <1>3, <2>1, SameStages DEF Lifecycle!Spend, Stages
  <2> QED
    BY <2>1, <2>2 DEF Lifecycle!Next
<1> HIDE DEF Goal
<1>4. CASE Boot \/ BootDone \/ (\E j \in Requests : TimePasses(j)) \/ (\E j \in Requests :
      DelayedEnqueue(j)) \/ OthersTakeLock \/ OthersReleaseLock
  BY <1>4, <1>1 DEF Boot, BootDone, TimePasses, DelayedEnqueue, OthersTakeLock, OthersReleaseLock
<1>5. CASE WorkerTake \/ WorkerAcquire \/ VerifyPasses \/ WorkerFlushed \/ (\E result \in
      {"success", "retryable", "terminal", "raised"} : RunnerEnds(result)) \/ PreviewCall
  BY <1>5, <1>1 DEF WorkerTake, WorkerAcquire, VerifyPasses, WorkerFlushed, RunnerEnds, PreviewCall
<1>6. CASE (\E r \in Requests : SubmitCall(r)) \/ (\E r \in Requests : LookupLedger(r)) \/ (\E r \in
      Requests : SubmitRejected(r)) \/ (\E r \in Requests : InsertJob(r)) \/ (\E j \in Requests :
      Dismiss(j)) \/ UNCHANGED vars
  BY <1>6, <1>1 DEF SubmitCall, LookupLedger, SubmitRejected, InsertJob, Dismiss, vars
<1>7. CASE WorkerSaveRunning \/ WorkerSaveVerified \/ WriterSave \/ WorkerFinish
  BY <1>7, SavesIn, SavesAsLifecycle DEF Goal
<1>8. CASE WriterFails \/ WorkerDies
  BY <1>2, <1>8 DEF WriterFails, WorkerDies, Fault
<1>9. CASE EndsAttempt
  BY <1>1, <1>2, <1>9, EndsIn
<1>10. CASE Reports
  BY <1>1, <1>3, <1>10, ReportsIn
<1>11. CASE Crash
  BY <1>1, <1>3, <1>11 DEF Crash, MayHaveMutated
<1>12. ASSUME NEW j \in Requests, RecoverJob(j) PROVE Goal
  <2>1. /\ db[j] \in Record /\ db[j] # None /\ db[j].phase \in RunningPhases /\ Recovered(db[j]) # None
        /\ db' = [db EXCEPT ![j] = Recovered(db[j])] /\ UNCHANGED <<ledger, applied, faults>>
    BY <1>12, RecoveredType, ConstantsAssumption DEF RecoverJob, Interrupted, QuietUntilReady, TypeOK, StoreType
  <2>2. db'[j] = Recovered(db[j]) /\ \A t \in Requests \ {j} : db'[t] = db[t] /\ (Claimed(t)' <=> Claimed(t))
    BY <2>1 DEF Claimed, TypeOK, StoreType
  <2>3. Stages' = [Stages EXCEPT ![j] = StageOf(j)'] /\ Stages[j] = StageOf(j)
    BY <2>2, OneStage DEF Stages
  <2>4. CASE db[j].phase = "planning"
    <3>1. StageOf(j)' = "accepted"
      BY <2>1, <2>2, <2>4 DEF StageOf, Recovered, IsTerminal, Terminal, Mutating
    <3>2. StageOf(j) = "accepted"
      BY <2>1, <2>4, StageOfRow
    <3> QED
      BY <2>1, <2>3, <3>1, <3>2 DEF Goal, Stages
  <2>5. CASE db[j].phase \in Mutating
    <3>1. StageOf(j)' = "finished"
      BY <2>1, <2>2, <2>5 DEF StageOf, Recovered, IsTerminal, Terminal, Mutating, Record
    <3>2. StageOf(j) = "mutating"
      BY <2>1, <2>5, StageOfRow
    <3>3. Lifecycle!Finish(j)
      BY <2>1, <2>3, <3>1, <3>2 DEF Lifecycle!Finish, Lifecycle!Move, Stages
    <3> QED
      BY <3>3 DEF Goal, Lifecycle!Next
  <2> QED
    BY <2>1, <2>4, <2>5 DEF RunningPhases
<1>13. ASSUME NEW j \in Requests, BootPrune(j) PROVE Goal
  <2>1. /\ mem = db /\ IsTerminal(db[j]) /\ db' = [db EXCEPT ![j] = None] /\ UNCHANGED <<ledger, applied, faults>>
    BY <1>13 DEF BootPrune, RecoveryDone, History, QuietUntilReady
  <2>2. Claimed(j) /\ ~IsActive(db[j])
    BY <2>1 DEF ClaimsInv, OnlyClaimantsExist, IsTerminal, IsActive, Active
  <2> QED
    BY <2>1, <2>2, RemovesAsLifecycle DEF Goal
<1>14. CASE DismissDelete
  <2>1. /\ disJob \in Requests /\ Removable(disJob) /\ sys = "ready"
        /\ db' = [db EXCEPT ![disJob] = None] /\ UNCHANGED <<ledger, applied, faults>>
    BY <1>14, DismissEffect DEF DismissDelete, QuietUntilReady
  <2>2. IsActive(db[disJob]) => faults > 0
    BY <2>1, RemovableIsStored DEF VisibleIsStored, TypeOK, StoreType
  <2> QED
    BY <2>1, <2>2, RemovesAsLifecycle DEF Goal, Removable, Ended
<1>15. ASSUME NEW r \in Requests, PlanConfirmed(r) PROVE Goal
  BY <1>1, <1>15 DEF PlanConfirmed
<1>16. ASSUME NEW r \in Requests, PruneRow(r) PROVE Goal
  <2>1. /\ doomed[r] \in Requests /\ Removable(doomed[r]) /\ sys = "ready"
        /\ db' = [db EXCEPT ![doomed[r]] = None] /\ UNCHANGED <<ledger, applied, faults>>
    BY <1>16 DEF PruneRow, RemovesEnded, QuietUntilReady, InFlight, TypeOK, CallType
  <2>2. IsActive(db[doomed[r]]) => faults > 0
    BY <2>1, RemovableIsStored DEF VisibleIsStored, TypeOK, StoreType
  <2> QED
    BY <2>1, <2>2, RemovesAsLifecycle DEF Goal, Removable, Ended
<1>17. ASSUME NEW r \in Requests, LoadRow(r) \/ InstallRow(r) PROVE Goal
  BY <1>17, NothingToResolve
<1>18. ASSUME NEW r \in Requests, CreateRow(r), ~Declined(r) PROVE Goal
  <2>1. /\ ledger[KeyOf[r]] = None /\ ledger' = [ledger EXCEPT ![KeyOf[r]] = r]
        /\ db' = [db EXCEPT ![r] = NewRecord] /\ UNCHANGED <<applied, faults>>
    BY <1>18, NothingToResolve DEF CreateRow
  <2>2. ~Claimed(r) /\ db[r] = None
    BY <2>1, ConstantsAssumption DEF Claimed, ClaimsInv, OnlyClaimantsExist
  <2>3. \A t \in Requests \ {r} : db'[t] = db[t] /\ (Claimed(t)' <=> Claimed(t))
    BY <2>1, ConstantsAssumption DEF Claimed, TypeOK, StoreType
  <2>4. db'[r] = NewRecord /\ NewRecord # None
    BY <2>1, NewRecordType, ConstantsAssumption DEF TypeOK, StoreType
  <2>5. StageOf(r) = "none"
    BY <2>2, StageOfRow
  <2>6. StageOf(r)' = "accepted"
    BY <2>4 DEF StageOf, NewRecord, IsTerminal, Terminal, Mutating
  <2>7. Stages' = [Stages EXCEPT ![r] = "accepted"] /\ Stages[r] = "none"
    BY <2>3, <2>5, <2>6, OneStage DEF Stages
  <2>8. Lifecycle!Accept(r)
    BY <2>1, <2>7 DEF Lifecycle!Accept, Lifecycle!Move, Stages
  <2> QED
    BY <2>8 DEF Goal, Lifecycle!Next
<1>19. ASSUME NEW r \in Requests, Declined(r) PROVE Goal
  BY <1>1, <1>19 DEF Declined, memVars, budgetVars, histVars
<1>20. ASSUME NEW k \in Keys, BatchClaims(k) PROVE Goal
  <2>1. ledger[k] = None /\ ledger' = [ledger EXCEPT ![k] = "batch"] /\ UNCHANGED <<db, applied, faults>>
    BY <1>20 DEF BatchClaims, budgetVars, histVars
  <2>2. \A t \in Requests : Claimed(t)' <=> Claimed(t)
    BY <2>1, ConstantsAssumption DEF Claimed, TypeOK, StoreType
  <2>3. Stages' = Stages
    BY <2>1, <2>2 DEF Stages, StageOf, IsTerminal
  <2> QED
    BY <2>1, <2>3 DEF Goal
<1> QED
  BY <1>1, <1>2, <1>3, <1>4, <1>5, <1>6, <1>7, <1>8, <1>9, <1>10, <1>11, <1>12, <1>13, <1>14, <1>15,
        <1>16, <1>17, <1>18, <1>19, <1>20
  DEF Next, BootNext, TimerNext, WorkerNext, FaultNext, SubmitNext, EndsAttempt, Reports

\* The store, read through the claims on its keys, goes through the lifecycle
\* that JobLifecycle states: a job is accepted once, begins only while nothing
\* of it may have been deleted, finishes once, and is never restored.
THEOREM LifecycleImplemented ==
  ASSUME DistinctKeys
  PROVE  Spec => ImplementsLifecycle
<1>1. Init => Lifecycle!Init
  <2>1. \A j \in Requests : KeyOf[j] \in Keys /\ j # None
    BY ConstantsAssumption
  <2>2. Init => \A j \in Requests : StageOf(j) = "none"
    BY <2>1 DEF Init, StageOf, Claimed, IsTerminal
  <2>3. Init => [j \in Requests |-> StageOf(j)] \in [Requests -> {"none", "finished"}]
    BY <2>2
  <2> QED
    BY <2>3 DEF Init, Lifecycle!Init
<1>2. StoreInv /\ [Next]_vars => [Lifecycle!Next]_<<Stages, applied, faults > 0>>
  BY StepsAsLifecycle
<1>3. Inv /\ SpentJobs /\ VisibleIsStored => StoreInv
  BY DEF StoreInv
<1> QED
  BY <1>1, <1>2, <1>3, OwnedAlways, SpentAlways, VisibleAlways, PTL
  DEF Spec, ImplementsLifecycle, Lifecycle!Spec, Stages

==============================================================================
