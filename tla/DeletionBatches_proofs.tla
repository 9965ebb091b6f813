----------------------- MODULE DeletionBatches_proofs -----------------------
(***************************************************************************)
(* Proofs about DeletionBatches, for every set of submissions, assignment  *)
(* of keys and bodies, number of children, limits, crashes and failures.   *)
(* The last part (no child runs again, a durable outcome is final, the     *)
(* queue keeps its bound) is about submissions that each carry a key of    *)
(* their own: under a repeated key a call may install an older copy of a   *)
(* row as the object of its batch, and a child can run again.              *)
(***************************************************************************)
EXTENDS DeletionBatches, FiniteSetTheorems, WellFoundedInduction, TLAPS

USE DEF storeVars, memVars, actorVars, budgetVars

-----------------------------------------------------------------------------
(* What the helpers return.                                                *)

\* Control points of a submission past the transaction that claimed its key.
Owns == Holds \ {"install", "create"}

\* The accepted batches own their keys: a claim is for the key of the call that
\* makes it, a call that found a claim by its key has compared the requests, and
\* a call past its transaction is the owner of its key.
KeyInv ==
  /\ \A k \in Keys : ledger[k] \in Requests => KeyOf[ledger[k]] = k
  /\ \A r \in Requests :
       /\ pc[r] \in {"load", "install"} => Id(r) \in Requests /\ BodyOf[Id(r)] = BodyOf[r]
       /\ pc[r] \in Owns => Id(r) = r

LEMMA ActorsDiffer ==
  /\ "worker" \notin Requests /\ "boot" \notin Requests /\ "single" \notin Requests /\ None \notin Requests
  /\ None # "single"
  /\ "worker" \in Actors /\ "boot" \in Actors /\ Requests \subseteq Actors
<1>1. /\ Requests \cap ({None, "worker", "boot", "single"} \cup Errors) = {}
      /\ None # "single"
  BY BatchAssumption
<1> QED
  BY <1>1 DEF Actors

LEMMA ErrorsDiffer == Errors \cap Requests = {}
BY BatchAssumption

LEMMA KeyType == \A r \in Requests : KeyOf[r] \in Keys
BY BatchAssumption

LEMMA FirstChild == 1 \in Children
<1>1. ChildCount \in Nat \ {0}
  BY BatchAssumption
<1> QED
  BY <1>1 DEF Children

LEMMA OrdersAreSequences ==
  ASSUME NEW S \in SUBSET Requests, NEW s \in Orders(S)
  PROVE  s \in Seq(Requests)
<1>1. IsFiniteSet(S)
  BY BatchAssumption, FS_Subset
<1>2. Cardinality(S) \in Nat
  BY <1>1, FS_CardinalityType
<1>3. s \in [1..Cardinality(S) -> Requests]
  BY DEF Orders
<1> QED
  BY <1>2, <1>3

LEMMA StartType ==
  ASSUME QueueType, NEW rows, StartService(rows)
  PROVE  queue' \in Seq(Requests) /\ scheduled' \subseteq Requests
<1> DEFINE fresh == {b \in Requests \ scheduled : IsActive(rows[b]) /\ Queued(rows[b]) # {}}
<1>1. PICK s \in Orders(fresh) : queue' = queue \o s
  BY DEF StartService
<1>2. s \in Seq(Requests)
  BY <1>1, OrdersAreSequences
<1> QED
  BY <1>1, <1>2 DEF StartService, QueueType

LEMMA VerdictType == \A rec : Verdict(rec) \in Statuses
BY DEF Verdict, Statuses

LEMMA FinalizedType == \A rec \in Record : Finalized(rec) \in Record
BY VerdictType DEF Finalized, Record

LEMMA RecoveredType == \A rec \in Record : Recovered(rec) \in Record
BY DEF Recovered, Record, Statuses, ActiveStatuses, ChildTerminal

LEMMA AbortedType == \A rec \in Record : Aborted(rec) \in Record
BY DEF Aborted, Record, Statuses, ChildTerminal

LEMMA KidType ==
  \A rec \in Record, c \in Children, status \in {"queued", "running"} \cup ChildTerminal :
    [rec EXCEPT !.kids[c] = status] \in Record
BY DEF Record

LEMMA StatusType == \A rec \in Record, status \in Statuses : [rec EXCEPT !.status = status] \in Record
BY DEF Record

LEMMA CountType == \A f \in [Children -> Nat], c \in Children : [f EXCEPT ![c] = @ + 1] \in [Children -> Nat]
OBVIOUS

LEMMA VictimsType == \A o, m : Victims(o, m) \subseteq Requests
BY DEF Victims

LEMMA InitTyped == Init => TypeOK
<1> SUFFICES ASSUME Init PROVE TypeOK
  OBVIOUS
<1> USE ActorsDiffer, FirstChild
<1>1. StoreType
  BY DEF Init, StoreType
<1>2. QueueType
  BY DEF Init, QueueType
<1>3. \A r \in Requests : pc[r] = "new"
  BY DEF Init
<1>4. pc["worker"] = "dead" /\ pc["boot"] = "down"
  BY DEF Init
<1>5. pc \in [Actors -> RequestPcs \cup WorkerPcs \cup BootPcs]
  BY DEF Init, RequestPcs, WorkerPcs, BootPcs
<1>6. PcType /\ PlaceType
  BY <1>3, <1>4, <1>5 DEF Init, PcType, PlaceType, RequestPcs, WorkerPcs, BootPcs
<1>7. ObjectType
  BY <1>3, <1>4 DEF Init, ObjectType, Holds
<1> QED
  BY <1>1, <1>2, <1>6, <1>7 DEF TypeOK

-----------------------------------------------------------------------------
(* The store, the queue and the answers.                                   *)

\* The object somebody saves is a record.
LEMMA StoredType ==
  ASSUME StoreType, NEW r, obj[r] \in Record, Store(r)
  PROVE  db' \in [Requests -> Record \cup {None}]
BY DEF Store, StoreType

LEMMA StoreStep ==
  ASSUME TypeOK, [Next]_vars
  PROVE  StoreType'
<1> USE ActorsDiffer DEF TypeOK
<1>1. CASE Boot \/ (\E b \in Requests : Recover(b)) \/ BootPrune \/ BootDone \/ WorkerTake \/ VerifyBlocks
             \/ RunnerEnds \/ WorkerAcquire \/ OthersTakeLock \/ OthersReleaseLock \/ PreviewCall \/ Crash
  BY <1>1 DEF Boot, Recover, BootPrune, BootDone, WorkerTake, VerifyBlocks, RunnerEnds, WorkerAcquire,
              OthersTakeLock, OthersReleaseLock, PreviewCall, Crash, StoreType
<1>2. ASSUME NEW r \in Requests,
             Submit(r) \/ Lookup(r) \/ Load(r) \/ Install(r) \/ Reject(r) \/ Insert(r) \/ Evicted(r)
      PROVE  StoreType'
  BY <1>2 DEF Submit, Lookup, Load, Install, Reject, Insert, Evicted, StoreType
<1>3. CASE WorkerFails \/ BlockFails \/ AbortFails \/ BootFails \/ \E r \in Requests : SubmitFails(r)
  BY <1>3 DEF WorkerFails, BlockFails, AbortFails, BootFails, SubmitFails, Fault, StoreType
<1>4. CASE \E k \in Keys : JobClaims(k)
  BY <1>4 DEF JobClaims, StoreType
<1>5. CASE RecoverySaved
  <2>1. obj[on["boot"]] \in Record
    BY <1>5 DEF RecoverySaved, ObjectType
  <2> QED
    BY <1>5, <2>1, StoredType DEF RecoverySaved, StoreType
<1>6. CASE WorkerSaved \/ WorkerBegan \/ WorkerBlocked \/ WorkerAborted
  <2>1. obj[on["worker"]] \in Record
    BY <1>6 DEF WorkerSaved, WorkerBegan, WorkerBlocked, WorkerAborted, ObjectType
  <2> QED
    BY <1>6, <2>1, StoredType DEF WorkerSaved, WorkerBegan, WorkerBlocked, WorkerAborted, StoreType
<1>7. CASE VerifyPasses
  <2> DEFINE b == Id(on["worker"])
             counts == [ran[b] EXCEPT ![kid] = @ + 1]
  <2>1. ran' = [ran EXCEPT ![b] = counts]
    BY <1>7 DEF VerifyPasses
  <2>2. ASSUME b \in Requests PROVE counts \in [Children -> Nat]
    BY <2>2, CountType DEF StoreType, PlaceType
  <2>3. ran' \in [Requests -> [Children -> Nat]]
    <3> HIDE DEF counts, b
    <3> QED
      BY <2>1, <2>2 DEF StoreType
  <2> QED
    BY <1>7, <2>3 DEF VerifyPasses, StoreType
<1>8. ASSUME NEW r \in Requests, Confirm(r) PROVE StoreType'
  <2>1. Cardinality({b \in Requests : born[b] > 0}) \in Nat
    BY BatchAssumption, FS_Subset, FS_CardinalityType
  <2> QED
    BY <1>8, <2>1 DEF Confirm, StoreType
<1>9. ASSUME NEW r \in Requests, Create(r) PROVE StoreType'
  <2>1. obj[r] \in Record
    BY <1>9 DEF Create, ObjectType, Holds
  <2> QED
    BY <1>9, <2>1, KeyType DEF Create, Claim, StoreType
<1>10. ASSUME NEW a \in Actors, SaveFinal(a) PROVE StoreType'
  <2>1. obj[IF a \in Requests THEN a ELSE on[a]] \in Record
    BY <1>10 DEF SaveFinal, ObjectType, Holds, Actors
  <2> QED
    BY <1>10, <2>1, StoredType DEF SaveFinal, StoreType
<1>11. ASSUME NEW a \in Actors, DeleteRow(a) \/ Pop(a) PROVE StoreType'
  BY <1>11 DEF DeleteRow, Pop, StoreType
<1>12. CASE UNCHANGED vars
  BY <1>12 DEF vars, StoreType
<1> QED
  BY <1>1, <1>2, <1>3, <1>4, <1>5, <1>6, <1>7, <1>8, <1>9, <1>10, <1>11, <1>12
  DEF Next, BootNext, HistoryNext, WorkerNext, SubmitNext, Others, Faults

LEMMA ReplyType ==
  ASSUME QueueType, NEW r \in Requests,
         NEW answer \in Requests \cup Errors \cup {None}, Reply(r, answer)
  PROVE  reply' \in [Requests -> Requests \cup Errors \cup {None}]
BY DEF Reply, QueueType

LEMMA ResolveType ==
  ASSUME StoreType, QueueType, NEW r \in Requests, Id(r) # None, Resolve(r)
  PROVE  reply' \in [Requests -> Requests \cup Errors \cup {None}]
<1>1. Id(r) \in Requests \cup {"single"}
  BY BatchAssumption DEF Id, StoreType
<1> QED
  BY <1>1, ReplyType DEF Resolve, Errors, QueueType

LEMMA SettleType ==
  ASSUME QueueType, NEW r \in Requests, Settle(r)
  PROVE  /\ queue' \in Seq(Requests) /\ scheduled' \subseteq Requests
         /\ reply' \in [Requests -> Requests \cup Errors \cup {None}]
<1>1. CASE Queued(obj[r]) # {}
  BY <1>1, ReplyType DEF Settle, QueueType
<1>2. CASE Queued(obj[r]) = {}
  BY <1>2, ReplyType DEF Settle, QueueType
<1> QED
  BY <1>1, <1>2

LEMMA QueueStep ==
  ASSUME TypeOK, KeyInv, [Next]_vars
  PROVE  QueueType'
<1> USE ActorsDiffer DEF TypeOK
<1>1. CASE Boot \/ (\E b \in Requests : Recover(b)) \/ RecoverySaved \/ BootPrune
  BY <1>1, VictimsType DEF Boot, Recover, RecoverySaved, BootPrune, QueueType
<1>2. CASE BootDone \/ PreviewCall \/ \E r \in Requests : Submit(r)
  BY <1>2, StartType DEF BootDone, PreviewCall, Submit, QueueType
<1>3. CASE WorkerTake
  BY <1>3 DEF WorkerTake, QueueType
<1>4. CASE WorkerSaved \/ WorkerBegan \/ VerifyBlocks \/ VerifyPasses \/ WorkerBlocked \/ RunnerEnds
             \/ WorkerAborted \/ WorkerAcquire
  BY <1>4 DEF WorkerSaved, WorkerBegan, VerifyBlocks, VerifyPasses, WorkerBlocked, RunnerEnds, WorkerAborted,
              WorkerAcquire, QueueType
<1>5. CASE OthersTakeLock \/ OthersReleaseLock \/ \E k \in Keys : JobClaims(k)
  BY <1>5 DEF OthersTakeLock, OthersReleaseLock, JobClaims, QueueType
<1>51. CASE Crash
  BY <1>51 DEF Crash, QueueType
<1>6. CASE WorkerFails \/ BlockFails \/ AbortFails \/ BootFails
  BY <1>6 DEF WorkerFails, BlockFails, AbortFails, BootFails, Fault, QueueType
<1>7. ASSUME NEW r \in Requests, SubmitFails(r) \/ Reject(r) PROVE QueueType'
  BY <1>7, ReplyType DEF SubmitFails, Fault, Reject, Errors, QueueType
<1>8. ASSUME NEW r \in Requests, Lookup(r) PROVE QueueType'
  BY <1>8, StartType, ResolveType DEF Lookup, QueueType
<1>9. ASSUME NEW r \in Requests, Load(r) \/ Confirm(r) PROVE QueueType'
  BY <1>9, ReplyType DEF Load, Confirm, Errors, QueueType
<1>10. ASSUME NEW r \in Requests, Install(r) PROVE QueueType'
  BY <1>10, ReplyType DEF Install, KeyInv, QueueType
<1>11. ASSUME NEW r \in Requests, Create(r) PROVE QueueType'
  BY <1>11, ResolveType, ReplyType DEF Create, Claim, Errors, QueueType
<1>12. ASSUME NEW r \in Requests, Insert(r) \/ Evicted(r) PROVE QueueType'
  BY <1>12, SettleType, VictimsType DEF Insert, Evicted, Drop, QueueType
<1>13. ASSUME NEW a \in Actors, SaveFinal(a) \/ DeleteRow(a) \/ Pop(a) PROVE QueueType'
  BY <1>13, VictimsType DEF SaveFinal, DeleteRow, Pop, Drop, Answered, QueueType
<1>14. CASE UNCHANGED vars
  BY <1>14 DEF vars, QueueType
<1> QED
  BY <1>1, <1>2, <1>3, <1>4, <1>5, <1>51, <1>6, <1>7, <1>8, <1>9, <1>10, <1>11, <1>12, <1>13, <1>14
  DEF Next, BootNext, HistoryNext, WorkerNext, SubmitNext, Others, Faults

-----------------------------------------------------------------------------
(* The control points.                                                     *)

\* A submission, the worker or start() goes on to a point of its own code.
LEMMA RequestMoves ==
  ASSUME PcType, NEW r \in Requests, NEW point \in RequestPcs, Goto(r, point),
         Ready \/ pc[r] \notin {"new", "done", "lost"}
  PROVE  PcType'
BY ActorsDiffer DEF PcType, Goto, Ready

LEMMA WorkerMoves ==
  ASSUME PcType, NEW point \in WorkerPcs, Goto("worker", point), pc["worker"] # "dead"
  PROVE  PcType'
BY ActorsDiffer DEF PcType, Goto

LEMMA BootMoves ==
  ASSUME PcType, NEW point \in BootPcs, Goto("boot", point), pc["boot"] # "ready"
  PROVE  PcType'
BY ActorsDiffer DEF PcType, Goto

LEMMA AnyMoves ==
  ASSUME PcType, NEW a \in Actors, NEW point, Goto(a, point),
         a \in Requests => point \in RequestPcs /\ pc[a] \notin {"new", "done", "lost"},
         a = "worker" => point \in WorkerPcs /\ pc[a] # "dead",
         a = "boot" => point \in BootPcs /\ pc[a] # "ready"
  PROVE  PcType'
BY RequestMoves, WorkerMoves, BootMoves DEF Actors

LEMMA PcStep ==
  ASSUME TypeOK, [Next]_vars
  PROVE  PcType'
<1> USE ActorsDiffer DEF TypeOK
<1>1. CASE Boot \/ (\E b \in Requests : Recover(b)) \/ RecoverySaved \/ BootPrune
  <2>1. UNCHANGED pc \/ \E point \in BootPcs : Goto("boot", point)
    BY <1>1 DEF Boot, Recover, RecoverySaved, BootPrune, BootPcs
  <2>2. pc["boot"] # "ready"
    BY <1>1 DEF Boot, Recover, RecoverySaved, BootPrune
  <2>3. CASE UNCHANGED pc
    BY <2>3 DEF PcType
  <2> QED
    BY <2>1, <2>2, <2>3, BootMoves
<1>2. CASE BootDone
  BY <1>2 DEF BootDone, PcType, WorkerPcs, BootPcs
<1>3. CASE WorkerTake \/ WorkerSaved \/ WorkerBegan \/ VerifyBlocks \/ VerifyPasses \/ WorkerBlocked \/ RunnerEnds
             \/ WorkerAborted \/ WorkerAcquire \/ WorkerFails \/ BlockFails \/ AbortFails
  <2>1. UNCHANGED pc \/ \E point \in WorkerPcs : Goto("worker", point)
    BY <1>3 DEF WorkerTake, WorkerSaved, WorkerBegan, VerifyBlocks, VerifyPasses, WorkerBlocked, RunnerEnds,
                WorkerAborted, WorkerAcquire, WorkerFails, BlockFails, AbortFails, NextChild, WorkerPcs
  <2>2. pc["worker"] # "dead"
    BY <1>3 DEF WorkerTake, WorkerSaved, WorkerBegan, VerifyBlocks, VerifyPasses, WorkerBlocked, RunnerEnds,
                WorkerAborted, WorkerAcquire, WorkerFails, BlockFails, AbortFails
  <2>3. CASE UNCHANGED pc
    BY <2>3 DEF PcType
  <2> QED
    BY <2>1, <2>2, <2>3, WorkerMoves
<1>4. CASE Crash
  <2>1. pc' \in [Actors -> RequestPcs \cup WorkerPcs \cup BootPcs]
    BY <1>4 DEF Crash, PcType, Actors, RequestPcs, WorkerPcs, BootPcs
  <2>2. pc'["worker"] = "dead" /\ pc'["boot"] = "down"
    BY <1>4 DEF Crash
  <2>3. \A r \in Requests : pc'[r] \in {"new", "done", "lost"}
    BY <1>4 DEF Crash
  <2> QED
    BY <2>1, <2>2, <2>3 DEF PcType, RequestPcs, WorkerPcs, BootPcs
<1>5. CASE OthersTakeLock \/ OthersReleaseLock \/ PreviewCall \/ \E k \in Keys : JobClaims(k)
  BY <1>5 DEF OthersTakeLock, OthersReleaseLock, PreviewCall, JobClaims, PcType
<1>6. CASE BootFails
  BY <1>6, BootMoves DEF BootFails, BootPcs
<1>7. ASSUME NEW r \in Requests,
             Submit(r) \/ Lookup(r) \/ Load(r) \/ Install(r) \/ Reject(r) \/ Confirm(r) \/ Create(r) \/ Insert(r)
               \/ Evicted(r) \/ SubmitFails(r)
      PROVE  PcType'
  <2>1. \E point \in RequestPcs : Goto(r, point)
    BY <1>7 DEF Submit, Lookup, Load, Install, Reject, Confirm, Create, Insert, Evicted, SubmitFails, Reply, Resolve,
                Settle, Claim, RequestPcs
  <2>2. Ready \/ pc[r] \notin {"new", "done", "lost"}
    BY <1>7 DEF Submit, Lookup, Load, Install, Reject, Confirm, Create, Insert, Evicted, SubmitFails
  <2> QED
    BY <2>1, <2>2, RequestMoves
<1>8. ASSUME NEW a \in Actors, SaveFinal(a) \/ DeleteRow(a) \/ Pop(a) PROVE PcType'
  <2>1. pc[a] \in {"final", "prune", "pruned", "evict"}
    BY <1>8 DEF SaveFinal, DeleteRow, Pop
  <2>2. PICK point : Goto(a, point) /\ (point \in {After(a), "prune", "pruned"} \/ (point = "evicted" /\ pc[a] = "evict"))
    BY <1>8 DEF SaveFinal, DeleteRow, Pop
  <2>3. a \in Requests => point \in RequestPcs
    BY <2>2 DEF After, RequestPcs
  <2>4. a = "worker" => point \in WorkerPcs
    BY <2>2 DEF After, PcType, WorkerPcs
  <2>5. a = "boot" => point \in BootPcs
    BY <2>2 DEF After, PcType, BootPcs
  <2> QED
    BY <2>1, <2>2, <2>3, <2>4, <2>5, AnyMoves
<1>9. CASE UNCHANGED vars
  BY <1>9 DEF vars, PcType
<1> QED
  BY <1>1, <1>2, <1>3, <1>4, <1>5, <1>6, <1>7, <1>8, <1>9
  DEF Next, BootNext, HistoryNext, WorkerNext, SubmitNext, Others, Faults

LEMMA PlaceStep ==
  ASSUME TypeOK, [Next]_vars
  PROVE  PlaceType'
<1> USE ActorsDiffer DEF TypeOK
<1>1. CASE Boot \/ (\E b \in Requests : Recover(b)) \/ RecoverySaved \/ BootPrune \/ BootDone \/ Crash
  BY <1>1 DEF Boot, Recover, RecoverySaved, BootPrune, BootDone, Crash, PlaceType
<1>2. CASE WorkerTake
  <2>1. Head(queue) \in Requests
    BY <1>2 DEF WorkerTake, QueueType
  <2> QED
    BY <1>2, <2>1 DEF WorkerTake, PlaceType, ObjectType
<1>3. CASE WorkerSaved \/ WorkerBlocked
  <2>1. UNCHANGED <<on, rest>>
    BY <1>3 DEF WorkerSaved, WorkerBlocked
  <2>2. kid' = kid \/ kid' \in Queued(Current)
    BY <1>3 DEF WorkerSaved, WorkerBlocked, NextChild
  <2> QED
    BY <2>1, <2>2 DEF PlaceType, Queued
<1>4. CASE WorkerBegan \/ VerifyBlocks \/ VerifyPasses \/ RunnerEnds \/ WorkerAborted \/ WorkerAcquire
             \/ OthersTakeLock \/ OthersReleaseLock \/ PreviewCall \/ \E k \in Keys : JobClaims(k)
  BY <1>4 DEF WorkerBegan, VerifyBlocks, VerifyPasses, RunnerEnds, WorkerAborted, WorkerAcquire, OthersTakeLock,
              OthersReleaseLock, PreviewCall, JobClaims, PlaceType
<1>5. CASE WorkerFails \/ BlockFails \/ AbortFails \/ BootFails \/ \E r \in Requests : SubmitFails(r)
  BY <1>5 DEF WorkerFails, BlockFails, AbortFails, BootFails, SubmitFails, Fault, PlaceType
<1>6. ASSUME NEW r \in Requests,
             Submit(r) \/ Lookup(r) \/ Load(r) \/ Install(r) \/ Reject(r) \/ Confirm(r) \/ Create(r) \/ Insert(r)
               \/ Evicted(r)
      PROVE  PlaceType'
  BY <1>6 DEF Submit, Lookup, Load, Install, Reject, Confirm, Create, Insert, Evicted, PlaceType
<1>7. ASSUME NEW a \in Actors, SaveFinal(a) \/ DeleteRow(a) \/ Pop(a) PROVE PlaceType'
  BY <1>7 DEF SaveFinal, DeleteRow, Pop, PlaceType
<1>8. CASE UNCHANGED vars
  BY <1>8 DEF vars, PlaceType
<1> QED
  BY <1>1, <1>2, <1>3, <1>4, <1>5, <1>6, <1>7, <1>8
  DEF Next, BootNext, HistoryNext, WorkerNext, SubmitNext, Others, Faults

-----------------------------------------------------------------------------
(* The record objects.                                                     *)

\* No record object becomes something else.
Kept ==
  /\ obj' \in [Requests -> Record \cup {None}]
  /\ \A r \in Requests : obj[r] \in Record => obj'[r] \in Record

LEMMA ReplacedKept ==
  ASSUME ObjectType, NEW r, NEW rec \in Record, obj' = [obj EXCEPT ![r] = rec]
  PROVE  Kept
BY DEF Kept, ObjectType

LEMMA KeptStep ==
  ASSUME TypeOK, KeyInv, [Next]_vars, ~Boot, ~Crash
  PROVE  Kept
<1> USE ActorsDiffer DEF TypeOK
<1>0. ASSUME UNCHANGED obj PROVE Kept
  BY <1>0 DEF Kept, ObjectType
<1>1. ASSUME NEW b \in Requests, Recover(b) PROVE Kept
  <2>1. obj[b] \in Record
    BY <1>1 DEF Recover, ObjectType
  <2>2. Recovered(obj[b]) \in Record /\ Finalized(Recovered(obj[b])) \in Record
    BY <2>1, RecoveredType, FinalizedType
  <2> QED
    BY <1>0, <1>1, <2>2, ReplacedKept DEF Recover
<1>2. CASE RecoverySaved
  <2>1. Finalized(obj[on["boot"]]) \in Record
    BY <1>2, FinalizedType DEF RecoverySaved, ObjectType
  <2> QED
    BY <1>0, <1>2, <2>1, ReplacedKept DEF RecoverySaved
<1>3. CASE WorkerTake
  <2> DEFINE o == mem[Head(queue)]
  <2>1. Head(queue) \in Requests
    BY <1>3 DEF WorkerTake, QueueType
  <2>2. ASSUME o # None PROVE [obj[o] EXCEPT !.status = "running"] \in Record
    BY <2>1, <2>2, StatusType DEF ObjectType, Statuses, ActiveStatuses
  <2>3. UNCHANGED obj \/ (o # None /\ obj' = [obj EXCEPT ![o] = [obj[o] EXCEPT !.status = "running"]])
    BY <1>3 DEF WorkerTake
  <2> QED
    BY <1>0, <2>2, <2>3, ReplacedKept
<1>4. CASE WorkerSaved \/ WorkerBlocked \/ VerifyBlocks \/ RunnerEnds \/ WorkerFails \/ BlockFails
  <2>1. Current \in Record
    BY <1>4 DEF WorkerSaved, WorkerBlocked, VerifyBlocks, RunnerEnds, WorkerFails, BlockFails, Current, ObjectType
  <2>2. Finalized(Current) \in Record /\ Aborted(Current) \in Record
    BY <2>1, FinalizedType, AbortedType
  <2>3. \A c \in Children, status \in {"queued", "running"} \cup ChildTerminal :
          [Current EXCEPT !.kids[c] = status] \in Record
    BY <2>1, KidType
  <2>4. \E rec \in Record : SetCurrent(rec)
    <3>1. CASE WorkerSaved \/ WorkerBlocked
      BY <3>1, <2>2, <2>3 DEF WorkerSaved, WorkerBlocked, NextChild, Queued
    <3>2. CASE VerifyBlocks \/ RunnerEnds \/ BlockFails
      BY <3>2, <2>3 DEF VerifyBlocks, RunnerEnds, BlockFails, WithKid, PlaceType, ChildTerminal
    <3>3. CASE WorkerFails
      BY <3>3, <2>2 DEF WorkerFails
    <3> QED
      BY <1>4, <3>1, <3>2, <3>3
  <2> QED
    BY <2>4, ReplacedKept DEF SetCurrent
<1>5. ASSUME NEW r \in Requests, Load(r) PROVE Kept
  <2>1. Id(r) \in Requests
    BY <1>5 DEF Load, KeyInv
  <2>2. db[Id(r)] = None \/ db[Id(r)] \in Record
    BY <2>1 DEF StoreType
  <2> QED
    BY <1>0, <1>5, <2>2, ReplacedKept DEF Load
<1>6. ASSUME NEW r \in Requests, Confirm(r) PROVE Kept
  <2>1. \A kids \in [Children -> {"queued", "blocked"}] : [status |-> "queued", kids |-> kids] \in Record
    BY DEF Record, Statuses, ActiveStatuses, ChildTerminal
  <2> QED
    BY <1>6, <2>1, ReplacedKept DEF Confirm
<1>7. ASSUME NEW r \in Requests, Insert(r) \/ Evicted(r) PROVE Kept
  <2>1. obj[r] \in Record
    BY <1>7 DEF Insert, Evicted, ObjectType, Holds
  <2>2. UNCHANGED obj \/ obj' = [obj EXCEPT ![r] = Finalized(obj[r])]
    BY <1>7 DEF Insert, Evicted, Settle
  <2> QED
    BY <1>0, <2>1, <2>2, FinalizedType, ReplacedKept
<1>8. CASE BootPrune \/ BootDone \/ WorkerBegan \/ VerifyPasses \/ WorkerAborted \/ WorkerAcquire \/ OthersTakeLock
             \/ OthersReleaseLock \/ PreviewCall \/ AbortFails \/ BootFails
  BY <1>0, <1>8 DEF BootPrune, BootDone, WorkerBegan, VerifyPasses, WorkerAborted, WorkerAcquire, OthersTakeLock,
                    OthersReleaseLock, PreviewCall, AbortFails, BootFails
<1>9. CASE (\E k \in Keys : JobClaims(k)) \/ \E a \in Actors : SaveFinal(a) \/ DeleteRow(a) \/ Pop(a)
  BY <1>0, <1>9 DEF JobClaims, SaveFinal, DeleteRow, Pop
<1>10. ASSUME NEW r \in Requests, Submit(r) \/ Lookup(r) \/ Install(r) \/ Reject(r) \/ Create(r) \/ SubmitFails(r)
       PROVE  Kept
  BY <1>0, <1>10 DEF Submit, Lookup, Install, Reject, Create, SubmitFails
<1>11. CASE UNCHANGED vars
  BY <1>0, <1>11 DEF vars
<1> QED
  BY <1>1, <1>2, <1>3, <1>4, <1>5, <1>6, <1>7, <1>8, <1>9, <1>10, <1>11
  DEF Next, BootNext, HistoryNext, WorkerNext, SubmitNext, Others, Faults

\* What becomes visible is a record.
MemKept == \A b \in Requests : mem'[b] \in {mem[b], None} \/ (mem'[b] \in Requests /\ obj[mem'[b]] \in Record)

LEMMA MemStep ==
  ASSUME TypeOK, [Next]_vars, ~Boot, ~Crash
  PROVE  mem' \in [Requests -> Requests \cup {None}] /\ MemKept
<1> USE ActorsDiffer DEF TypeOK
<1>0. ASSUME UNCHANGED mem PROVE mem' \in [Requests -> Requests \cup {None}] /\ MemKept
  BY <1>0 DEF MemKept, ObjectType
<1>1. ASSUME NEW r \in Requests, Install(r) PROVE mem' \in [Requests -> Requests \cup {None}] /\ MemKept
  BY <1>1 DEF Install, MemKept, ObjectType, Holds
<1>2. ASSUME NEW r \in Requests, Insert(r) PROVE mem' \in [Requests -> Requests \cup {None}] /\ MemKept
  BY <1>2 DEF Insert, MemKept, ObjectType, Holds
<1>3. ASSUME NEW a, Drop(a) PROVE mem' \in [Requests -> Requests \cup {None}] /\ MemKept
  BY <1>3 DEF Drop, MemKept, ObjectType
<1>4. ASSUME NEW r \in Requests, Evicted(r) PROVE mem' \in [Requests -> Requests \cup {None}] /\ MemKept
  BY <1>3, <1>4 DEF Evicted
<1>5. ASSUME NEW a \in Actors, SaveFinal(a) \/ DeleteRow(a) \/ Pop(a)
      PROVE  mem' \in [Requests -> Requests \cup {None}] /\ MemKept
  BY <1>0, <1>3, <1>5 DEF SaveFinal, DeleteRow, Pop
<1>6. CASE (\E b \in Requests : Recover(b)) \/ RecoverySaved \/ BootPrune \/ BootDone \/ WorkerTake \/ WorkerSaved
             \/ WorkerBegan \/ VerifyBlocks \/ VerifyPasses \/ WorkerBlocked \/ RunnerEnds \/ WorkerAborted
  BY <1>0, <1>6 DEF Recover, RecoverySaved, BootPrune, BootDone, WorkerTake, WorkerSaved, WorkerBegan, VerifyBlocks,
                    VerifyPasses, WorkerBlocked, RunnerEnds, WorkerAborted
<1>7. CASE WorkerAcquire \/ OthersTakeLock \/ OthersReleaseLock \/ PreviewCall \/ WorkerFails \/ BlockFails
             \/ AbortFails \/ BootFails \/ \E k \in Keys : JobClaims(k)
  BY <1>0, <1>7 DEF WorkerAcquire, OthersTakeLock, OthersReleaseLock, PreviewCall, WorkerFails, BlockFails,
                    AbortFails, BootFails, JobClaims, Fault
<1>8. ASSUME NEW r \in Requests,
             Submit(r) \/ Lookup(r) \/ Load(r) \/ Reject(r) \/ Confirm(r) \/ Create(r) \/ SubmitFails(r)
      PROVE  mem' \in [Requests -> Requests \cup {None}] /\ MemKept
  BY <1>0, <1>8 DEF Submit, Lookup, Load, Reject, Confirm, Create, SubmitFails, Fault
<1>9. CASE UNCHANGED vars
  BY <1>0, <1>9 DEF vars
<1> QED
  BY <1>1, <1>2, <1>4, <1>5, <1>6, <1>7, <1>8, <1>9
  DEF Next, BootNext, HistoryNext, WorkerNext, SubmitNext, Others, Faults

\* Who relies on an object found it, or made it, in this step or before.
RequestKept == \A r \in Requests : pc'[r] \in Holds => pc[r] \in Holds \/ obj'[r] \in Record
WorkerKept ==
  pc'["worker"] \notin {"dead", "idle"} =>
    \/ pc["worker"] \notin {"dead", "idle"} /\ on'["worker"] = on["worker"]
    \/ on'["worker"] \in Requests /\ obj[on'["worker"]] \in Record
BootKept ==
  /\ rest' \subseteq rest
  /\ pc'["boot"] \in {"save", "final"} =>
       (pc["boot"] \in {"save", "final"} /\ on'["boot"] = on["boot"]) \/ on'["boot"] \in rest

LEMMA ActorStep ==
  ASSUME TypeOK, KeyInv, [Next]_vars, ~Boot, ~Crash
  PROVE  RequestKept /\ WorkerKept /\ BootKept
<1> USE ActorsDiffer DEF TypeOK
<1>1. CASE BootPrune \/ BootDone \/ RecoverySaved \/ BootFails \/ \E b \in Requests : Recover(b)
  BY <1>1 DEF BootPrune, BootDone, RecoverySaved, BootFails, Fault, Recover, Goto, RequestKept, WorkerKept, BootKept,
              PcType, PlaceType
<1>2. CASE WorkerTake
  <2>1. Head(queue) \in Requests
    BY <1>2 DEF WorkerTake, QueueType
  <2> QED
    BY <1>2, <2>1 DEF WorkerTake, Goto, RequestKept, WorkerKept, BootKept, PcType, PlaceType, ObjectType
<1>3. CASE WorkerSaved \/ WorkerBlocked
  BY <1>3 DEF WorkerSaved, WorkerBlocked, NextChild, Goto, RequestKept, WorkerKept, BootKept, PcType
<1>4. CASE WorkerBegan \/ VerifyBlocks \/ VerifyPasses \/ RunnerEnds \/ WorkerAborted \/ WorkerAcquire
             \/ WorkerFails \/ BlockFails \/ AbortFails
  BY <1>4 DEF WorkerBegan, VerifyBlocks, VerifyPasses, RunnerEnds, WorkerAborted, WorkerAcquire, WorkerFails,
              BlockFails, AbortFails, Fault, Goto, RequestKept, WorkerKept, BootKept, PcType
<1>5. CASE OthersTakeLock \/ OthersReleaseLock \/ PreviewCall \/ (\E k \in Keys : JobClaims(k)) \/ UNCHANGED vars
  BY <1>5 DEF OthersTakeLock, OthersReleaseLock, PreviewCall, JobClaims, vars, RequestKept, WorkerKept, BootKept
<1>6. ASSUME NEW r \in Requests,
             Submit(r) \/ Lookup(r) \/ Load(r) \/ Install(r) \/ Reject(r) \/ Confirm(r) \/ Create(r) \/ Insert(r)
               \/ Evicted(r) \/ SubmitFails(r)
      PROVE  RequestKept /\ WorkerKept /\ BootKept
  <2>1. UNCHANGED <<on, rest>>
    BY <1>6 DEF Submit, Lookup, Load, Install, Reject, Confirm, Create, Insert, Evicted, SubmitFails, Fault
  <2>2. PICK point : Goto(r, point)
    BY <1>6 DEF Submit, Lookup, Load, Install, Reject, Confirm, Create, Insert, Evicted, SubmitFails, Reply, Resolve,
                Settle, Claim
  <2>3. point \in Holds => pc[r] \in Holds \/ obj'[r] \in Record
    <3>1. CASE Load(r)
      <4>1. Id(r) \in Requests
        BY <3>1 DEF Load, KeyInv
      <4> QED
        BY <3>1, <2>2, <4>1 DEF Load, Reply, Goto, Holds, StoreType, ObjectType, PcType
    <3>2. CASE Confirm(r)
      <4>1. \A kids \in [Children -> {"queued", "blocked"}] : [status |-> "queued", kids |-> kids] \in Record
        BY DEF Record, Statuses, ActiveStatuses, ChildTerminal
      <4> QED
        BY <3>2, <4>1 DEF Confirm, ObjectType
    <3>3. CASE Install(r) \/ Create(r) \/ Insert(r) \/ Evicted(r)
      BY <3>3 DEF Install, Create, Insert, Evicted, Holds
    <3>4. CASE Submit(r) \/ Lookup(r) \/ Reject(r) \/ SubmitFails(r)
      BY <3>4, <2>2 DEF Submit, Lookup, Reject, SubmitFails, Resolve, Reply, Goto, Holds, PcType
    <3> QED
      BY <1>6, <3>1, <3>2, <3>3, <3>4
  <2> QED
    BY <2>1, <2>2, <2>3 DEF Goto, RequestKept, WorkerKept, BootKept, PcType
<1>7. ASSUME NEW a \in Actors, SaveFinal(a) \/ DeleteRow(a) \/ Pop(a)
      PROVE  RequestKept /\ WorkerKept /\ BootKept
  <2>1. UNCHANGED <<on, rest>>
    BY <1>7 DEF SaveFinal, DeleteRow, Pop
  <2>2. PICK point : Goto(a, point) /\ point \notin {"save", "final"}
    BY <1>7 DEF SaveFinal, DeleteRow, Pop, After
  <2>3. a \in Requests => pc[a] \in Holds
    BY <1>7 DEF SaveFinal, DeleteRow, Pop, Holds
  <2>4. a = "worker" => pc[a] \notin {"dead", "idle"}
    BY <1>7 DEF SaveFinal, DeleteRow, Pop
  <2> QED
    BY <2>1, <2>2, <2>3, <2>4 DEF Goto, RequestKept, WorkerKept, BootKept, PcType, Actors
<1> QED
  BY <1>1, <1>2, <1>3, <1>4, <1>5, <1>6, <1>7
  DEF Next, BootNext, HistoryNext, WorkerNext, SubmitNext, Others, Faults

LEMMA ObjectStep ==
  ASSUME TypeOK, KeyInv, [Next]_vars
  PROVE  ObjectType'
<1> USE ActorsDiffer DEF TypeOK
<1>1. PcType'
  BY PcStep
<1>2. CASE Boot
  <2>1. pc'["boot"] = "recover"
    BY <1>2 DEF Boot, Goto, PcType
  <2>2. pc'["worker"] = "dead" /\ \A r \in Requests : pc'[r] \in {"new", "done", "lost"}
    BY <1>1, <2>1 DEF PcType
  <2> QED
    BY <1>2, <2>1, <2>2 DEF Boot, ObjectType, StoreType, Holds
<1>3. CASE Crash
  <2>1. pc'["boot"] = "down" /\ pc'["worker"] = "dead"
    BY <1>3 DEF Crash
  <2>2. \A r \in Requests : pc'[r] \notin Holds
    BY <1>3 DEF Crash, Holds
  <2> QED
    BY <1>3, <2>1, <2>2 DEF Crash, ObjectType
<1>4. CASE ~Boot /\ ~Crash
  <2>1. Kept
    BY <1>4, KeptStep
  <2>2. mem' \in [Requests -> Requests \cup {None}] /\ MemKept
    BY <1>4, MemStep
  <2>3. RequestKept /\ WorkerKept /\ BootKept
    BY <1>4, ActorStep
  <2>4. \A b \in Requests : mem'[b] # None => obj'[mem'[b]] \in Record
    BY <2>1, <2>2 DEF Kept, MemKept, ObjectType
  <2>5. \A b \in rest' : obj'[b] \in Record
    BY <2>1, <2>3 DEF Kept, BootKept, PlaceType, ObjectType
  <2>6. \A r \in Requests : pc'[r] \in Holds => obj'[r] \in Record
    BY <2>1, <2>3 DEF Kept, RequestKept, ObjectType
  <2>7. pc'["worker"] \notin {"dead", "idle"} => on'["worker"] \in Requests /\ obj'[on'["worker"]] \in Record
    BY <2>1, <2>3 DEF Kept, WorkerKept, ObjectType
  <2>8. pc'["boot"] \in {"save", "final"} => on'["boot"] \in Requests /\ obj'[on'["boot"]] \in Record
    BY <2>1, <2>3 DEF Kept, BootKept, PlaceType, ObjectType
  <2> QED
    BY <2>1, <2>2, <2>4, <2>5, <2>6, <2>7, <2>8 DEF Kept, ObjectType
<1> QED
  BY <1>2, <1>3, <1>4

-----------------------------------------------------------------------------
(* The ledger.                                                             *)

\* A claim stays for ever, and a new one is for the key of its call.
LedgerKept ==
  \A k \in Keys : /\ ledger[k] # None => ledger'[k] = ledger[k]
                  /\ ledger'[k] \in Requests => ledger[k] = ledger'[k] \/ KeyOf[ledger'[k]] = k

LEMMA LedgerStep ==
  ASSUME TypeOK, [Next]_vars
  PROVE  LedgerKept
<1> USE ActorsDiffer DEF TypeOK
<1>0. ASSUME UNCHANGED ledger PROVE LedgerKept
  BY <1>0 DEF LedgerKept
<1>1. CASE Boot \/ (\E b \in Requests : Recover(b)) \/ RecoverySaved \/ BootPrune \/ BootDone \/ Crash
  BY <1>0, <1>1 DEF Boot, Recover, RecoverySaved, BootPrune, BootDone, Crash
<1>2. CASE WorkerTake \/ WorkerSaved \/ WorkerBegan \/ VerifyBlocks \/ VerifyPasses \/ WorkerBlocked \/ RunnerEnds
             \/ WorkerAborted \/ WorkerAcquire \/ OthersTakeLock \/ OthersReleaseLock \/ PreviewCall
  BY <1>0, <1>2 DEF WorkerTake, WorkerSaved, WorkerBegan, VerifyBlocks, VerifyPasses, WorkerBlocked, RunnerEnds,
                    WorkerAborted, WorkerAcquire, OthersTakeLock, OthersReleaseLock, PreviewCall
<1>3. CASE Faults
  BY <1>0, <1>3 DEF Faults, WorkerFails, BlockFails, AbortFails, BootFails, SubmitFails, Fault
<1>4. CASE \E k \in Keys : JobClaims(k)
  BY <1>4 DEF JobClaims, LedgerKept, StoreType
<1>5. ASSUME NEW r \in Requests,
             Submit(r) \/ Lookup(r) \/ Load(r) \/ Install(r) \/ Reject(r) \/ Confirm(r) \/ Insert(r) \/ Evicted(r)
      PROVE  LedgerKept
  BY <1>0, <1>5 DEF Submit, Lookup, Load, Install, Reject, Confirm, Insert, Evicted
<1>6. ASSUME NEW r \in Requests, Create(r) PROVE LedgerKept
  <2>1. UNCHANGED ledger \/ (ledger[KeyOf[r]] = None /\ ledger' = [ledger EXCEPT ![KeyOf[r]] = r])
    BY <1>6 DEF Create, Claim, Id
  <2> QED
    BY <1>0, <2>1 DEF LedgerKept, StoreType
<1>7. CASE \E a \in Actors : SaveFinal(a) \/ DeleteRow(a) \/ Pop(a)
  BY <1>0, <1>7 DEF SaveFinal, DeleteRow, Pop
<1>8. CASE UNCHANGED vars
  BY <1>0, <1>8 DEF vars
<1> QED
  BY <1>1, <1>2, <1>3, <1>4, <1>5, <1>6, <1>7, <1>8 DEF Next, BootNext, HistoryNext, WorkerNext, SubmitNext, Others

\* What a step tells a submission it has read in the ledger, or written there.
Sees(r) == Id(r) \in Requests /\ BodyOf[Id(r)] = BodyOf[r]
CallKept ==
  \A r \in Requests :
    /\ pc'[r] \in {"load", "install"} => pc[r] \in {"load", "install"} \/ Sees(r)
    /\ pc'[r] \in Owns => pc[r] \in Owns \/ ledger'[KeyOf[r]] = r
    /\ reply'[r] \in Requests => reply'[r] = reply[r] \/ (reply'[r] = Id(r) /\ Sees(r))

LEMMA CallStep ==
  ASSUME TypeOK, KeyInv, [Next]_vars
  PROVE  CallKept
<1> USE ActorsDiffer DEF TypeOK
<1>0. ASSUME UNCHANGED reply, UNCHANGED pc \/ (\E point : Goto("worker", point) \/ Goto("boot", point))
      PROVE  CallKept
  BY <1>0 DEF CallKept, Goto, PcType
<1>1. CASE Boot \/ (\E b \in Requests : Recover(b)) \/ RecoverySaved \/ BootPrune
  BY <1>0, <1>1 DEF Boot, Recover, RecoverySaved, BootPrune
<1>2. CASE BootDone
  BY <1>2 DEF BootDone, CallKept, PcType
<1>3. CASE Crash
  BY <1>3 DEF Crash, CallKept, PcType, Owns, Holds
<1>4. CASE WorkerTake \/ WorkerSaved \/ WorkerBegan \/ VerifyBlocks \/ VerifyPasses \/ WorkerBlocked \/ RunnerEnds
             \/ WorkerAborted \/ WorkerAcquire
  BY <1>0, <1>4 DEF WorkerTake, WorkerSaved, WorkerBegan, VerifyBlocks, VerifyPasses, WorkerBlocked, RunnerEnds,
                    WorkerAborted, WorkerAcquire, NextChild
<1>5. CASE OthersTakeLock \/ OthersReleaseLock \/ PreviewCall \/ (\E k \in Keys : JobClaims(k)) \/ UNCHANGED vars
  BY <1>0, <1>5 DEF OthersTakeLock, OthersReleaseLock, PreviewCall, JobClaims, vars
<1>6. CASE WorkerFails \/ BlockFails \/ AbortFails \/ BootFails
  BY <1>0, <1>6 DEF WorkerFails, BlockFails, AbortFails, BootFails
<1>7. ASSUME NEW r \in Requests, NEW point, Goto(r, point),
             point \in {"load", "install"} => pc[r] \in {"load", "install"} \/ Sees(r),
             point \in Owns => pc[r] \in Owns \/ ledger'[KeyOf[r]] = r,
             \/ UNCHANGED reply
             \/ \E answer : reply' = [reply EXCEPT ![r] = answer] /\ (answer \in Requests => answer = Id(r) /\ Sees(r))
      PROVE  CallKept
  BY <1>7 DEF CallKept, Goto, PcType, QueueType
<1>8. ASSUME NEW r \in Requests, Reply(r, "error") \/ Reply(r, "rejected") \/ Reply(r, "full") \/ Reply(r, "retired")
      PROVE  CallKept
  <2>1. {"error", "rejected", "full", "retired"} \cap Requests = {}
    BY ErrorsDiffer DEF Errors
  <2> QED
    BY <1>7, <1>8, <2>1 DEF Reply, Owns, Holds
<1>9. ASSUME NEW r \in Requests, Resolve(r), Id(r) # None PROVE CallKept
  <2>1. Id(r) \in Requests \cup {"single"}
    BY <1>9, KeyType DEF Id, StoreType
  <2>2. "conflict" \notin Requests
    BY ErrorsDiffer DEF Errors
  <2> QED
    BY <1>7, <1>9, <2>1, <2>2 DEF Resolve, Reply, Sees, Owns, Holds
<1>10. ASSUME NEW r \in Requests, Settle(r), Id(r) = r, pc[r] \in Owns PROVE CallKept
  <2>1. (Goto(r, "done") /\ reply' = [reply EXCEPT ![r] = r]) \/ (Goto(r, "final") /\ UNCHANGED reply)
    BY <1>10 DEF Settle, Reply
  <2>2. Sees(r)
    BY <1>10 DEF Sees
  <2> QED
    BY <1>7, <1>10, <2>1, <2>2 DEF Owns, Holds
<1>11. ASSUME NEW r \in Requests, Submit(r) PROVE CallKept
  BY <1>7, <1>11 DEF Submit, Owns, Holds
<1>12. ASSUME NEW r \in Requests, Lookup(r) PROVE CallKept
  BY <1>7, <1>9, <1>12 DEF Lookup, Owns, Holds
<1>13. ASSUME NEW r \in Requests, Load(r) PROVE CallKept
  BY <1>7, <1>8, <1>13 DEF Load, Owns, Holds
<1>14. ASSUME NEW r \in Requests, Install(r) PROVE CallKept
  BY <1>7, <1>14 DEF Install, Reply, KeyInv, Sees, Owns, Holds
<1>15. ASSUME NEW r \in Requests, Reject(r) PROVE CallKept
  BY <1>8, <1>15 DEF Reject
<1>16. ASSUME NEW r \in Requests, Confirm(r) PROVE CallKept
  BY <1>7, <1>16 DEF Confirm, Owns, Holds
<1>17. ASSUME NEW r \in Requests, Create(r) PROVE CallKept
  <2>1. CASE Id(r) # None
    BY <1>9, <1>17, <2>1 DEF Create
  <2>2. CASE Id(r) = None /\ Goto(r, "insert")
    <3>1. ledger' = [ledger EXCEPT ![KeyOf[r]] = r] /\ UNCHANGED reply
      BY <1>17, <2>2 DEF Create, Claim, Reply, Goto, PcType
    <3>2. ledger'[KeyOf[r]] = r
      BY <3>1, BatchAssumption DEF StoreType
    <3> QED
      BY <1>7, <2>2, <3>1, <3>2
  <2>3. CASE Id(r) = None /\ Reply(r, "full")
    BY <1>8, <2>3
  <2> QED
    BY <1>17, <2>1, <2>2, <2>3 DEF Create, Claim
<1>18. ASSUME NEW r \in Requests, Insert(r) \/ Evicted(r) PROVE CallKept
  <2>1. Id(r) = r /\ pc[r] \in Owns
    BY <1>18 DEF Insert, Evicted, KeyInv, Owns, Holds
  <2>2. Settle(r) \/ (Goto(r, "evict") /\ UNCHANGED reply)
    BY <1>18 DEF Insert, Evicted
  <2> QED
    BY <1>7, <1>10, <2>1, <2>2
<1>19. ASSUME NEW r \in Requests, SubmitFails(r) PROVE CallKept
  BY <1>8, <1>19 DEF SubmitFails
<1>20. ASSUME NEW a \in Actors, SaveFinal(a) \/ DeleteRow(a) \/ Pop(a) PROVE CallKept
  <2>1. PICK point : Goto(a, point) /\ point \in {After(a), "prune", "pruned", "evicted"}
    BY <1>20 DEF SaveFinal, DeleteRow, Pop
  <2>2. UNCHANGED reply \/ reply' = Answered(a)
    BY <1>20 DEF SaveFinal, DeleteRow, Pop
  <2>3. CASE a \in Requests
    <3>1. Id(a) = a /\ Sees(a) /\ pc[a] \in Owns
      BY <1>20, <2>3 DEF SaveFinal, DeleteRow, Pop, KeyInv, Sees, Owns, Holds
    <3> QED
      BY <1>7, <2>1, <2>2, <2>3, <3>1 DEF Answered, After, Owns, Holds
  <2>4. CASE a \notin Requests
    BY <1>0, <2>1, <2>2, <2>4 DEF Answered, Actors
  <2> QED
    BY <2>3, <2>4
<1> QED
  BY <1>1, <1>2, <1>3, <1>4, <1>5, <1>6, <1>11, <1>12, <1>13, <1>14, <1>15, <1>16, <1>17, <1>18, <1>19, <1>20
  DEF Next, BootNext, HistoryNext, WorkerNext, SubmitNext, Others, Faults

LEMMA KeyStep ==
  ASSUME TypeOK, KeyInv, KeyOwnsOneBatch, [Next]_vars
  PROVE  KeyInv' /\ KeyOwnsOneBatch'
<1> USE ActorsDiffer
<1>1. LedgerKept /\ CallKept
  BY LedgerStep, CallStep
<1>2. \A r \in Requests : KeyOf[r] \in Keys
  BY KeyType
<1>3. \A r \in Requests : Id(r) \in Requests => ledger'[KeyOf[r]] = Id(r)
  BY <1>1, <1>2 DEF LedgerKept, Id
<1>4. \A k \in Keys : ledger'[k] \in Requests => KeyOf[ledger'[k]] = k
  BY <1>1 DEF LedgerKept, KeyInv
<1>5. ASSUME NEW r \in Requests, pc'[r] \in {"load", "install"}
      PROVE  ledger'[KeyOf[r]] \in Requests /\ BodyOf[ledger'[KeyOf[r]]] = BodyOf[r]
  BY <1>1, <1>3, <1>5 DEF CallKept, KeyInv, Sees
<1>6. ASSUME NEW r \in Requests, pc'[r] \in Owns PROVE ledger'[KeyOf[r]] = r
  BY <1>1, <1>3, <1>6 DEF CallKept, KeyInv
<1>7. ASSUME NEW r \in Requests, reply'[r] \in Requests
      PROVE  KeyOf[reply'[r]] = KeyOf[r] /\ BodyOf[reply'[r]] = BodyOf[r] /\ ledger'[KeyOf[r]] = reply'[r]
  <2>1. CASE reply'[r] = reply[r]
    BY <1>3, <1>7, <2>1 DEF KeyOwnsOneBatch, Id
  <2>2. CASE reply'[r] = Id(r) /\ Sees(r)
    BY <1>2, <1>3, <1>7, <2>2 DEF KeyInv, Sees, Id
  <2> QED
    BY <1>1, <1>7, <2>1, <2>2 DEF CallKept
<1> QED
  BY <1>4, <1>5, <1>6, <1>7 DEF KeyInv, KeyOwnsOneBatch, Id

-----------------------------------------------------------------------------
(* The theorems.                                                           *)

IInv == TypeOK /\ KeyInv /\ KeyOwnsOneBatch

LEMMA InitHolds == Init => IInv
<1> SUFFICES ASSUME Init PROVE IInv
  OBVIOUS
<1>1. TypeOK
  BY InitTyped
<1>2. \A r \in Requests : pc[r] = "new" /\ reply[r] = None
  BY ActorsDiffer DEF Init
<1>3. \A k \in Keys : ledger[k] = None
  BY DEF Init
<1> QED
  BY <1>1, <1>2, <1>3, ActorsDiffer DEF IInv, KeyInv, KeyOwnsOneBatch, Owns, Holds

LEMMA StepHolds == IInv /\ [Next]_vars => IInv'
<1> SUFFICES ASSUME IInv, [Next]_vars PROVE IInv'
  OBVIOUS
<1>1. TypeOK /\ KeyInv /\ KeyOwnsOneBatch
  BY DEF IInv
<1>2. TypeOK'
  BY <1>1, StoreStep, QueueStep, PcStep, PlaceStep, ObjectStep DEF TypeOK
<1>3. KeyInv' /\ KeyOwnsOneBatch'
  BY <1>1, KeyStep
<1> QED
  BY <1>2, <1>3 DEF IInv

LEMMA Inductive == Spec => []IInv
BY InitHolds, StepHolds, PTL DEF Spec

\* Every variable of the batch service keeps its type.
THEOREM TypeCorrect == Spec => []TypeOK
<1>1. IInv => TypeOK
  BY DEF IInv
<1> QED
  BY <1>1, Inductive, PTL

\* All accepted answers under one idempotency key name the batch that claimed
\* it, with the same canonical request, over crashes, failures and pruning.
THEOREM OneBatchPerKey == Spec => []KeyOwnsOneBatch
<1>1. IInv => KeyOwnsOneBatch
  BY DEF IInv
<1> QED
  BY <1>1, Inductive, PTL

-----------------------------------------------------------------------------
(* Submissions with keys of their own.                                     *)

\* No two submissions share a key: the hypothesis of the theorems below.
DistinctKeys == \A r, s \in Requests : KeyOf[r] = KeyOf[s] => r = s

-----------------------------------------------------------------------------
(* The inductive invariant.                                                *)

\* The batch of a submission that won its key.
Own(b) == Id(b) = b

Early == {"new", "lookup", "preview", "create"}
Pruning == {"prune", "pruned", "evict", "evicted"}
Busy == pc["worker"] \notin {"dead", "idle"}

\* A batch has one object, that of the submission that created it, and nobody
\* works on another one.
OneObject ==
  /\ \A b \in Requests :
       /\ db[b] # None => Own(b)
       /\ mem[b] # None => mem[b] = b /\ Own(b)
       /\ pc[b] \in Early => ~Own(b)
       /\ pc[b] \notin {"load", "install"}
       /\ \A c \in Children : ran[b][c] # 0 => Own(b)
  /\ \A b \in rest : Own(b)
  /\ Busy => Own(on["worker"])
  /\ pc["boot"] \in {"save", "final"} => Own(on["boot"])

\* A batch that is unfinished in memory is unfinished in the store, and what is
\* pruned is finished in memory.
EndedFirst ==
  /\ \A b \in Requests : Own(b) /\ IsActive(obj[b]) => IsActive(db[b])
  /\ \A a \in Actors :
       pc[a] \in Pruning =>
         todo[a] # {} /\ \A b \in todo[a] : Own(b) /\ obj[b] # None /\ ~IsActive(obj[b])

\* A child that ran waits neither in memory nor in the store.
OutOfQueue ==
  \A b \in Requests, c \in Children :
    ran[b][c] # 0 =>
      /\ ran[b][c] = 1
      /\ obj[b] # None => obj[b].kids[c] # "queued"
      /\ db[b] # None => db[b].kids[c] # "queued"

\* The child at hand shows where its run is, in memory and from its first save
\* on in the store.
ChildAtHand ==
  /\ pc["worker"] \in {"begin", "acquire", "verify", "run"} => Current.kids[kid] = "running"
  /\ pc["worker"] = "block" => Current.kids[kid] = "blocked"
  /\ pc["worker"] \in {"begin", "acquire", "verify"} => ran[on["worker"]][kid] = 0
  /\ pc["worker"] \in {"acquire", "verify", "run"} =>
       LET row == db[on["worker"]] IN row # None => row.kids[kid] = "running"

\* An outcome in the store is the one in memory, but for a refusal whose save failed.
SameOutcome(old, new) ==
  \A c \in Children :
    old.kids[c] \in ChildTerminal =>
      new.kids[c] = old.kids[c] \/ (faults > 0 /\ old.kids[c] = "blocked" /\ new.kids[c] = "failed")

OutcomesKept ==
  \A b \in Requests : Own(b) /\ obj[b] # None /\ db[b] # None => SameOutcome(db[b], obj[b])

ChildInv == OneObject /\ EndedFirst /\ OutOfQueue /\ ChildAtHand /\ OutcomesKept
Inv == TypeOK /\ KeyInv /\ KeyOwnsOneBatch /\ ChildInv

-----------------------------------------------------------------------------
(* Sets of naturals, and the batch that is pruned first.                   *)

LEMMA LeastNatural ==
  ASSUME NEW S \in SUBSET Nat, S # {}
  PROVE  \E m \in S : \A n \in S : m <= n
<1> DEFINE R == OpToRel(<, Nat)
<1>1. IsWellFoundedOn(R, Nat)
  BY NatLessThanWellFounded
<1>2. \A x, y \in Nat : y < x => <<y, x>> \in R
  BY DEF OpToRel
<1> HIDE DEF R
<1>3. PICK x \in S : \A y \in S : ~(<<y, x>> \in R)
  BY <1>1, WFMin
<1>4. \A y \in S : ~(y < x)
  BY <1>2, <1>3
<1> QED
  BY <1>4

LEMMA OldestIn ==
  ASSUME TypeOK, NEW S \in SUBSET Requests, S # {}
  PROVE  Oldest(S) \in S
<1>1. {born[b] : b \in S} \in SUBSET Nat /\ {born[b] : b \in S} # {}
  BY DEF TypeOK, StoreType
<1>2. PICK m \in {born[b] : b \in S} : \A n \in {born[b] : b \in S} : m <= n
  BY <1>1, LeastNatural
<1>3. \E b \in S : \A x \in S : born[b] <= born[x]
  BY <1>2
<1> QED
  BY <1>3 DEF Oldest

\* With a key of its own a submission finds no other batch under it.
LEMMA NothingToResolve ==
  ASSUME Inv, DistinctKeys, NEW r \in Requests
  PROVE  /\ Id(r) \in {None, "single", r}
         /\ pc[r] \in Early => Id(r) \in {None, "single"}
         /\ ~Load(r) /\ ~Install(r)
<1> USE DEF Inv, ChildInv
<1>1. Id(r) \in Requests => Id(r) = r
  BY KeyType DEF KeyInv, DistinctKeys, Id
<1>2. Id(r) \in Requests \cup {None, "single"}
  BY KeyType DEF TypeOK, StoreType, Id
<1> QED
  BY <1>1, <1>2 DEF OneObject, Own, Load, Install

\* A batch is owned for ever, and becomes so in the transaction of its call.
LEMMA OwnStep ==
  ASSUME Inv, DistinctKeys, [Next]_vars, NEW b \in Requests
  PROVE  /\ Own(b) => Own(b)'
         /\ Own(b)' /\ ~Own(b) => Create(b) /\ pc'[b] = "insert" /\ db' = [db EXCEPT ![b] = obj[b]]
<1> USE DEF Inv, ChildInv, Own, Id
<1>0. KeyOf[b] \in Keys /\ b # None /\ b # "single"
  BY KeyType, ActorsDiffer
<1>1. Own(b) => Own(b)'
  BY <1>0, LedgerStep DEF LedgerKept
<1>2. ASSUME UNCHANGED ledger
      PROVE  Own(b)' => Own(b)
  BY <1>2
<1>3. CASE Boot \/ (\E x \in Requests : Recover(x)) \/ RecoverySaved \/ BootPrune \/ BootDone \/
      WorkerTake \/ WorkerSaved \/ WorkerBegan \/ VerifyBlocks \/ VerifyPasses \/ WorkerBlocked \/
      RunnerEnds
  BY <1>3, <1>1, <1>2 DEF Boot, Recover, RecoverySaved, BootPrune, BootDone, WorkerTake,
        WorkerSaved, WorkerBegan, VerifyBlocks, VerifyPasses, WorkerBlocked, RunnerEnds
<1>4. CASE WorkerAborted \/ WorkerAcquire \/ OthersTakeLock \/ OthersReleaseLock \/ WorkerFails \/
      BlockFails \/ AbortFails \/ BootFails \/ (\E r \in Requests : SubmitFails(r)) \/ Crash \/
      PreviewCall \/ (\E r \in Requests : Submit(r))
  BY <1>4, <1>1, <1>2 DEF WorkerAborted, WorkerAcquire, OthersTakeLock, OthersReleaseLock,
        WorkerFails, Fault, BlockFails, AbortFails, BootFails, SubmitFails, Crash, PreviewCall,
        Submit
<1>5. CASE (\E r \in Requests : Lookup(r)) \/ (\E r \in Requests : Load(r)) \/ (\E r \in Requests :
      Install(r)) \/ (\E r \in Requests : Reject(r)) \/ (\E r \in Requests : Confirm(r)) \/ (\E r
      \in Requests : Insert(r)) \/ (\E r \in Requests : Evicted(r)) \/ (\E a \in Actors :
      SaveFinal(a)) \/ (\E a \in Actors : DeleteRow(a)) \/ (\E a \in Actors : Pop(a)) \/ UNCHANGED
      vars
  BY <1>5, <1>1, <1>2 DEF Lookup, Load, Install, Reject, Confirm, Insert, Evicted, SaveFinal,
        DeleteRow, Pop, vars
<1>6. ASSUME NEW k \in Keys, JobClaims(k)
      PROVE  Own(b)' => Own(b)
  BY <1>0, <1>6 DEF JobClaims, TypeOK, StoreType
<1>7. ASSUME NEW r \in Requests, Create(r)
      PROVE  Own(b)' /\ ~Own(b) => Create(b) /\ pc'[b] = "insert" /\ db' = [db EXCEPT ![b] = obj[b]]
  <2>1. CASE UNCHANGED ledger
    BY <1>2, <2>1
  <2>2. CASE ledger' # ledger
    <3>1. /\ ledger' = [ledger EXCEPT ![KeyOf[r]] = r] /\ Goto(r, "insert")
          /\ db' = [db EXCEPT ![r] = obj[r]]
      BY <1>7, <2>2 DEF Create, Claim
    <3>2. pc'[r] = "insert"
      BY <3>1, ActorsDiffer DEF Goto, TypeOK, PcType
    <3>3. Own(b)' /\ ~Own(b) => b = r
      BY <1>0, <3>1, KeyType DEF TypeOK, StoreType
    <3> QED
      BY <1>7, <3>1, <3>2, <3>3
  <2> QED
    BY <2>1, <2>2
<1> QED
  BY <1>1, <1>2, <1>3, <1>4, <1>5, <1>6, <1>7
  DEF Next, BootNext, HistoryNext, WorkerNext, SubmitNext, Others, Faults

-----------------------------------------------------------------------------
(* How record objects and rows change.                                     *)

\* What no step undoes: a finished batch stays finished, no child returns to
\* the queue, and its outcome stays but for a refusal whose save failed.
Progress(old, new) ==
  /\ IsActive(new) => IsActive(old)
  /\ \A c \in Children :
       /\ new.kids[c] = "queued" => old.kids[c] = "queued"
       /\ old.kids[c] \in ChildTerminal =>
            new.kids[c] = old.kids[c] \/ (faults' > 0 /\ old.kids[c] = "blocked" /\ new.kids[c] = "failed")

LEMMA FinalizedIs ==
  ASSUME NEW rec \in Record
  PROVE  Finalized(rec).kids = rec.kids /\ (IsActive(Finalized(rec)) => IsActive(rec))
<1>1. Verdict(rec) \notin ActiveStatuses
  BY DEF Verdict, ActiveStatuses
<1> QED
  BY <1>1 DEF Finalized, IsActive, Record

LEMMA FinalizedProgress == \A rec \in Record : Progress(rec, Finalized(rec))
BY FinalizedIs DEF Progress

LEMMA RecoveredProgress == \A rec \in Record : Progress(rec, Recovered(rec)) /\ Progress(rec, Finalized(Recovered(rec)))
<1> SUFFICES ASSUME NEW rec \in Record
             PROVE  Progress(rec, Recovered(rec)) /\ Progress(rec, Finalized(Recovered(rec)))
  OBVIOUS
<1>1. Progress(rec, Recovered(rec))
  <2>1. IsActive(Recovered(rec)) => IsActive(rec)
    BY NoneIsNoRecord DEF Recovered, IsActive, Record
  <2>2. \A c \in Children : Recovered(rec).kids[c] = IF rec.kids[c] = "running" THEN "failed" ELSE rec.kids[c]
    BY DEF Recovered
  <2> QED
    BY <2>1, <2>2 DEF Progress, ChildTerminal
<1>2. Recovered(rec) \in Record
  BY RecoveredType
<1> QED
  BY <1>1, <1>2, FinalizedIs DEF Progress

LEMMA AbortedProgress == \A rec \in Record : Progress(rec, Aborted(rec))
BY DEF Aborted, Progress, IsActive, Record, ActiveStatuses, ChildTerminal

\* A child at hand gets its next state.
LEMMA KidProgress ==
  ASSUME NEW rec \in Record, NEW c \in Children, NEW status \in {"running"} \cup ChildTerminal,
         \/ rec.kids[c] \in {"queued", "running"}
         \/ rec.kids[c] = "blocked" /\ status = "failed" /\ faults' > 0
  PROVE  Progress(rec, [rec EXCEPT !.kids[c] = status])
<1> DEFINE new == [rec EXCEPT !.kids[c] = status]
<1>1. IsActive(new) => IsActive(rec)
  BY NoneIsNoRecord DEF IsActive, Record
<1>2. \A d \in Children : new.kids[d] = IF d = c THEN status ELSE rec.kids[d]
  BY DEF Record
<1> QED
  BY <1>1, <1>2 DEF Progress, ChildTerminal

\* What the worker makes of the record at hand.
LEMMA CurrentStep ==
  ASSUME Inv, WorkerSaved \/ WorkerBlocked \/ VerifyBlocks \/ RunnerEnds \/ WorkerFails \/ BlockFails
  PROVE  /\ on["worker"] \in Requests /\ Current \in Record /\ Own(on["worker"])
         /\ \E rec \in Record : obj' = [obj EXCEPT ![on["worker"]] = rec] /\ Progress(Current, rec)
<1> USE DEF Inv, ChildInv
<1>1. on["worker"] \in Requests /\ Current \in Record /\ Own(on["worker"]) /\ kid \in Children /\ faults \in Nat
  BY DEF WorkerSaved, WorkerBlocked, VerifyBlocks, RunnerEnds, WorkerFails, BlockFails, Current, OneObject, Busy,
     TypeOK, ObjectType, PlaceType, StoreType
<1>2. ASSUME NEW rec \in Record, SetCurrent(rec), Progress(Current, rec)
      PROVE  \E x \in Record : obj' = [obj EXCEPT ![on["worker"]] = x] /\ Progress(Current, x)
  BY <1>2 DEF SetCurrent
<1>3. CASE WorkerSaved \/ WorkerBlocked
  <2>1. NextChild
    BY <1>3 DEF WorkerSaved, WorkerBlocked
  <2>2. CASE Queued(Current) # {}
    <3>1. PICK c \in Queued(Current) : SetCurrent([Current EXCEPT !.kids[c] = "running"])
      BY <2>1, <2>2 DEF NextChild
    <3>2. c \in Children /\ Current.kids[c] = "queued"
      BY <3>1 DEF Queued
    <3> QED
      BY <1>1, <1>2, <3>1, <3>2, KidType, KidProgress
  <2>3. CASE Queued(Current) = {}
    <3>1. SetCurrent(Finalized(Current))
      BY <2>1, <2>3 DEF NextChild
    <3> QED
      BY <1>1, <1>2, <3>1, FinalizedType, FinalizedProgress
  <2> QED
    BY <1>1, <2>2, <2>3
<1>4. CASE VerifyBlocks \/ RunnerEnds
  <2>1. PICK status \in ChildTerminal : SetCurrent([Current EXCEPT !.kids[kid] = status])
    BY <1>4 DEF VerifyBlocks, RunnerEnds, WithKid, ChildTerminal
  <2>2. Current.kids[kid] = "running"
    BY <1>4 DEF VerifyBlocks, RunnerEnds, ChildAtHand
  <2> QED
    BY <1>1, <1>2, <2>1, <2>2, KidType, KidProgress
<1>5. CASE WorkerFails
  <2>1. SetCurrent(Aborted(Current))
    BY <1>5 DEF WorkerFails
  <2> QED
    BY <1>1, <1>2, <2>1, AbortedType, AbortedProgress
<1>6. CASE BlockFails
  <2>1. SetCurrent([Current EXCEPT !.kids[kid] = "failed"]) /\ Current.kids[kid] = "blocked" /\ faults' > 0
    BY <1>1, <1>6 DEF BlockFails, Fault, WithKid, ChildAtHand
  <2> QED
    BY <1>1, <1>2, <2>1, KidType, KidProgress DEF ChildTerminal
<1> QED
  BY <1>1, <1>3, <1>4, <1>5, <1>6

\* Within a process the object of a batch only makes progress.
Grows(b) == obj'[b] = obj[b] \/ (obj[b] \in Record /\ obj'[b] \in Record /\ Progress(obj[b], obj'[b]))

LEMMA ObjectsStep ==
  ASSUME Inv, DistinctKeys, [Next]_vars, ~Boot, ~Crash, NEW b \in Requests, Own(b)
  PROVE  Grows(b)
<1> USE DEF Inv, ChildInv
<1>1. ASSUME UNCHANGED obj
      PROVE  Grows(b)
  BY <1>1 DEF Grows
<1>2. ASSUME NEW o \in Requests, obj[o] \in Record, NEW rec \in Record, obj' = [obj EXCEPT ![o] = rec],
             Progress(obj[o], rec)
      PROVE  Grows(b)
  BY <1>2 DEF Grows, TypeOK, ObjectType
<1>3. CASE BootPrune \/ BootDone \/ WorkerBegan \/ VerifyPasses \/ WorkerAborted \/ WorkerAcquire \/
      OthersTakeLock \/ OthersReleaseLock
  BY <1>3, <1>1 DEF BootPrune, BootDone, WorkerBegan, VerifyPasses, WorkerAborted, WorkerAcquire,
        OthersTakeLock, OthersReleaseLock
<1>4. CASE (\E k \in Keys : JobClaims(k)) \/ AbortFails \/ BootFails \/ (\E r \in Requests :
      SubmitFails(r)) \/ PreviewCall \/ (\E r \in Requests : Submit(r)) \/ (\E r \in Requests :
      Lookup(r)) \/ (\E r \in Requests : Reject(r))
  BY <1>4, <1>1 DEF JobClaims, AbortFails, Fault, BootFails, SubmitFails, PreviewCall, Submit,
        Lookup, Reject
<1>5. CASE (\E r \in Requests : Create(r)) \/ (\E a \in Actors : SaveFinal(a)) \/ (\E a \in Actors :
      DeleteRow(a)) \/ (\E a \in Actors : Pop(a)) \/ UNCHANGED vars
  BY <1>5, <1>1 DEF Create, SaveFinal, DeleteRow, Pop, vars
<1>6. ASSUME NEW r \in Requests, Recover(r)
      PROVE  Grows(b)
  <2>1. obj[r] \in Record
    BY <1>6 DEF Recover, TypeOK, ObjectType
  <2>2. \/ UNCHANGED obj
        \/ \E rec \in {Recovered(obj[r]), Finalized(Recovered(obj[r]))} : obj' = [obj EXCEPT ![r] = rec]
    BY <1>6 DEF Recover
  <2> QED
    BY <1>1, <1>2, <2>1, <2>2, RecoveredType, FinalizedType, RecoveredProgress
<1>7. CASE RecoverySaved
  <2>1. on["boot"] \in Requests /\ obj[on["boot"]] \in Record
    BY <1>7 DEF RecoverySaved, TypeOK, ObjectType
  <2>2. UNCHANGED obj \/ obj' = [obj EXCEPT ![on["boot"]] = Finalized(obj[on["boot"]])]
    BY <1>7 DEF RecoverySaved
  <2> QED
    BY <1>1, <1>2, <2>1, <2>2, FinalizedType, FinalizedProgress
<1>8. CASE WorkerTake
  <2> DEFINE o == mem[Head(queue)]
             rec == [obj[o] EXCEPT !.status = "running"]
  <2>1. UNCHANGED obj \/ (o # None /\ IsActive(obj[o]) /\ obj' = [obj EXCEPT ![o] = rec])
    BY <1>8 DEF WorkerTake
  <2>2. o # None => o \in Requests /\ obj[o] \in Record
    BY <1>8 DEF WorkerTake, TypeOK, ObjectType, QueueType
  <2>3. o # None => rec \in Record
    BY <2>2, StatusType DEF Statuses, ActiveStatuses
  <2>4. o # None /\ IsActive(obj[o]) => Progress(obj[o], rec)
    BY <2>2 DEF Progress, Record, ChildTerminal
  <2> QED
    BY <1>1, <1>2, <2>1, <2>2, <2>3, <2>4
<1>9. CASE WorkerSaved \/ WorkerBlocked \/ VerifyBlocks \/ RunnerEnds \/ WorkerFails \/ BlockFails
  BY <1>2, <1>9, CurrentStep DEF Current
<1>10. ASSUME NEW r \in Requests, Load(r) \/ Install(r)
      PROVE  Grows(b)
  BY <1>10, NothingToResolve
<1>11. ASSUME NEW r \in Requests, Confirm(r)
      PROVE  Grows(b)
  <2>1. r # b
    BY <1>11 DEF Confirm, OneObject, Early
  <2> QED
    BY <1>11, <2>1 DEF Confirm, Grows, TypeOK, ObjectType
<1>12. ASSUME NEW r \in Requests, Insert(r) \/ Evicted(r)
      PROVE  Grows(b)
  <2>1. obj[r] \in Record
    BY <1>12 DEF Insert, Evicted, TypeOK, ObjectType, Holds
  <2>2. UNCHANGED obj \/ obj' = [obj EXCEPT ![r] = Finalized(obj[r])]
    BY <1>12 DEF Insert, Evicted, Settle
  <2> QED
    BY <1>1, <1>2, <2>1, <2>2, FinalizedType, FinalizedProgress
<1> QED
  BY <1>1, <1>2, <1>3, <1>4, <1>5, <1>6, <1>7, <1>8, <1>9, <1>10, <1>11, <1>12
  DEF Next, BootNext, HistoryNext, WorkerNext, SubmitNext, Others, Faults

\* A row stays, is the object saved by whoever works on it, or is removed when
\* its batch is over; a new one is that of the call that claims its key.
RowMoves(b) ==
  \/ db'[b] = db[b]
  \/ db'[b] = obj[b] /\ obj[b] \in Record /\ Own(b)
  \/ db'[b] = None /\ Own(b) /\ obj[b] # None /\ ~IsActive(obj[b])
  \/ db'[b] = obj[b] /\ obj[b] \in Record /\ Create(b) /\ Own(b)' /\ ~Own(b) /\ obj' = obj

LEMMA RowsStep ==
  ASSUME Inv, DistinctKeys, [Next]_vars, NEW b \in Requests
  PROVE  RowMoves(b)
<1> USE ActorsDiffer DEF Inv, ChildInv
<1>1. ASSUME UNCHANGED db
      PROVE  RowMoves(b)
  BY <1>1 DEF RowMoves
<1>2. ASSUME NEW o \in Requests, Store(o), obj[o] \in Record, Own(o)
      PROVE  RowMoves(b)
  BY <1>2 DEF RowMoves, Store, Own, TypeOK, StoreType
<1>3. CASE Boot \/ (\E x \in Requests : Recover(x)) \/ BootPrune \/ BootDone \/ WorkerTake \/
      VerifyBlocks \/ VerifyPasses \/ RunnerEnds
  BY <1>3, <1>1 DEF Boot, Recover, BootPrune, BootDone, WorkerTake, VerifyBlocks, VerifyPasses,
        RunnerEnds
<1>4. CASE WorkerAcquire \/ OthersTakeLock \/ OthersReleaseLock \/ (\E k \in Keys : JobClaims(k)) \/
      WorkerFails \/ BlockFails \/ AbortFails \/ BootFails
  BY <1>4, <1>1 DEF WorkerAcquire, OthersTakeLock, OthersReleaseLock, JobClaims, WorkerFails, Fault,
        BlockFails, AbortFails, BootFails
<1>5. CASE (\E r \in Requests : SubmitFails(r)) \/ Crash \/ PreviewCall \/ (\E r \in Requests :
      Submit(r)) \/ (\E r \in Requests : Lookup(r)) \/ (\E r \in Requests : Load(r)) \/ (\E r \in
      Requests : Install(r)) \/ (\E r \in Requests : Reject(r))
  BY <1>5, <1>1 DEF SubmitFails, Fault, Crash, PreviewCall, Submit, Lookup, Load, Install, Reject
<1>6. CASE (\E r \in Requests : Confirm(r)) \/ (\E r \in Requests : Insert(r)) \/ (\E r \in Requests
      : Evicted(r)) \/ (\E a \in Actors : Pop(a)) \/ UNCHANGED vars
  BY <1>6, <1>1 DEF Confirm, Insert, Evicted, Pop, vars
<1>7. CASE RecoverySaved
  BY <1>2, <1>7 DEF RecoverySaved, OneObject, TypeOK, ObjectType
<1>8. CASE WorkerSaved \/ WorkerBegan \/ WorkerBlocked \/ WorkerAborted
  BY <1>2, <1>8 DEF WorkerSaved, WorkerBegan, WorkerBlocked, WorkerAborted, OneObject, Busy, TypeOK, ObjectType
<1>9. ASSUME NEW r \in Requests, Create(r)
      PROVE  RowMoves(b)
  <2>1. CASE UNCHANGED db
    BY <1>1, <2>1
  <2>2. CASE db' # db
    <3>1. /\ db' = [db EXCEPT ![r] = obj[r]] /\ ledger' = [ledger EXCEPT ![KeyOf[r]] = r]
          /\ Id(r) = None /\ obj' = obj /\ obj[r] \in Record
      BY <1>9, <2>2 DEF Create, Claim, TypeOK, ObjectType, Holds
    <3>2. Own(r)' /\ ~Own(r)
      BY <3>1, KeyType DEF Own, Id, TypeOK, StoreType
    <3> QED
      BY <1>9, <3>1, <3>2 DEF RowMoves, TypeOK, StoreType
  <2> QED
    BY <2>1, <2>2
<1>10. ASSUME NEW a \in Actors, SaveFinal(a)
      PROVE  RowMoves(b)
  <2>1. CASE a \in Requests
    <3>1. Store(a) /\ obj[a] \in Record /\ Own(a)
      BY <1>10, <2>1 DEF SaveFinal, KeyInv, Owns, Own, Holds, TypeOK, ObjectType
    <3> QED
      BY <1>2, <2>1, <3>1
  <2>2. CASE a \notin Requests
    <3>1. Store(on[a]) /\ a \in {"worker", "boot"} /\ pc[a] = "final"
      BY <1>10, <2>2 DEF SaveFinal, Actors
    <3>2. on[a] \in Requests /\ obj[on[a]] \in Record /\ Own(on[a])
      BY <3>1 DEF OneObject, Busy, TypeOK, ObjectType
    <3> QED
      BY <1>2, <3>1, <3>2
  <2> QED
    BY <2>1, <2>2
<1>11. ASSUME NEW a \in Actors, DeleteRow(a)
      PROVE  RowMoves(b)
  <2>1. pc[a] \in Pruning /\ todo[a] \in SUBSET Requests /\ db' = [db EXCEPT ![Oldest(todo[a])] = None]
    BY <1>11 DEF DeleteRow, Pruning, TypeOK, QueueType
  <2>2. Oldest(todo[a]) \in todo[a]
    BY <2>1, OldestIn DEF EndedFirst
  <2> QED
    BY <2>1, <2>2 DEF EndedFirst, RowMoves, TypeOK, StoreType
<1> QED
  BY <1>1, <1>2, <1>3, <1>4, <1>5, <1>6, <1>7, <1>8, <1>9, <1>10, <1>11
  DEF Next, BootNext, HistoryNext, WorkerNext, SubmitNext, Others, Faults

-----------------------------------------------------------------------------
(* A batch has one object.                                                 *)

\* A submission that has left its first steps does not return to them, and with
\* a key of its own never loads the batch of another one.
LEMMA EarlyStep ==
  ASSUME Inv, DistinctKeys, [Next]_vars, NEW b \in Requests
  PROVE  (pc'[b] \in Early => pc[b] \in Early) /\ pc'[b] \notin {"load", "install"}
<1> USE ActorsDiffer DEF Inv, ChildInv
<1> DEFINE Goal == (pc'[b] \in Early => pc[b] \in Early) /\ pc'[b] \notin {"load", "install"}
<1>1. ASSUME pc'[b] = pc[b] \/ pc'[b] \notin {"new", "lookup", "preview", "create", "load", "install"}
      PROVE  Goal
  BY <1>1 DEF OneObject, Early
<1>2. ASSUME UNCHANGED pc \/ (\E a \in Actors \ {b} : \E point : Goto(a, point))
      PROVE  Goal
  BY <1>1, <1>2 DEF Goto, TypeOK, PcType
<1>3. ASSUME NEW a \in Actors, NEW point, Goto(a, point),
             point \notin {"new", "lookup", "preview", "create", "load", "install"}
      PROVE  Goal
  BY <1>1, <1>3 DEF Goto, TypeOK, PcType
<1>4. CASE (\E x \in Requests : Recover(x)) \/ RecoverySaved \/ BootPrune \/ WorkerTake
  BY <1>4, <1>2 DEF Recover, RecoverySaved, BootPrune, WorkerTake
<1>5. CASE WorkerBegan \/ VerifyBlocks \/ VerifyPasses \/ RunnerEnds
  BY <1>5, <1>2 DEF WorkerBegan, VerifyBlocks, VerifyPasses, RunnerEnds
<1>6. CASE WorkerAborted \/ WorkerAcquire \/ OthersTakeLock \/ OthersReleaseLock
  BY <1>6, <1>2 DEF WorkerAborted, WorkerAcquire, OthersTakeLock, OthersReleaseLock
<1>7. CASE (\E k \in Keys : JobClaims(k)) \/ WorkerFails \/ BlockFails \/ AbortFails
  BY <1>7, <1>2 DEF JobClaims, WorkerFails, Fault, BlockFails, AbortFails
<1>8. CASE BootFails \/ PreviewCall \/ UNCHANGED vars
  BY <1>8, <1>2 DEF BootFails, Fault, PreviewCall, vars
<1>9. CASE WorkerSaved \/ WorkerBlocked
  BY <1>2, <1>9 DEF WorkerSaved, WorkerBlocked, NextChild
<1>10. CASE Crash
  BY <1>1, <1>10 DEF Crash
<1>11. CASE BootDone \/ Boot
  BY <1>1, <1>11 DEF BootDone, Boot, Goto, TypeOK, PcType
<1>12. ASSUME NEW r \in Requests, Submit(r) \/ Confirm(r) \/ Load(r) \/ Install(r)
      PROVE  Goal
  BY <1>12, NothingToResolve DEF Submit, Confirm, Goto, Early, OneObject, TypeOK, PcType
<1>13. ASSUME NEW r \in Requests, Lookup(r) \/ Create(r)
      PROVE  Goal
  <2>1. Id(r) \in {None, "single"} /\ pc[r] \in Early
    BY <1>13, NothingToResolve DEF Lookup, Create, Early
  <2>2. Resolve(r) /\ Id(r) # None => Goto(r, "done")
    BY <2>1 DEF Resolve, Reply
  <2>3. \E point \in {"preview", "done", "insert"} : Goto(r, point)
    BY <1>13, <2>2 DEF Lookup, Create, Claim, Reply
  <2> QED
    BY <2>1, <2>3 DEF Goto, Early, OneObject, TypeOK, PcType
<1>14. ASSUME NEW r \in Requests, Reject(r) \/ SubmitFails(r) \/ Insert(r) \/ Evicted(r)
      PROVE  Goal
  <2>1. \E point \in {"done", "final", "evict"} : Goto(r, point)
    BY <1>14 DEF Reject, SubmitFails, Insert, Evicted, Settle, Reply
  <2> QED
    BY <1>3, <2>1
<1>15. ASSUME NEW a \in Actors, SaveFinal(a) \/ DeleteRow(a) \/ Pop(a)
      PROVE  Goal
  <2>1. \E point \in {"prune", "pruned", "evicted", After(a)} : Goto(a, point)
    BY <1>15 DEF SaveFinal, DeleteRow, Pop
  <2> QED
    BY <1>3, <2>1 DEF After
<1> QED
  BY <1>1, <1>2, <1>3, <1>4, <1>5, <1>6, <1>7, <1>8, <1>9, <1>10, <1>11, <1>12, <1>13, <1>14, <1>15
  DEF Next, BootNext, HistoryNext, WorkerNext, SubmitNext, Others, Faults

\* The object of a batch is its own, or nobody's.
LEMMA VisibleStep ==
  ASSUME Inv, DistinctKeys, [Next]_vars, NEW b \in Requests
  PROVE  mem'[b] # None => mem'[b] = b /\ Own(b)
<1> USE ActorsDiffer DEF Inv, ChildInv
<1>1. ASSUME UNCHANGED mem
      PROVE  mem'[b] # None => mem'[b] = b /\ Own(b)
  BY <1>1 DEF OneObject
<1>2. ASSUME NEW x, mem' = [mem EXCEPT ![x] = None]
      PROVE  mem'[b] # None => mem'[b] = b /\ Own(b)
  BY <1>2 DEF OneObject, TypeOK, ObjectType
<1>3. CASE (\E x \in Requests : Recover(x)) \/ RecoverySaved \/ BootPrune \/ BootDone \/ WorkerTake
      \/ WorkerSaved \/ WorkerBegan \/ VerifyBlocks
  BY <1>3, <1>1 DEF Recover, RecoverySaved, BootPrune, BootDone, WorkerTake, WorkerSaved,
        WorkerBegan, VerifyBlocks
<1>4. CASE VerifyPasses \/ WorkerBlocked \/ RunnerEnds \/ WorkerAborted \/ WorkerAcquire \/
      OthersTakeLock \/ OthersReleaseLock \/ (\E k \in Keys : JobClaims(k))
  BY <1>4, <1>1 DEF VerifyPasses, WorkerBlocked, RunnerEnds, WorkerAborted, WorkerAcquire,
        OthersTakeLock, OthersReleaseLock, JobClaims
<1>5. CASE WorkerFails \/ BlockFails \/ AbortFails \/ BootFails \/ (\E r \in Requests :
      SubmitFails(r)) \/ PreviewCall \/ (\E r \in Requests : Submit(r)) \/ (\E r \in Requests :
      Lookup(r))
  BY <1>5, <1>1 DEF WorkerFails, Fault, BlockFails, AbortFails, BootFails, SubmitFails, PreviewCall,
        Submit, Lookup
<1>6. CASE (\E r \in Requests : Load(r)) \/ (\E r \in Requests : Reject(r)) \/ (\E r \in Requests :
      Confirm(r)) \/ (\E r \in Requests : Create(r)) \/ (\E a \in Actors : SaveFinal(a)) \/ (\E a
      \in Actors : DeleteRow(a)) \/ UNCHANGED vars
  BY <1>6, <1>1 DEF Load, Reject, Confirm, Create, SaveFinal, DeleteRow, vars
<1>7. CASE Boot \/ Crash
  BY <1>7 DEF Boot, Crash, OneObject
<1>8. ASSUME NEW r \in Requests, Install(r)
      PROVE  mem'[b] # None => mem'[b] = b /\ Own(b)
  BY <1>8, NothingToResolve
<1>9. ASSUME NEW r \in Requests, Insert(r)
      PROVE  mem'[b] # None => mem'[b] = b /\ Own(b)
  BY <1>9 DEF Insert, KeyInv, Owns, Holds, Own, OneObject, TypeOK, ObjectType
<1>10. ASSUME NEW r \in Requests, Evicted(r)
      PROVE  mem'[b] # None => mem'[b] = b /\ Own(b)
  BY <1>2, <1>10 DEF Evicted, Drop
<1>11. ASSUME NEW a \in Actors, Pop(a)
      PROVE  mem'[b] # None => mem'[b] = b /\ Own(b)
  BY <1>2, <1>11 DEF Pop, Drop
<1> QED
  BY <1>1, <1>2, <1>3, <1>4, <1>5, <1>6, <1>7, <1>8, <1>9, <1>10, <1>11
  DEF Next, BootNext, HistoryNext, WorkerNext, SubmitNext, Others, Faults

\* start() and the worker are at a batch of their own.
LEMMA PlacesStep ==
  ASSUME Inv, DistinctKeys, [Next]_vars
  PROVE  /\ \A b \in rest' : Own(b)
         /\ Busy' => Own(on'["worker"])
         /\ pc'["boot"] \in {"save", "final"} => Own(on'["boot"])
<1> USE ActorsDiffer DEF Inv, ChildInv
<1> DEFINE Goal == /\ \A b \in rest' : Own(b)
                   /\ Busy' => Own(on'["worker"])
                   /\ pc'["boot"] \in {"save", "final"} => Own(on'["boot"])
<1>1. ASSUME UNCHANGED <<rest, on>>, UNCHANGED pc \/ (\E r \in Requests : \E point : Goto(r, point))
      PROVE  Goal
  BY <1>1 DEF OneObject, Busy, Goto, TypeOK, PcType
<1>2. ASSUME UNCHANGED <<rest, on>>, Busy, \E point : Goto("worker", point)
      PROVE  Goal
  BY <1>2 DEF OneObject, Busy, Goto, TypeOK, PcType
<1>3. ASSUME UNCHANGED <<rest, on>>, NEW point, Goto("boot", point),
             point \in {"save", "final"} => pc["boot"] \in {"save", "final"}
      PROVE  Goal
  BY <1>3 DEF OneObject, Busy, Goto, TypeOK, PcType
<1>4. CASE OthersTakeLock \/ OthersReleaseLock \/ (\E k \in Keys : JobClaims(k)) \/ (\E r \in
      Requests : SubmitFails(r))
  BY <1>4, <1>1 DEF Reply, Resolve, Settle, Claim, OthersTakeLock, OthersReleaseLock, JobClaims,
        SubmitFails, Fault
<1>5. CASE PreviewCall \/ (\E r \in Requests : Submit(r)) \/ (\E r \in Requests : Lookup(r)) \/ (\E
      r \in Requests : Load(r))
  BY <1>5, <1>1 DEF Reply, Resolve, Settle, Claim, PreviewCall, Submit, Lookup, Load
<1>6. CASE (\E r \in Requests : Install(r)) \/ (\E r \in Requests : Reject(r)) \/ (\E r \in Requests
      : Confirm(r)) \/ (\E r \in Requests : Create(r))
  BY <1>6, <1>1 DEF Reply, Resolve, Settle, Claim, Install, Reject, Confirm, Create
<1>7. CASE (\E r \in Requests : Insert(r)) \/ (\E r \in Requests : Evicted(r)) \/ UNCHANGED vars
  BY <1>7, <1>1 DEF Reply, Resolve, Settle, Claim, Insert, Evicted, vars
<1>8. CASE Boot
  BY <1>8 DEF Boot, OneObject, Busy, Goto, TypeOK, PcType
<1>9. ASSUME NEW b \in Requests, Recover(b)
      PROVE  Goal
  <2>1. Own(b) /\ on' = [on EXCEPT !["boot"] = b] /\ rest' = rest \ {b}
    BY <1>9 DEF Recover, OneObject
  <2>2. UNCHANGED pc \/ (\E point : Goto("boot", point))
    BY <1>9 DEF Recover
  <2> QED
    BY <2>1, <2>2 DEF OneObject, Busy, Goto, TypeOK, PcType, PlaceType
<1>10. CASE RecoverySaved \/ BootPrune \/ BootFails
  <2>1. UNCHANGED <<rest, on>>
    BY <1>10 DEF RecoverySaved, BootPrune, BootFails, Fault
  <2>2. \E point : Goto("boot", point) /\ (point \in {"save", "final"} => pc["boot"] \in {"save", "final"})
    BY <1>10 DEF RecoverySaved, BootPrune, BootFails
  <2> QED
    BY <1>3, <2>1, <2>2
<1>11. CASE BootDone
  BY <1>11 DEF BootDone, OneObject, Busy, TypeOK, PcType
<1>12. CASE Crash
  BY <1>12 DEF Crash, Busy
<1>13. CASE WorkerTake
  <2>1. CASE UNCHANGED <<pc, on>>
    BY <1>1, <1>13, <2>1 DEF WorkerTake
  <2>2. CASE ~UNCHANGED <<pc, on>>
    <3> DEFINE o == mem[Head(queue)]
    <3>1. o # None /\ on' = [on EXCEPT !["worker"] = o] /\ Goto("worker", "start") /\ rest' = rest
      BY <1>13, <2>2 DEF WorkerTake
    <3>2. Head(queue) \in Requests
      BY <1>13 DEF WorkerTake, TypeOK, QueueType
    <3>3. Own(o)
      BY <3>1, <3>2 DEF OneObject
    <3> HIDE DEF o
    <3> QED
      BY <3>1, <3>3 DEF OneObject, Goto, TypeOK, PcType, PlaceType
  <2> QED
    BY <2>1, <2>2
<1>14. CASE WorkerSaved \/ WorkerBegan \/ VerifyBlocks \/ VerifyPasses \/ WorkerBlocked \/ RunnerEnds \/ WorkerAborted
             \/ WorkerAcquire \/ WorkerFails \/ BlockFails \/ AbortFails
  <2>1. UNCHANGED <<rest, on>> /\ Busy /\ \E point : Goto("worker", point)
    BY <1>14 DEF WorkerSaved, WorkerBegan, VerifyBlocks, VerifyPasses, WorkerBlocked, RunnerEnds, WorkerAborted,
       WorkerAcquire, WorkerFails, BlockFails, AbortFails, Fault, NextChild, Busy
  <2> QED
    BY <1>2, <2>1
<1>15. ASSUME NEW a \in Actors, SaveFinal(a) \/ DeleteRow(a) \/ Pop(a)
      PROVE  Goal
  <2>1. UNCHANGED <<rest, on>> /\ pc[a] \in {"final", "prune", "evict", "pruned"}
    BY <1>15 DEF SaveFinal, DeleteRow, Pop
  <2>2. PICK point : Goto(a, point) /\ point \in {"prune", "pruned", "evicted", After(a)}
    BY <1>15 DEF SaveFinal, DeleteRow, Pop
  <2>3. CASE a \in Requests
    BY <1>1, <2>1, <2>2, <2>3
  <2>4. CASE a = "worker"
    BY <1>2, <2>1, <2>2, <2>4 DEF Busy
  <2>5. CASE a = "boot"
    BY <1>3, <2>1, <2>2, <2>5 DEF After
  <2> QED
    BY <2>3, <2>4, <2>5 DEF Actors
<1> QED
  BY <1>1, <1>2, <1>3, <1>4, <1>5, <1>6, <1>7, <1>8, <1>9, <1>10, <1>11, <1>12, <1>13, <1>14, <1>15
  DEF Next, BootNext, HistoryNext, WorkerNext, SubmitNext, Others, Faults

\* Only a plan that is verified starts a run, of the child at hand.
LEMMA RanStep ==
  ASSUME Inv, DistinctKeys, [Next]_vars, NEW b \in Requests, NEW c \in Children
  PROVE  \/ ran'[b][c] = ran[b][c]
         \/ VerifyPasses /\ b = on["worker"] /\ c = kid /\ ran'[b][c] = ran[b][c] + 1
<1> USE DEF Inv, ChildInv
<1>1. ASSUME UNCHANGED ran
      PROVE  ran'[b][c] = ran[b][c]
  BY <1>1
<1>2. CASE Boot \/ (\E x \in Requests : Recover(x)) \/ RecoverySaved \/ BootPrune \/ BootDone \/
      WorkerTake \/ WorkerSaved \/ WorkerBegan \/ VerifyBlocks
  BY <1>2, <1>1 DEF Boot, Recover, RecoverySaved, BootPrune, BootDone, WorkerTake, WorkerSaved,
        WorkerBegan, VerifyBlocks
<1>3. CASE WorkerBlocked \/ RunnerEnds \/ WorkerAborted \/ WorkerAcquire \/ OthersTakeLock \/
      OthersReleaseLock \/ (\E k \in Keys : JobClaims(k)) \/ WorkerFails \/ BlockFails
  BY <1>3, <1>1 DEF WorkerBlocked, RunnerEnds, WorkerAborted, WorkerAcquire, OthersTakeLock,
        OthersReleaseLock, JobClaims, WorkerFails, Fault, BlockFails
<1>4. CASE AbortFails \/ BootFails \/ (\E r \in Requests : SubmitFails(r)) \/ Crash \/ PreviewCall
      \/ (\E r \in Requests : Submit(r)) \/ (\E r \in Requests : Lookup(r)) \/ (\E r \in Requests :
      Load(r)) \/ (\E r \in Requests : Install(r))
  BY <1>4, <1>1 DEF AbortFails, Fault, BootFails, SubmitFails, Crash, PreviewCall, Submit, Lookup,
        Load, Install
<1>5. CASE (\E r \in Requests : Reject(r)) \/ (\E r \in Requests : Confirm(r)) \/ (\E r \in Requests
      : Create(r)) \/ (\E r \in Requests : Insert(r)) \/ (\E r \in Requests : Evicted(r)) \/ (\E a
      \in Actors : SaveFinal(a)) \/ (\E a \in Actors : DeleteRow(a)) \/ (\E a \in Actors : Pop(a))
      \/ UNCHANGED vars
  BY <1>5, <1>1 DEF Reject, Confirm, Create, Insert, Evicted, SaveFinal, DeleteRow, Pop, vars
<1>6. CASE VerifyPasses
  <2>1. on["worker"] \in Requests /\ Id(on["worker"]) = on["worker"]
    BY <1>6 DEF VerifyPasses, OneObject, Busy, Own, TypeOK, ObjectType
  <2> DEFINE counts == [ran[on["worker"]] EXCEPT ![kid] = @ + 1]
  <2>2. ran' = [ran EXCEPT ![on["worker"]] = counts]
    BY <1>6, <2>1 DEF VerifyPasses
  <2>3. counts[kid] = ran[on["worker"]][kid] + 1 /\ \A d \in Children : d # kid => counts[d] = ran[on["worker"]][d]
    BY <2>1 DEF TypeOK, StoreType, PlaceType
  <2> HIDE DEF counts
  <2>4. CASE b = on["worker"] /\ c = kid
    BY <1>6, <2>1, <2>2, <2>3, <2>4 DEF TypeOK, StoreType
  <2>5. CASE ~(b = on["worker"] /\ c = kid)
    BY <2>1, <2>2, <2>3, <2>5 DEF TypeOK, StoreType
  <2> QED
    BY <2>4, <2>5
<1> QED
  BY <1>1, <1>2, <1>3, <1>4, <1>5, <1>6
  DEF Next, BootNext, HistoryNext, WorkerNext, SubmitNext, Others, Faults

LEMMA OneObjectStep ==
  ASSUME Inv, DistinctKeys, [Next]_vars
  PROVE  OneObject'
<1> USE DEF Inv, ChildInv
<1>1. \A b \in Requests : Own(b) => Own(b)'
  BY OwnStep
<1>2. TypeOK'
  BY StoreStep, QueueStep, PcStep, PlaceStep, ObjectStep DEF TypeOK
<1>3. ASSUME NEW b \in Requests
      PROVE  db'[b] # None => Own(b)'
  BY <1>1, RowsStep DEF RowMoves, OneObject
<1>4. ASSUME NEW b \in Requests
      PROVE  mem'[b] # None => mem'[b] = b /\ Own(b)'
  BY <1>1, VisibleStep
<1>5. ASSUME NEW b \in Requests
      PROVE  (pc'[b] \in Early => ~Own(b)') /\ pc'[b] \notin {"load", "install"}
  BY EarlyStep, OwnStep DEF OneObject, Early
<1>6. ASSUME NEW b \in Requests, NEW c \in Children
      PROVE  ran'[b][c] # 0 => Own(b)'
  BY <1>1, RanStep DEF VerifyPasses, OneObject, Busy
<1>7. /\ \A b \in rest' : Own(b)'
      /\ (Busy => Own(on["worker"]))'
      /\ (pc["boot"] \in {"save", "final"} => Own(on["boot"]))'
  <2>1. (Busy => on["worker"] \in Requests)' /\ (pc["boot"] \in {"save", "final"} => on["boot"] \in Requests)'
        /\ rest' \subseteq Requests
    BY <1>2 DEF TypeOK, PlaceType, ObjectType, Busy
  <2> QED
    BY <1>1, <2>1, PlacesStep DEF Own, Id
<1> QED
  BY <1>3, <1>4, <1>5, <1>6, <1>7 DEF OneObject, Own, Id

-----------------------------------------------------------------------------
(* What is finished, what ran and what came out of it.                     *)

\* A finished object stays one while its process lives.
LEMMA FinishedStays ==
  ASSUME Inv, DistinctKeys, [Next]_vars, ~Boot, ~Crash, NEW b \in Requests, Own(b), obj[b] # None, ~IsActive(obj[b])
  PROVE  obj'[b] # None /\ ~IsActive(obj'[b])
BY ObjectsStep, NoneIsNoRecord DEF Grows, Progress

\* What _prune_history picks is finished.
LEMMA VictimsFinished ==
  ASSUME Inv, NEW m \in [Requests -> Requests \cup {None}], NEW b \in Victims(obj, m),
         \A x \in Requests : m[x] # None => m[x] = x /\ Own(x) /\ obj[x] # None
  PROVE  b \in Requests /\ Own(b) /\ obj[b] # None /\ ~IsActive(obj[b])
BY DEF Victims

\* Whoever prunes has something to prune, picked now or before.
PrunesOn(a) ==
  pc'[a] \in Pruning =>
    todo'[a] # {} /\ \A b \in todo'[a] :
      (pc[a] \in Pruning /\ b \in todo[a]) \/ (b \in Requests /\ Own(b) /\ obj[b] # None /\ ~IsActive(obj[b]))

LEMMA PruningStep ==
  ASSUME Inv, DistinctKeys, [Next]_vars, NEW a \in Actors
  PROVE  PrunesOn(a)
<1> USE ActorsDiffer DEF Inv, ChildInv
<1>1. ASSUME todo'[a] = todo[a], pc'[a] \in Pruning => pc[a] \in Pruning
      PROVE  PrunesOn(a)
  BY <1>1 DEF PrunesOn, EndedFirst
<1>2. ASSUME UNCHANGED todo,
             UNCHANGED pc \/ (\E x \in Actors, point \in (RequestPcs \cup WorkerPcs \cup BootPcs) \ Pruning : Goto(x, point))
      PROVE  PrunesOn(a)
  BY <1>1, <1>2 DEF Goto, TypeOK, PcType
<1>3. ASSUME NEW x \in Actors, x # a, NEW left, todo' = [todo EXCEPT ![x] = left], \E point : Goto(x, point)
      PROVE  PrunesOn(a)
  BY <1>1, <1>3 DEF Goto, TypeOK, PcType, QueueType
<1>4. ASSUME NEW x \in Actors, x # a, UNCHANGED todo, \E point : Goto(x, point)
      PROVE  PrunesOn(a)
  BY <1>1, <1>4 DEF Goto, TypeOK, PcType, QueueType
<1>5. ASSUME NEW b \in Victims(obj, mem)
      PROVE  b \in Requests /\ Own(b) /\ obj[b] # None /\ ~IsActive(obj[b])
  BY <1>5, NoneIsNoRecord DEF Victims, OneObject, TypeOK, ObjectType
<1>6. CASE (\E x \in Requests : Recover(x)) \/ RecoverySaved \/ WorkerTake \/ WorkerBegan
  BY <1>6, <1>2 DEF Reply, Resolve, Claim, Pruning, RequestPcs, WorkerPcs, BootPcs, Recover,
        RecoverySaved, WorkerTake, WorkerBegan
<1>7. CASE VerifyBlocks \/ VerifyPasses \/ RunnerEnds \/ WorkerAborted
  BY <1>7, <1>2 DEF Reply, Resolve, Claim, Pruning, RequestPcs, WorkerPcs, BootPcs, VerifyBlocks,
        VerifyPasses, RunnerEnds, WorkerAborted
<1>8. CASE WorkerAcquire \/ OthersTakeLock \/ OthersReleaseLock \/ (\E k \in Keys : JobClaims(k))
  BY <1>8, <1>2 DEF Reply, Resolve, Claim, Pruning, RequestPcs, WorkerPcs, BootPcs, WorkerAcquire,
        OthersTakeLock, OthersReleaseLock, JobClaims
<1>9. CASE WorkerFails \/ BlockFails \/ AbortFails \/ BootFails
  BY <1>9, <1>2 DEF Reply, Resolve, Claim, Pruning, RequestPcs, WorkerPcs, BootPcs, WorkerFails,
        Fault, BlockFails, AbortFails, BootFails
<1>10. CASE (\E r \in Requests : SubmitFails(r)) \/ PreviewCall \/ (\E r \in Requests : Submit(r))
      \/ (\E r \in Requests : Lookup(r))
  BY <1>10, <1>2 DEF Reply, Resolve, Claim, Pruning, RequestPcs, WorkerPcs, BootPcs, SubmitFails,
        Fault, PreviewCall, Submit, Lookup
<1>11. CASE (\E r \in Requests : Load(r)) \/ (\E r \in Requests : Install(r)) \/ (\E r \in Requests
      : Reject(r)) \/ (\E r \in Requests : Confirm(r))
  BY <1>11, <1>2 DEF Reply, Resolve, Claim, Pruning, RequestPcs, WorkerPcs, BootPcs, Load, Install,
        Reject, Confirm
<1>12. CASE (\E r \in Requests : Create(r)) \/ UNCHANGED vars
  BY <1>12, <1>2 DEF Reply, Resolve, Claim, Pruning, RequestPcs, WorkerPcs, BootPcs, Create, vars
<1>13. CASE WorkerSaved \/ WorkerBlocked
  BY <1>2, <1>13 DEF WorkerSaved, WorkerBlocked, NextChild, Pruning, RequestPcs, WorkerPcs, BootPcs
<1>14. CASE BootDone \/ Crash \/ Boot
  <2>1. pc'[a] \notin Pruning \/ (pc'[a] = pc[a] /\ UNCHANGED todo)
    BY <1>14 DEF BootDone, Crash, Boot, Goto, Pruning, TypeOK, PcType
  <2> QED
    BY <1>1, <2>1 DEF PrunesOn
<1>15. CASE BootPrune
  <2>1. CASE a = "boot"
    BY <1>5, <1>15, <2>1 DEF BootPrune, PrunesOn, TypeOK, QueueType
  <2>2. CASE a # "boot"
    BY <1>3, <1>15, <2>2 DEF BootPrune
  <2> QED
    BY <2>1, <2>2
<1>16. ASSUME NEW r \in Requests, Insert(r)
      PROVE  PrunesOn(a)
  <2>1. CASE a = r
    <3>1. ASSUME NEW b \in Victims(obj, mem')
          PROVE  b \in Requests /\ Own(b) /\ obj[b] # None /\ ~IsActive(obj[b])
      <4>1. b \in Requests /\ mem'[b] # None /\ ~IsActive(obj[mem'[b]])
        BY <3>1 DEF Victims
      <4>2. mem'[b] = b /\ Own(b)
        BY <4>1, VisibleStep
      <4>3. obj[b] \in Record
        BY <1>16, <4>1, <4>2 DEF Insert, OneObject, Holds, TypeOK, ObjectType
      <4> QED
        BY <4>1, <4>2, <4>3, NoneIsNoRecord
    <3>2. todo'[r] = Victims(obj, mem') /\ (pc'[r] \in Pruning => todo'[r] # {})
      BY <1>16 DEF Insert, Settle, Reply, Goto, Pruning, TypeOK, QueueType, PcType
    <3> QED
      BY <2>1, <3>1, <3>2 DEF PrunesOn
  <2>2. CASE a # r
    <3>1. \E point : Goto(r, point)
      BY <1>16 DEF Insert, Settle, Reply
    <3> QED
      BY <1>3, <1>16, <2>2, <3>1 DEF Insert
  <2> QED
    BY <2>1, <2>2
<1>17. ASSUME NEW r \in Requests, Evicted(r)
      PROVE  PrunesOn(a)
  <2>1. pc[r] \in Pruning /\ todo' = [todo EXCEPT ![r] = @ \ {Oldest(@)}]
    BY <1>17 DEF Evicted, Drop, Pruning
  <2>2. \E point : Goto(r, point)
    BY <1>17 DEF Evicted, Settle, Reply
  <2>3. pc'[r] \in Pruning => todo'[r] # {}
    BY <1>17 DEF Evicted, Settle, Reply, Goto, Pruning, TypeOK, PcType
  <2>4. todo'[r] \subseteq todo[r]
    BY <2>1 DEF TypeOK, QueueType
  <2> QED
    BY <1>3, <2>1, <2>2, <2>3, <2>4 DEF PrunesOn
<1>18. ASSUME NEW x \in Actors, SaveFinal(x)
      PROVE  PrunesOn(a)
  <2>1. todo' = [todo EXCEPT ![x] = Victims(obj, mem)] /\ (\E point : Goto(x, point))
    BY <1>18 DEF SaveFinal
  <2>2. todo'[x] = Victims(obj, mem)
    BY <2>1 DEF TypeOK, QueueType
  <2>3. pc'[x] \in Pruning => todo'[x] # {}
    BY <1>18 DEF SaveFinal, After, Goto, Pruning, TypeOK, PcType
  <2> QED
    BY <1>3, <1>5, <2>1, <2>2, <2>3 DEF PrunesOn
<1>19. ASSUME NEW x \in Actors, DeleteRow(x)
      PROVE  PrunesOn(a)
  <2>1. UNCHANGED todo /\ pc[x] \in Pruning /\ (\E point : Goto(x, point))
    BY <1>19 DEF DeleteRow, Pruning
  <2> QED
    BY <1>1, <1>4, <2>1
<1>20. ASSUME NEW x \in Actors, Pop(x)
      PROVE  PrunesOn(a)
  <2>1. pc[x] \in Pruning /\ todo' = [todo EXCEPT ![x] = @ \ {Oldest(@)}] /\ (\E point : Goto(x, point))
    BY <1>20 DEF Pop, Drop, Pruning
  <2>2. pc'[x] \in Pruning => todo'[x] # {}
    BY <1>20 DEF Pop, After, Goto, Pruning, TypeOK, PcType
  <2>3. todo'[x] \subseteq todo[x]
    BY <2>1 DEF TypeOK, QueueType
  <2> QED
    BY <1>3, <2>1, <2>2, <2>3 DEF PrunesOn
<1> QED
  BY <1>1, <1>2, <1>3, <1>4, <1>5, <1>6, <1>7, <1>8, <1>9, <1>10, <1>11, <1>12, <1>13, <1>14, <1>15,
        <1>16, <1>17, <1>18, <1>19, <1>20
  DEF Next, BootNext, HistoryNext, WorkerNext, SubmitNext, Others, Faults

LEMMA EndedFirstStep ==
  ASSUME Inv, DistinctKeys, [Next]_vars
  PROVE  EndedFirst'
<1> USE DEF Inv, ChildInv
<1>1. ASSUME NEW b \in Requests, Own(b)', IsActive(obj'[b])
      PROVE  IsActive(db'[b])
  <2>1. CASE ~Own(b)
    BY <1>1, <2>1, OwnStep DEF Create, TypeOK, StoreType
  <2>2. CASE Own(b) /\ (Boot \/ Crash)
    BY <1>1, <2>2 DEF Boot, Crash, IsActive
  <2>3. CASE Own(b) /\ ~Boot /\ ~Crash
    <3>1. IsActive(obj[b])
      BY <1>1, <2>3, ObjectsStep DEF Grows, Progress
    <3> QED
      BY <2>3, <3>1, RowsStep DEF RowMoves, EndedFirst
  <2> QED
    BY <2>1, <2>2, <2>3
<1>2. ASSUME NEW a \in Actors, pc'[a] \in Pruning
      PROVE  todo'[a] # {} /\ \A b \in todo'[a] : Own(b)' /\ obj'[b] # None /\ ~IsActive(obj'[b])
  <2>1. ~Boot /\ ~Crash
    BY <1>2, ActorsDiffer DEF Boot, Crash, Goto, Pruning, Actors, TypeOK, PcType
  <2>2. PrunesOn(a) /\ todo[a] \subseteq Requests
    BY PruningStep DEF TypeOK, QueueType
  <2> QED
    BY <1>2, <2>1, <2>2, FinishedStays, OwnStep DEF PrunesOn, EndedFirst
<1> QED
  BY <1>1, <1>2 DEF EndedFirst, Pruning

LEMMA OutOfQueueStep ==
  ASSUME Inv, DistinctKeys, [Next]_vars
  PROVE  OutOfQueue'
<1> USE DEF Inv, ChildInv
<1> SUFFICES ASSUME NEW b \in Requests, NEW c \in Children, ran'[b][c] # 0
             PROVE  /\ ran'[b][c] = 1
                    /\ obj'[b] # None => obj'[b].kids[c] # "queued"
                    /\ db'[b] # None => db'[b].kids[c] # "queued"
  BY DEF OutOfQueue
<1>1. CASE ran'[b][c] = ran[b][c]
  <2>1. /\ ran[b][c] = 1 /\ Own(b)
        /\ obj[b] # None => obj[b].kids[c] # "queued"
        /\ db[b] # None => db[b].kids[c] # "queued"
    BY <1>1 DEF OutOfQueue, OneObject
  <2>2. CASE Boot \/ Crash
    BY <1>1, <2>1, <2>2 DEF Boot, Crash
  <2>3. CASE ~Boot /\ ~Crash
    BY <1>1, <2>1, <2>3, ObjectsStep, RowsStep, NoneIsNoRecord DEF Grows, Progress, RowMoves
  <2> QED
    BY <2>2, <2>3
<1>2. CASE VerifyPasses /\ b = on["worker"] /\ c = kid /\ ran'[b][c] = ran[b][c] + 1
  BY <1>2 DEF VerifyPasses, Current, ChildAtHand
<1> QED
  BY <1>1, <1>2, RanStep

\* Points of the worker with a child at hand.
AtChild == pc["worker"] \in {"begin", "acquire", "verify", "block", "run"}

\* Nobody else touches the children of the batch at hand.
LEMMA OthersKeepChildren ==
  ASSUME Inv, DistinctKeys, [Next]_vars, AtChild', ~WorkerSaved, ~WorkerBegan, ~VerifyBlocks, ~VerifyPasses, ~WorkerBlocked,
         ~WorkerAcquire
  PROVE  /\ AtChild /\ pc'["worker"] = pc["worker"] /\ on'["worker"] = on["worker"] /\ kid' = kid
         /\ obj'[on["worker"]].kids = obj[on["worker"]].kids
<1> USE ActorsDiffer DEF Inv, ChildInv, AtChild
<1> DEFINE Goal == /\ AtChild /\ pc'["worker"] = pc["worker"] /\ on'["worker"] = on["worker"] /\ kid' = kid
                   /\ obj'[on["worker"]].kids = obj[on["worker"]].kids
<1>1. ASSUME UNCHANGED <<on, kid, obj>>, UNCHANGED pc \/ (\E a \in Actors \ {"worker"} : \E point : Goto(a, point))
      PROVE  Goal
  BY <1>1 DEF Goto, TypeOK, PcType
<1>2. ASSUME NEW point \in WorkerPcs \ {"begin", "acquire", "verify", "block", "run"}, Goto("worker", point)
      PROVE  FALSE
  BY <1>2 DEF Goto, TypeOK, PcType
<1>3. ASSUME pc["boot"] # "ready", pc'["worker"] = pc["worker"]
      PROVE  FALSE
  BY <1>3 DEF TypeOK, PcType
<1>4. ASSUME NEW r \in Requests, NEW rec, \E point : Goto(r, point), UNCHANGED <<on, kid>>, obj' = [obj EXCEPT ![r] = rec],
             r = on["worker"] => rec.kids = obj[r].kids
      PROVE  Goal
  BY <1>4 DEF Goto, TypeOK, PcType, ObjectType
<1>5. CASE OthersTakeLock \/ OthersReleaseLock \/ (\E k \in Keys : JobClaims(k)) \/ (\E r \in
      Requests : SubmitFails(r))
  BY <1>5, <1>1 DEF Reply, Resolve, Claim, OthersTakeLock, OthersReleaseLock, JobClaims,
        SubmitFails, Fault
<1>6. CASE PreviewCall \/ (\E r \in Requests : Submit(r)) \/ (\E r \in Requests : Lookup(r)) \/ (\E
      r \in Requests : Install(r))
  BY <1>6, <1>1 DEF Reply, Resolve, Claim, PreviewCall, Submit, Lookup, Install
<1>7. CASE (\E r \in Requests : Reject(r)) \/ (\E r \in Requests : Create(r)) \/ UNCHANGED vars
  BY <1>7, <1>1 DEF Reply, Resolve, Claim, Reject, Create, vars
<1>8. CASE WorkerSaved \/ WorkerBegan \/ VerifyBlocks \/ VerifyPasses \/ WorkerBlocked \/ WorkerAcquire
  BY <1>8
<1>9. CASE Boot \/ (\E x \in Requests : Recover(x)) \/ RecoverySaved \/ BootPrune \/ BootFails
  BY <1>3, <1>9 DEF Boot, Recover, RecoverySaved, BootPrune, BootFails, Goto, TypeOK, PcType
<1>10. CASE BootDone \/ Crash
  BY <1>10 DEF BootDone, Crash, TypeOK, PcType
<1>11. CASE WorkerTake
  <2>1. pc'["worker"] \in {"idle", "start"}
    BY <1>11 DEF WorkerTake, Goto, TypeOK, PcType
  <2> QED
    BY <2>1
<1>12. CASE RunnerEnds \/ WorkerAborted \/ WorkerFails \/ BlockFails \/ AbortFails
  BY <1>2, <1>12 DEF RunnerEnds, WorkerAborted, WorkerFails, BlockFails, AbortFails, WorkerPcs
<1>13. ASSUME NEW a \in Actors, SaveFinal(a) \/ DeleteRow(a) \/ Pop(a)
      PROVE  Goal
  <2>1. PICK point : Goto(a, point) /\ point \in {"prune", "pruned", "evicted", After(a)}
    BY <1>13 DEF SaveFinal, DeleteRow, Pop
  <2>2. CASE a = "worker"
    BY <2>1, <2>2 DEF After, Goto, TypeOK, PcType
  <2>3. CASE a # "worker"
    BY <1>1, <1>13, <2>1, <2>3 DEF SaveFinal, DeleteRow, Pop
  <2> QED
    BY <2>2, <2>3
<1>14. ASSUME NEW r \in Requests, Load(r)
      PROVE  Goal
  BY <1>14, NothingToResolve
<1>15. ASSUME NEW r \in Requests, Confirm(r)
      PROVE  Goal
  <2>1. r # on["worker"]
    BY <1>15 DEF Confirm, OneObject, Early, Busy, Goto, TypeOK, PcType
  <2> QED
    BY <1>4, <1>15, <2>1 DEF Confirm
<1>16. ASSUME NEW r \in Requests, Insert(r) \/ Evicted(r)
      PROVE  Goal
  <2>1. obj[r] \in Record
    BY <1>16 DEF Insert, Evicted, TypeOK, ObjectType, Holds
  <2>2. UNCHANGED obj \/ obj' = [obj EXCEPT ![r] = Finalized(obj[r])]
    BY <1>16 DEF Insert, Evicted, Settle
  <2>3. UNCHANGED <<on, kid>> /\ \E point : Goto(r, point)
    BY <1>16 DEF Insert, Evicted, Settle, Reply
  <2> QED
    BY <1>1, <1>4, <2>1, <2>2, <2>3, FinalizedIs
<1> QED
  BY <1>1, <1>2, <1>3, <1>4, <1>5, <1>6, <1>7, <1>8, <1>9, <1>10, <1>11, <1>12, <1>13, <1>14, <1>15,
        <1>16
  DEF Next, BootNext, HistoryNext, WorkerNext, SubmitNext, Others, Faults

LEMMA ChildAtHandStep ==
  ASSUME Inv, DistinctKeys, [Next]_vars
  PROVE  ChildAtHand'
<1> USE DEF Inv, ChildInv
<1> SUFFICES ASSUME AtChild'
             PROVE  ChildAtHand'
  BY DEF ChildAtHand, AtChild
<1>1. CASE WorkerSaved \/ WorkerBlocked
  <2>1. on["worker"] \in Requests /\ Current \in Record
    BY <1>1, CurrentStep
  <2>2. NextChild /\ UNCHANGED <<on, ran>>
    BY <1>1 DEF WorkerSaved, WorkerBlocked
  <2>3. CASE Queued(Current) = {}
    <3>1. pc'["worker"] \in {"final", "idle"}
      BY <2>2, <2>3, ActorsDiffer DEF NextChild, Goto, TypeOK, PcType
    <3> QED
      BY <3>1 DEF AtChild
  <2>4. CASE Queued(Current) # {}
    <3>1. PICK c \in Queued(Current) :
            kid' = c /\ SetCurrent([Current EXCEPT !.kids[c] = "running"]) /\ Goto("worker", "begin")
      BY <2>2, <2>4 DEF NextChild
    <3>2. c \in Children /\ Current.kids[c] = "queued"
      BY <3>1 DEF Queued
    <3>3. ran[on["worker"]][c] = 0
      BY <2>1, <3>2, NoneIsNoRecord DEF OutOfQueue, Current
    <3>4. [Current EXCEPT !.kids[c] = "running"].kids[c] = "running"
      BY <2>1, <3>2 DEF Record
    <3>5. obj'[on["worker"]] = [Current EXCEPT !.kids[c] = "running"]
      BY <2>1, <3>1 DEF SetCurrent, TypeOK, ObjectType
    <3>6. pc'["worker"] = "begin"
      BY <3>1, ActorsDiffer DEF Goto, TypeOK, PcType
    <3> QED
      BY <2>2, <3>1, <3>3, <3>4, <3>5, <3>6 DEF ChildAtHand, Current
  <2> QED
    BY <2>3, <2>4
<1>2. CASE WorkerBegan
  <2>1. pc'["worker"] = "acquire" /\ UNCHANGED <<on, kid, ran, obj>>
    BY <1>2, ActorsDiffer DEF WorkerBegan, Goto, TypeOK, PcType
  <2>2. Own(on["worker"]) /\ on["worker"] \in Requests /\ Store(on["worker"])
    BY <1>2 DEF WorkerBegan, OneObject, Busy, TypeOK, ObjectType
  <2>3. db'[on["worker"]] = obj[on["worker"]]
    BY <2>2 DEF Store, Own, TypeOK, StoreType
  <2> QED
    BY <1>2, <2>1, <2>3 DEF WorkerBegan, ChildAtHand, Current
<1>3. CASE WorkerAcquire \/ VerifyPasses
  <2>1. /\ UNCHANGED <<on, kid, obj, db>>
        /\ (WorkerAcquire => pc["worker"] = "acquire" /\ pc'["worker"] = "verify" /\ UNCHANGED ran)
        /\ (VerifyPasses => pc["worker"] = "verify" /\ pc'["worker"] = "run")
    BY <1>3, ActorsDiffer DEF WorkerAcquire, VerifyPasses, Goto, TypeOK, PcType
  <2> QED
    BY <1>3, <2>1 DEF ChildAtHand, Current
<1>4. CASE VerifyBlocks
  <2>1. on["worker"] \in Requests /\ Current \in Record /\ kid \in Children
    BY <1>4, CurrentStep DEF TypeOK, PlaceType
  <2>2. pc'["worker"] = "block" /\ UNCHANGED <<on, kid>>
    BY <1>4, ActorsDiffer DEF VerifyBlocks, Goto, TypeOK, PcType
  <2>3. obj'[on["worker"]] = WithKid("blocked")
    BY <1>4, <2>1 DEF VerifyBlocks, SetCurrent, TypeOK, ObjectType
  <2>4. WithKid("blocked").kids[kid] = "blocked"
    BY <2>1 DEF WithKid, Record
  <2> QED
    BY <2>2, <2>3, <2>4 DEF ChildAtHand, Current
<1>5. CASE ~(WorkerSaved \/ WorkerBegan \/ VerifyBlocks \/ VerifyPasses \/ WorkerBlocked \/ WorkerAcquire)
  <2>1. /\ AtChild /\ pc'["worker"] = pc["worker"] /\ on'["worker"] = on["worker"] /\ kid' = kid
        /\ obj'[on["worker"]].kids = obj[on["worker"]].kids
    BY <1>5, OthersKeepChildren
  <2>2. on["worker"] \in Requests /\ kid \in Children /\ Own(on["worker"])
    BY <2>1 DEF AtChild, OneObject, Busy, TypeOK, ObjectType, PlaceType
  <2>3. ran'[on["worker"]][kid] = ran[on["worker"]][kid]
    BY <1>5, <2>2, RanStep
  <2>4. db'[on["worker"]] \in {db[on["worker"]], obj[on["worker"]], None}
    BY <2>2, RowsStep DEF RowMoves
  <2> QED
    BY <2>1, <2>3, <2>4 DEF ChildAtHand, Current
<1> QED
  BY <1>1, <1>2, <1>3, <1>4, <1>5

LEMMA FaultsStep ==
  ASSUME Inv, [Next]_vars
  PROVE  faults \in Nat /\ faults' \in Nat /\ faults' >= faults
<1> USE DEF Inv, TypeOK, StoreType
<1>1. ASSUME UNCHANGED faults
      PROVE  faults \in Nat /\ faults' \in Nat /\ faults' >= faults
  BY <1>1
<1>2. CASE Boot \/ (\E x \in Requests : Recover(x)) \/ RecoverySaved \/ BootPrune \/ BootDone \/
      WorkerTake \/ WorkerSaved \/ WorkerBegan \/ VerifyBlocks
  BY <1>2, <1>1 DEF Boot, Recover, RecoverySaved, BootPrune, BootDone, WorkerTake, WorkerSaved,
        WorkerBegan, VerifyBlocks
<1>3. CASE VerifyPasses \/ WorkerBlocked \/ RunnerEnds \/ WorkerAborted \/ WorkerAcquire \/
      OthersTakeLock \/ OthersReleaseLock \/ (\E k \in Keys : JobClaims(k)) \/ Crash
  BY <1>3, <1>1 DEF VerifyPasses, WorkerBlocked, RunnerEnds, WorkerAborted, WorkerAcquire,
        OthersTakeLock, OthersReleaseLock, JobClaims, Crash
<1>4. CASE PreviewCall \/ (\E r \in Requests : Submit(r)) \/ (\E r \in Requests : Lookup(r)) \/ (\E
      r \in Requests : Load(r)) \/ (\E r \in Requests : Install(r)) \/ (\E r \in Requests :
      Reject(r)) \/ (\E r \in Requests : Confirm(r)) \/ (\E r \in Requests : Create(r)) \/ (\E r \in
      Requests : Insert(r))
  BY <1>4, <1>1 DEF PreviewCall, Submit, Lookup, Load, Install, Reject, Confirm, Create, Insert
<1>5. CASE (\E r \in Requests : Evicted(r)) \/ (\E a \in Actors : SaveFinal(a)) \/ (\E a \in Actors
      : DeleteRow(a)) \/ (\E a \in Actors : Pop(a)) \/ UNCHANGED vars
  BY <1>5, <1>1 DEF Evicted, SaveFinal, DeleteRow, Pop, vars
<1>6. CASE Faults
  BY <1>6 DEF Faults, WorkerFails, BlockFails, AbortFails, BootFails, SubmitFails, Fault
<1> QED
  BY <1>1, <1>2, <1>3, <1>4, <1>5, <1>6
  DEF Next, BootNext, HistoryNext, WorkerNext, SubmitNext, Others, Faults

LEMMA OutcomesStep ==
  ASSUME Inv, DistinctKeys, [Next]_vars
  PROVE  OutcomesKept'
<1> USE DEF Inv, ChildInv
<1> SUFFICES ASSUME NEW b \in Requests, Own(b)', obj'[b] # None, db'[b] # None, NEW c \in Children,
                    db'[b].kids[c] \in ChildTerminal
             PROVE  \/ obj'[b].kids[c] = db'[b].kids[c]
                    \/ faults' > 0 /\ db'[b].kids[c] = "blocked" /\ obj'[b].kids[c] = "failed"
  BY DEF OutcomesKept, SameOutcome
<1>1. CASE ~Own(b)
  BY <1>1, OwnStep DEF Create, TypeOK, StoreType
<1>2. CASE Boot \/ Crash
  BY <1>2 DEF Boot, Crash
<1>3. CASE Own(b) /\ ~Boot /\ ~Crash
  <2>1. Grows(b) /\ RowMoves(b)
    BY <1>3, ObjectsStep, RowsStep
  <2>2. obj[b] # None
    BY <2>1, NoneIsNoRecord DEF Grows
  <2>3. CASE db'[b] = db[b]
    <3>1. obj[b].kids[c] = db[b].kids[c] \/ (faults > 0 /\ db[b].kids[c] = "blocked" /\ obj[b].kids[c] = "failed")
      BY <1>3, <2>2, <2>3 DEF OutcomesKept, SameOutcome
    <3>2. obj[b].kids[c] \in ChildTerminal
      BY <2>3, <3>1 DEF ChildTerminal
    <3>3. obj'[b].kids[c] = obj[b].kids[c] \/ (faults' > 0 /\ obj[b].kids[c] = "blocked" /\ obj'[b].kids[c] = "failed")
      BY <2>1, <3>2 DEF Grows, Progress
    <3> QED
      BY <2>3, <3>1, <3>3, FaultsStep
  <2>4. CASE db'[b] = obj[b]
    BY <2>1, <2>4 DEF Grows, Progress
  <2> QED
    BY <1>3, <2>1, <2>3, <2>4 DEF RowMoves
<1> QED
  BY <1>1, <1>2, <1>3

-----------------------------------------------------------------------------
(* The theorems.                                                           *)

LEMMA InitInv == Init => Inv
<1> SUFFICES ASSUME Init
             PROVE  Inv
  OBVIOUS
<1>1. TypeOK /\ KeyInv /\ KeyOwnsOneBatch
  BY InitHolds DEF IInv
<1>2. /\ \A k \in Keys : ledger[k] = None
      /\ \A b \in Requests : db[b] = None /\ mem[b] = None /\ obj[b] = None /\ pc[b] = "new"
                               /\ \A c \in Children : ran[b][c] = 0
      /\ pc["worker"] = "dead" /\ pc["boot"] = "down" /\ rest = {}
  BY ActorsDiffer DEF Init
<1>3. \A b \in Requests : ~Own(b)
  BY <1>2, KeyType, ActorsDiffer DEF Own, Id
<1>4. OneObject
  BY <1>2, <1>3 DEF OneObject, Busy
<1>5. EndedFirst
  BY <1>2, <1>3 DEF EndedFirst, Pruning, Actors
<1>6. OutOfQueue /\ ChildAtHand /\ OutcomesKept
  BY <1>2, <1>3 DEF OutOfQueue, ChildAtHand, OutcomesKept
<1> QED
  BY <1>1, <1>4, <1>5, <1>6 DEF Inv, ChildInv

LEMMA StepInv ==
  ASSUME Inv, DistinctKeys, [Next]_vars
  PROVE  Inv'
<1>1. TypeOK'
  BY StoreStep, QueueStep, PcStep, PlaceStep, ObjectStep DEF Inv, TypeOK
<1>2. ChildInv'
  BY OneObjectStep, EndedFirstStep, OutOfQueueStep, ChildAtHandStep, OutcomesStep DEF ChildInv
<1>3. KeyInv' /\ KeyOwnsOneBatch'
  BY KeyStep DEF Inv
<1> QED
  BY <1>1, <1>2, <1>3 DEF Inv

LEMMA Invariant == ASSUME DistinctKeys PROVE Spec => []Inv
<1>1. Init => Inv
  BY InitInv
<1>2. Inv /\ [Next]_vars => Inv'
  BY StepInv
<1> QED
  BY <1>1, <1>2, PTL DEF Spec

\* No child of a batch is handed to the runner twice, over crashes, restarts and
\* failed saves.
THEOREM NoChildRunsTwice == ASSUME DistinctKeys PROVE Spec => []RunOnce
<1>1. Inv => RunOnce
  BY DEF Inv, ChildInv, OutOfQueue, RunOnce, TypeOK, StoreType
<1> QED
  BY <1>1, Invariant, PTL

\* While a child may be mutating, its durable row says that it runs.
THEOREM RowBeforeRun == ASSUME DistinctKeys PROVE Spec => []AheadOfChild
<1>1. Inv => AheadOfChild
  BY DEF Inv, ChildInv, OneObject, Busy, Own, ChildAtHand, AheadOfChild
<1> QED
  BY <1>1, Invariant, PTL

\* The durable outcome of a child never changes, but that of a refusal whose
\* save failed.
THEOREM OutcomesAreFinal == ASSUME DistinctKeys PROVE Spec => ChildIsFinal
<1> DEFINE Step == \A b \in Requests : db[b] # None /\ db'[b] # None =>
                     \A c \in Children : db[b].kids[c] \in ChildTerminal =>
                       \/ db'[b].kids[c] = db[b].kids[c]
                       \/ faults > 0 /\ db[b].kids[c] = "blocked" /\ db'[b].kids[c] = "failed"
<1>1. Inv /\ [Next]_vars => [Step]_vars
  <2> SUFFICES ASSUME Inv, [Next]_vars, NEW b \in Requests, db[b] # None, db'[b] # None, NEW c \in Children,
                      db[b].kids[c] \in ChildTerminal
               PROVE  \/ db'[b].kids[c] = db[b].kids[c]
                      \/ faults > 0 /\ db[b].kids[c] = "blocked" /\ db'[b].kids[c] = "failed"
    OBVIOUS
  <2>1. Own(b) /\ (obj[b] \in Record => SameOutcome(db[b], obj[b]))
    BY NoneIsNoRecord DEF Inv, ChildInv, OneObject, OutcomesKept
  <2> QED
    BY <2>1, RowsStep DEF RowMoves, SameOutcome
<1> HIDE DEF Step
<1>2. Spec => [][Step]_vars
  BY <1>1, Invariant, PTL DEF Spec
<1> QED
  BY <1>2 DEF ChildIsFinal, Step

-----------------------------------------------------------------------------
(* The bound of the durable queue.                                         *)

\* A step adds no unfinished batch to the store, but for the transaction that
\* has found room for it.
LEMMA PendingStep ==
  ASSUME Inv, DistinctKeys, [Next]_vars
  PROVE  \/ Pending(db') \subseteq Pending(db)
         \/ /\ Cardinality(Pending(db)) < MaxPending
            /\ \E r \in Requests : Pending(db') \subseteq Pending(db) \cup {r}
<1>1. ASSUME NEW b \in Pending(db') \ Pending(db)
      PROVE  Create(b) /\ db' # db /\ b \in Requests
  <2>1. b \in Requests /\ IsActive(db'[b]) /\ ~IsActive(db[b])
    BY <1>1 DEF Pending
  <2> QED
    BY <2>1, RowsStep DEF RowMoves, Inv, ChildInv, EndedFirst, IsActive
<1>2. ASSUME NEW r \in Requests, Create(r), db' # db
      PROVE  /\ Cardinality(Pending(db)) < MaxPending
             /\ Pending(db') \subseteq Pending(db) \cup {r}
  <2>1. Claim(r) /\ db' = [db EXCEPT ![r] = obj[r]] /\ ~(Cardinality(Pending(db)) >= MaxPending)
    BY <1>2 DEF Create, Claim
  <2>2. Cardinality(Pending(db)) \in Nat /\ MaxPending \in Nat
    BY BatchAssumption, FS_Subset, FS_CardinalityType DEF Pending
  <2> QED
    BY <2>1, <2>2 DEF Pending, Inv, TypeOK, StoreType
<1> QED
  BY <1>1, <1>2

\* The durable queue holds no more unfinished batches than its bound, although
\* calls race between the check in memory and the transaction.
THEOREM QueueKeepsBound == ASSUME DistinctKeys PROVE Spec => []QueueBounded
<1>1. Init => QueueBounded
  <2>1. MaxPending \in Nat
    BY BatchAssumption
  <2>2. Init => Pending(db) = {}
    BY DEF Init, Pending, IsActive
  <2> QED
    BY <2>1, <2>2, FS_EmptySet DEF QueueBounded
<1>2. Inv /\ QueueBounded /\ [Next]_vars => QueueBounded'
  <2> SUFFICES ASSUME Inv, QueueBounded, [Next]_vars
               PROVE  Cardinality(Pending(db')) <= MaxPending
    BY DEF QueueBounded, Pending
  <2>1. IsFiniteSet(Pending(db)) /\ IsFiniteSet(Pending(db')) /\ MaxPending \in Nat
    BY BatchAssumption, FS_Subset DEF Pending
  <2>2. /\ Cardinality(Pending(db)) \in Nat /\ Cardinality(Pending(db')) \in Nat
        /\ Cardinality(Pending(db)) <= MaxPending
    BY <2>1, FS_CardinalityType DEF QueueBounded
  <2>3. CASE Pending(db') \subseteq Pending(db)
    BY <2>1, <2>2, <2>3, FS_Subset
  <2>4. ASSUME NEW r \in Requests, Cardinality(Pending(db)) < MaxPending, Pending(db') \subseteq Pending(db) \cup {r}
        PROVE  Cardinality(Pending(db')) <= MaxPending
    <3>1. /\ IsFiniteSet(Pending(db) \cup {r})
          /\ Cardinality(Pending(db) \cup {r}) \in {Cardinality(Pending(db)), Cardinality(Pending(db)) + 1}
      BY <2>1, FS_AddElement
    <3>2. Cardinality(Pending(db')) <= Cardinality(Pending(db) \cup {r})
      BY <2>4, <3>1, FS_Subset
    <3> QED
      BY <2>1, <2>2, <2>4, <3>1, <3>2
  <2> QED
    BY <2>3, <2>4, PendingStep
<1> QED
  BY <1>1, <1>2, Invariant, PTL DEF Spec

=============================================================================
