-------------------------- MODULE DeletionBatches --------------------------
(***************************************************************************)
(* ManualDeletionBatchService with its part of SQLiteDeletionRepository:   *)
(* durable parents whose children are deleted one after the other by one   *)
(* worker, on the ledger and the execution lock that jobs use as well.     *)
(*                                                                         *)
(* A batch is named by the submission that creates it, and so is a record  *)
(* object in memory by the submission that builds or loads it: several     *)
(* objects of one batch can exist.  There is one action for each piece of  *)
(* code between two awaits, at the moment its transaction commits.         *)
(***************************************************************************)
EXTENDS Integers, Sequences, FiniteSets

CONSTANTS
  Requests,     \* calls of submit()
  Keys, KeyOf,  \* idempotency keys, and the key of each call
  Bodies, BodyOf, \* canonical requests, and that of each call
  ChildCount,   \* children of a batch
  HistoryLimit, \* history_limit
  MaxPending,   \* max_pending_parents
  CrashBudget,  \* bound: crashes explored
  FaultBudget,  \* bound: failed database calls explored, an abort's own save aside
  None          \* nothing

Errors == {"conflict", "retired", "rejected", "full", "error"}

ASSUME BatchAssumption ==
  /\ IsFiniteSet(Requests)
  /\ KeyOf \in [Requests -> Keys] /\ BodyOf \in [Requests -> Bodies]
  /\ {ChildCount, HistoryLimit, MaxPending} \subseteq Nat \ {0}
  /\ {CrashBudget, FaultBudget} \subseteq Nat
  /\ Requests \cap ({None, "worker", "boot", "single"} \cup Errors) = {} /\ None # "single"

Children == 1..ChildCount
Actors == Requests \cup {"worker", "boot"}

ActiveStatuses == {"queued", "running"}
Statuses == ActiveStatuses \cup {"completed", "partial", "failed"}
ChildTerminal == {"completed", "blocked", "failed", "cancelled"}
Record == [status : Statuses, kids : [Children -> {"queued", "running"} \cup ChildTerminal]]

ASSUME NoneIsNoRecord == None \notin Record

VARIABLES
  db,        \* manual_delete_batches and their children
  ledger,    \* destructive_idempotency_ledger: a batch, or "single" for a job
  born,      \* created_at of each batch: its rank, or 0
  obj,       \* record objects
  mem,       \* _batches: the object of each visible batch
  queue,     \* _queue
  scheduled, \* _scheduled
  lock,      \* holder of the shared execution lock: "free", "batch", "other"
  pc,        \* control point of each submission, of the worker and of start()
  on,        \* object the worker or start() is at
  kid,       \* child the worker is at
  todo,      \* history rows an actor prunes
  rest,      \* batches start() has still to recover
  reply,     \* answer of each submission: a batch, or an error
  crashes, faults, \* consumed budgets
  ran        \* history: how often the runner was called for each child

storeVars == <<db, ledger, born>>
memVars == <<obj, mem, queue, scheduled>>
actorVars == <<pc, on, kid, todo, rest, reply>>
budgetVars == <<crashes, faults>>
vars == <<storeVars, memVars, lock, actorVars, budgetVars, ran>>

RequestPcs == {"new", "lookup", "load", "install", "preview", "create", "insert", "evict", "evicted",
               "final", "prune", "pruned", "done", "lost"}
WorkerPcs == {"dead", "idle", "start", "begin", "acquire", "verify", "block", "run", "end", "abort",
              "final", "prune", "pruned"}
BootPcs == {"down", "recover", "save", "final", "prune", "pruned", "ready"}

\* Control points at which a submission relies on the object it made.
Holds == {"install", "create", "insert", "evict", "evicted", "final", "prune", "pruned"}

StoreType ==
  /\ db \in [Requests -> Record \cup {None}]
  /\ ledger \in [Keys -> Requests \cup {None, "single"}]
  /\ born \in [Requests -> Nat]
  /\ crashes \in Nat /\ faults \in Nat
  /\ ran \in [Requests -> [Children -> Nat]]

QueueType ==
  /\ queue \in Seq(Requests) /\ scheduled \subseteq Requests
  /\ lock \in {"free", "batch", "other"}
  /\ todo \in [Actors -> SUBSET Requests]
  /\ reply \in [Requests -> Requests \cup Errors \cup {None}]

PcType ==
  /\ pc \in [Actors -> RequestPcs \cup WorkerPcs \cup BootPcs]
  /\ pc["worker"] \in WorkerPcs /\ pc["boot"] \in BootPcs
  /\ \A r \in Requests : pc[r] \in RequestPcs
  /\ pc["boot"] # "ready" =>
       pc["worker"] = "dead" /\ \A r \in Requests : pc[r] \in {"new", "done", "lost"}

PlaceType ==
  /\ on \in [{"worker", "boot"} -> Requests \cup {None}]
  /\ kid \in Children /\ rest \subseteq Requests

ObjectType ==
  /\ obj \in [Requests -> Record \cup {None}]
  /\ mem \in [Requests -> Requests \cup {None}]
  /\ \A b \in Requests : mem[b] # None => obj[mem[b]] \in Record
  /\ \A b \in rest : obj[b] \in Record
  /\ \A r \in Requests : pc[r] \in Holds => obj[r] \in Record
  /\ pc["worker"] \notin {"dead", "idle"} => on["worker"] \in Requests /\ obj[on["worker"]] \in Record
  /\ pc["boot"] \in {"save", "final"} => on["boot"] \in Requests /\ obj[on["boot"]] \in Record

TypeOK == StoreType /\ QueueType /\ PcType /\ PlaceType /\ ObjectType

Init ==
  /\ db = [b \in Requests |-> None] /\ ledger = [k \in Keys |-> None] /\ born = [b \in Requests |-> 0]
  /\ obj = [r \in Requests |-> None] /\ mem = [b \in Requests |-> None]
  /\ queue = <<>> /\ scheduled = {} /\ lock = "free"
  /\ pc = [a \in Actors |-> CASE a = "worker" -> "dead" [] a = "boot" -> "down" [] OTHER -> "new"]
  /\ on = [a \in {"worker", "boot"} |-> None] /\ kid = 1
  /\ todo = [a \in Actors |-> {}] /\ rest = {}
  /\ reply = [r \in Requests |-> None]
  /\ crashes = 0 /\ faults = 0
  /\ ran = [b \in Requests |-> [c \in Children |-> 0]]

-----------------------------------------------------------------------------
(* Batches and their history.                                              *)

\* The batch of an object: the one that claimed the key of its submission.
Id(r) == ledger[KeyOf[r]]

IsActive(rec) == rec # None /\ rec.status \in ActiveStatuses
Queued(rec) == {c \in Children : rec.kids[c] = "queued"}
AllEnded(rec) == \A c \in Children : rec.kids[c] \in ChildTerminal
Pending(rows) == {b \in Requests : IsActive(rows[b])}
Visible == [b \in Requests |-> IF mem[b] = None THEN None ELSE obj[mem[b]]]

\* The status _finalize gives to a batch whose children have all ended.
Verdict(rec) ==
  LET completed == {c \in Children : rec.kids[c] = "completed"}
  IN  CASE completed = Children -> "completed"
        [] completed = {} -> "failed"
        [] OTHER -> "partial"

Finalized(rec) == IF AllEnded(rec) THEN [rec EXCEPT !.status = Verdict(rec)] ELSE rec

\* What _prune_history removes: the oldest finished batches over the limit.
Victims(o, m) ==
  LET finished == {b \in Requests : m[b] # None /\ ~IsActive(o[m[b]])}
  IN  {b \in finished : Cardinality({x \in finished : born[x] > born[b]}) >= HistoryLimit}

Oldest(S) == CHOOSE b \in S : \A x \in S : born[b] <= born[x]

Goto(a, point) == pc' = [pc EXCEPT ![a] = point]
Store(r) == db' = [db EXCEPT ![Id(r)] = obj[r]]

\* _schedule of start(): every active batch with a child to run, in any order.
Orders(S) == {s \in [1..Cardinality(S) -> S] : \A i, j \in DOMAIN s : i # j => s[i] # s[j]}
StartService(rows) ==
  LET fresh == {b \in Requests \ scheduled : IsActive(rows[b]) /\ Queued(rows[b]) # {}}
  IN  /\ scheduled' = scheduled \cup fresh
      /\ \E s \in Orders(fresh) : queue' = queue \o s

-----------------------------------------------------------------------------
(* _finalize and _prune_history, for whoever calls them.                   *)

\* Where the worker, start() or a submission goes on after _prune_history.
After(a) == CASE a = "worker" -> "idle" [] a = "boot" -> "recover" [] OTHER -> "done"

Answered(a) == IF a \in Requests THEN [reply EXCEPT ![a] = a] ELSE reply

SaveFinal(a) ==
  /\ pc[a] = "final" /\ Store(IF a \in Requests THEN a ELSE on[a])
  /\ todo' = [todo EXCEPT ![a] = Victims(obj, mem)]
  /\ IF todo'[a] = {} THEN Goto(a, After(a)) /\ reply' = Answered(a) ELSE Goto(a, "prune") /\ UNCHANGED reply
  /\ UNCHANGED <<ledger, born, memVars, lock, on, kid, rest, budgetVars, ran>>

DeleteRow(a) ==
  /\ \/ pc[a] = "prune" /\ Goto(a, "pruned")
     \/ pc[a] = "evict" /\ Goto(a, "evicted")
  /\ db' = [db EXCEPT ![Oldest(todo[a])] = None]
  /\ UNCHANGED <<ledger, born, memVars, lock, on, kid, todo, rest, reply, budgetVars, ran>>

Drop(a) ==
  /\ mem' = [mem EXCEPT ![Oldest(todo[a])] = None]
  /\ todo' = [todo EXCEPT ![a] = @ \ {Oldest(@)}]

Pop(a) ==
  /\ pc[a] = "pruned" /\ Drop(a)
  /\ IF todo'[a] = {} THEN Goto(a, After(a)) /\ reply' = Answered(a) ELSE Goto(a, "prune") /\ UNCHANGED reply
  /\ UNCHANGED <<storeVars, obj, queue, scheduled, lock, on, kid, rest, budgetVars, ran>>

-----------------------------------------------------------------------------
(* start() of a process, its recovery, and crashes.                        *)

Boot ==
  /\ pc["boot"] = "down" /\ Goto("boot", "recover")
  /\ obj' = db /\ mem' = [b \in Requests |-> IF db[b] = None THEN None ELSE b]
  /\ rest' = {b \in Requests : db[b] # None}
  /\ UNCHANGED <<storeVars, queue, scheduled, lock, on, kid, todo, reply, budgetVars, ran>>

\* Mutant of Recovered: a child that was cut off is run again.
RecoveredQueued(rec) ==
  LET kids == [c \in Children |-> IF rec.kids[c] = "running" THEN "queued" ELSE rec.kids[c]]
  IN  [kids |-> kids, status |-> IF IsActive(rec) /\ \E c \in Children : kids[c] = "queued"
                                   THEN "queued" ELSE rec.status]

\* A child that was running may have mutated; those still queued resume.
Recovered(rec) ==
  [kids |-> [c \in Children |-> IF rec.kids[c] = "running" THEN "failed" ELSE rec.kids[c]],
   status |-> IF IsActive(rec) /\ Queued(rec) # {} THEN "queued" ELSE rec.status]

Recover(b) ==
  /\ pc["boot"] = "recover" /\ b \in rest /\ rest' = rest \ {b} /\ on' = [on EXCEPT !["boot"] = b]
  /\ LET rec == Recovered(obj[b])
         changed == rec # obj[b] \/ (IsActive(rec) /\ Queued(rec) # {})
     IN  \/ /\ changed /\ Goto("boot", "save") /\ obj' = [obj EXCEPT ![b] = rec]
         \/ /\ ~changed /\ IsActive(rec) /\ AllEnded(rec)
            /\ Goto("boot", "final") /\ obj' = [obj EXCEPT ![b] = Finalized(rec)]
         \/ ~changed /\ ~(IsActive(rec) /\ AllEnded(rec)) /\ UNCHANGED <<pc, obj>>
  /\ UNCHANGED <<storeVars, mem, queue, scheduled, lock, kid, todo, reply, budgetVars, ran>>

\* Mutant of RecoverySaved: a batch with nothing left to run stays open.
RecoverySavedOnly ==
  /\ pc["boot"] = "save" /\ Store(on["boot"]) /\ Goto("boot", "recover")
  /\ UNCHANGED <<ledger, born, memVars, lock, on, kid, todo, rest, reply, budgetVars, ran>>

RecoverySaved ==
  /\ pc["boot"] = "save" /\ Store(on["boot"])
  /\ LET rec == obj[on["boot"]]
     IN  IF IsActive(rec) /\ AllEnded(rec)
           THEN Goto("boot", "final") /\ obj' = [obj EXCEPT ![on["boot"]] = Finalized(rec)]
           ELSE Goto("boot", "recover") /\ UNCHANGED obj
  /\ UNCHANGED <<ledger, born, mem, queue, scheduled, lock, on, kid, todo, rest, reply, budgetVars, ran>>

BootPrune ==
  /\ pc["boot"] = "recover" /\ rest = {} /\ Victims(obj, mem) # {}
  /\ Goto("boot", "prune") /\ todo' = [todo EXCEPT !["boot"] = Victims(obj, mem)]
  /\ UNCHANGED <<storeVars, memVars, lock, on, kid, rest, reply, budgetVars, ran>>

BootDone ==
  /\ pc["boot"] = "recover" /\ rest = {} /\ Victims(obj, mem) = {}
  /\ pc' = [pc EXCEPT !["boot"] = "ready", !["worker"] = "idle"]
  /\ StartService(Visible)
  /\ UNCHANGED <<storeVars, obj, mem, lock, on, kid, todo, rest, reply, budgetVars, ran>>

Ready == pc["boot"] = "ready"

Crash ==
  /\ pc["boot"] # "down" /\ crashes < CrashBudget /\ crashes' = crashes + 1
  /\ pc' = [a \in Actors |->
              CASE a = "worker" -> "dead" [] a = "boot" -> "down"
                [] OTHER -> IF pc[a] \in {"new", "done"} THEN pc[a] ELSE "lost"]
  /\ obj' = [r \in Requests |-> None] /\ mem' = [b \in Requests |-> None]
  /\ queue' = <<>> /\ scheduled' = {} /\ lock' = "free"
  /\ on' = [a \in {"worker", "boot"} |-> None] /\ todo' = [a \in Actors |-> {}] /\ rest' = {}
  /\ UNCHANGED <<storeVars, kid, reply, faults, ran>>

OthersTakeLock ==
  /\ Ready /\ lock = "free" /\ lock' = "other"
  /\ UNCHANGED <<storeVars, memVars, actorVars, budgetVars, ran>>

OthersReleaseLock ==
  /\ lock = "other" /\ lock' = "free"
  /\ UNCHANGED <<storeVars, memVars, actorVars, budgetVars, ran>>

\* The job service claims a key in the ledger both share.
JobClaims(k) ==
  /\ ledger[k] = None /\ ledger' = [ledger EXCEPT ![k] = "single"]
  /\ UNCHANGED <<db, born, memVars, lock, actorVars, budgetVars, ran>>

-----------------------------------------------------------------------------
(* The worker.                                                             *)

Current == obj[on["worker"]]
WithKid(status) == [Current EXCEPT !.kids[kid] = status]
SetCurrent(rec) == obj' = [obj EXCEPT ![on["worker"]] = rec]

WorkerTake ==
  /\ pc["worker"] = "idle" /\ queue # <<>>
  /\ queue' = Tail(queue) /\ scheduled' = scheduled \ {Head(queue)}
  /\ LET o == mem[Head(queue)]
     IN  IF o # None /\ IsActive(obj[o])
           THEN /\ Goto("worker", "start") /\ on' = [on EXCEPT !["worker"] = o]
                /\ obj' = [obj EXCEPT ![o].status = "running"]
           ELSE UNCHANGED <<pc, on, obj>>
  /\ UNCHANGED <<storeVars, mem, lock, kid, todo, rest, reply, budgetVars, ran>>

\* The loop of _run_batch goes on with the next queued child, or finalizes.
NextChild ==
  IF Queued(Current) # {}
    THEN \E c \in Queued(Current) :
           /\ \A d \in Queued(Current) : c <= d
           /\ kid' = c /\ SetCurrent([Current EXCEPT !.kids[c] = "running"]) /\ Goto("worker", "begin")
    ELSE /\ SetCurrent(Finalized(Current)) /\ UNCHANGED kid
         /\ Goto("worker", IF AllEnded(Current) THEN "final" ELSE "idle")

\* The parent, or the end of a child, is durable.
WorkerSaved ==
  /\ pc["worker"] \in {"start", "end"} /\ Store(on["worker"]) /\ NextChild
  /\ UNCHANGED <<ledger, born, mem, queue, scheduled, lock, on, todo, rest, reply, budgetVars, ran>>

\* Mutant of WorkerBegan: the start of a child is not saved.
WorkerBeganUnsaved ==
  /\ pc["worker"] = "begin" /\ Goto("worker", "acquire")
  /\ UNCHANGED <<storeVars, memVars, lock, on, kid, todo, rest, reply, budgetVars, ran>>

\* The start of a child is durable before its plan is verified.
WorkerBegan ==
  /\ pc["worker"] = "begin" /\ Store(on["worker"]) /\ Goto("worker", "acquire")
  /\ UNCHANGED <<ledger, born, memVars, lock, on, kid, todo, rest, reply, budgetVars, ran>>

WorkerAcquire ==
  /\ pc["worker"] = "acquire" /\ lock = "free" /\ lock' = "batch" /\ Goto("worker", "verify")
  /\ UNCHANGED <<storeVars, memVars, on, kid, todo, rest, reply, budgetVars, ran>>

VerifyBlocks ==
  /\ pc["worker"] = "verify" /\ Goto("worker", "block") /\ SetCurrent(WithKid("blocked"))
  /\ UNCHANGED <<storeVars, mem, queue, scheduled, lock, on, kid, todo, rest, reply, budgetVars, ran>>

WorkerBlocked ==
  /\ pc["worker"] = "block" /\ Store(on["worker"]) /\ lock' = "free" /\ NextChild
  /\ UNCHANGED <<ledger, born, mem, queue, scheduled, on, todo, rest, reply, budgetVars, ran>>

\* The plan is the confirmed one: the runner is called.
VerifyPasses ==
  /\ pc["worker"] = "verify" /\ Goto("worker", "run")
  /\ ran' = [ran EXCEPT ![Id(on["worker"])][kid] = @ + 1]
  /\ UNCHANGED <<storeVars, memVars, lock, on, kid, todo, rest, reply, budgetVars>>

\* The runner returns a clean result, or an unsafe or partial one, or raises.
RunnerEnds ==
  /\ pc["worker"] = "run" /\ lock' = "free" /\ Goto("worker", "end")
  /\ \E status \in {"completed", "failed"} : SetCurrent(WithKid(status))
  /\ UNCHANGED <<storeVars, mem, queue, scheduled, on, kid, todo, rest, reply, budgetVars, ran>>

\* The save of _fail_unexpected_batch.
WorkerAborted ==
  /\ pc["worker"] = "abort" /\ Store(on["worker"]) /\ Goto("worker", "idle")
  /\ UNCHANGED <<ledger, born, memVars, lock, on, kid, todo, rest, reply, budgetVars, ran>>

-----------------------------------------------------------------------------
(* submit().                                                               *)

Reply(r, answer) == Goto(r, "done") /\ reply' = [reply EXCEPT ![r] = answer]

\* submit() starts the service; so does a preview that is not confirmed.
Submit(r) ==
  /\ Ready /\ pc[r] = "new" /\ Goto(r, "lookup") /\ StartService(Visible)
  /\ UNCHANGED <<storeVars, obj, mem, lock, on, kid, todo, rest, reply, budgetVars, ran>>

PreviewCall ==
  /\ Ready /\ StartService(Visible)
  /\ UNCHANGED <<storeVars, obj, mem, lock, actorVars, budgetVars, ran>>

\* Mutant of Resolve: the canonical request is not compared.
ResolveAny(r) ==
  LET b == Id(r)
  IN  IF b = "single" THEN Reply(r, "conflict")
      ELSE IF mem[b] # None THEN Reply(r, b)
      ELSE Goto(r, "load") /\ UNCHANGED reply

\* _resolve_existing_ledger up to its await.
Resolve(r) ==
  LET b == Id(r)
  IN  IF b = "single" \/ BodyOf[b] # BodyOf[r] THEN Reply(r, "conflict")
      ELSE IF mem[b] # None THEN Reply(r, b)
      ELSE Goto(r, "load") /\ UNCHANGED reply

Lookup(r) ==
  /\ pc[r] = "lookup"
  /\ \/ Id(r) = None /\ Goto(r, "preview") /\ StartService(Visible) /\ UNCHANGED reply
     \/ Id(r) # None /\ Resolve(r) /\ UNCHANGED <<queue, scheduled>>
  /\ UNCHANGED <<storeVars, obj, mem, lock, on, kid, todo, rest, budgetVars, ran>>

Load(r) ==
  /\ pc[r] = "load"
  /\ IF db[Id(r)] = None
       THEN Reply(r, "retired") /\ UNCHANGED obj
       ELSE Goto(r, "install") /\ obj' = [obj EXCEPT ![r] = db[Id(r)]] /\ UNCHANGED reply
  /\ UNCHANGED <<storeVars, mem, queue, scheduled, lock, on, kid, todo, rest, budgetVars, ran>>

Install(r) ==
  /\ pc[r] = "install" /\ mem' = [mem EXCEPT ![Id(r)] = r] /\ Reply(r, Id(r))
  /\ UNCHANGED <<storeVars, obj, queue, scheduled, lock, on, kid, todo, rest, budgetVars, ran>>

\* The plan changed, or the queue in memory is full.
Reject(r) ==
  /\ pc[r] = "preview"
  /\ \E answer \in {"rejected", "full"} :
       (answer = "full" => Cardinality(Pending(Visible)) >= MaxPending) /\ Reply(r, answer)
  /\ UNCHANGED <<storeVars, memVars, lock, on, kid, todo, rest, budgetVars, ran>>

Confirm(r) ==
  /\ pc[r] = "preview" /\ Cardinality(Pending(Visible)) < MaxPending
  /\ Goto(r, "create") /\ born' = [born EXCEPT ![r] = 1 + Cardinality({b \in Requests : born[b] > 0})]
  /\ \E kids \in [Children -> {"queued", "blocked"}] :
       obj' = [obj EXCEPT ![r] = [status |-> "queued", kids |-> kids]]
  /\ UNCHANGED <<db, ledger, mem, queue, scheduled, lock, on, kid, todo, rest, reply, budgetVars, ran>>

\* Mutant of Claim: the bound is only checked in memory, before the transaction.
ClaimUnbounded(r) ==
  /\ Goto(r, "insert") /\ UNCHANGED reply
  /\ ledger' = [ledger EXCEPT ![KeyOf[r]] = r] /\ db' = [db EXCEPT ![r] = obj[r]]

\* The transaction of an unclaimed key: the bound, the rows and the claim.
Claim(r) ==
  IF Cardinality(Pending(db)) >= MaxPending
    THEN Reply(r, "full") /\ UNCHANGED <<db, ledger>>
    ELSE /\ Goto(r, "insert") /\ UNCHANGED reply
         /\ ledger' = [ledger EXCEPT ![KeyOf[r]] = r] /\ db' = [db EXCEPT ![r] = obj[r]]

Create(r) ==
  /\ pc[r] = "create"
  /\ \/ Id(r) = None /\ Claim(r)
     \/ Id(r) # None /\ Resolve(r) /\ UNCHANGED <<db, ledger>>
  /\ UNCHANGED <<born, memVars, lock, on, kid, todo, rest, budgetVars, ran>>

\* submit() after its pruning: schedule the batch, or finalize it at once.
Settle(r) ==
  IF Queued(obj[r]) # {}
    THEN /\ Reply(r, r) /\ UNCHANGED obj
         /\ queue' = IF r \in scheduled THEN queue ELSE Append(queue, r)
         /\ scheduled' = scheduled \cup {r}
    ELSE /\ UNCHANGED <<queue, scheduled>> /\ obj' = [obj EXCEPT ![r] = Finalized(@)]
         /\ IF AllEnded(obj[r]) THEN Goto(r, "final") /\ UNCHANGED reply ELSE Reply(r, r)

Insert(r) ==
  /\ pc[r] = "insert" /\ mem' = [mem EXCEPT ![r] = r]
  /\ todo' = [todo EXCEPT ![r] = Victims(obj, mem')]
  /\ IF todo'[r] = {} THEN Settle(r) ELSE Goto(r, "evict") /\ UNCHANGED <<obj, queue, scheduled, reply>>
  /\ UNCHANGED <<storeVars, lock, on, kid, rest, budgetVars, ran>>

Evicted(r) ==
  /\ pc[r] = "evicted" /\ Drop(r)
  /\ IF todo'[r] = {} THEN Settle(r) ELSE Goto(r, "evict") /\ UNCHANGED <<obj, queue, scheduled, reply>>
  /\ UNCHANGED <<storeVars, lock, on, kid, rest, budgetVars, ran>>

-----------------------------------------------------------------------------
(* Database calls that raise.                                              *)

Fault == faults < FaultBudget /\ faults' = faults + 1 /\ UNCHANGED <<storeVars, mem, queue, scheduled, on, kid,
                                                                     todo, rest, crashes, ran>>

\* Mutant of Aborted: every child that is not completed is cancelled.
AbortedRest(rec) ==
  [status |-> "failed",
   kids |-> [c \in Children |-> IF rec.kids[c] = "completed" THEN "completed" ELSE "cancelled"]]

\* _fail_unexpected_batch
Aborted(rec) ==
  [status |-> "failed",
   kids |-> [c \in Children |-> CASE rec.kids[c] = "running" -> "failed"
                                  [] rec.kids[c] = "queued" -> "cancelled"
                                  [] OTHER -> rec.kids[c]]]

\* Outside the lock a failed call reaches _worker_loop.
WorkerFails ==
  /\ Fault /\ pc["worker"] \in {"start", "begin", "end", "final", "prune"}
  /\ Goto("worker", "abort") /\ SetCurrent(Aborted(Current)) /\ UNCHANGED <<lock, reply>>

\* Under the lock it counts as a failed execution of the child.
BlockFails ==
  /\ Fault /\ pc["worker"] = "block"
  /\ Goto("worker", "end") /\ lock' = "free" /\ SetCurrent(WithKid("failed")) /\ UNCHANGED reply

\* Its own save fails as well; the budget has counted the call it follows.
AbortFails ==
  /\ pc["worker"] = "abort" /\ Goto("worker", "idle")
  /\ UNCHANGED <<storeVars, memVars, lock, on, kid, todo, rest, reply, budgetVars, ran>>

SubmitFails(r) ==
  /\ Fault /\ pc[r] \in {"lookup", "load", "create", "evict", "final", "prune"}
  /\ Reply(r, "error") /\ UNCHANGED <<obj, lock>>

\* start() raises: the next call of start() loads everything again.
BootFails ==
  /\ Fault /\ pc["boot"] \in {"recover", "save", "final", "prune"}
  /\ Goto("boot", "down") /\ UNCHANGED <<obj, lock, reply>>

-----------------------------------------------------------------------------

BootNext == Boot \/ (\E b \in Requests : Recover(b)) \/ RecoverySaved \/ BootPrune \/ BootDone
HistoryNext(a) == SaveFinal(a) \/ DeleteRow(a) \/ Pop(a)
WorkerNext == WorkerTake \/ WorkerSaved \/ WorkerBegan \/ VerifyBlocks \/ VerifyPasses \/ WorkerBlocked
                \/ RunnerEnds \/ WorkerAborted
SubmitNext(r) == Lookup(r) \/ Load(r) \/ Install(r) \/ Reject(r) \/ Confirm(r) \/ Create(r) \/ Insert(r) \/ Evicted(r)
Others == OthersTakeLock \/ OthersReleaseLock \/ \E k \in Keys : JobClaims(k)
Faults == WorkerFails \/ BlockFails \/ AbortFails \/ BootFails \/ \E r \in Requests : SubmitFails(r)

Next ==
  \/ BootNext \/ WorkerNext \/ WorkerAcquire \/ Others \/ Faults \/ Crash \/ PreviewCall
  \/ \E r \in Requests : Submit(r) \/ SubmitNext(r)
  \/ \E a \in Actors : HistoryNext(a)

Spec == Init /\ [][Next]_vars

\* The event loop runs every ready task, runners end, the others leave the
\* lock, which is handed over in order, and a dead process is started again.
Fairness ==
  /\ WF_vars(BootNext) /\ WF_vars(WorkerNext) /\ SF_vars(WorkerAcquire) /\ WF_vars(OthersReleaseLock)
  /\ \A r \in Requests : WF_vars(SubmitNext(r))
  /\ \A a \in Actors : WF_vars(HistoryNext(a))

FairSpec == Spec /\ Fairness

-----------------------------------------------------------------------------
(* Properties.                                                             *)

\* No child is handed to the runner twice, over restarts and failed saves:
\* what a run may have deleted is never attempted again.
RunOnce == \A b \in Requests, c \in Children : ran[b][c] <= 1

\* While a child may be mutating, its durable row says that it runs.
AheadOfChild ==
  pc["worker"] = "run" =>
    LET row == db[Id(on["worker"])] IN row # None => row.kids[kid] = "running"

\* The durable queue never holds more parents than its bound, although calls
\* race between the check in memory and the transaction.
QueueBounded == Cardinality(Pending(db)) <= MaxPending

\* All accepted answers under one key name the batch that claimed it, with the
\* same canonical request.
KeyOwnsOneBatch ==
  \A r \in Requests : reply[r] \in Requests =>
    KeyOf[reply[r]] = KeyOf[r] /\ BodyOf[reply[r]] = BodyOf[r] /\ ledger[KeyOf[r]] = reply[r]

\* The durable outcome of a child never changes, but that a refused child whose
\* refusal could not be saved is called failed.
ChildIsFinal ==
  [][\A b \in Requests : db[b] # None /\ db'[b] # None =>
       \A c \in Children : db[b].kids[c] \in ChildTerminal =>
         \/ db'[b].kids[c] = db[b].kids[c]
         \/ faults > 0 /\ db[b].kids[c] = "blocked" /\ db'[b].kids[c] = "failed"]_vars

\* However calls and a crash fall, in the end every batch accepted has finished,
\* child by child, or was pruned, and stays so, as long as no call fails.
EveryBatchEnds == <>[](faults > 0 \/ \A b \in Requests : ~IsActive(db[b]))

=============================================================================
