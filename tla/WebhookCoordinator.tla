------------------------- MODULE WebhookCoordinator -------------------------
(***************************************************************************)
(* DeletionExecutionCoordinator behind POST /webhook/jellyfin: deliveries  *)
(* of media events, processed one at a time under the global safety lock   *)
(* and remembered in processed_webhook_events.  A delivery carries one or  *)
(* more events; Jellyfin may deliver an event again, at once or much       *)
(* later.  An event is its event_key; of its result only SUCCESS matters.  *)
(* The cascade that a processor runs is an outcome chosen here.            *)
(***************************************************************************)
EXTENDS Naturals, Sequences

CONSTANTS
  Deliveries,  \* webhook requests
  Events,      \* event keys
  Payload,     \* the events each request carries
  CrashBudget, \* bound: process crashes explored
  FaultBudget, \* bound: failed database calls explored
  None         \* nobody, or no outcome yet

ASSUME PayloadAssumption ==
  /\ Payload \in [Deliveries -> Seq(Events) \ {<<>>}]
  /\ {CrashBudget, FaultBudget} \subseteq Nat
  /\ None \notin Deliveries /\ "other" \notin Deliveries /\ None # "other"

VARIABLES
  up,      \* the process runs and has initialised the coordinator
  row,     \* processed_webhook_events, by event: its marker, or its result and age
  lock,    \* holder of the global safety lock
  pc,      \* control point of each delivery
  at,      \* index of the event a delivery is at
  outcome, \* what the processor returned to a delivery
  crashes, faults, \* consumed budgets
  fate     \* history: how the last processing of each event ended

vars == <<up, row, lock, pc, at, outcome, crashes, faults, fate>>

Rows == {"none", "processing", "completed", "expired"}
Fates == {"never", "running", "failed", "succeeded", "aged", "unknown"}
Holding == {"load", "check", "mark", "process", "record"}
Pcs == {"new", "wait", "answered", "blocked", "error", "lost"} \cup Holding

TypeOK ==
  /\ up \in BOOLEAN
  /\ row \in [Events -> Rows]
  /\ lock \in Deliveries \cup {None, "other"}
  /\ pc \in [Deliveries -> Pcs]
  /\ at \in [Deliveries -> Nat]
  /\ \A d \in Deliveries : at[d] \in 1..Len(Payload[d])
  /\ outcome \in [Deliveries -> {None, "success", "other"}]
  /\ crashes \in Nat /\ faults \in Nat
  /\ fate \in [Events -> Fates]

Event(d) == Payload[d][at[d]]

Init ==
  /\ up = FALSE /\ row = [e \in Events |-> "none"] /\ lock = None
  /\ pc = [d \in Deliveries |-> "new"] /\ at = [d \in Deliveries |-> 1]
  /\ outcome = [d \in Deliveries |-> None]
  /\ crashes = 0 /\ faults = 0
  /\ fate = [e \in Events |-> "never"]

-----------------------------------------------------------------------------
(* The process and the passing of time.                                    *)

Purged == [e \in Events |-> IF row[e] = "expired" THEN "none" ELSE row[e]]

Initialize ==
  /\ ~up /\ up' = TRUE /\ row' = Purged
  /\ UNCHANGED <<lock, pc, at, outcome, crashes, faults, fate>>

InFlight(d) == pc[d] = "wait" \/ pc[d] \in Holding

Crash ==
  /\ up /\ crashes < CrashBudget
  /\ up' = FALSE /\ lock' = None /\ crashes' = crashes + 1
  /\ pc' = [d \in Deliveries |-> IF InFlight(d) THEN "lost" ELSE pc[d]]
  /\ fate' = [e \in Events |-> IF fate[e] = "running" THEN "unknown" ELSE fate[e]]
  /\ UNCHANGED <<row, at, outcome, faults>>

\* A completed result gets older than the retention.
RetentionEnds(e) ==
  /\ row[e] = "completed"
  /\ row' = [row EXCEPT ![e] = "expired"] /\ fate' = [fate EXCEPT ![e] = "aged"]
  /\ UNCHANGED <<up, lock, pc, at, outcome, crashes, faults>>

\* Jobs, batches, downloads and the synchronous endpoint share the lock.
OthersTakeLock ==
  /\ up /\ lock = None /\ lock' = "other"
  /\ UNCHANGED <<up, row, pc, at, outcome, crashes, faults, fate>>

OthersReleaseLock ==
  /\ lock = "other" /\ lock' = None
  /\ UNCHANGED <<up, row, pc, at, outcome, crashes, faults, fate>>

-----------------------------------------------------------------------------
(* process_webhook, one event after the other.                             *)

Goto(d, point) == pc' = [pc EXCEPT ![d] = point]

\* The endpoint's loop goes on with the next event, or answers.
Advance(d) ==
  /\ lock' = None
  /\ IF at[d] < Len(Payload[d])
       THEN Goto(d, "wait") /\ at' = [at EXCEPT ![d] = @ + 1]
       ELSE Goto(d, "answered") /\ UNCHANGED at

\* Mutant of Abort: the lock is kept when an exception is raised.
AbortLocked(d, answer) == Goto(d, answer) /\ UNCHANGED <<up, row, lock, at, outcome, crashes>>

\* An exception leaves the lock and the loop: the rest is not processed.
Abort(d, answer) ==
  /\ lock' = None /\ Goto(d, answer)
  /\ UNCHANGED <<up, row, at, outcome, crashes>>

Receive(d) ==
  /\ up /\ pc[d] = "new" /\ Goto(d, "wait")
  /\ UNCHANGED <<up, row, lock, at, outcome, crashes, faults, fate>>

Acquire(d) ==
  /\ pc[d] = "wait" /\ lock = None /\ lock' = d /\ Goto(d, "load")
  /\ UNCHANGED <<up, row, at, outcome, crashes, faults, fate>>

\* load_completed_webhook: a result within the retention is returned again.
LoadCompleted(d) ==
  /\ pc[d] = "load"
  /\ IF row[Event(d)] = "completed"
       THEN Advance(d)
       ELSE Goto(d, "check") /\ UNCHANGED <<lock, at>>
  /\ UNCHANGED <<up, row, outcome, crashes, faults, fate>>

\* Mutant of CheckIncomplete: a marker left behind does not block.
IgnoreIncomplete(d) ==
  /\ pc[d] = "check" /\ Goto(d, "mark")
  /\ UNCHANGED <<up, row, lock, at, outcome, crashes, faults, fate>>

\* has_incomplete_webhook: a processing that never ended blocks the event.
CheckIncomplete(d) ==
  /\ pc[d] = "check"
  /\ \/ row[Event(d)] = "processing" /\ Abort(d, "blocked")
     \/ /\ row[Event(d)] # "processing" /\ Goto(d, "mark")
        /\ UNCHANGED <<up, row, lock, at, outcome, crashes>>
  /\ UNCHANGED <<faults, fate>>

\* mark_webhook_processing also purges what is out of retention.
MarkProcessing(d) ==
  /\ pc[d] = "mark" /\ Goto(d, "process")
  /\ row' = [Purged EXCEPT ![Event(d)] = "processing"]
  /\ fate' = [fate EXCEPT ![Event(d)] = "running"]
  /\ UNCHANGED <<up, lock, at, outcome, crashes, faults>>

ProcessorReturns(d) ==
  /\ pc[d] = "process" /\ Goto(d, "record")
  /\ \E status \in {"success", "other"} : outcome' = [outcome EXCEPT ![d] = status]
  /\ UNCHANGED <<up, row, lock, at, crashes, faults, fate>>

\* The cascade, or the activity record after it, raises: the marker stays.
ProcessorRaises(d) ==
  /\ pc[d] = "process" /\ Abort(d, "error")
  /\ fate' = [fate EXCEPT ![Event(d)] = "unknown"]
  /\ UNCHANGED faults

\* Mutant of Record: every result is recorded as completed.
RecordAsCompleted(d) ==
  /\ pc[d] = "record" /\ row' = [row EXCEPT ![Event(d)] = "completed"]
  /\ fate' = [fate EXCEPT ![Event(d)] = IF outcome[d] = "success" THEN "succeeded" ELSE "failed"]
  /\ Advance(d) /\ outcome' = [outcome EXCEPT ![d] = None]
  /\ UNCHANGED <<up, crashes, faults>>

\* mark_webhook_completed after a success, delete_webhook after anything else.
Record(d) ==
  /\ pc[d] = "record"
  /\ \/ /\ outcome[d] = "success"
        /\ row' = [row EXCEPT ![Event(d)] = "completed"] /\ fate' = [fate EXCEPT ![Event(d)] = "succeeded"]
     \/ /\ outcome[d] # "success"
        /\ row' = [row EXCEPT ![Event(d)] = "none"] /\ fate' = [fate EXCEPT ![Event(d)] = "failed"]
  /\ Advance(d) /\ outcome' = [outcome EXCEPT ![d] = None]
  /\ UNCHANGED <<up, crashes, faults>>

\* Any of the four database calls may raise.
CallFails(d) ==
  /\ faults < FaultBudget /\ faults' = faults + 1
  /\ pc[d] \in {"load", "check", "mark", "record"} /\ Abort(d, "error")
  /\ fate' = IF pc[d] = "record" THEN [fate EXCEPT ![Event(d)] = "unknown"] ELSE fate

Step(d) ==
  \/ LoadCompleted(d) \/ CheckIncomplete(d) \/ MarkProcessing(d)
  \/ ProcessorReturns(d) \/ ProcessorRaises(d) \/ Record(d)

Next ==
  \/ Initialize \/ Crash \/ OthersTakeLock \/ OthersReleaseLock
  \/ \E e \in Events : RetentionEnds(e)
  \/ \E d \in Deliveries : Receive(d) \/ Acquire(d) \/ Step(d) \/ CallFails(d)

Spec == Init /\ [][Next]_vars

\* The event loop runs, processors end, other holders leave the lock, and a
\* free asyncio.Lock is not kept from its waiters for ever.
Fairness ==
  /\ WF_vars(OthersReleaseLock) /\ SF_vars(\E d \in Deliveries : Acquire(d))
  /\ \A d \in Deliveries : WF_vars(Step(d))

FairSpec == Spec /\ Fairness

-----------------------------------------------------------------------------
(* Properties.                                                             *)

\* The durable row of an event is the truth about it, whatever crashed or
\* failed: a marker exactly while its processing runs under the lock or after
\* one that never ended, a result exactly after a success within retention.
MarkerTellsFate ==
  \A e \in Events :
    /\ row[e] = "processing" <=> fate[e] \in {"running", "unknown"}
    /\ row[e] = "completed" <=> fate[e] = "succeeded"
    /\ fate[e] = "running" =>
         \E d \in Deliveries : lock = d /\ Event(d) = e /\ pc[d] \in {"process", "record"}

\* An event is processed again only after a result that was no success, or
\* after a success older than the retention: never beside another processing,
\* never after one that raised, was cut off or could not be recorded.
OnlySafeReplays ==
  [][\A e \in Events :
       fate'[e] = "running" => fate[e] \in {"running", "never", "failed", "aged"}]_vars

\* In the end every delivery received has been answered, or was lost with the
\* process: no path keeps the safety lock and nobody waits for it for ever.
DeliveriesEnd == <>[](\A d \in Deliveries : ~InFlight(d))

=============================================================================
