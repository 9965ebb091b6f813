---------------------- MODULE WebhookCoordinator_proofs ----------------------
(***************************************************************************)
(* Proofs about WebhookCoordinator, for every set of deliveries and every  *)
(* payload, and for any number of crashes and failed database calls.       *)
(***************************************************************************)
EXTENDS WebhookCoordinator, TLAPS

-----------------------------------------------------------------------------
(* Types.                                                                  *)

\* The parts of TypeOK that say where each delivery is and that do not.
PlaceType ==
  /\ lock \in Deliveries \cup {None, "other"}
  /\ pc \in [Deliveries -> Pcs]
  /\ at \in [Deliveries -> Nat]
  /\ \A d \in Deliveries : at[d] \in 1..Len(Payload[d])
DataType ==
  /\ row \in [Events -> Rows]
  /\ outcome \in [Deliveries -> {None, "success", "other"}]
  /\ crashes \in Nat /\ faults \in Nat
  /\ fate \in [Events -> Fates]
Typed == PlaceType /\ DataType

LEMMA EventType ==
  ASSUME PlaceType, NEW d \in Deliveries
  PROVE  Event(d) \in Events /\ Len(Payload[d]) \in Nat \ {0}
BY PayloadAssumption DEF PlaceType, Event

LEMMA PayloadType == \A d \in Deliveries : Len(Payload[d]) \in Nat /\ 1 \in 1..Len(Payload[d])
BY PayloadAssumption

LEMMA InitTyped == Init => Typed
<1> SUFFICES ASSUME Init PROVE Typed
  OBVIOUS
<1>1. PlaceType
  BY PayloadType DEF Init, PlaceType, Pcs
<1>2. DataType
  BY DEF Init, DataType, Rows, Fates
<1> QED
  BY <1>1, <1>2 DEF Typed

LEMMA AdvanceType ==
  ASSUME PlaceType, NEW d \in Deliveries, Advance(d)
  PROVE  /\ lock' \in Deliveries \cup {None, "other"}
         /\ pc' \in [Deliveries -> Pcs]
         /\ at' \in [Deliveries -> Nat]
         /\ \A x \in Deliveries : at'[x] \in 1..Len(Payload[x])
<1>1. Len(Payload[d]) \in Nat
  BY PayloadType
<1>2. at'[d] \in 1..Len(Payload[d]) /\ \A x \in Deliveries \ {d} : at'[x] = at[x]
  BY <1>1 DEF Advance, PlaceType
<1>3. at' \in [Deliveries -> Nat] /\ pc' \in [Deliveries -> Pcs]
  BY DEF Advance, Goto, PlaceType, Pcs
<1> QED
  BY <1>2, <1>3 DEF Advance, PlaceType

LEMMA PlaceStep ==
  ASSUME Typed, [Next]_vars
  PROVE  PlaceType'
<1> USE DEF Typed
<1>1. CASE Initialize \/ OthersTakeLock \/ OthersReleaseLock \/ \E e \in Events : RetentionEnds(e)
  BY <1>1 DEF Initialize, OthersTakeLock, OthersReleaseLock, RetentionEnds, PlaceType
<1>2. CASE Crash
  BY <1>2 DEF Crash, PlaceType, Pcs
<1>3. ASSUME NEW d \in Deliveries, Receive(d) \/ Acquire(d) PROVE PlaceType'
  BY <1>3 DEF Receive, Acquire, Goto, PlaceType, Pcs, Holding
<1>4. ASSUME NEW d \in Deliveries, LoadCompleted(d) PROVE PlaceType'
  <2>1. CASE row[Event(d)] = "completed"
    BY <1>4, <2>1, AdvanceType, EventType DEF LoadCompleted, PlaceType
  <2>2. CASE row[Event(d)] # "completed"
    BY <1>4, <2>2 DEF LoadCompleted, Goto, PlaceType, Pcs, Holding
  <2> QED
    BY <2>1, <2>2
<1>5. ASSUME NEW d \in Deliveries, CheckIncomplete(d) \/ ProcessorRaises(d) \/ CallFails(d) PROVE PlaceType'
  BY <1>5 DEF CheckIncomplete, ProcessorRaises, CallFails, Abort, Goto, PlaceType, Pcs, Holding
<1>6. ASSUME NEW d \in Deliveries, MarkProcessing(d) \/ ProcessorReturns(d) PROVE PlaceType'
  BY <1>6 DEF MarkProcessing, ProcessorReturns, Goto, PlaceType, Pcs, Holding
<1>7. ASSUME NEW d \in Deliveries, Record(d) PROVE PlaceType'
  BY <1>7, AdvanceType DEF Record, PlaceType
<1>8. CASE UNCHANGED vars
  BY <1>8 DEF vars, PlaceType
<1> QED
  BY <1>1, <1>2, <1>3, <1>4, <1>5, <1>6, <1>7, <1>8 DEF Next, Step

LEMMA DataStep ==
  ASSUME Typed, [Next]_vars
  PROVE  DataType'
<1> USE DEF Typed
<1>1. CASE Initialize \/ Crash \/ OthersTakeLock \/ OthersReleaseLock
  BY <1>1 DEF Initialize, Crash, OthersTakeLock, OthersReleaseLock, Purged, DataType, Rows, Fates
<1>2. ASSUME NEW e \in Events, RetentionEnds(e) PROVE DataType'
  BY <1>2 DEF RetentionEnds, DataType, Rows, Fates
<1>3. ASSUME NEW d \in Deliveries, Receive(d) \/ Acquire(d) \/ LoadCompleted(d) \/ CheckIncomplete(d)
      PROVE  DataType'
  BY <1>3 DEF Receive, Acquire, LoadCompleted, CheckIncomplete, Abort, DataType
<1>4. ASSUME NEW d \in Deliveries, MarkProcessing(d) PROVE DataType'
  BY <1>4, EventType DEF MarkProcessing, Purged, DataType, Rows, Fates
<1>5. ASSUME NEW d \in Deliveries, ProcessorReturns(d) \/ ProcessorRaises(d) PROVE DataType'
  BY <1>5, EventType DEF ProcessorReturns, ProcessorRaises, Abort, DataType, Fates
<1>6. ASSUME NEW d \in Deliveries, Record(d) PROVE DataType'
  BY <1>6, EventType DEF Record, DataType, Rows, Fates
<1>7. ASSUME NEW d \in Deliveries, CallFails(d) PROVE DataType'
  BY <1>7, EventType DEF CallFails, Abort, DataType, Fates
<1>8. CASE UNCHANGED vars
  BY <1>8 DEF vars, DataType
<1> QED
  BY <1>1, <1>2, <1>3, <1>4, <1>5, <1>6, <1>7, <1>8 DEF Next, Step

LEMMA TypedAlways == Spec => []Typed
<1>1. Typed /\ [Next]_vars => Typed'
  BY PlaceStep, DataStep DEF Typed
<1> QED
  BY <1>1, InitTyped, PTL DEF Spec

-----------------------------------------------------------------------------
(* The marker.                                                             *)

\* Only the holder of the lock is between its acquisition and its release.
HolderAlone == \A d \in Deliveries : pc[d] \in Holding <=> lock = d

\* What a delivery has learnt of its event still holds when it relies on it.
HolderKnows ==
  \A d \in Deliveries :
    /\ pc[d] = "mark" => row[Event(d)] # "processing"
    /\ pc[d] \in {"check", "mark"} => row[Event(d)] # "completed"
    /\ pc[d] \in {"process", "record"} => fate[Event(d)] = "running"

Inv == HolderAlone /\ HolderKnows /\ MarkerTellsFate

LEMMA HolderAloneStep ==
  ASSUME Typed, HolderAlone, [Next]_vars
  PROVE  HolderAlone'
<1> USE DEF Typed, PlaceType
<1>1. CASE Initialize \/ OthersTakeLock \/ OthersReleaseLock \/ \E e \in Events : RetentionEnds(e)
  BY <1>1, PayloadAssumption DEF Initialize, OthersTakeLock, OthersReleaseLock, RetentionEnds, HolderAlone
<1>2. CASE Crash
  BY <1>2, PayloadAssumption DEF Crash, InFlight, Holding, HolderAlone
<1>3. ASSUME NEW d \in Deliveries, Receive(d) \/ Acquire(d) PROVE HolderAlone'
  BY <1>3, PayloadAssumption DEF Receive, Acquire, Goto, Holding, HolderAlone
<1>4. ASSUME NEW d \in Deliveries, LoadCompleted(d) \/ Record(d) PROVE HolderAlone'
  BY <1>4, PayloadAssumption DEF LoadCompleted, Record, Advance, Goto, Holding, HolderAlone
<1>5. ASSUME NEW d \in Deliveries, CheckIncomplete(d) \/ ProcessorRaises(d) \/ CallFails(d) PROVE HolderAlone'
  BY <1>5, PayloadAssumption DEF CheckIncomplete, ProcessorRaises, CallFails, Abort, Goto, Holding, HolderAlone
<1>6. ASSUME NEW d \in Deliveries, MarkProcessing(d) \/ ProcessorReturns(d) PROVE HolderAlone'
  BY <1>6, PayloadAssumption DEF MarkProcessing, ProcessorReturns, Goto, Holding, HolderAlone
<1>7. CASE UNCHANGED vars
  BY <1>7 DEF vars, HolderAlone
<1> QED
  BY <1>1, <1>2, <1>3, <1>4, <1>5, <1>6, <1>7 DEF Next, Step

LEMMA AdvanceKnows ==
  ASSUME Typed, HolderAlone, HolderKnows, NEW d \in Deliveries, pc[d] \in Holding, Advance(d)
  PROVE  \A x \in Deliveries : pc'[x] \notin Holding
<1>1. \A x \in Deliveries : pc[x] \in Holding => x = d
  BY DEF HolderAlone
<1>2. pc'[d] \notin Holding /\ \A x \in Deliveries \ {d} : pc'[x] = pc[x]
  BY DEF Advance, Goto, Holding, Typed, PlaceType
<1> QED
  BY <1>1, <1>2

LEMMA GotoKnows ==
  ASSUME Typed, HolderAlone, NEW d \in Deliveries, pc[d] \in Holding, NEW p, Goto(d, p)
  PROVE  \A x \in Deliveries : pc'[x] \in Holding => x = d /\ pc'[x] = p
BY DEF HolderAlone, Goto, Typed, PlaceType

LEMMA HolderKnowsStep ==
  ASSUME Typed, Inv, [Next]_vars
  PROVE  HolderKnows'
<1> USE DEF Typed, PlaceType, DataType
<1>1. CASE Initialize
  BY <1>1, EventType DEF Initialize, Purged, Inv, HolderKnows, Event
<1>2. CASE Crash
  BY <1>2 DEF Crash, InFlight, Holding, HolderKnows
<1>3. ASSUME NEW e \in Events, RetentionEnds(e) PROVE HolderKnows'
  <2>1. fate[e] = "succeeded"
    BY <1>3 DEF RetentionEnds, Inv, MarkerTellsFate
  <2> QED
    BY <1>3, <2>1, EventType DEF RetentionEnds, Inv, HolderKnows, Event
<1>4. CASE OthersTakeLock \/ OthersReleaseLock
  BY <1>4 DEF OthersTakeLock, OthersReleaseLock, Inv, HolderKnows, Event
<1>5. ASSUME NEW d \in Deliveries, Receive(d) \/ Acquire(d) PROVE HolderKnows'
  BY <1>5 DEF Receive, Acquire, Goto, Inv, HolderKnows, Event
<1>6. ASSUME NEW d \in Deliveries, LoadCompleted(d) PROVE HolderKnows'
  <2>1. CASE row[Event(d)] = "completed"
    BY <1>6, <2>1, AdvanceKnows DEF LoadCompleted, Holding, Inv, HolderKnows
  <2>2. CASE row[Event(d)] # "completed"
    BY <1>6, <2>2 DEF LoadCompleted, Goto, Inv, HolderKnows, Event
  <2> QED
    BY <2>1, <2>2
<1>7. ASSUME NEW d \in Deliveries, CheckIncomplete(d) PROVE HolderKnows'
  BY <1>7 DEF CheckIncomplete, Abort, Goto, Inv, HolderKnows, Event
<1>8. ASSUME NEW d \in Deliveries, MarkProcessing(d) PROVE HolderKnows'
  <2>1. \A x \in Deliveries : pc'[x] \in Holding => x = d /\ pc'[x] = "process"
    BY <1>8, GotoKnows DEF MarkProcessing, Holding, Inv
  <2>2. fate'[Event(d)] = "running" /\ Event(d)' = Event(d)
    BY <1>8, EventType DEF MarkProcessing, Event
  <2> QED
    BY <2>1, <2>2 DEF HolderKnows, Holding
<1>9. ASSUME NEW d \in Deliveries, ProcessorReturns(d) PROVE HolderKnows'
  BY <1>9 DEF ProcessorReturns, Goto, Inv, HolderKnows, Event
<1>10. ASSUME NEW d \in Deliveries, ProcessorRaises(d) \/ CallFails(d) PROVE HolderKnows'
  <2>1. pc[d] \in Holding /\ Goto(d, "error")
    BY <1>10 DEF ProcessorRaises, CallFails, Abort, Holding
  <2>2. \A x \in Deliveries : pc'[x] \notin Holding
    BY <2>1, GotoKnows DEF Holding, Inv
  <2> QED
    BY <2>2 DEF HolderKnows, Holding
<1>11. ASSUME NEW d \in Deliveries, Record(d) PROVE HolderKnows'
  BY <1>11, AdvanceKnows DEF Record, Holding, Inv, HolderKnows
<1>12. CASE UNCHANGED vars
  BY <1>12 DEF vars, Inv, HolderKnows, Event
<1> QED
  BY <1>1, <1>2, <1>3, <1>4, <1>5, <1>6, <1>7, <1>8, <1>9, <1>10, <1>11, <1>12 DEF Next, Step

\* What MarkerTellsFate says of one event.
Told(e) ==
  /\ row[e] = "processing" <=> fate[e] \in {"running", "unknown"}
  /\ row[e] = "completed" <=> fate[e] = "succeeded"
  /\ fate[e] = "running" =>
       \E d \in Deliveries : lock = d /\ Event(d) = e /\ pc[d] \in {"process", "record"}

\* A delivery that is not processing may go anywhere without a trace.
LEMMA Untouched ==
  ASSUME Typed, Inv, NEW e \in Events, row'[e] = row[e], fate'[e] = fate[e],
         \/ fate[e] # "running"
         \/ UNCHANGED <<lock, pc, at>>
  PROVE  Told(e)'
BY DEF Inv, MarkerTellsFate, Told, Event

\* The holder of the lock is the delivery that processes a running event.
LEMMA RunningHere ==
  ASSUME Typed, Inv, NEW d \in Deliveries, pc[d] \in Holding, NEW e \in Events, fate[e] = "running"
  PROVE  pc[d] \in {"process", "record"} /\ e = Event(d)
BY DEF Inv, HolderAlone, MarkerTellsFate

LEMMA MarkerStep ==
  ASSUME Typed, Inv, [Next]_vars
  PROVE  MarkerTellsFate'
<1> SUFFICES ASSUME NEW e \in Events PROVE Told(e)'
  BY DEF MarkerTellsFate, Told
<1> USE DEF Typed, PlaceType, DataType
<1>1. CASE Initialize
  BY <1>1 DEF Initialize, Purged, Inv, MarkerTellsFate, Told, Event
<1>2. CASE Crash
  BY <1>2 DEF Crash, Inv, MarkerTellsFate, Told
<1>3. ASSUME NEW x \in Events, RetentionEnds(x) PROVE Told(e)'
  BY <1>3 DEF RetentionEnds, Inv, MarkerTellsFate, Told, Event
<1>4. CASE OthersTakeLock \/ OthersReleaseLock
  BY <1>4, PayloadAssumption DEF OthersTakeLock, OthersReleaseLock, Inv, MarkerTellsFate, Told
<1>5. ASSUME NEW d \in Deliveries, Receive(d) \/ Acquire(d) PROVE Told(e)'
  <2>1. row' = row /\ fate' = fate /\ at' = at /\ \A x \in Deliveries \ {d} : pc'[x] = pc[x]
    BY <1>5 DEF Receive, Acquire, Goto
  <2>2. CASE fate[e] # "running"
    BY <2>1, <2>2, Untouched
  <2>3. CASE fate[e] = "running"
    <3>1. PICK x \in Deliveries : lock = x /\ Event(x) = e /\ pc[x] \in {"process", "record"}
      BY <2>3 DEF Inv, MarkerTellsFate
    <3>2. lock' = x /\ x # d
      BY <1>5, <3>1, PayloadAssumption DEF Receive, Acquire
    <3>3. Event(x)' = e /\ pc'[x] = pc[x]
      BY <2>1, <3>1, <3>2 DEF Event
    <3> QED
      BY <2>1, <3>1, <3>2, <3>3 DEF Inv, MarkerTellsFate, Told
  <2> QED
    BY <2>2, <2>3
<1>6. ASSUME NEW d \in Deliveries, LoadCompleted(d) \/ CheckIncomplete(d) PROVE Told(e)'
  <2>1. pc[d] \in Holding /\ pc[d] \notin {"process", "record"}
    BY <1>6 DEF LoadCompleted, CheckIncomplete, Holding
  <2>2. row' = row /\ fate' = fate
    BY <1>6 DEF LoadCompleted, CheckIncomplete, Abort
  <2> QED
    BY <2>1, <2>2, RunningHere, Untouched
<1>7. ASSUME NEW d \in Deliveries, MarkProcessing(d) PROVE Told(e)'
  <2>1. pc[d] \in Holding /\ pc[d] \notin {"process", "record"}
    BY <1>7 DEF MarkProcessing, Holding
  <2>2. fate[e] # "running"
    BY <2>1, RunningHere
  <2>3. CASE e = Event(d)
    <3>1. row'[e] = "processing" /\ fate'[e] = "running" /\ Event(d)' = e
      BY <1>7, <2>3, EventType DEF MarkProcessing, Purged, Event
    <3>2. lock' = d /\ pc'[d] = "process"
      BY <1>7, <2>1 DEF MarkProcessing, Goto, Inv, HolderAlone
    <3> QED
      BY <3>1, <3>2 DEF Told
  <2>4. CASE e # Event(d)
    <3>1. row'[e] = (IF row[e] = "expired" THEN "none" ELSE row[e]) /\ fate'[e] = fate[e]
      BY <1>7, <2>4 DEF MarkProcessing, Purged
    <3> QED
      BY <2>2, <3>1 DEF Inv, MarkerTellsFate, Told
  <2> QED
    BY <2>3, <2>4
<1>8. ASSUME NEW d \in Deliveries, ProcessorReturns(d) PROVE Told(e)'
  BY <1>8 DEF ProcessorReturns, Goto, Inv, MarkerTellsFate, Told, Event
<1>9. ASSUME NEW d \in Deliveries, ProcessorRaises(d) \/ CallFails(d) PROVE Told(e)'
  <2>1. pc[d] \in Holding /\ row' = row
    BY <1>9 DEF ProcessorRaises, CallFails, Abort, Holding
  <2>2. CASE fate[e] # "running"
    <3>1. pc[d] \in {"process", "record"} => e # Event(d)
      BY <2>2 DEF Inv, HolderKnows
    <3>2. fate'[e] = fate[e]
      BY <1>9, <3>1, <2>1 DEF ProcessorRaises, CallFails
    <3> QED
      BY <2>1, <2>2, <3>2, Untouched
  <2>3. CASE fate[e] = "running"
    <3>1. pc[d] \in {"process", "record"} /\ e = Event(d)
      BY <2>1, <2>3, RunningHere
    <3>2. fate'[e] = "unknown"
      BY <1>9, <3>1 DEF ProcessorRaises, CallFails
    <3> QED
      BY <2>1, <2>3, <3>2 DEF Inv, MarkerTellsFate, Told
  <2> QED
    BY <2>2, <2>3
<1>10. ASSUME NEW d \in Deliveries, Record(d) PROVE Told(e)'
  <2>1. pc[d] \in Holding /\ pc[d] = "record"
    BY <1>10 DEF Record, Holding
  <2>2. CASE e = Event(d)
    BY <1>10, <2>2 DEF Record, Told
  <2>3. CASE e # Event(d)
    <3>1. fate[e] # "running"
      BY <2>1, <2>3, RunningHere
    <3>2. row'[e] = row[e] /\ fate'[e] = fate[e]
      BY <1>10, <2>3 DEF Record
    <3> QED
      BY <3>1, <3>2, Untouched
  <2> QED
    BY <2>2, <2>3
<1>11. CASE UNCHANGED vars
  BY <1>11, Untouched DEF vars
<1> QED
  BY <1>1, <1>2, <1>3, <1>4, <1>5, <1>6, <1>7, <1>8, <1>9, <1>10, <1>11 DEF Next, Step

LEMMA InvAlways == Spec => []Inv
<1>1. Init => Inv
  BY PayloadAssumption DEF Init, Inv, HolderAlone, HolderKnows, MarkerTellsFate, Holding
<1>2. Typed /\ Inv /\ [Next]_vars => Inv'
  <2>1. ASSUME Typed, Inv, [Next]_vars PROVE Inv'
    BY <2>1, HolderAloneStep, HolderKnowsStep, MarkerStep DEF Inv
  <2> QED
    BY <2>1
<1> QED
  BY <1>1, <1>2, TypedAlways, PTL DEF Spec

\* The marker in SQLite tells exactly which events were processed, which are
\* being processed and which nobody can know about.
THEOREM MarkerIsTrue == Spec => []MarkerTellsFate
<1>1. Inv => MarkerTellsFate
  BY DEF Inv
<1> QED
  BY <1>1, InvAlways, PTL

\* No redelivery, however it races, and no restart processes an event again
\* while its earlier processing succeeded within retention, runs, or ended in
\* a way nobody knows.
THEOREM ReplaysAreSafe == Spec => OnlySafeReplays
<1>1. ASSUME Typed, Inv, [Next]_vars, NEW e \in Events, fate'[e] = "running"
      PROVE  fate[e] \in {"running", "never", "failed", "aged"}
  <2> USE DEF Typed, DataType
  <2>1. CASE \E d \in Deliveries : MarkProcessing(d) /\ e = Event(d)
    <3>1. PICK d \in Deliveries : MarkProcessing(d) /\ e = Event(d)
      BY <2>1
    <3>2. pc[d] = "mark"
      BY <3>1 DEF MarkProcessing
    <3>3. row[e] # "processing" /\ row[e] # "completed"
      BY <1>1, <3>1, <3>2 DEF Inv, HolderKnows
    <3>4. fate[e] \notin {"running", "unknown", "succeeded"} /\ fate[e] \in Fates
      BY <1>1, <3>3 DEF Inv, MarkerTellsFate
    <3> QED
      BY <3>4 DEF Fates
  <2>2. CASE ~\E d \in Deliveries : MarkProcessing(d) /\ e = Event(d)
    <3>1. fate[e] = "running"
      BY <1>1, <2>2
      DEF Next, Step, Initialize, Crash, OthersTakeLock, OthersReleaseLock, RetentionEnds, Receive, Acquire,
          LoadCompleted, CheckIncomplete, Abort, MarkProcessing, ProcessorReturns, ProcessorRaises, Record,
          CallFails, vars
    <3> QED
      BY <3>1
  <2> QED
    BY <2>1, <2>2
<1>2. Typed /\ Inv /\ [Next]_vars =>
        [\A e \in Events : fate'[e] = "running" => fate[e] \in {"running", "never", "failed", "aged"}]_vars
  BY <1>1
<1> QED
  BY <1>2, TypedAlways, InvAlways, PTL DEF Spec, OnlySafeReplays

=============================================================================
