-------------------------- MODULE Downloads_proofs --------------------------
(***************************************************************************)
(* Proofs about Downloads, for every fleet of clients and torrents, policy *)
(* and mode, number of cycles, operators and keys, failures and crashes.   *)
(***************************************************************************)
EXTENDS Downloads, FiniteSetTheorems, Functions, TLAPS

USE DEF durable, clients, locals, history, budgets

-----------------------------------------------------------------------------
(* The inductive invariant.                                                *)

\* Stages under the lock, those whose record exists, those of a call.
Locked == {"count", "look", "save", "run", "command", "verify"}
Bound == Locked \union {"wait"}
Calling == Bound \union {"claim"}

\* What a record says when its command is, or may be, out.
SentStatuses == {"running", "succeeded", "uncertain", "reconcile_required"}

\* A call has a request, for one of the torrents.
CallInv == \A p \in Procs : pc[p] \in Calling => Key(p) \in AllKeys /\ Target(p) \in Targets

\* Whoever is past its entry holds the lock, and nobody else.
LockInv == \A p \in Procs : pc[p] \in Locked <=> lock = p

\* A call goes on with the record of its own request.
RecordInv ==
  \A p \in Procs : pc[p] \in Bound =>
    acts[Key(p)] # None /\ Canonical(acts[Key(p)]) = <<Target(p), req[p].action, mode.dry>>

\* The record tells the stage of the holder of the lock.
StageInv ==
  \A p \in Procs :
    LET status == acts[Key(p)].status
        next == put[p].status
    IN  /\ pc[p] \in {"count", "look"} => status = "queued"
        /\ pc[p] \in {"run", "command", "verify"} => status = "running"
        /\ pc[p] \in {"run", "command"} => sent[Key(p)] = 0
        /\ pc[p] = "save" =>
             \/ status = "queued" /\ next \in {"running", "failed", "already_in_state"}
             \/ /\ status = "running" /\ next \in Outcomes
                /\ sent[Key(p)] # 0 => next \in SentStatuses

SentInv ==
  \A k \in AllKeys : sent[k] # 0 => sent[k] = 1 /\ acts[k] # None /\ acts[k].status \in SentStatuses

\* The torrents a policy action may command.
Scoped == {t \in Targets : t[2] \in Managed /\ OutOfScope(Policy, Metrics[t]) = None}

ScopeInv ==
  /\ \A t \in Targets : rows[t] # None /\ rows[t].owner = "managed" => t[2] \in Managed
  /\ \A p \in Procs :
       /\ todo[p] \subseteq Scoped
       /\ pc[p] \in Calling /\ Key(p) \in Targets => Key(p) \in Scoped /\ req[p].action = "pause"
       /\ pc[p] = "command" => ~mode.dry

CommandInv == CallInv /\ LockInv /\ RecordInv /\ StageInv /\ SentInv /\ RunningIsRun
IInv == TypeOK /\ CommandInv

-----------------------------------------------------------------------------
(* The constants, and what the operators return.                           *)

LEMMA NamesDiffer ==
  /\ None \notin Procs /\ Cycles \subseteq Procs /\ Operators \subseteq Procs
  /\ Targets \subseteq AllKeys /\ Keys \subseteq AllKeys /\ Keys \cap Targets = {}
BY DownloadsAssumption DEF Procs, AllKeys

LEMMA ModeType == \A m \in Modes : m.dry \in BOOLEAN /\ m.max \in 1..5
BY DownloadsAssumption

LEMMA TorrentType == DOMAIN Order = 1..Len(Order) /\ Len(Order) \in Nat /\ \A i \in DOMAIN Order : Order[i] \in Targets
BY DownloadsAssumption DEF Targets

LEMMA TargetsFinite == IsFiniteSet(Targets)
<1>1. IsFiniteSet(1..Len(Order)) /\ DOMAIN Order = 1..Len(Order)
  BY TorrentType, FS_Interval
<1>2. Order \in Surjection(1..Len(Order), Targets)
  BY <1>1, DownloadsAssumption DEF Targets, Surjection
<1> QED
  BY <1>1, <1>2, FS_Surjection

LEMMA OwnerType == \A t, listed, known, arrFailed, fleet : Ownership(t, listed, known, arrFailed, fleet) \in Owners
BY DEF Ownership, Owners

\* A torrent is managed only when Arr knows its hash and no other client has it.
LEMMA OwnershipIs ==
  ASSUME NEW t, NEW listed, NEW known, NEW arrFailed, NEW fleet,
         Ownership(t, listed, known, arrFailed, fleet) = "managed"
  PROVE  t[2] \in known /\ ~(Cardinality({u \in listed : u[2] = t[2]}) > 1)
BY DEF Ownership

\* An eligible torrent is managed, by a fresh row, and in scope.
LEMMA EligibleIs ==
  ASSUME NEW t, IsEligible(t)
  PROVE  rows[t] # None /\ rows[t].owner = "managed" /\ OutOfScope(Policy, Metrics[t]) = None
BY DEF IsEligible, Eligible, Evaluate, OutOfScope

-----------------------------------------------------------------------------
(* Types.                                                                  *)

FleetType ==
  /\ torrent \in [Targets -> States \union {"absent"}] /\ late \subseteq Targets \X States
  /\ mode \in Modes /\ lock \in Procs \union {None}
RowType == rows \in [Targets -> Rows \union {None}]
ActType == acts \in [AllKeys -> Records \union {None}]
PcType == pc \in [Procs -> Stages]
LocalType ==
  /\ req \in [Procs -> Requests] /\ put \in [Procs -> Updates]
  /\ heard \in [Procs -> SUBSET Listings] /\ todo \in [Procs -> SUBSET Targets]
CountType ==
  /\ sent \in [AllKeys -> Nat] /\ stuck \subseteq AllKeys
  /\ cycles \in Nat /\ calls \in Nat /\ users \in Nat /\ faults \in Nat /\ crashes \in Nat

LEMMA Types == TypeOK <=> FleetType /\ RowType /\ ActType /\ PcType /\ LocalType /\ CountType
BY DEF TypeOK, FleetType, RowType, ActType, PcType, LocalType, CountType

LEMMA StateTypes ==
  /\ \A action : Goal(action) \in States
  /\ NoRequest \in Requests /\ NoUpdate \in Updates
BY DEF Goal, States, NoRequest, Requests, Actions, NoUpdate, Updates, Statuses, Codes

LEMMA FleetStep ==
  ASSUME IInv, [Next]_vars
  PROVE  FleetType'
<1> USE Types, NamesDiffer DEF IInv, FleetType
<1>1. CASE (\E p \in Cycles : CycleStart(p)) \/ (\E p \in Cycles : CycleSave(p)) \/ (\E p \in Cycles
      : CycleTimeout(p)) \/ (\E p \in Cycles : CycleEvaluate(p)) \/ (\E p \in Cycles : CycleNext(p))
      \/ (\E p \in Cycles, c \in Clients : CycleRead(p, c))
  BY <1>1 DEF CycleStart, CycleSave, CycleTimeout, CycleEvaluate, CycleNext, CycleRead, Heard
<1>2. CASE (\E p \in Operators : OperatorCalls(p)) \/ (\E p \in Procs : Claim(p)) \/ (\E p \in Procs
      : Count(p)) \/ (\E p \in Procs : Look(p)) \/ (\E p \in Procs : DryRun(p)) \/ (\E p \in Procs :
      PreRead(p))
  BY <1>2 DEF OperatorCalls, Claim, Count, Look, DryRun, PreRead
<1>3. CASE (\E p \in Procs : Verify(p)) \/ UNCHANGED vars
  BY <1>3 DEF Verify, vars
<1>4. CASE \E p \in Procs : Enter(p) \/ Save(p) \/ WriteFails(p)
  BY <1>4 DEF Enter, Save, Leave, WriteFails
<1>5. ASSUME NEW p \in Procs, Command(p)
      PROVE  FleetType'
  <2>1. Target(p) \in Targets
    BY <1>5 DEF Command, CommandInv, CallInv, Calling, Bound, Locked
  <2>2. late' \subseteq late \union {<<Target(p), Goal(req[p].action)>>} /\ UNCHANGED <<torrent, mode, lock>>
    BY <1>5 DEF Command
  <2> QED
    BY <2>1, <2>2, StateTypes
<1>6. CASE Crash
  BY <1>6 DEF Crash
<1>7. ASSUME NEW e \in late, Apply(e)
      PROVE  FleetType'
  BY <1>7 DEF Apply
<1>8. ASSUME NEW t \in Targets, UserActs(t)
      PROVE  FleetType'
  BY <1>8 DEF UserActs, States
<1> QED
  BY <1>1, <1>2, <1>3, <1>4, <1>5, <1>6, <1>7, <1>8
  DEF Next, Cycle, Control, Environment

\* A saved listing holds what the clients reported, and makes the rest stale.
LEMMA StaledType ==
  ASSUME RowType
  PROVE  /\ Staled \in [Targets -> Rows \union {None}]
         /\ \A t \in Targets : Staled[t] # None =>
              rows[t] # None /\ Staled[t].owner = rows[t].owner /\ Staled[t].freshness = "stale"
<1> USE NoneIsNoRecord DEF RowType, Rows, Staled
<1>1. ASSUME NEW t \in Targets, rows[t] # None
      PROVE  /\ [rows[t] EXCEPT !.freshness = "stale"] \in Rows
             /\ [rows[t] EXCEPT !.freshness = "stale"].owner = rows[t].owner
             /\ [rows[t] EXCEPT !.freshness = "stale"].freshness = "stale"
  BY <1>1
<1> QED
  BY <1>1

LEMMA ListingType ==
  ASSUME LocalType, NEW p \in Procs
  PROVE  Listing(p) \in SUBSET (Targets \X States)
BY DEF LocalType, Listings, Listing

LEMMA ObservedType ==
  ASSUME RowType, LocalType, NEW p \in Procs, NEW arrFailed
  PROVE  Observed(p, arrFailed) \in [Targets -> Rows \union {None}]
<1>1. ASSUME NEW t \in Listed(p), NEW owner \in Owners
      PROVE  [state |-> CHOOSE s \in States : <<t, s>> \in Listing(p), freshness |-> "fresh", owner |-> owner] \in Rows
  <2>1. \E s \in States : <<t, s>> \in Listing(p)
    BY ListingType DEF Listed
  <2> QED
    BY <2>1 DEF Rows
<1> QED
  BY <1>1, StaledType, OwnerType DEF Observed

LEMMA RowStep ==
  ASSUME IInv, [Next]_vars
  PROVE  RowType'
<1> USE Types DEF IInv
<1>1. CASE (\E p \in Cycles : CycleStart(p)) \/ (\E p \in Cycles : CycleEvaluate(p)) \/ (\E p \in
      Cycles : CycleNext(p)) \/ (\E p \in Cycles, c \in Clients : CycleRead(p, c)) \/ (\E p \in
      Operators : OperatorCalls(p)) \/ (\E p \in Procs : Claim(p))
  BY <1>1 DEF RowType, CycleStart, CycleEvaluate, CycleNext, CycleRead, Heard, OperatorCalls, Claim
<1>2. CASE (\E p \in Procs : Enter(p)) \/ (\E p \in Procs : Count(p)) \/ (\E p \in Procs : Look(p))
      \/ (\E p \in Procs : Save(p)) \/ (\E p \in Procs : DryRun(p)) \/ (\E p \in Procs : PreRead(p))
  BY <1>2 DEF RowType, Enter, Count, Look, Save, DryRun, PreRead
<1>3. CASE (\E p \in Procs : Command(p)) \/ (\E p \in Procs : Verify(p)) \/ (\E p \in Procs :
      WriteFails(p)) \/ Crash \/ (\E e \in late : Apply(e)) \/ (\E u \in Targets : UserActs(u))
  BY <1>3 DEF RowType, Command, Verify, WriteFails, Crash, Apply, UserActs
<1>4. CASE UNCHANGED vars
  BY <1>4 DEF RowType, vars
<1>5. ASSUME NEW p \in Cycles, CycleSave(p) \/ CycleTimeout(p)
      PROVE  RowType'
  <2>1. rows' = Staled \/ \E arrFailed \in BOOLEAN : rows' = Observed(p, arrFailed)
    BY <1>5 DEF CycleSave, CycleTimeout
  <2> QED
    BY <2>1, StaledType, ObservedType, NamesDiffer DEF RowType
<1> QED
  BY <1>1, <1>2, <1>3, <1>4, <1>5
  DEF Next, Cycle, Control, Environment

\* What becomes of a record: claimed, claimed again, counted, settled.
New(r) ==
  [target |-> r.target, action |-> r.action, dry |-> mode.dry, status |-> "queued", code |-> "queued",
   attempts |-> 0, max |-> r.max]
Retried(a, r) == [a EXCEPT !.status = "queued", !.max = r.max]
Counted(a) == [a EXCEPT !.attempts = @ + 1]
Settled(a, u) == [a EXCEPT !.status = u.status, !.code = u.code]

LEMMA RecordIs ==
  ASSUME NEW a \in Records
  PROVE  /\ \A r \in Requests : /\ Retried(a, r) \in Records /\ Retried(a, r).status = "queued"
                                /\ Canonical(Retried(a, r)) = Canonical(a)
         /\ Counted(a) \in Records /\ Counted(a).status = a.status /\ Canonical(Counted(a)) = Canonical(a)
         /\ \A u \in Updates : /\ Settled(a, u) \in Records /\ Settled(a, u).status = u.status
                               /\ Canonical(Settled(a, u)) = Canonical(a)
         /\ Recovered(a) \in Records /\ Canonical(Recovered(a)) = Canonical(a)
         /\ Recovered(a).status = IF a.status = "running" THEN "reconcile_required" ELSE a.status
<1> USE DEF Records, Canonical
<1>1. \A r \in Requests : /\ Retried(a, r) \in Records /\ Retried(a, r).status = "queued"
                          /\ Canonical(Retried(a, r)) = Canonical(a)
  BY DEF Retried, Requests, Statuses
<1>2. Counted(a) \in Records /\ Counted(a).status = a.status /\ Canonical(Counted(a)) = Canonical(a)
  BY DEF Counted
<1>3. \A u \in Updates : /\ Settled(a, u) \in Records /\ Settled(a, u).status = u.status
                         /\ Canonical(Settled(a, u)) = Canonical(a)
  BY DEF Settled, Updates
<1>4. Recovered(a) = IF a.status = "running"
                       THEN Settled(a, [status |-> "reconcile_required", code |-> "restart_recovery"]) ELSE a
  BY NoneIsNoRecord DEF Recovered, Settled
<1>5. [status |-> "reconcile_required", code |-> "restart_recovery"] \in Updates
  BY DEF Updates, Statuses, Outcomes, Codes
<1> QED
  BY <1>1, <1>2, <1>3, <1>4, <1>5

LEMMA NewIs ==
  ASSUME IInv, NEW p \in Procs, Key(p) \in AllKeys, Target(p) \in Targets
  PROVE  /\ New(req[p]) \in Records /\ New(req[p]).status = "queued"
         /\ Canonical(New(req[p])) = <<Target(p), req[p].action, mode.dry>>
<1>1. req[p] \in Requests /\ mode.dry \in BOOLEAN
  BY Types, ModeType DEF IInv, LocalType, FleetType
<1> QED
  BY <1>1 DEF New, Records, Requests, Target, Statuses, Codes, Canonical

\* What a claim leaves: a new record, a conflict, or the record it found, which
\* is queued again when a policy call may retry it.
LEMMA ClaimIs ==
  ASSUME IInv, NEW p \in Procs, Claim(p)
  PROVE  /\ Key(p) \in AllKeys /\ Target(p) \in Targets
         /\ LET k == Key(p)
                a == acts[k]
            IN  \/ a = None /\ acts' = [acts EXCEPT ![k] = New(req[p])] /\ Goto(p, "wait")
                \/ a # None /\ UNCHANGED acts /\ (Goto(p, "idle") \/ Goto(p, "next"))
                \/ a # None /\ Canonical(a) = Canonical(New(req[p])) /\ UNCHANGED acts /\ Goto(p, "wait")
                \/ /\ a # None /\ Canonical(a) = Canonical(New(req[p])) /\ a.status = "failed"
                   /\ acts' = [acts EXCEPT ![k] = Retried(a, req[p])] /\ Goto(p, "wait")
<1> DEFINE k == Key(p)
           a == acts[k]
<1>1. k \in AllKeys /\ Target(p) \in Targets
  BY DEF IInv, CommandInv, CallInv, Calling, Claim
<1>2. [acts EXCEPT ![k].status = "queued", ![k].max = req[p].max] = [acts EXCEPT ![k] = Retried(a, req[p])]
  BY <1>1, Types DEF IInv, ActType, Retried
<1>3. Canonical(New(req[p])) = <<req[p].target, req[p].action, mode.dry>>
  BY DEF Canonical, New
<1> QED
  BY <1>1, <1>2, <1>3 DEF Claim, New, MayRetry, Home, Canonical, Key

\* The same for whoever is past its claim.
LEMMA HeldIs ==
  ASSUME IInv, NEW p \in Procs, pc[p] \in Bound
  PROVE  Key(p) \in AllKeys /\ acts[Key(p)] \in Records /\ put[p] \in Updates
BY Types DEF IInv, CommandInv, CallInv, RecordInv, Calling, ActType, LocalType

LEMMA ActStep ==
  ASSUME IInv, [Next]_vars
  PROVE  ActType'
<1> USE Types DEF IInv
<1>1. ASSUME NEW k \in AllKeys, NEW a \in Records, acts' = [acts EXCEPT ![k] = a]
      PROVE  ActType'
  BY <1>1 DEF ActType
<1>2. CASE (\E p \in Cycles : CycleStart(p)) \/ (\E p \in Cycles : CycleSave(p)) \/ (\E p \in Cycles
      : CycleTimeout(p)) \/ (\E p \in Cycles : CycleEvaluate(p)) \/ (\E p \in Cycles : CycleNext(p))
      \/ (\E p \in Cycles, c \in Clients : CycleRead(p, c))
  BY <1>2 DEF ActType, CycleStart, CycleSave, CycleTimeout, CycleEvaluate, CycleNext, CycleRead,
        Heard
<1>3. CASE (\E p \in Operators : OperatorCalls(p)) \/ (\E p \in Procs : Enter(p)) \/ (\E p \in Procs
      : Look(p)) \/ (\E p \in Procs : DryRun(p)) \/ (\E p \in Procs : PreRead(p)) \/ (\E p \in Procs
      : Command(p))
  BY <1>3 DEF ActType, OperatorCalls, Enter, Look, DryRun, PreRead, Command
<1>4. CASE (\E p \in Procs : Verify(p)) \/ (\E p \in Procs : WriteFails(p)) \/ (\E e \in late :
      Apply(e)) \/ (\E u \in Targets : UserActs(u)) \/ UNCHANGED vars
  BY <1>4 DEF ActType, Verify, WriteFails, Apply, UserActs, vars
<1>5. ASSUME NEW p \in Procs, Claim(p)
      PROVE  ActType'
  <2>1. New(req[p]) \in Records /\ Key(p) \in AllKeys
    BY <1>5, ClaimIs, NewIs
  <2>2. acts[Key(p)] # None => Retried(acts[Key(p)], req[p]) \in Records
    BY <2>1, RecordIs DEF ActType, LocalType
  <2> QED
    BY <1>1, <1>5, <2>1, <2>2, ClaimIs DEF ActType
<1>6. ASSUME NEW p \in Procs, Count(p)
      PROVE  ActType'
  <2>1. Key(p) \in AllKeys /\ acts[Key(p)] \in Records
    BY <1>6, HeldIs DEF Count, Bound, Locked
  <2>2. acts' = [acts EXCEPT ![Key(p)] = Counted(acts[Key(p)])]
    BY <1>6 DEF Count, Counted
  <2> QED
    BY <1>1, <2>1, <2>2, RecordIs
<1>7. ASSUME NEW p \in Procs, Save(p)
      PROVE  ActType'
  <2>1. Key(p) \in AllKeys /\ acts[Key(p)] \in Records /\ put[p] \in Updates
    BY <1>7, HeldIs DEF Save, Bound, Locked
  <2>2. acts' = [acts EXCEPT ![Key(p)] = Settled(acts[Key(p)], put[p])]
    BY <1>7 DEF Save, Settled
  <2> QED
    BY <1>1, <2>1, <2>2, RecordIs
<1>8. CASE Crash
  <2>1. \A a \in Records \union {None} : Recovered(a) \in Records \union {None}
    BY RecordIs DEF Recovered
  <2> QED
    BY <1>8, <2>1 DEF Crash, ActType
<1> QED
  BY <1>1, <1>2, <1>3, <1>4, <1>5, <1>6, <1>7, <1>8
  DEF Next, Cycle, Control, Environment

LEMMA PcStep ==
  ASSUME IInv, [Next]_vars
  PROVE  PcType'
<1> USE Types, NamesDiffer DEF IInv
<1>1. ASSUME NEW p \in Procs, NEW s \in Stages, Goto(p, s)
      PROVE  PcType'
  BY <1>1 DEF Goto, PcType
<1>2. ASSUME UNCHANGED pc
      PROVE  PcType'
  BY <1>2 DEF PcType
<1>3. CASE (\E p \in Cycles : CycleStart(p)) \/ (\E p \in Cycles : CycleSave(p)) \/ (\E p \in Cycles
      : CycleTimeout(p))
  BY <1>3, <1>1, <1>2 DEF Stages, Home, Leave, Raise, Put, CycleStart, CycleSave, CycleTimeout
<1>4. CASE (\E p \in Cycles : CycleEvaluate(p)) \/ (\E p \in Cycles : CycleNext(p)) \/ (\E p \in
      Cycles, c \in Clients : CycleRead(p, c))
  BY <1>4, <1>1, <1>2 DEF Stages, Home, Leave, Raise, Put, CycleEvaluate, CycleNext, CycleRead,
        Heard
<1>5. CASE (\E p \in Operators : OperatorCalls(p)) \/ (\E p \in Procs : Claim(p)) \/ (\E p \in Procs
      : Enter(p))
  BY <1>5, <1>1, <1>2 DEF Stages, Home, Leave, Raise, Put, OperatorCalls, Claim, Enter
<1>6. CASE (\E p \in Procs : Count(p)) \/ (\E p \in Procs : Look(p)) \/ (\E p \in Procs : Save(p))
  BY <1>6, <1>1, <1>2 DEF Stages, Home, Leave, Raise, Put, Count, Look, Save
<1>7. CASE (\E p \in Procs : DryRun(p)) \/ (\E p \in Procs : PreRead(p)) \/ (\E p \in Procs :
      Command(p))
  BY <1>7, <1>1, <1>2 DEF Stages, Home, Leave, Raise, Put, DryRun, PreRead, Command
<1>8. CASE (\E p \in Procs : Verify(p)) \/ (\E p \in Procs : WriteFails(p)) \/ (\E e \in late :
      Apply(e))
  BY <1>8, <1>1, <1>2 DEF Stages, Home, Leave, Raise, Put, Verify, WriteFails, Apply
<1>9. CASE (\E u \in Targets : UserActs(u)) \/ UNCHANGED vars
  BY <1>9, <1>1, <1>2 DEF Stages, Home, Leave, Raise, Put, UserActs, vars
<1>10. CASE Crash
  BY <1>10 DEF Crash, PcType, Stages
<1> QED
  BY <1>1, <1>2, <1>3, <1>4, <1>5, <1>6, <1>7, <1>8, <1>9, <1>10
  DEF Next, Cycle, Control, Environment

LEMMA LocalStep ==
  ASSUME IInv, [Next]_vars
  PROVE  LocalType'
<1> USE Types, NamesDiffer, StateTypes DEF IInv
<1>1. ASSUME NEW p \in Procs, NEW u \in Updates, put' = [put EXCEPT ![p] = u], UNCHANGED <<req, heard, todo>>
      PROVE  LocalType'
  BY <1>1 DEF LocalType
<1>2. ASSUME NEW p \in Procs, NEW status \in Statuses, NEW code \in Codes, Put(p, status, code),
             UNCHANGED <<req, heard, todo>>
      PROVE  LocalType'
  BY <1>1, <1>2 DEF Put, Updates
<1>3. ASSUME UNCHANGED locals
      PROVE  LocalType'
  BY <1>3 DEF LocalType
<1>4. CASE (\E p \in Procs : Claim(p)) \/ (\E p \in Procs : Enter(p)) \/ (\E p \in Procs : Count(p))
      \/ (\E p \in Procs : Save(p)) \/ (\E e \in late : Apply(e)) \/ (\E t \in Targets :
      UserActs(t))
  BY <1>4, <1>3 DEF Claim, Enter, Count, Save, Apply, UserActs
<1>5. CASE UNCHANGED vars
  BY <1>5, <1>3 DEF vars
<1>6. ASSUME NEW p \in Cycles, CycleStart(p) \/ CycleSave(p) \/ CycleTimeout(p)
      PROVE  LocalType'
  BY <1>6 DEF CycleStart, CycleSave, CycleTimeout, LocalType
<1>7. ASSUME NEW p \in Cycles, NEW c \in Clients, CycleRead(p, c)
      PROVE  LocalType'
  <2>1. PICK ok \in BOOLEAN, ts \in SUBSET Present(c) : Heard(p, c, ok, ts)
    BY <1>7 DEF CycleRead
  <2>2. [client |-> c, ok |-> ok, saw |-> {<<t, torrent[t]>> : t \in ts}] \in Listings
    BY DEF Present, Listings, FleetType
  <2> QED
    BY <1>7, <2>1, <2>2 DEF CycleRead, Heard, LocalType
<1>8. ASSUME NEW p \in Cycles, CycleEvaluate(p)
      PROVE  LocalType'
  BY <1>8 DEF CycleEvaluate, LocalType
<1>9. ASSUME NEW p \in Cycles, CycleNext(p)
      PROVE  LocalType'
  <2>1. \A t \in Targets : Request(t, t, "pause", TRUE, mode.max) \in Requests
    BY ModeType DEF FleetType, Request, Requests, Actions
  <2>2. UNCHANGED <<put, heard>> /\ \E r \in Requests, left \in SUBSET Targets :
          req' = [req EXCEPT ![p] = r] /\ todo' = [todo EXCEPT ![p] = left]
    <3>1. CASE UNCHANGED todo
      <4>1. todo' = [todo EXCEPT ![p] = todo[p]] /\ todo[p] \in SUBSET Targets
        BY <3>1 DEF LocalType
      <4> QED
        BY <1>9, <2>1, <3>1, <4>1, TorrentType DEF CycleNext
    <3>2. CASE ~UNCHANGED todo
      <4>1. PICK i \in DOMAIN Order : /\ req' = [req EXCEPT ![p] = Request(Order[i], Order[i], "pause", TRUE, mode.max)]
                                      /\ todo' = [todo EXCEPT ![p] = todo[p] \ {Order[i]}] /\ UNCHANGED <<put, heard>>
        BY <1>9, <3>2 DEF CycleNext
      <4>2. todo[p] \ {Order[i]} \in SUBSET Targets
        BY DEF LocalType
      <4> QED
        BY <2>1, <4>1, <4>2, TorrentType
    <3> QED
      BY <3>1, <3>2
  <2> QED
    BY <2>2 DEF LocalType
<1>10. ASSUME NEW p \in Operators, OperatorCalls(p)
      PROVE  LocalType'
  <2>1. \A k \in Keys, t \in Targets, a \in Actions : Request(k, t, a, FALSE, 1) \in Requests
    BY DEF Request, Requests
  <2>2. PICK r \in Requests : req' = [req EXCEPT ![p] = r] /\ UNCHANGED <<put, heard, todo>>
    BY <1>10, <2>1 DEF OperatorCalls
  <2> QED
    BY <2>2 DEF LocalType
<1>11. ASSUME NEW p \in Procs, Look(p) \/ DryRun(p) \/ Verify(p)
      PROVE  LocalType'
  BY <1>2, <1>11 DEF Look, DryRun, Verify, Statuses, Outcomes, Codes, Retryable
<1>12. ASSUME NEW p \in Procs, PreRead(p) \/ Command(p)
      PROVE  LocalType'
  BY <1>2, <1>3, <1>12 DEF PreRead, Command, Statuses, Outcomes, Codes, Retryable
<1>13. ASSUME NEW p \in Procs, WriteFails(p)
      PROVE  LocalType'
  BY <1>13 DEF WriteFails, Raise, LocalType
<1>14. CASE Crash
  BY <1>14 DEF Crash, LocalType
<1> QED
  BY <1>1, <1>2, <1>3, <1>4, <1>5, <1>6, <1>7, <1>8, <1>9, <1>10, <1>11, <1>12, <1>13, <1>14
  DEF Next, Cycle, Control, Environment

LEMMA SentType == \A f \in [AllKeys -> Nat], k \in AllKeys : [f EXCEPT ![k] = @ + 1] \in [AllKeys -> Nat]
OBVIOUS

LEMMA CountStep ==
  ASSUME IInv, [Next]_vars
  PROVE  CountType'
<1> USE Types, NamesDiffer DEF IInv, CountType
<1>1. CASE (\E p \in Cycles : CycleStart(p))
  BY <1>1 DEF Fault, CycleStart
<1>2. CASE (\E p \in Cycles : CycleTimeout(p))
  BY <1>2 DEF Fault, CycleTimeout
<1>3. CASE (\E p \in Cycles : CycleEvaluate(p))
  BY <1>3 DEF Fault, CycleEvaluate
<1>4. CASE (\E p \in Cycles : CycleNext(p))
  BY <1>4 DEF Fault, CycleNext
<1>5. CASE (\E p \in Cycles, c \in Clients : CycleRead(p, c))
  BY <1>5 DEF Fault, CycleRead, Heard
<1>6. CASE (\E p \in Operators : OperatorCalls(p))
  BY <1>6 DEF Fault, OperatorCalls
<1>7. CASE (\E p \in Procs : Claim(p))
  BY <1>7 DEF Fault, Claim
<1>8. CASE (\E p \in Procs : Enter(p))
  BY <1>8 DEF Fault, Enter
<1>9. CASE (\E p \in Procs : Count(p))
  BY <1>9 DEF Fault, Count
<1>10. CASE (\E p \in Procs : Look(p))
  BY <1>10 DEF Fault, Look
<1>11. CASE (\E p \in Procs : Save(p))
  BY <1>11 DEF Fault, Save
<1>12. CASE (\E p \in Procs : DryRun(p))
  BY <1>12 DEF Fault, DryRun
<1>13. CASE (\E p \in Procs : PreRead(p))
  BY <1>13 DEF Fault, PreRead
<1>14. CASE (\E p \in Procs : Verify(p))
  BY <1>14 DEF Fault, Verify
<1>15. CASE (\E e \in late : Apply(e))
  BY <1>15 DEF Fault, Apply
<1>16. CASE (\E u \in Targets : UserActs(u))
  BY <1>16 DEF Fault, UserActs
<1>17. CASE UNCHANGED vars
  BY <1>17 DEF Fault, vars
<1>18. ASSUME NEW p \in Cycles, CycleSave(p)
      PROVE  CountType'
  <2>1. UNCHANGED <<sent, stuck, cycles, calls, users, crashes>> /\ (faults' = faults \/ faults' = faults + 1)
    BY <1>18 DEF CycleSave, Fault
  <2> QED
    BY <2>1
<1>19. ASSUME NEW p \in Procs, Command(p)
      PROVE  CountType'
  <2>1. /\ UNCHANGED <<stuck, cycles, calls, users, crashes>> /\ (faults' = faults \/ faults' = faults + 1)
        /\ sent' = [sent EXCEPT ![Key(p)] = @ + 1]
    BY <1>19 DEF Command, Fault
  <2>2. [sent EXCEPT ![Key(p)] = @ + 1] \in [AllKeys -> Nat]
    BY <1>19, SentType DEF Command, CommandInv, CallInv, Calling, Bound, Locked
  <2>3. sent' \in [AllKeys -> Nat]
    BY <2>1, <2>2
  <2> QED
    BY <2>1, <2>3
<1>20. ASSUME NEW p \in Procs, WriteFails(p)
      PROVE  CountType'
  <2>1. pc[p] = "save" => Key(p) \in AllKeys
    BY <1>20 DEF CommandInv, CallInv, Calling, Bound, Locked
  <2> QED
    BY <1>20, <2>1 DEF WriteFails, Fault
<1>21. CASE Crash
  BY <1>21 DEF Crash
<1> QED
  BY <1>1, <1>2, <1>3, <1>4, <1>5, <1>6, <1>7, <1>8, <1>9, <1>10, <1>11, <1>12, <1>13, <1>14, <1>15,
        <1>16, <1>17, <1>18, <1>19, <1>20, <1>21
  DEF Next, Cycle, Control, Environment

LEMMA TypeStep ==
  ASSUME IInv, [Next]_vars
  PROVE  TypeOK'
BY FleetStep, RowStep, ActStep, PcStep, LocalStep, CountStep
   DEF TypeOK, FleetType, RowType, ActType, PcType, LocalType, CountType

-----------------------------------------------------------------------------
(* Calls, their stages and the lock.                                       *)

LEMMA CallStep ==
  ASSUME IInv, [Next]_vars
  PROVE  CallInv'
<1> USE Types, NamesDiffer DEF IInv, CommandInv, Calling, Bound, Locked, LocalType, PcType, CallInv, Key, Target
<1>1. ASSUME UNCHANGED req, UNCHANGED pc
      PROVE  CallInv'
  BY <1>1
<1>2. ASSUME UNCHANGED req, NEW p \in Procs, NEW s, Goto(p, s), s \in Calling => pc[p] \in Calling
      PROVE  CallInv'
  BY <1>2 DEF Goto
<1>3. ASSUME NEW p \in Procs, NEW r, req' = [req EXCEPT ![p] = r], NEW s, Goto(p, s),
             s \in Calling => r.key \in AllKeys /\ r.target \in Targets
      PROVE  CallInv'
  BY <1>3 DEF Goto
<1>4. CASE (\E p \in Cycles : CycleStart(p)) \/ (\E p \in Cycles : CycleSave(p)) \/ (\E p \in Cycles
      : CycleTimeout(p))
  BY <1>4, <1>1, <1>2 DEF Home, Leave, Put, CycleStart, CycleSave, CycleTimeout
<1>5. CASE (\E p \in Cycles : CycleEvaluate(p)) \/ (\E p \in Cycles, c \in Clients : CycleRead(p,
      c)) \/ (\E p \in Procs : Enter(p))
  BY <1>5, <1>1, <1>2 DEF Home, Leave, Put, CycleEvaluate, CycleRead, Heard, Enter
<1>6. CASE (\E p \in Procs : Count(p)) \/ (\E p \in Procs : Look(p)) \/ (\E p \in Procs : Save(p))
  BY <1>6, <1>1, <1>2 DEF Home, Leave, Put, Count, Look, Save
<1>7. CASE (\E p \in Procs : DryRun(p)) \/ (\E p \in Procs : PreRead(p)) \/ (\E p \in Procs :
      Command(p))
  BY <1>7, <1>1, <1>2 DEF Home, Leave, Put, DryRun, PreRead, Command
<1>8. CASE (\E p \in Procs : Verify(p)) \/ (\E e \in late : Apply(e)) \/ (\E t \in Targets :
      UserActs(t))
  BY <1>8, <1>1, <1>2 DEF Home, Leave, Put, Verify, Apply, UserActs
<1>9. CASE UNCHANGED vars
  BY <1>9, <1>1, <1>2 DEF Home, Leave, Put, vars
<1>10. ASSUME NEW p \in Cycles, CycleNext(p)
      PROVE  CallInv'
  BY <1>3, <1>10, TorrentType DEF CycleNext, Request
<1>11. ASSUME NEW p \in Operators, OperatorCalls(p)
      PROVE  CallInv'
  <2>1. PICK k \in Keys, t \in Targets, a \in Actions : req' = [req EXCEPT ![p] = Request(k, t, a, FALSE, 1)]
    BY <1>11 DEF OperatorCalls
  <2> DEFINE r == Request(k, t, a, FALSE, 1)
  <2>2. r.key \in AllKeys /\ r.target \in Targets /\ req' = [req EXCEPT ![p] = r]
    BY <2>1 DEF Request
  <2>3. p \in Procs /\ Goto(p, "claim")
    BY <1>11 DEF OperatorCalls
  <2> HIDE DEF r
  <2> QED
    BY <1>3, <2>1, <2>2, <2>3
<1>12. ASSUME NEW p \in Procs, Claim(p)
      PROVE  CallInv'
  <2>1. UNCHANGED req /\ pc[p] \in Calling /\ \E s : Goto(p, s)
    BY <1>12 DEF Claim
  <2> QED
    BY <1>2, <2>1
<1>13. ASSUME NEW p \in Procs, WriteFails(p)
      PROVE  CallInv'
  BY <1>3, <1>13 DEF WriteFails, Raise
<1>14. CASE Crash
  BY <1>14 DEF Crash
<1> QED
  BY <1>1, <1>2, <1>3, <1>4, <1>5, <1>6, <1>7, <1>8, <1>9, <1>10, <1>11, <1>12, <1>13, <1>14
  DEF Next, Cycle, Control, Environment

LEMMA LockStep ==
  ASSUME IInv, [Next]_vars
  PROVE  LockInv'
<1> USE Types, NamesDiffer DEF IInv, CommandInv, PcType, LockInv
<1>1. ASSUME UNCHANGED lock, UNCHANGED pc
      PROVE  LockInv'
  BY <1>1
<1>2. ASSUME UNCHANGED lock, NEW p \in Procs, NEW s, Goto(p, s), s \in Locked <=> pc[p] \in Locked
      PROVE  LockInv'
  BY <1>2 DEF Goto
<1>3. ASSUME NEW p \in Procs, lock' = IF lock = p THEN None ELSE lock, NEW s, Goto(p, s), s \notin Locked
      PROVE  LockInv'
  BY <1>3 DEF Goto
<1>4. CASE (\E p \in Cycles : CycleStart(p)) \/ (\E p \in Cycles : CycleSave(p)) \/ (\E p \in Cycles
      : CycleTimeout(p))
  BY <1>4, <1>1, <1>2 DEF Locked, Put, CycleStart, CycleSave, CycleTimeout
<1>5. CASE (\E p \in Cycles : CycleEvaluate(p)) \/ (\E p \in Cycles : CycleNext(p)) \/ (\E p \in
      Cycles, c \in Clients : CycleRead(p, c))
  BY <1>5, <1>1, <1>2 DEF Locked, Put, CycleEvaluate, CycleNext, CycleRead, Heard
<1>6. CASE (\E p \in Operators : OperatorCalls(p)) \/ (\E p \in Procs : Count(p)) \/ (\E p \in Procs
      : Look(p))
  BY <1>6, <1>1, <1>2 DEF Locked, Put, OperatorCalls, Count, Look
<1>7. CASE (\E p \in Procs : DryRun(p)) \/ (\E p \in Procs : PreRead(p)) \/ (\E p \in Procs :
      Command(p))
  BY <1>7, <1>1, <1>2 DEF Locked, Put, DryRun, PreRead, Command
<1>8. CASE (\E p \in Procs : Verify(p)) \/ (\E e \in late : Apply(e)) \/ (\E t \in Targets :
      UserActs(t))
  BY <1>8, <1>1, <1>2 DEF Locked, Put, Verify, Apply, UserActs
<1>9. CASE UNCHANGED vars
  BY <1>9, <1>1, <1>2 DEF Locked, Put, vars
<1>10. ASSUME NEW p \in Procs, Claim(p)
      PROVE  LockInv'
  BY <1>2, <1>10 DEF Claim, Home, Locked
<1>11. ASSUME NEW p \in Procs, Enter(p)
      PROVE  LockInv'
  <2>1. CASE UNCHANGED lock
    <3>1. Goto(p, Home(p)) /\ pc[p] = "wait"
      BY <1>11, <2>1 DEF Enter
    <3> QED
      BY <1>2, <2>1, <3>1 DEF Home, Locked
  <2>2. CASE ~UNCHANGED lock
    <3>1. lock = None /\ lock' = p /\ Goto(p, "count")
      BY <1>11, <2>2 DEF Enter
    <3> QED
      BY <3>1 DEF Goto, Locked
  <2> QED
    BY <2>1, <2>2
<1>12. ASSUME NEW p \in Procs, Save(p)
      PROVE  LockInv'
  <2>1. pc[p] \in Locked /\ lock = p
    BY <1>12 DEF Save, Locked
  <2> QED
    BY <1>2, <1>3, <1>12, <2>1 DEF Save, Leave, Home, Locked
<1>13. ASSUME NEW p \in Procs, WriteFails(p)
      PROVE  LockInv'
  BY <1>3, <1>13 DEF WriteFails, Raise, Locked
<1>14. CASE Crash
  BY <1>14 DEF Crash, Locked
<1> QED
  BY <1>1, <1>2, <1>3, <1>4, <1>5, <1>6, <1>7, <1>8, <1>9, <1>10, <1>11, <1>12, <1>13, <1>14
  DEF Next, Cycle, Control, Environment

\* What a step makes of a record: it keeps its request, and its status is that
\* of a claim, of the holder of the lock or of a restart.
Keeps(k) == acts[k] # None => acts'[k] # None /\ Canonical(acts'[k]) = Canonical(acts[k])
Moves(k) ==
  \/ acts'[k] = None
  \/ acts[k] # None /\ acts'[k].status = acts[k].status
  \/ acts[k] = None /\ acts'[k].status = "queued"
  \/ acts[k] # None /\ acts[k].status = "failed" /\ acts'[k].status = "queued"
  \/ \E p \in Procs : Save(p) /\ Key(p) = k /\ acts'[k].status = put[p].status
  \/ Crash /\ acts[k] # None /\ acts[k].status = "running" /\ acts'[k].status = "reconcile_required"

LEMMA RecordMoves ==
  ASSUME IInv, [Next]_vars, NEW k \in AllKeys
  PROVE  Keeps(k) /\ Moves(k)
<1> USE Types, NoneIsNoRecord DEF IInv
<1>1. ASSUME UNCHANGED acts
      PROVE  Keeps(k) /\ Moves(k)
  BY <1>1 DEF Keeps, Moves
<1>2. ASSUME NEW j \in AllKeys, NEW a, acts' = [acts EXCEPT ![j] = a], a # None,
             j # k \/ Canonical(a) = Canonical(acts[k]) \/ acts[k] = None,
             j = k => \/ acts[k] # None /\ a.status = acts[k].status
                      \/ acts[k] = None /\ a.status = "queued"
                      \/ acts[k] # None /\ acts[k].status = "failed" /\ a.status = "queued"
                      \/ \E p \in Procs : Save(p) /\ Key(p) = k /\ a.status = put[p].status
      PROVE  Keeps(k) /\ Moves(k)
  <2>1. CASE j = k
    <3>1. acts'[k] = a
      BY <1>2, <2>1 DEF ActType
    <3> QED
      BY <1>2, <2>1, <3>1 DEF Keeps, Moves
  <2>2. CASE j # k
    <3>1. acts'[k] = acts[k]
      BY <1>2, <2>2 DEF ActType
    <3> QED
      BY <3>1 DEF Keeps, Moves
  <2> QED
    BY <2>1, <2>2
<1>3. CASE (\E p \in Cycles : CycleStart(p)) \/ (\E p \in Cycles : CycleSave(p)) \/ (\E p \in Cycles
      : CycleTimeout(p)) \/ (\E p \in Cycles : CycleEvaluate(p)) \/ (\E p \in Cycles : CycleNext(p))
      \/ (\E p \in Cycles, c \in Clients : CycleRead(p, c))
  BY <1>3, <1>1 DEF CycleStart, CycleSave, CycleTimeout, CycleEvaluate, CycleNext, CycleRead, Heard
<1>4. CASE (\E p \in Operators : OperatorCalls(p)) \/ (\E p \in Procs : Enter(p)) \/ (\E p \in Procs
      : Look(p)) \/ (\E p \in Procs : DryRun(p)) \/ (\E p \in Procs : PreRead(p)) \/ (\E p \in Procs
      : Command(p))
  BY <1>4, <1>1 DEF OperatorCalls, Enter, Look, DryRun, PreRead, Command
<1>5. CASE (\E p \in Procs : Verify(p)) \/ (\E p \in Procs : WriteFails(p)) \/ (\E e \in late :
      Apply(e)) \/ (\E u \in Targets : UserActs(u)) \/ UNCHANGED vars
  BY <1>5, <1>1 DEF Verify, WriteFails, Apply, UserActs, vars
<1>6. ASSUME NEW p \in Procs, Claim(p)
      PROVE  Keeps(k) /\ Moves(k)
  <2>1. Key(p) \in AllKeys /\ New(req[p]) # None /\ New(req[p]).status = "queued"
    BY <1>6, ClaimIs, NewIs
  <2> DEFINE a == Retried(acts[Key(p)], req[p])
  <2>2. acts[Key(p)] # None => a # None /\ a.status = "queued" /\ Canonical(a) = Canonical(acts[Key(p)])
    <3>1. req[p] \in Requests
      BY DEF LocalType
    <3>2. acts[Key(p)] # None => acts[Key(p)] \in Records
      BY <2>1 DEF ActType
    <3> QED
      BY <3>1, <3>2, RecordIs
  <2> HIDE DEF a
  <2>3. \/ acts[Key(p)] = None /\ acts' = [acts EXCEPT ![Key(p)] = New(req[p])]
        \/ UNCHANGED acts
        \/ acts[Key(p)] # None /\ acts[Key(p)].status = "failed" /\ acts' = [acts EXCEPT ![Key(p)] = a]
    BY <1>6, ClaimIs DEF a
  <2> QED
    BY <1>1, <1>2, <2>1, <2>2, <2>3
<1>7. ASSUME NEW p \in Procs, Count(p)
      PROVE  Keeps(k) /\ Moves(k)
  <2>1. Key(p) \in AllKeys /\ acts[Key(p)] \in Records
    BY <1>7, HeldIs DEF Count, Bound, Locked
  <2>2. acts' = [acts EXCEPT ![Key(p)] = Counted(acts[Key(p)])]
    BY <1>7 DEF Count, Counted
  <2> QED
    BY <1>2, <2>1, <2>2, RecordIs
<1>8. ASSUME NEW p \in Procs, Save(p)
      PROVE  Keeps(k) /\ Moves(k)
  <2>1. Key(p) \in AllKeys /\ acts[Key(p)] \in Records /\ put[p] \in Updates
    BY <1>8, HeldIs DEF Save, Bound, Locked
  <2>2. acts' = [acts EXCEPT ![Key(p)] = Settled(acts[Key(p)], put[p])]
    BY <1>8 DEF Save, Settled
  <2> QED
    BY <1>2, <1>8, <2>1, <2>2, RecordIs
<1>9. CASE Crash
  <2>1. acts'[k] = Recovered(acts[k])
    BY <1>9 DEF Crash
  <2>2. CASE acts[k] = None
    BY <2>1, <2>2 DEF Recovered, Keeps, Moves
  <2>3. CASE acts[k] # None
    BY <1>9, <2>1, <2>3, RecordIs DEF ActType, Keeps, Moves
  <2> QED
    BY <2>2, <2>3
<1> QED
  BY <1>1, <1>2, <1>3, <1>4, <1>5, <1>6, <1>7, <1>8, <1>9
  DEF Next, Cycle, Control, Environment

\* A call that is bound to its record was so before, or has just claimed it.
LEMMA BoundStep ==
  ASSUME IInv, [Next]_vars, NEW q \in Procs, pc'[q] \in Bound
  PROVE  UNCHANGED mode /\ req'[q] = req[q] /\ (pc[q] \in Bound \/ Claim(q))
<1> USE Types, NamesDiffer DEF IInv, PcType, LocalType, Bound, Locked
<1> DEFINE Holds == UNCHANGED mode /\ req'[q] = req[q] /\ (pc[q] \in Bound \/ Claim(q))
<1>1. ASSUME UNCHANGED <<mode, req, pc>>
      PROVE  Holds
  BY <1>1
<1>2. ASSUME UNCHANGED <<mode, req>>, NEW p \in Procs, NEW s, Goto(p, s), s \in Bound => pc[p] \in Bound \/ Claim(p)
      PROVE  Holds
  BY <1>2 DEF Goto
<1>3. ASSUME UNCHANGED mode, NEW p \in Procs, NEW r, req' = [req EXCEPT ![p] = r], NEW s, Goto(p, s), s \notin Bound
      PROVE  Holds
  BY <1>3 DEF Goto
<1>4. CASE (\E p \in Cycles : CycleStart(p)) \/ (\E p \in Cycles : CycleSave(p)) \/ (\E p \in Cycles
      : CycleTimeout(p))
  BY <1>4, <1>1, <1>2 DEF Home, Leave, Put, CycleStart, CycleSave, CycleTimeout
<1>5. CASE (\E p \in Cycles : CycleEvaluate(p)) \/ (\E p \in Cycles, c \in Clients : CycleRead(p,
      c)) \/ (\E p \in Procs : Enter(p))
  BY <1>5, <1>1, <1>2 DEF Home, Leave, Put, CycleEvaluate, CycleRead, Heard, Enter
<1>6. CASE (\E p \in Procs : Count(p)) \/ (\E p \in Procs : Look(p)) \/ (\E p \in Procs : Save(p))
  BY <1>6, <1>1, <1>2 DEF Home, Leave, Put, Count, Look, Save
<1>7. CASE (\E p \in Procs : DryRun(p)) \/ (\E p \in Procs : PreRead(p)) \/ (\E p \in Procs :
      Command(p))
  BY <1>7, <1>1, <1>2 DEF Home, Leave, Put, DryRun, PreRead, Command
<1>8. CASE (\E p \in Procs : Verify(p)) \/ (\E e \in late : Apply(e)) \/ (\E t \in Targets :
      UserActs(t))
  BY <1>8, <1>1, <1>2 DEF Home, Leave, Put, Verify, Apply, UserActs
<1>9. CASE UNCHANGED vars
  BY <1>9, <1>1, <1>2 DEF Home, Leave, Put, vars
<1>10. ASSUME NEW p \in Cycles, CycleNext(p)
      PROVE  Holds
  BY <1>3, <1>10 DEF CycleNext
<1>11. ASSUME NEW p \in Operators, OperatorCalls(p)
      PROVE  Holds
  BY <1>3, <1>11 DEF OperatorCalls
<1>12. ASSUME NEW p \in Procs, Claim(p)
      PROVE  Holds
  <2>1. UNCHANGED <<mode, req>> /\ \E s : Goto(p, s)
    BY <1>12 DEF Claim
  <2> QED
    BY <1>2, <1>12, <2>1
<1>13. ASSUME NEW p \in Procs, WriteFails(p)
      PROVE  Holds
  BY <1>3, <1>13 DEF WriteFails, Raise
<1>14. CASE Crash
  BY <1>14 DEF Crash
<1> QED
  BY <1>1, <1>2, <1>3, <1>4, <1>5, <1>6, <1>7, <1>8, <1>9, <1>10, <1>11, <1>12, <1>13, <1>14
  DEF Next, Cycle, Control, Environment

LEMMA RecordStep ==
  ASSUME IInv, [Next]_vars
  PROVE  RecordInv'
<1> USE DEF IInv, CommandInv
<1> SUFFICES ASSUME NEW q \in Procs, pc'[q] \in Bound
             PROVE  acts'[Key(q)'] # None /\ Canonical(acts'[Key(q)']) = <<Target(q)', req'[q].action, mode'.dry>>
  BY DEF RecordInv, Canonical
<1>1. /\ Key(q)' = Key(q) /\ Target(q)' = Target(q) /\ req'[q].action = req[q].action /\ mode'.dry = mode.dry
      /\ pc[q] \in Bound \/ Claim(q)
  BY BoundStep DEF Key, Target
<1>2. CASE pc[q] \in Bound
  <2>1. Key(q) \in AllKeys /\ acts[Key(q)] # None /\ Canonical(acts[Key(q)]) = <<Target(q), req[q].action, mode.dry>>
    BY <1>2 DEF CallInv, RecordInv, Calling
  <2>2. Keeps(Key(q))
    BY <2>1, RecordMoves
  <2> QED
    BY <1>1, <2>1, <2>2 DEF Keeps
<1>3. CASE Claim(q)
  <2>1. Key(q) \in AllKeys /\ Target(q) \in Targets /\ pc'[q] \notin {"idle", "next"}
    BY <1>3, ClaimIs DEF Bound, Locked
  <2>2. New(req[q]) # None /\ Canonical(New(req[q])) = <<Target(q), req[q].action, mode.dry>>
    BY <2>1, NewIs, NoneIsNoRecord
  <2>3. CASE acts[Key(q)] = None
    <3>1. acts' = [acts EXCEPT ![Key(q)] = New(req[q])]
      BY <1>3, <2>3, ClaimIs
    <3>2. acts'[Key(q)] = New(req[q])
      BY <2>1, <3>1, Types DEF ActType
    <3> QED
      BY <1>1, <2>2, <3>2
  <2>4. CASE acts[Key(q)] # None
    <3>1. ~(Goto(q, "idle") \/ Goto(q, "next"))
      BY <2>1, Types DEF Goto, PcType
    <3>2. Canonical(acts[Key(q)]) = Canonical(New(req[q]))
      BY <1>3, <2>4, <3>1, ClaimIs
    <3>3. Keeps(Key(q))
      BY <2>1, RecordMoves
    <3> QED
      BY <1>1, <2>2, <2>4, <3>2, <3>3 DEF Keeps
  <2> QED
    BY <2>3, <2>4
<1> QED
  BY <1>1, <1>2, <1>3

\* The steps of a call under the lock, and what the others leave to it.
Works(q) == Enter(q) \/ Count(q) \/ Look(q) \/ Save(q) \/ DryRun(q) \/ PreRead(q) \/ Command(q) \/ Verify(q)
Waits(q) ==
  /\ pc[q] \in Locked /\ pc'[q] = pc[q] /\ put'[q] = put[q] /\ lock' = lock
  /\ sent'[Key(q)] = sent[Key(q)] /\ acts'[Key(q)].status = acts[Key(q)].status

LEMMA HolderStep ==
  ASSUME IInv, [Next]_vars, NEW q \in Procs, pc'[q] \in Locked
  PROVE  Works(q) \/ Waits(q)
<1> USE Types, NamesDiffer DEF IInv, PcType, Locked
<1>0. SUFFICES ASSUME ~Works(q) PROVE Waits(q)
  OBVIOUS
<1>1. ASSUME UNCHANGED <<pc, put, lock, sent, acts>>
      PROVE  Waits(q)
  BY <1>1 DEF Waits
<1>2. ASSUME NEW p \in Procs, p # q, NEW s, Goto(p, s), put'[q] = put[q], UNCHANGED <<lock, sent, acts>>
      PROVE  Waits(q)
  BY <1>2 DEF Waits, Goto
<1>3. ASSUME NEW p \in Procs, NEW s, Goto(p, s), s \notin Locked
      PROVE  p # q
  BY <1>3 DEF Goto
<1>4. ASSUME NEW p \in Procs, p # q, pc[p] \in Locked, \E s : Goto(p, s)
      PROVE  FALSE
  BY <1>4 DEF CommandInv, LockInv, Goto
<1>5. ASSUME NEW p \in Procs, Works(p), ~Enter(p)
      PROVE  FALSE
  BY <1>0, <1>4, <1>5 DEF Works, Count, Look, Save, Leave, DryRun, PreRead, Command, Verify, Put
<1>6. CASE (\E p \in Cycles : CycleStart(p)) \/ (\E p \in Cycles : CycleSave(p)) \/ (\E p \in Cycles
      : CycleTimeout(p))
  BY <1>6, <1>1, <1>2, <1>3 DEF CycleStart, CycleSave, CycleTimeout
<1>7. CASE (\E p \in Cycles : CycleEvaluate(p)) \/ (\E p \in Cycles : CycleNext(p)) \/ (\E p \in
      Cycles, c \in Clients : CycleRead(p, c))
  BY <1>7, <1>1, <1>2, <1>3 DEF CycleEvaluate, CycleNext, CycleRead, Heard
<1>8. CASE (\E e \in late : Apply(e)) \/ (\E u \in Targets : UserActs(u)) \/ UNCHANGED vars
  BY <1>8, <1>1, <1>2, <1>3 DEF Apply, UserActs, vars
<1>9. ASSUME NEW p \in Operators, OperatorCalls(p)
      PROVE  Waits(q)
  BY <1>2, <1>3, <1>9 DEF OperatorCalls
<1>10. ASSUME NEW p \in Procs, Claim(p)
      PROVE  Waits(q)
  <2>1. p # q /\ (\E s : Goto(p, s)) /\ UNCHANGED <<lock, put, sent>>
    BY <1>3, <1>10, ClaimIs DEF Claim
  <2>2. pc[q] \in Locked /\ pc'[q] = pc[q]
    BY <2>1 DEF Goto
  <2>3. acts[Key(q)] # None /\ acts[Key(q)].status # "failed" /\ Key(q) \in AllKeys
    BY <2>2, HeldIs, NoneIsNoRecord DEF CommandInv, StageInv, RecordInv, Bound
  <2>4. acts'[Key(q)].status = acts[Key(q)].status
    BY <1>10, <2>3, ClaimIs DEF ActType
  <2> QED
    BY <2>1, <2>2, <2>4 DEF Waits
<1>11. ASSUME NEW p \in Procs, Enter(p)
      PROVE  Waits(q)
  <2>1. p # q
    BY <1>0, <1>11 DEF Works
  <2>2. (\E s : Goto(p, s)) /\ lock = None
    BY <1>11 DEF Enter
  <2>3. pc[q] \in Locked
    BY <2>1, <2>2 DEF Goto
  <2> QED
    BY <2>2, <2>3 DEF CommandInv, LockInv
<1>12. ASSUME NEW p \in Procs,
             Count(p) \/ Look(p) \/ Save(p) \/ DryRun(p) \/ PreRead(p) \/ Command(p) \/ Verify(p)
      PROVE  Waits(q)
  <2>1. ~Enter(p)
    BY <1>12 DEF Enter, Count, Look, Save, DryRun, PreRead, Command, Verify
  <2> QED
    BY <1>5, <1>12, <2>1 DEF Works
<1>13. ASSUME NEW p \in Procs, WriteFails(p)
      PROVE  Waits(q)
  <2>1. Goto(p, "idle") /\ p # q /\ put'[q] = put[q] /\ UNCHANGED <<acts, sent>>
    BY <1>3, <1>13 DEF WriteFails, Raise, LocalType
  <2>2. lock # p
    BY <1>4, <2>1 DEF CommandInv, LockInv
  <2> QED
    BY <1>2, <1>13, <2>1, <2>2 DEF WriteFails
<1>14. CASE Crash
  BY <1>14 DEF Crash
<1> QED
  BY <1>1, <1>2, <1>3, <1>4, <1>5, <1>6, <1>7, <1>8, <1>9, <1>10, <1>11, <1>12, <1>13, <1>14
  DEF Next, Cycle, Control, Environment

-----------------------------------------------------------------------------
(* What the records say.                                                   *)

LEMMA SentMoves ==
  ASSUME IInv, [Next]_vars, NEW k \in AllKeys
  PROVE  sent'[k] = sent[k] \/ \E p \in Procs : Command(p) /\ Key(p) = k /\ sent'[k] = sent[k] + 1
<1> USE Types DEF IInv
<1>1. ASSUME UNCHANGED sent
      PROVE  sent'[k] = sent[k]
  BY <1>1
<1>2. CASE (\E p \in Cycles : CycleStart(p)) \/ (\E p \in Cycles : CycleSave(p)) \/ (\E p \in Cycles
      : CycleTimeout(p)) \/ (\E p \in Cycles : CycleEvaluate(p)) \/ (\E p \in Cycles : CycleNext(p))
      \/ (\E p \in Cycles, c \in Clients : CycleRead(p, c)) \/ (\E p \in Operators :
      OperatorCalls(p)) \/ (\E p \in Procs : Claim(p))
  BY <1>2, <1>1 DEF CycleStart, CycleSave, CycleTimeout, CycleEvaluate, CycleNext, CycleRead, Heard,
        OperatorCalls, Claim
<1>3. CASE (\E p \in Procs : Enter(p)) \/ (\E p \in Procs : Count(p)) \/ (\E p \in Procs : Look(p))
      \/ (\E p \in Procs : Save(p)) \/ (\E p \in Procs : DryRun(p)) \/ (\E p \in Procs : PreRead(p))
      \/ (\E p \in Procs : Verify(p)) \/ (\E p \in Procs : WriteFails(p))
  BY <1>3, <1>1 DEF Enter, Count, Look, Save, DryRun, PreRead, Verify, WriteFails
<1>4. CASE Crash \/ (\E e \in late : Apply(e)) \/ (\E u \in Targets : UserActs(u)) \/ UNCHANGED vars
  BY <1>4, <1>1 DEF Crash, Apply, UserActs, vars
<1>5. ASSUME NEW p \in Procs, Command(p)
      PROVE  sent'[k] = sent[k] \/ \E x \in Procs : Command(x) /\ Key(x) = k /\ sent'[k] = sent[k] + 1
  BY <1>5 DEF Command, CountType
<1> QED
  BY <1>1, <1>2, <1>3, <1>4, <1>5
  DEF Next, Cycle, Control, Environment

LEMMA StageStep ==
  ASSUME IInv, [Next]_vars
  PROVE  StageInv'
<1> USE Types DEF IInv, CommandInv
<1> DEFINE Stage(point, status, next, n) ==
             /\ point \in {"count", "look"} => status = "queued"
             /\ point \in {"run", "command", "verify"} => status = "running"
             /\ point \in {"run", "command"} => n = 0
             /\ point = "save" =>
                  \/ status = "queued" /\ next \in {"running", "failed", "already_in_state"}
                  \/ status = "running" /\ next \in Outcomes /\ (n # 0 => next \in SentStatuses)
<1>1. ASSUME NEW q \in Procs, pc'[q] \in Locked
      PROVE  Stage(pc'[q], acts'[Key(q)].status, put'[q].status, sent'[Key(q)])
  <2>0. Works(q) \/ Waits(q)
    BY <1>1, HolderStep
  <2>1. Stage(pc[q], acts[Key(q)].status, put[q].status, sent[Key(q)])
    BY DEF StageInv
  <2>2. pc[q] \in Locked => Key(q) \in AllKeys /\ acts[Key(q)] \in Records
    BY HeldIs DEF Bound
  <2>3. CASE Waits(q)
    BY <2>1, <2>3 DEF Waits
  <2>4. CASE Enter(q)
    <3>1. pc'[q] \in {"count", "next", "idle"} /\ (pc'[q] = "count" => acts[Key(q)].status = "queued") /\ UNCHANGED acts
      BY <2>4 DEF Enter, Goto, Home, PcType
    <3> QED
      BY <1>1, <3>1 DEF Locked
  <2>5. CASE Count(q)
    <3>1. acts' = [acts EXCEPT ![Key(q)] = Counted(acts[Key(q)])] /\ pc[q] = "count" /\ pc'[q] = "look"
      BY <2>5 DEF Count, Counted, Goto, PcType
    <3>2. acts'[Key(q)].status = acts[Key(q)].status
      BY <2>2, <3>1, RecordIs DEF ActType, Locked
    <3> QED
      BY <2>1, <3>1, <3>2
  <2>6. CASE Look(q)
    <3>1. /\ UNCHANGED acts /\ pc[q] = "look" /\ pc'[q] = "save"
          /\ put'[q].status \in {"running", "failed", "already_in_state"}
      BY <2>6 DEF Look, Put, Goto, PcType, LocalType
    <3> QED
      BY <2>1, <3>1
  <2>7. CASE Save(q)
    <3>1. pc[q] = "save" /\ pc'[q] = "run" /\ put[q].status = "running" /\ sent' = sent
      BY <1>1, <2>7 DEF Save, Leave, Home, Goto, PcType, Locked
    <3>2. acts[Key(q)].status = "queued"
      BY <2>1, <3>1 DEF Outcomes
    <3>3. sent[Key(q)] = 0
      BY <2>2, <3>1, <3>2 DEF SentInv, SentStatuses, Locked
    <3>4. acts' = [acts EXCEPT ![Key(q)] = Settled(acts[Key(q)], put[q])]
      BY <2>7 DEF Save, Settled
    <3>5. Key(q) \in AllKeys /\ acts[Key(q)] \in Records /\ put[q] \in Updates
      BY <3>1, HeldIs DEF Bound, Locked
    <3>6. acts'[Key(q)] = Settled(acts[Key(q)], put[q])
      BY <3>4, <3>5 DEF ActType
    <3>7. acts'[Key(q)].status = "running"
      BY <3>1, <3>5, <3>6, RecordIs
    <3> QED
      BY <3>1, <3>3, <3>7
  <2>8. CASE DryRun(q)
    <3>1. UNCHANGED <<acts, sent>> /\ pc[q] = "run" /\ pc'[q] = "save" /\ put'[q].status = "simulated"
      BY <2>8 DEF DryRun, Put, Goto, PcType, LocalType
    <3> QED
      BY <2>1, <3>1 DEF Outcomes
  <2>9. CASE PreRead(q)
    <3>1. /\ UNCHANGED <<acts, sent>> /\ pc[q] = "run"
          /\ pc'[q] = "command" \/ (pc'[q] = "save" /\ put'[q].status \in {"failed", "already_in_state"})
      BY <2>9 DEF PreRead, Put, Goto, PcType, LocalType
    <3> QED
      BY <2>1, <3>1 DEF Outcomes
  <2>10. CASE Command(q)
    <3>1. /\ UNCHANGED acts /\ pc[q] = "command"
          /\ pc'[q] = "verify" \/ (pc'[q] = "save" /\ put'[q].status = "uncertain")
      BY <2>10 DEF Command, Put, Goto, PcType, LocalType
    <3> QED
      BY <2>1, <3>1 DEF Outcomes, SentStatuses
  <2>11. CASE Verify(q)
    <3>1. /\ UNCHANGED <<acts, sent>> /\ pc[q] = "verify" /\ pc'[q] = "save"
          /\ put'[q].status \in {"succeeded", "uncertain", "reconcile_required"}
      BY <2>11 DEF Verify, Put, Goto, PcType, LocalType
    <3> QED
      BY <2>1, <3>1 DEF Outcomes, SentStatuses
  <2> QED
    BY <2>0, <2>3, <2>4, <2>5, <2>6, <2>7, <2>8, <2>9, <2>10, <2>11 DEF Works
<1>2. ASSUME NEW q \in Procs, pc'[q] \in Locked
      PROVE  Key(q)' = Key(q)
  BY <1>2, BoundStep DEF Key, Bound
<1>3. ASSUME NEW q \in Procs
      PROVE  Stage(pc'[q], acts'[Key(q)'].status, put'[q].status, sent'[Key(q)'])
  <2>1. CASE pc'[q] \in Locked
    BY <1>1, <1>2, <2>1
  <2>2. CASE pc'[q] \notin Locked
    BY <2>2 DEF Locked
  <2> QED
    BY <2>1, <2>2
<1> QED
  BY <1>3 DEF StageInv

LEMMA SentStep ==
  ASSUME IInv, [Next]_vars
  PROVE  SentInv'
<1> USE DEF IInv, CommandInv
<1> SUFFICES ASSUME NEW k \in AllKeys, sent'[k] # 0
             PROVE  sent'[k] = 1 /\ acts'[k] # None /\ acts'[k].status \in SentStatuses
  BY DEF SentInv
<1>1. CASE sent'[k] = sent[k]
  <2>1. sent[k] = 1 /\ acts[k] # None /\ acts[k].status \in SentStatuses
    BY <1>1 DEF SentInv
  <2>2. acts'[k] # None /\ Moves(k)
    BY <2>1, RecordMoves DEF Keeps
  <2>3. ASSUME NEW p \in Procs, Save(p), Key(p) = k, acts'[k].status = put[p].status
        PROVE  acts'[k].status \in SentStatuses
    <3>1. pc[p] = "save"
      BY <2>3 DEF Save
    <3> QED
      BY <2>1, <2>3, <3>1 DEF StageInv, SentStatuses
  <2> QED
    BY <1>1, <2>1, <2>2, <2>3 DEF Moves, SentStatuses
<1>2. ASSUME NEW p \in Procs, Command(p), Key(p) = k, sent'[k] = sent[k] + 1
      PROVE  sent'[k] = 1 /\ acts'[k] # None /\ acts'[k].status \in SentStatuses
  <2>1. pc[p] = "command" /\ UNCHANGED acts
    BY <1>2 DEF Command
  <2>2. sent[k] = 0 /\ acts[k].status = "running" /\ acts[k] # None
    BY <1>2, <2>1 DEF StageInv, RecordInv, Bound, Locked
  <2> QED
    BY <1>2, <2>1, <2>2 DEF SentStatuses
<1> QED
  BY <1>1, <1>2, SentMoves

\* A record is left running only by a restart or a write that failed.
LEMMA StuckStep ==
  ASSUME IInv, [Next]_vars
  PROVE  \/ Crash
         \/ /\ stuck \subseteq stuck'
            /\ \A p \in Procs : WriteFails(p) /\ pc[p] = "save" /\ IsRunning(Key(p)) => Key(p) \in stuck'
<1>1. \A p \in Procs : WriteFails(p) /\ pc[p] = "save" /\ IsRunning(Key(p)) => Key(p) \in stuck'
  BY DEF WriteFails
<1>2. ASSUME UNCHANGED stuck
      PROVE  stuck \subseteq stuck'
  BY <1>2
<1>3. CASE (\E p \in Cycles : CycleStart(p)) \/ (\E p \in Cycles : CycleSave(p)) \/ (\E p \in Cycles
      : CycleTimeout(p)) \/ (\E p \in Cycles : CycleEvaluate(p)) \/ (\E p \in Cycles : CycleNext(p))
      \/ (\E p \in Cycles, c \in Clients : CycleRead(p, c)) \/ (\E p \in Operators :
      OperatorCalls(p)) \/ (\E p \in Procs : Claim(p))
  BY <1>3, <1>1, <1>2 DEF CycleStart, CycleSave, CycleTimeout, CycleEvaluate, CycleNext, CycleRead,
        Heard, OperatorCalls, Claim
<1>4. CASE (\E p \in Procs : Enter(p)) \/ (\E p \in Procs : Count(p)) \/ (\E p \in Procs : Look(p))
      \/ (\E p \in Procs : Save(p)) \/ (\E p \in Procs : DryRun(p)) \/ (\E p \in Procs : PreRead(p))
      \/ (\E p \in Procs : Command(p)) \/ (\E p \in Procs : Verify(p))
  BY <1>4, <1>1, <1>2 DEF Enter, Count, Look, Save, DryRun, PreRead, Command, Verify
<1>5. CASE Crash \/ (\E e \in late : Apply(e)) \/ (\E u \in Targets : UserActs(u)) \/ UNCHANGED vars
  BY <1>5, <1>1, <1>2 DEF Crash, Apply, UserActs, vars
<1>6. ASSUME NEW p \in Procs, WriteFails(p)
      PROVE  stuck \subseteq stuck'
  BY <1>6 DEF WriteFails
<1> QED
  BY <1>1, <1>2, <1>3, <1>4, <1>5, <1>6
  DEF Next, Cycle, Control, Environment


\* Only a settlement, a failed write or a restart takes the lock away.
LEMMA HolderStays ==
  ASSUME IInv, [Next]_vars, NEW q \in Procs, pc[q] \in Locked, pc'[q] \notin Locked
  PROVE  Crash \/ WriteFails(q) \/ Save(q)
<1> USE Types, NamesDiffer DEF IInv, PcType, Locked
<1>1. pc'[q] # pc[q]
  OBVIOUS
<1>2. ASSUME NEW p \in Procs, NEW s, Goto(p, s), pc[p] \in Locked => s \in Locked
      PROVE  FALSE
  BY <1>1, <1>2 DEF Goto
<1>3. CASE (\E p \in Cycles : CycleStart(p)) \/ (\E p \in Cycles : CycleSave(p)) \/ (\E p \in Cycles
      : CycleTimeout(p))
  BY <1>3, <1>1, <1>2 DEF Put, CycleStart, CycleSave, CycleTimeout
<1>4. CASE (\E p \in Cycles : CycleEvaluate(p)) \/ (\E p \in Cycles : CycleNext(p)) \/ (\E p \in
      Cycles, c \in Clients : CycleRead(p, c))
  BY <1>4, <1>1, <1>2 DEF Put, CycleEvaluate, CycleNext, CycleRead, Heard
<1>5. CASE (\E p \in Operators : OperatorCalls(p)) \/ (\E p \in Procs : Count(p)) \/ (\E p \in Procs
      : Look(p))
  BY <1>5, <1>1, <1>2 DEF Put, OperatorCalls, Count, Look
<1>6. CASE (\E p \in Procs : DryRun(p)) \/ (\E p \in Procs : PreRead(p)) \/ (\E p \in Procs :
      Command(p))
  BY <1>6, <1>1, <1>2 DEF Put, DryRun, PreRead, Command
<1>7. CASE (\E p \in Procs : Verify(p)) \/ (\E e \in late : Apply(e)) \/ (\E t \in Targets :
      UserActs(t))
  BY <1>7, <1>1, <1>2 DEF Put, Verify, Apply, UserActs
<1>8. CASE UNCHANGED vars
  BY <1>8, <1>1, <1>2 DEF Put, vars
<1>9. ASSUME NEW p \in Procs, Claim(p)
      PROVE  FALSE
  <2>1. pc[p] \notin Locked /\ \E s : Goto(p, s)
    BY <1>9 DEF Claim
  <2> QED
    BY <1>2, <2>1
<1>10. ASSUME NEW p \in Procs, Enter(p)
      PROVE  FALSE
  <2>1. pc[p] \notin Locked /\ \E s : Goto(p, s)
    BY <1>10 DEF Enter
  <2> QED
    BY <1>2, <2>1
<1>11. ASSUME NEW p \in Procs, Save(p)
      PROVE  Save(q)
  <2>1. \E s : Goto(p, s)
    BY <1>11 DEF Save, Leave
  <2>2. p = q
    BY <1>1, <2>1 DEF Goto
  <2> QED
    BY <1>11, <2>2
<1>12. ASSUME NEW p \in Procs, WriteFails(p)
      PROVE  WriteFails(q)
  <2>1. \E s : Goto(p, s)
    BY <1>12 DEF WriteFails, Raise
  <2>2. p = q
    BY <1>1, <2>1 DEF Goto
  <2> QED
    BY <1>12, <2>2
<1>13. CASE Crash
  BY <1>13
<1> QED
  BY <1>1, <1>2, <1>3, <1>4, <1>5, <1>6, <1>7, <1>8, <1>9, <1>10, <1>11, <1>12, <1>13
  DEF Next, Cycle, Control, Environment

LEMMA SaveIs ==
  ASSUME IInv, NEW p \in Procs, Save(p)
  PROVE  /\ pc[p] = "save" /\ lock = p /\ lock # None /\ Key(p) \in AllKeys
         /\ acts'[Key(p)].status = put[p].status
         /\ put[p].status = "running" => pc' = [pc EXCEPT ![p] = "run"] /\ lock' = p
<1>1. pc[p] = "save" /\ lock = p /\ lock # None
  BY NamesDiffer DEF IInv, CommandInv, LockInv, Locked, Save
<1>2. Key(p) \in AllKeys /\ acts[Key(p)] \in Records /\ put[p] \in Updates
  BY <1>1, HeldIs DEF Bound, Locked
<1>3. acts' = [acts EXCEPT ![Key(p)] = Settled(acts[Key(p)], put[p])]
  BY DEF Save, Settled
<1>4. acts'[Key(p)] = Settled(acts[Key(p)], put[p])
  BY <1>2, <1>3, Types DEF IInv, ActType
<1>5. put[p].status = "running" => pc' = [pc EXCEPT ![p] = "run"] /\ lock' = lock
  BY DEF Save, Goto
<1>6. acts'[Key(p)].status = put[p].status
  <2>1. Settled(acts[Key(p)], put[p]).status = put[p].status
    BY <1>2, RecordIs
  <2> QED
    BY <1>4, <2>1
<1>7. put[p].status = "running" => pc' = [pc EXCEPT ![p] = "run"] /\ lock' = p
  BY <1>1, <1>5
<1> QED
  BY <1>1, <1>2, <1>6, <1>7

\* The stages between the two writes of a running record.
Running == {"run", "command", "verify", "save"}

LEMMA RunnerStep ==
  ASSUME IInv, [Next]_vars, NEW q \in Procs, pc[q] \in Running, ~Crash, ~WriteFails(q), ~Save(q)
  PROVE  pc'[q] \in Running /\ lock' = q /\ Key(q)' = Key(q)
<1> USE DEF Running
<1>1. pc'[q] \in Locked
  BY HolderStays DEF Locked
<1>2. lock' = q
  BY <1>1, LockStep DEF LockInv
<1>3. Key(q)' = Key(q)
  BY <1>1, BoundStep DEF Bound, Key
<1>4. pc'[q] \in Running
  <2>1. CASE Waits(q)
    BY <2>1 DEF Waits
  <2>2. CASE Works(q)
    <3>1. DryRun(q) \/ PreRead(q) \/ Command(q) \/ Verify(q)
      BY <2>2 DEF Works, Enter, Count, Look
    <3>2. \E s \in {"command", "verify", "save"} : Goto(q, s)
      BY <3>1 DEF DryRun, PreRead, Command, Verify, Put
    <3> QED
      BY <3>2, Types DEF Goto, IInv, PcType
  <2> QED
    BY <1>1, <2>1, <2>2, HolderStep
<1> QED
  BY <1>2, <1>3, <1>4

LEMMA RunningStep ==
  ASSUME IInv, [Next]_vars
  PROVE  RunningIsRun'
<1> SUFFICES ASSUME NEW k \in AllKeys, acts'[k] # None, acts'[k].status = "running", k \notin stuck'
             PROVE  lock' # None /\ req'[lock'].key = k /\ pc'[lock'] \in Running
  BY DEF RunningIsRun, IsRunning, Key, Running
<1>1. Moves(k)
  BY RecordMoves
<1>2. ASSUME NEW p \in Procs, Save(p), Key(p) = k, acts'[k].status = put[p].status
      PROVE  lock' # None /\ req'[lock'].key = k /\ pc'[lock'] \in Running
  <2>1. pc' = [pc EXCEPT ![p] = "run"] /\ lock' = p /\ p # None
    BY <1>2, SaveIs
  <2>2. req' = req
    BY <1>2 DEF Save
  <2> QED
    BY <1>2, <2>1, <2>2, Types DEF IInv, PcType, Running, Key
<1>3. CASE acts[k] # None /\ acts'[k].status = acts[k].status
  <2>1. ~Crash
    <3>1. acts[k] \in Records /\ acts[k].status = "running"
      BY <1>3, Types DEF IInv, ActType
    <3> QED
      BY <3>1, RecordIs DEF Crash
  <2>2. k \notin stuck /\ IsRunning(k)
    BY <1>3, <2>1, StuckStep DEF IsRunning
  <2>3. lock # None /\ lock \in Procs /\ Key(lock) = k /\ pc[lock] \in Running
    BY <2>2, Types DEF IInv, CommandInv, RunningIsRun, FleetType, Running
  <2>4. ~Save(lock)
    <3>1. SUFFICES ASSUME Save(lock) PROVE FALSE
      OBVIOUS
    <3>2. put[lock].status = "running" /\ pc[lock] = "save"
      BY <1>3, <2>3, <3>1, SaveIs
    <3> QED
      BY <1>3, <2>3, <3>2 DEF IInv, CommandInv, StageInv, Outcomes
  <2>5. ~WriteFails(lock)
    <3>1. SUFFICES ASSUME WriteFails(lock) PROVE FALSE
      OBVIOUS
    <3>2. pc[lock] = "save"
      BY <2>3, <3>1 DEF WriteFails, Running
    <3> QED
      BY <2>1, <2>2, <2>3, <3>1, <3>2, StuckStep
  <2>6. pc'[lock] \in Running /\ lock' = lock /\ Key(lock)' = Key(lock)
    BY <2>1, <2>3, <2>4, <2>5, RunnerStep
  <2> QED
    BY <2>3, <2>6 DEF Key
<1> QED
  BY <1>1, <1>2, <1>3 DEF Moves

-----------------------------------------------------------------------------
(* The invariant.                                                          *)

LEMMA InitInv == Init => IInv
<1> SUFFICES ASSUME Init PROVE IInv
  OBVIOUS
<1> USE NamesDiffer DEF Init
<1>1. TypeOK
  <2>1. FleetType
    BY DownloadsAssumption DEF FleetType
  <2>2. RowType /\ ActType
    BY DEF RowType, ActType
  <2>3. PcType /\ LocalType /\ CountType
    BY StateTypes DEF PcType, LocalType, CountType, Stages
  <2> QED
    BY <2>1, <2>2, <2>3, Types
<1>2. CallInv /\ LockInv /\ RecordInv
  BY DEF CallInv, LockInv, RecordInv, Calling, Bound, Locked
<1>3. StageInv /\ SentInv /\ RunningIsRun
  BY DEF StageInv, SentInv, RunningIsRun, IsRunning
<1> QED
  BY <1>1, <1>2, <1>3 DEF IInv, CommandInv

LEMMA StepInv == IInv /\ [Next]_vars => IInv'
BY TypeStep, CallStep, LockStep, RecordStep, StageStep, SentStep, RunningStep DEF IInv, CommandInv

\* The invariant holds in every reachable state.
THEOREM Invariance == Spec => []IInv
BY InitInv, StepInv, PTL DEF Spec

\* Every variable has its type: the stages, records, observations and requests
\* of the Downloads service are those of the code.
THEOREM TypeCorrect == Spec => []TypeOK
<1>1. IInv => TypeOK
  BY DEF IInv
<1> QED
  BY <1>1, Invariance, PTL

\* control sends the command of an action at most once, whatever is repeated,
\* retried, failed or recovered, and its record says so from then on.
THEOREM CommandedOnce == Spec => []SentOnce
<1>1. IInv => SentOnce
  <2> SUFFICES ASSUME IInv, NEW k \in AllKeys
               PROVE  sent[k] <= 1 /\ (sent[k] = 1 => acts[k].status \in SentStatuses)
    BY DEF SentOnce, SentStatuses
  <2> QED
    BY DEF IInv, CommandInv, SentInv
<1> QED
  BY <1>1, Invariance, PTL

\* A record says running only while the holder of the execution lock runs it, or
\* when its settlement could not be written since recover_running_actions.
THEOREM RunningHasRunner == Spec => []RunningIsRun
<1>1. IInv => RunningIsRun
  BY DEF IInv, CommandInv
<1> QED
  BY <1>1, Invariance, PTL

-----------------------------------------------------------------------------
(* What the policy may command.                                            *)

SInv == IInv /\ ScopeInv

\* A row that is managed after a step was so before, or its hash is known to Arr.
LEMMA OwnerStep ==
  ASSUME IInv, [Next]_vars, NEW t \in Targets, rows'[t] # None, rows'[t].owner = "managed"
  PROVE  (rows[t] # None /\ rows[t].owner = "managed") \/ t[2] \in Managed
<1> USE Types, NamesDiffer DEF IInv
<1>1. ASSUME UNCHANGED rows
      PROVE  rows[t] # None /\ rows[t].owner = "managed"
  BY <1>1
<1>2. ASSUME Staled[t] # None, Staled[t].owner = "managed"
      PROVE  rows[t] # None /\ rows[t].owner = "managed"
  BY <1>2, StaledType
<1>3. CASE (\E p \in Cycles : CycleStart(p)) \/ (\E p \in Cycles : CycleEvaluate(p)) \/ (\E p \in
      Cycles : CycleNext(p)) \/ (\E p \in Cycles, c \in Clients : CycleRead(p, c)) \/ (\E p \in
      Operators : OperatorCalls(p)) \/ (\E p \in Procs : Claim(p)) \/ (\E p \in Procs : Enter(p)) \/
      (\E p \in Procs : Count(p))
  BY <1>3, <1>1 DEF CycleStart, CycleEvaluate, CycleNext, CycleRead, Heard, OperatorCalls, Claim,
        Enter, Count
<1>4. CASE (\E p \in Procs : Look(p)) \/ (\E p \in Procs : Save(p)) \/ (\E p \in Procs : DryRun(p))
      \/ (\E p \in Procs : PreRead(p)) \/ (\E p \in Procs : Command(p)) \/ (\E p \in Procs :
      Verify(p)) \/ (\E p \in Procs : WriteFails(p)) \/ Crash
  BY <1>4, <1>1 DEF Look, Save, DryRun, PreRead, Command, Verify, WriteFails, Crash
<1>5. CASE (\E e \in late : Apply(e)) \/ (\E u \in Targets : UserActs(u)) \/ UNCHANGED vars
  BY <1>5, <1>1 DEF Apply, UserActs, vars
<1>6. ASSUME NEW p \in Cycles, CycleSave(p)
      PROVE  (rows[t] # None /\ rows[t].owner = "managed") \/ t[2] \in Managed
  <2>1. PICK arrFailed \in BOOLEAN : rows' = Observed(p, arrFailed)
    BY <1>6 DEF CycleSave
  <2>2. CASE t \notin Listed(p)
    <3>1. rows'[t] = Staled[t]
      BY <2>1, <2>2 DEF Observed
    <3> QED
      BY <1>2, <3>1
  <2>3. CASE t \in Listed(p)
    <3>1. rows'[t].owner = Ownership(t, Listed(p), Managed, arrFailed, FleetComplete(p))
      BY <2>1, <2>3 DEF Observed
    <3> QED
      BY <3>1, OwnershipIs
  <2> QED
    BY <2>2, <2>3
<1>7. ASSUME NEW p \in Cycles, CycleTimeout(p)
      PROVE  rows[t] # None /\ rows[t].owner = "managed"
  BY <1>2, <1>7 DEF CycleTimeout
<1> QED
  BY <1>1, <1>2, <1>3, <1>4, <1>5, <1>6, <1>7
  DEF Next, Cycle, Control, Environment

\* What a policy still has to pause is in scope.
LEMMA TodoStep ==
  ASSUME SInv, [Next]_vars, NEW q \in Procs
  PROVE  todo'[q] \subseteq Scoped
<1> USE Types, NamesDiffer DEF SInv, IInv, ScopeInv, LocalType
<1>1. ASSUME UNCHANGED todo
      PROVE  todo'[q] \subseteq Scoped
  BY <1>1
<1>2. ASSUME NEW p \in Procs, NEW ts, ts \subseteq Scoped, todo' = [todo EXCEPT ![p] = ts]
      PROVE  todo'[q] \subseteq Scoped
  BY <1>2
<1>3. CASE (\E p \in Cycles : CycleStart(p)) \/ (\E p \in Cycles : CycleSave(p)) \/ (\E p \in Cycles
      : CycleTimeout(p)) \/ (\E p \in Cycles, c \in Clients : CycleRead(p, c)) \/ (\E p \in
      Operators : OperatorCalls(p)) \/ (\E p \in Procs : Claim(p)) \/ (\E p \in Procs : Enter(p)) \/
      (\E p \in Procs : Count(p))
  BY <1>3, <1>1 DEF CycleStart, CycleSave, CycleTimeout, CycleRead, Heard, OperatorCalls, Claim,
        Enter, Count
<1>4. CASE (\E p \in Procs : Look(p)) \/ (\E p \in Procs : Save(p)) \/ (\E p \in Procs : DryRun(p))
      \/ (\E p \in Procs : PreRead(p)) \/ (\E p \in Procs : Command(p)) \/ (\E p \in Procs :
      Verify(p)) \/ (\E e \in late : Apply(e)) \/ (\E u \in Targets : UserActs(u))
  BY <1>4, <1>1 DEF Look, Save, DryRun, PreRead, Command, Verify, Apply, UserActs
<1>5. CASE UNCHANGED vars
  BY <1>5, <1>1 DEF vars
<1>6. ASSUME NEW p \in Cycles, CycleEvaluate(p)
      PROVE  todo'[q] \subseteq Scoped
  <2>1. {t \in Targets : IsEligible(t)} \subseteq Scoped
    BY EligibleIs DEF Scoped
  <2> QED
    BY <1>2, <1>6, <2>1 DEF CycleEvaluate
<1>7. ASSUME NEW p \in Cycles, CycleNext(p)
      PROVE  todo'[q] \subseteq Scoped
  <2>1. UNCHANGED todo \/ \E t : todo' = [todo EXCEPT ![p] = todo[p] \ {t}]
    BY <1>7 DEF CycleNext
  <2>2. \A t : todo[p] \ {t} \subseteq Scoped
    OBVIOUS
  <2> QED
    BY <1>1, <1>2, <2>1, <2>2
<1>8. ASSUME NEW p \in Procs, WriteFails(p)
      PROVE  todo'[q] \subseteq Scoped
  BY <1>2, <1>8 DEF WriteFails, Raise
<1>9. CASE Crash
  BY <1>9 DEF Crash
<1> QED
  BY <1>1, <1>2, <1>3, <1>4, <1>5, <1>6, <1>7, <1>8, <1>9
  DEF Next, Cycle, Control, Environment

\* A request for the key of a torrent is the policy's: a pause, in scope.
InScope(r) == r.key \in Targets => r.key \in Scoped /\ r.action = "pause"

LEMMA RequestStep ==
  ASSUME SInv, [Next]_vars, NEW q \in Procs, pc'[q] \in Calling
  PROVE  InScope(req'[q])
<1> USE Types, NamesDiffer DEF SInv, IInv, PcType, LocalType, Calling, Bound, Locked
<1>0. (pc[q] \in Calling => InScope(req[q])) /\ "idle" \notin Calling
  BY DEF ScopeInv, InScope, Key
<1>1. ASSUME UNCHANGED <<req, pc>>
      PROVE  InScope(req'[q])
  BY <1>0, <1>1
<1>2. ASSUME UNCHANGED req, NEW p \in Procs, NEW s, Goto(p, s), s \in Calling => pc[p] \in Calling
      PROVE  InScope(req'[q])
  BY <1>0, <1>2 DEF Goto
<1>3. ASSUME NEW p \in Procs, NEW r, req' = [req EXCEPT ![p] = r], NEW s, Goto(p, s),
             s \notin Calling \/ InScope(r)
      PROVE  InScope(req'[q])
  BY <1>0, <1>3 DEF Goto
<1>4. CASE (\E p \in Cycles : CycleStart(p)) \/ (\E p \in Cycles : CycleSave(p)) \/ (\E p \in Cycles
      : CycleTimeout(p))
  BY <1>4, <1>1, <1>2 DEF Home, Leave, Put, CycleStart, CycleSave, CycleTimeout
<1>5. CASE (\E p \in Cycles : CycleEvaluate(p)) \/ (\E p \in Cycles, c \in Clients : CycleRead(p,
      c)) \/ (\E p \in Procs : Enter(p))
  BY <1>5, <1>1, <1>2 DEF Home, Leave, Put, CycleEvaluate, CycleRead, Heard, Enter
<1>6. CASE (\E p \in Procs : Count(p)) \/ (\E p \in Procs : Look(p)) \/ (\E p \in Procs : Save(p))
  BY <1>6, <1>1, <1>2 DEF Home, Leave, Put, Count, Look, Save
<1>7. CASE (\E p \in Procs : DryRun(p)) \/ (\E p \in Procs : PreRead(p)) \/ (\E p \in Procs :
      Command(p))
  BY <1>7, <1>1, <1>2 DEF Home, Leave, Put, DryRun, PreRead, Command
<1>8. CASE (\E p \in Procs : Verify(p)) \/ (\E e \in late : Apply(e)) \/ (\E t \in Targets :
      UserActs(t))
  BY <1>8, <1>1, <1>2 DEF Home, Leave, Put, Verify, Apply, UserActs
<1>9. CASE UNCHANGED vars
  BY <1>9, <1>1, <1>2 DEF Home, Leave, Put, vars
<1>10. ASSUME NEW p \in Cycles, CycleNext(p)
      PROVE  InScope(req'[q])
  <2>1. CASE Goto(p, "idle") /\ req' = [req EXCEPT ![p] = NoRequest]
    BY <1>0, <1>3, <2>1
  <2>2. CASE ~(Goto(p, "idle") /\ req' = [req EXCEPT ![p] = NoRequest])
    <3>1. PICK i \in DOMAIN Order : /\ Order[i] \in todo[p] /\ Goto(p, "claim")
                                    /\ req' = [req EXCEPT ![p] = Request(Order[i], Order[i], "pause", TRUE, mode.max)]
      BY <1>10, <2>2 DEF CycleNext
    <3>2. Order[i] \in Scoped
      BY <3>1 DEF ScopeInv
    <3>3. InScope(Request(Order[i], Order[i], "pause", TRUE, mode.max))
      BY <3>2 DEF InScope, Request
    <3> QED
      BY <1>3, <3>1, <3>3
  <2> QED
    BY <2>1, <2>2
<1>11. ASSUME NEW p \in Operators, OperatorCalls(p)
      PROVE  InScope(req'[q])
  <2>1. PICK k \in Keys, t \in Targets, a \in Actions : req' = [req EXCEPT ![p] = Request(k, t, a, FALSE, 1)]
    BY <1>11 DEF OperatorCalls
  <2>2. InScope(Request(k, t, a, FALSE, 1))
    BY <2>1 DEF InScope, Request
  <2>3. Goto(p, "claim")
    BY <1>11 DEF OperatorCalls
  <2> QED
    BY <1>3, <2>1, <2>2, <2>3
<1>12. ASSUME NEW p \in Procs, Claim(p)
      PROVE  InScope(req'[q])
  <2>1. UNCHANGED req /\ pc[p] \in Calling /\ \E s : Goto(p, s)
    BY <1>12 DEF Claim
  <2> QED
    BY <1>2, <2>1
<1>13. ASSUME NEW p \in Procs, WriteFails(p)
      PROVE  InScope(req'[q])
  BY <1>0, <1>3, <1>13 DEF WriteFails, Raise
<1>14. CASE Crash
  BY <1>14 DEF Crash
<1> QED
  BY <1>1, <1>2, <1>3, <1>4, <1>5, <1>6, <1>7, <1>8, <1>9, <1>10, <1>11, <1>12, <1>13, <1>14
  DEF Next, Cycle, Control, Environment

LEMMA ModeStep == [Next]_vars => UNCHANGED mode
<1> SUFFICES ASSUME [Next]_vars PROVE UNCHANGED mode
  OBVIOUS
<1>1. CASE (\E p \in Cycles : CycleStart(p)) \/ (\E p \in Cycles : CycleSave(p)) \/ (\E p \in Cycles
      : CycleTimeout(p)) \/ (\E p \in Cycles : CycleEvaluate(p)) \/ (\E p \in Cycles : CycleNext(p))
      \/ (\E p \in Cycles, c \in Clients : CycleRead(p, c)) \/ (\E p \in Operators :
      OperatorCalls(p)) \/ (\E p \in Procs : Claim(p))
  BY <1>1 DEF CycleStart, CycleSave, CycleTimeout, CycleEvaluate, CycleNext, CycleRead, Heard,
        OperatorCalls, Claim
<1>2. CASE (\E p \in Procs : Enter(p)) \/ (\E p \in Procs : Count(p)) \/ (\E p \in Procs : Look(p))
      \/ (\E p \in Procs : Save(p)) \/ (\E p \in Procs : DryRun(p)) \/ (\E p \in Procs : PreRead(p))
      \/ (\E p \in Procs : Command(p)) \/ (\E p \in Procs : Verify(p))
  BY <1>2 DEF Enter, Count, Look, Save, DryRun, PreRead, Command, Verify
<1>3. CASE (\E p \in Procs : WriteFails(p)) \/ Crash \/ (\E e \in late : Apply(e)) \/ (\E t \in
      Targets : UserActs(t)) \/ UNCHANGED vars
  BY <1>3 DEF WriteFails, Crash, Apply, UserActs, vars
<1> QED
  BY <1>1, <1>2, <1>3
  DEF Next, Cycle, Control, Environment

\* Nothing is commanded in dry-run mode.
LEMMA WetStep ==
  ASSUME SInv, [Next]_vars, NEW q \in Procs, pc'[q] = "command"
  PROVE  ~mode'.dry
<1>0. UNCHANGED mode /\ (Works(q) \/ Waits(q))
  BY ModeStep, HolderStep DEF SInv, Locked
<1>1. CASE Waits(q)
  BY <1>0, <1>1 DEF Waits, SInv, ScopeInv
<1>2. CASE Works(q)
  <2>1. CASE PreRead(q)
    BY <1>0, <2>1 DEF PreRead
  <2>2. CASE Enter(q) \/ Count(q) \/ Look(q) \/ Save(q) \/ DryRun(q) \/ Command(q) \/ Verify(q)
    <3>1. \E s : Goto(q, s) /\ s # "command"
      BY <2>2 DEF Enter, Count, Look, Save, DryRun, Command, Verify, Put, Leave, Home
    <3> QED
      BY <3>1, Types DEF Goto, SInv, IInv, PcType
  <2> QED
    BY <1>2, <2>1, <2>2 DEF Works
<1> QED
  BY <1>0, <1>1, <1>2

LEMMA ScopeStep == SInv /\ [Next]_vars => SInv'
<1> SUFFICES ASSUME SInv, [Next]_vars PROVE SInv'
  OBVIOUS
<1>1. IInv'
  BY StepInv DEF SInv
<1>2. \A t \in Targets : rows'[t] # None /\ rows'[t].owner = "managed" => t[2] \in Managed
  BY OwnerStep DEF SInv, ScopeInv
<1>3. \A p \in Procs : pc'[p] \in Calling /\ Key(p)' \in Targets => Key(p)' \in Scoped /\ req'[p].action = "pause"
  BY RequestStep DEF InScope, Key
<1> QED
  BY <1>1, <1>2, <1>3, TodoStep, WetStep DEF SInv, ScopeInv

LEMMA ScopeInit == Init => SInv
BY InitInv, NamesDiffer DEF Init, SInv, ScopeInv, Calling, Bound, Locked

\* What was sent for a policy's key was in scope, and is still recorded as a pause.
LEMMA PolicyStep == SInv /\ PolicyStaysInScope /\ [Next]_vars => PolicyStaysInScope'
<1> SUFFICES ASSUME SInv, PolicyStaysInScope, [Next]_vars, NEW t \in Targets, sent'[t] > 0
             PROVE  ~mode'.dry /\ t \in Scoped /\ acts'[t].action = "pause"
  BY DEF PolicyStaysInScope, Scoped
<1> USE NamesDiffer, Types DEF SInv, IInv, CountType
<1>1. t \in AllKeys /\ sent[t] \in Nat /\ UNCHANGED mode
  BY ModeStep
<1>2. Keeps(t)
  BY <1>1, RecordMoves
<1>3. CASE sent'[t] = sent[t]
  <2>1. ~mode.dry /\ t \in Scoped /\ acts[t].action = "pause"
    BY <1>3 DEF PolicyStaysInScope, Scoped
  <2>2. acts[t] # None
    BY <1>1, <1>3 DEF CommandInv, SentInv
  <2> QED
    BY <1>1, <1>2, <2>1, <2>2 DEF Keeps, Canonical
<1>4. ASSUME NEW p \in Procs, Command(p), Key(p) = t
      PROVE  ~mode'.dry /\ t \in Scoped /\ acts'[t].action = "pause"
  <2>1. pc[p] = "command"
    BY <1>4 DEF Command
  <2>2. ~mode.dry /\ t \in Scoped /\ req[p].action = "pause"
    BY <1>4, <2>1 DEF ScopeInv, Calling, Bound, Locked
  <2>3. acts[t] # None /\ acts[t].action = "pause"
    BY <1>4, <2>1, <2>2 DEF CommandInv, RecordInv, Bound, Locked, Canonical
  <2> QED
    BY <1>1, <1>2, <2>2, <2>3 DEF Keeps, Canonical
<1> QED
  BY <1>1, <1>3, <1>4, SentMoves

\* evaluate_and_apply_policy commands only torrents that Arr knows and the scope
\* admits, never in dry-run mode, and only pauses them.
THEOREM PolicyInScope == Spec => []PolicyStaysInScope
<1>1. Init => PolicyStaysInScope
  BY NamesDiffer DEF Init, PolicyStaysInScope
<1> QED
  BY <1>1, ScopeInit, ScopeStep, PolicyStep, PTL DEF Spec

-----------------------------------------------------------------------------
(* What Arr knows by one name.                                             *)

\* What became fresh and managed has no twin in the listing it came from.
LEMMA ObservedUnique ==
  ASSUME TypeOK, NEW p \in Procs, NEW arrFailed, rows' = Observed(p, arrFailed)
  PROVE  ManagedIsUnique'
<1> USE Types DEF FreshManaged
<1>1. ASSUME NEW t \in Targets, FreshManaged(t)'
      PROVE  t \in Listed(p) /\ Ownership(t, Listed(p), Managed, arrFailed, FleetComplete(p)) = "managed"
  <2>1. t \in Listed(p)
    <3>1. SUFFICES ASSUME t \notin Listed(p) PROVE FALSE
      OBVIOUS
    <3>2. rows'[t] = Staled[t]
      BY <3>1 DEF Observed
    <3> QED
      BY <1>1, <3>2, StaledType
  <2> QED
    BY <1>1, <2>1 DEF Observed
<1>2. IsFiniteSet(Listed(p))
  BY ListingType, TargetsFinite, FS_Subset DEF Listed
<1>3. ASSUME NEW t \in Targets, NEW u \in Targets, FreshManaged(t)', FreshManaged(u)', u[2] = t[2]
      PROVE  u = t
  <2> DEFINE twins == {x \in Listed(p) : x[2] = t[2]}
  <2>1. IsFiniteSet(twins) /\ t \in twins /\ u \in twins
    BY <1>1, <1>2, <1>3, FS_Subset
  <2>2. ~(Cardinality(twins) > 1) /\ Cardinality(twins) \in Nat
    BY <1>1, <1>3, <2>1, OwnershipIs, FS_CardinalityType
  <2> HIDE DEF twins
  <2>3. SUFFICES ASSUME u # t PROVE FALSE
    OBVIOUS
  <2>4. Cardinality({t}) = 1 /\ {t} \in SUBSET twins /\ {t} # twins
    BY <2>1, <2>3, FS_Singleton
  <2>5. 1 <= Cardinality(twins) /\ 1 # Cardinality(twins)
    BY <2>1, <2>4, FS_Subset
  <2> QED
    BY <2>2, <2>5
<1>4. ASSUME NEW t \in Targets, FreshManaged(t)'
      PROVE  t[2] \in Managed
  BY <1>1, <1>4, OwnershipIs
<1> HIDE DEF FreshManaged
<1> QED
  BY <1>3, <1>4 DEF ManagedIsUnique

LEMMA UniqueStep == TypeOK /\ ManagedIsUnique /\ [Next]_vars => ManagedIsUnique'
<1> SUFFICES ASSUME TypeOK, ManagedIsUnique, [Next]_vars PROVE ManagedIsUnique'
  OBVIOUS
<1> USE Types, NamesDiffer
<1>1. ASSUME UNCHANGED rows
      PROVE  ManagedIsUnique'
  BY <1>1 DEF ManagedIsUnique, FreshManaged
<1>2. CASE (\E p \in Cycles : CycleStart(p)) \/ (\E p \in Cycles : CycleEvaluate(p)) \/ (\E p \in
      Cycles : CycleNext(p)) \/ (\E p \in Cycles, c \in Clients : CycleRead(p, c)) \/ (\E p \in
      Operators : OperatorCalls(p)) \/ (\E p \in Procs : Claim(p)) \/ (\E p \in Procs : Enter(p)) \/
      (\E p \in Procs : Count(p))
  BY <1>2, <1>1 DEF CycleStart, CycleEvaluate, CycleNext, CycleRead, Heard, OperatorCalls, Claim,
        Enter, Count
<1>3. CASE (\E p \in Procs : Look(p)) \/ (\E p \in Procs : Save(p)) \/ (\E p \in Procs : DryRun(p))
      \/ (\E p \in Procs : PreRead(p)) \/ (\E p \in Procs : Command(p)) \/ (\E p \in Procs :
      Verify(p)) \/ (\E p \in Procs : WriteFails(p)) \/ Crash
  BY <1>3, <1>1 DEF Look, Save, DryRun, PreRead, Command, Verify, WriteFails, Crash
<1>4. CASE (\E e \in late : Apply(e)) \/ (\E u \in Targets : UserActs(u)) \/ UNCHANGED vars
  BY <1>4, <1>1 DEF Apply, UserActs, vars
<1>5. ASSUME NEW p \in Cycles, CycleSave(p)
      PROVE  ManagedIsUnique'
  BY <1>5, ObservedUnique DEF CycleSave
<1>6. ASSUME NEW p \in Cycles, CycleTimeout(p)
      PROVE  ManagedIsUnique'
  <2>1. \A t \in Targets : ~FreshManaged(t)'
    BY <1>6, StaledType DEF CycleTimeout, FreshManaged
  <2> QED
    BY <2>1 DEF ManagedIsUnique
<1> QED
  BY <1>1, <1>2, <1>3, <1>4, <1>5, <1>6
  DEF Next, Cycle, Control, Environment

\* Two clients never hold a fresh, managed row for one hash, and Arr knows the
\* hash of each (resolve_snapshot_ownership, save_listing).
THEOREM ManagedOnce == Spec => []ManagedIsUnique
<1>1. Init => ManagedIsUnique
  BY DEF Init, ManagedIsUnique, FreshManaged
<1> QED
  BY <1>1, TypeCorrect, UniqueStep, PTL DEF Spec
=============================================================================
