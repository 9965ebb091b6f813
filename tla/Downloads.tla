------------------------------ MODULE Downloads ------------------------------
(***************************************************************************)
(* The Downloads service (application/downloads.py and                     *)
(* infrastructure/downloads_repository.py): refresh cycles observe the     *)
(* download clients and apply the seeding-stop policy, while operators     *)
(* pause and resume torrents.  Every action is a durable record that is    *)
(* claimed, counted, marked running, carried out and settled in writes of  *)
(* their own, under the shared execution lock; RPCs and writes fail, the   *)
(* process crashes, the clients apply commands late.                       *)
(***************************************************************************)
EXTENDS DownloadPolicy, Sequences

CONSTANTS Clients,
          Order,       \* all torrents <<client, hash>> in the order of the rows
          Managed,     \* hashes in the history of the Arr services
          Metrics,     \* what the clients report besides the state, per torrent
          Policy,      \* the seeding-stop policy
          Cycles,      \* the policy loop and refresh requests
          Operators,   \* requests of POST /api/downloads/actions
          Keys,        \* idempotency keys the operators choose
          Modes,       \* configurations: [dry, max], dry-run mode and the policy's max_attempts
          Fleets,      \* initial states of the torrents
          CycleBudget, CallBudget,               \* bounds: refresh cycles, operator calls
          UserBudget, FaultBudget, CrashBudget,  \* bounds: user actions, failures, crashes
          TroubleBudget                          \* bound: the three together

Targets == {Order[i] : i \in DOMAIN Order}
Procs == Cycles \union Operators
AllKeys == Keys \union Targets  \* a policy action's key is derived from its torrent

ASSUME DownloadsAssumption ==
    /\ Order \in Seq(Clients \X {t[2] : t \in Targets})
    /\ Modes \subseteq [dry : BOOLEAN, max : 1..5]
    /\ Fleets \subseteq [Targets -> States \union {"absent"}]
    /\ {CycleBudget, CallBudget, UserBudget, FaultBudget, CrashBudget, TroubleBudget} \subseteq Nat
    /\ Cycles \cap Operators = {} /\ Keys \cap Targets = {} /\ None \notin Procs

Actions == {"pause", "resume"}
Retryable == {"pre_read_failed", "pre_read_incomplete", "pre_state_unknown",
              "target_not_fresh", "not_found", "invalid_identifier", "unsupported"}
\* what an action record says once the action was tried
Outcomes == {"already_in_state", "succeeded", "failed", "uncertain",
             "reconcile_required", "simulated"}

VARIABLES
    torrent,  \* the state of each torrent in its client, "absent" when it is gone
    late,     \* commands a client accepted and has not applied: <<torrent, state>>
    rows,     \* durable observations: [Targets -> row or None]
    acts,     \* durable action records: [AllKeys -> record or None]
    mode,     \* the configuration, one for the whole behaviour
    lock,     \* holder of the shared execution lock
    pc, req,  \* stage and request of each process
    put,      \* the update it is about to write: [status, code]
    heard,    \* what a cycle has read: records [client, ok, saw]
    todo,     \* torrents a cycle has still to pause
    sent,     \* history: commands sent for each action
    stuck,    \* history: running records whose settlement could not be written
    cycles, calls, users, faults, crashes  \* consumed budgets

durable == <<rows, acts>>
clients == <<torrent, late>>
locals == <<req, put, heard, todo>>
history == <<sent, stuck>>
budgets == <<cycles, calls, users, faults, crashes>>
vars == <<clients, durable, mode, lock, pc, locals, history, budgets>>

Trouble == users + faults + crashes < TroubleBudget
Fault == Trouble /\ faults < FaultBudget /\ faults' = faults + 1
Goto(p, s) == pc' = [pc EXCEPT ![p] = s]
Key(p) == req[p].key
Target(p) == req[p].target
Goal(action) == IF action = "pause" THEN "stopped" ELSE "seeding"
Desired(state, action) ==
    IF action = "pause" THEN state = "stopped"
    ELSE state \in {"downloading", "seeding", "queued", "checking"}

NoRequest == [key |-> None, target |-> None, action |-> "pause", retry |-> FALSE, max |-> 1]
NoUpdate == [status |-> "queued", code |-> "queued"]

\* where a finished control returns to: the cycle goes on with its next torrent
Home(p) == IF p \in Cycles THEN "next" ELSE "idle"
Leave(p) == lock' = None /\ Goto(p, Home(p))
\* an exception ends the call, and with it the cycle that made it
Raise(p) == Goto(p, "idle") /\ todo' = [todo EXCEPT ![p] = {}]

(***************************************************************************)
(* refresh: every client is listed, at its own moment; a failed one may    *)
(* still have described some of its torrents.  Arr evidence is collected   *)
(* before and may fail.                                                    *)
(***************************************************************************)
CycleStart(p) ==
    /\ pc[p] = "idle" /\ cycles < CycleBudget
    /\ cycles' = cycles + 1
    /\ heard' = [heard EXCEPT ![p] = {}]
    /\ Goto(p, "list")
    /\ UNCHANGED <<clients, durable, mode, lock, req, put, todo, history, calls, users,
                   faults, crashes>>

Present(c) == {t \in Targets : t[1] = c /\ torrent[t] # "absent"}
Heard(p, c, ok, ts) ==
    heard' = [heard EXCEPT ![p] = @ \union
                {[client |-> c, ok |-> ok, saw |-> {<<t, torrent[t]>> : t \in ts}]}]

CycleRead(p, c) ==
    /\ pc[p] = "list" /\ \A h \in heard[p] : h.client # c
    /\ \/ Heard(p, c, TRUE, Present(c)) /\ UNCHANGED faults
       \/ Fault /\ \E ts \in SUBSET Present(c) : Heard(p, c, FALSE, ts)
    /\ UNCHANGED <<clients, durable, mode, lock, pc, req, put, todo, history, cycles, calls,
                   users, crashes>>

(***************************************************************************)
(* save_listing: one transaction makes every row stale, then the listed    *)
(* torrents fresh.  A timeout of the whole refresh only makes rows stale.  *)
(***************************************************************************)
Staled == [t \in Targets |-> IF rows[t] = None THEN None
                             ELSE [rows[t] EXCEPT !.freshness = "stale"]]
Listing(p) == UNION {h.saw : h \in heard[p]}
Listed(p) == {e[1] : e \in Listing(p)}
FleetComplete(p) == \A h \in heard[p] : h.ok
Observed(p, arrFailed) ==
    [t \in Targets |->
        IF t \notin Listed(p) THEN Staled[t]
        ELSE [state |-> CHOOSE s \in States : <<t, s>> \in Listing(p),
              freshness |-> "fresh",
              owner |-> Ownership(t, Listed(p), Managed, arrFailed, FleetComplete(p))]]

CycleSave(p) ==
    /\ pc[p] = "list" /\ {h.client : h \in heard[p]} = Clients
    /\ \/ rows' = Observed(p, FALSE) /\ UNCHANGED faults
       \/ Fault /\ rows' = Observed(p, TRUE)
    /\ heard' = [heard EXCEPT ![p] = {}]
    /\ Goto(p, "evaluate")
    /\ UNCHANGED <<clients, acts, mode, lock, req, put, todo, history, cycles, calls, users, crashes>>

CycleTimeout(p) ==
    /\ pc[p] = "list" /\ Fault
    /\ rows' = Staled
    /\ heard' = [heard EXCEPT ![p] = {}]
    /\ Goto(p, "evaluate")
    /\ UNCHANGED <<clients, acts, mode, lock, req, put, todo, history, cycles, calls, users, crashes>>

(***************************************************************************)
(* evaluate_policy and evaluate_and_apply_policy: the rows are read once,  *)
(* then the eligible torrents are paused one after the other.              *)
(***************************************************************************)
IsEligible(t) ==
    rows[t] # None /\ Eligible(Policy,
        [state |-> rows[t].state, freshness |-> rows[t].freshness, owner |-> rows[t].owner,
         category |-> Metrics[t].category, tags |-> Metrics[t].tags,
         ratio |-> Metrics[t].ratio, minutes |-> Metrics[t].minutes])

CycleEvaluate(p) ==
    /\ pc[p] = "evaluate"
    /\ todo' = [todo EXCEPT ![p] = {t \in Targets : IsEligible(t)}]
    /\ Goto(p, "next")
    /\ UNCHANGED <<clients, durable, mode, lock, req, put, heard, history, budgets>>

Request(key, t, action, retry, max) ==
    [key |-> key, target |-> t, action |-> action, retry |-> retry, max |-> max]

CycleNext(p) ==
    /\ pc[p] = "next"
    /\ \/ /\ todo[p] = {} /\ UNCHANGED todo
          /\ req' = [req EXCEPT ![p] = NoRequest] /\ Goto(p, "idle")
       \/ \E i \in DOMAIN Order :
            LET t == Order[i] IN
            /\ t \in todo[p] /\ \A j \in 1..(i - 1) : Order[j] \notin todo[p]
            /\ req' = [req EXCEPT ![p] = Request(t, t, "pause", TRUE, mode.max)]
            /\ todo' = [todo EXCEPT ![p] = @ \ {t}]
            /\ Goto(p, "claim")
    /\ UNCHANGED <<clients, durable, mode, lock, put, heard, history, budgets>>

OperatorCalls(p) ==
    /\ pc[p] = "idle" /\ calls < CallBudget
    /\ calls' = calls + 1
    /\ \E k \in Keys, t \in Targets, a \in Actions :
         req' = [req EXCEPT ![p] = Request(k, t, a, FALSE, 1)]
    /\ Goto(p, "claim")
    /\ UNCHANGED <<clients, durable, mode, lock, put, heard, todo, history, cycles, users, faults, crashes>>

(***************************************************************************)
(* control, first write: claim_action inserts the record or reads it; only *)
(* a policy call queues a failed action again, while its attempts last.    *)
(***************************************************************************)
Canonical(a) == <<a.target, a.action, a.dry>>
MayRetry(a, r) ==
    /\ r.retry /\ a.status = "failed" /\ a.code \in Retryable
    /\ a.attempts < (IF r.max < a.max THEN r.max ELSE a.max)

Claim(p) ==
    LET r == req[p]
        a == acts[r.key]
        new == [target |-> r.target, action |-> r.action, dry |-> mode.dry, status |-> "queued",
                code |-> "queued", attempts |-> 0, max |-> r.max]
    IN
    /\ pc[p] = "claim"
    /\ \/ /\ a = None
          /\ acts' = [acts EXCEPT ![r.key] = new]
          /\ Goto(p, "wait")
       \/ /\ a # None /\ Canonical(a) # Canonical(new)
          /\ Goto(p, "idle") /\ UNCHANGED acts
       \/ /\ a # None /\ Canonical(a) = Canonical(new)
          /\ IF MayRetry(a, r)
             THEN acts' = [acts EXCEPT ![r.key].status = "queued", ![r.key].max = r.max]
             ELSE UNCHANGED acts
          /\ Goto(p, IF a.status = "queued" \/ MayRetry(a, r) THEN "wait" ELSE Home(p))
    /\ UNCHANGED <<clients, rows, mode, lock, locals, history, budgets>>

\* under the lock the record is read again: another call may have settled it
Enter(p) ==
    /\ pc[p] = "wait" /\ lock = None
    /\ IF acts[Key(p)].status = "queued"
       THEN lock' = p /\ Goto(p, "count")
       ELSE UNCHANGED lock /\ Goto(p, Home(p))
    /\ UNCHANGED <<clients, durable, mode, locals, history, budgets>>

\* increment_attempt
Count(p) ==
    /\ pc[p] = "count"
    /\ acts' = [acts EXCEPT ![Key(p)].attempts = @ + 1]
    /\ Goto(p, "look")
    /\ UNCHANGED <<clients, rows, mode, lock, locals, history, budgets>>

\* update_action is about to write a status and a code
Put(p, status, code) ==
    /\ put' = [put EXCEPT ![p] = [status |-> status, code |-> code]]
    /\ Goto(p, "save")

\* the stored observation decides, before any client is asked
Look(p) ==
    LET row == rows[Target(p)] IN
    /\ pc[p] = "look"
    /\ IF row = None \/ row.freshness # "fresh" THEN Put(p, "failed", "target_not_fresh")
       ELSE IF Desired(row.state, req[p].action)
            THEN Put(p, "already_in_state", "already_in_desired_state")
       ELSE Put(p, "running", "running")
    /\ UNCHANGED <<clients, durable, mode, lock, req, heard, todo, history, budgets>>

\* update_action: the running action goes on, any other is settled
Save(p) ==
    LET u == put[p] IN
    /\ pc[p] = "save"
    /\ acts' = [acts EXCEPT ![Key(p)].status = u.status, ![Key(p)].code = u.code]
    /\ IF u.status = "running" THEN Goto(p, "run") /\ UNCHANGED lock ELSE Leave(p)
    /\ UNCHANGED <<clients, rows, mode, locals, history, budgets>>

DryRun(p) ==
    /\ pc[p] = "run" /\ mode.dry
    /\ Put(p, "simulated", "dry_run")
    /\ UNCHANGED <<clients, durable, mode, lock, req, heard, todo, history, budgets>>
(***************************************************************************)
(* control_torrent of the adapters: the torrent is listed, the command     *)
(* sent, and the client listed again until the state is the desired one    *)
(* or the bounded polling ends.  control turns the result into a status.   *)
(***************************************************************************)
\* a mutant: the dry-run mode is not looked at
PreReadAnyMode(p) ==
    /\ pc[p] = "run" /\ torrent[Target(p)] = "seeding"
    /\ Goto(p, "command")
    /\ UNCHANGED <<clients, durable, mode, lock, locals, history, budgets>>
PreRead(p) ==
    LET state == torrent[Target(p)] IN
    /\ pc[p] = "run" /\ ~mode.dry
    /\ \/ /\ IF state = "absent" THEN Put(p, "failed", "not_found")
             ELSE IF state = "unknown" THEN Put(p, "failed", "pre_state_unknown")
             ELSE IF Desired(state, req[p].action)
                  THEN Put(p, "already_in_state", "already_in_desired_state")
             ELSE Goto(p, "command") /\ UNCHANGED put
          /\ UNCHANGED faults
       \/ /\ Fault
          /\ \/ Put(p, "failed", "pre_read_failed")
             \/ Put(p, "failed", "pre_read_incomplete")
    /\ UNCHANGED <<clients, durable, mode, lock, req, heard, todo, history, cycles, calls,
                   users, crashes>>

\* a command that fails may have been carried out
Command(p) ==
    LET accepted == late \union {<<Target(p), Goal(req[p].action)>>} IN
    /\ pc[p] = "command"
    /\ sent' = [sent EXCEPT ![Key(p)] = @ + 1]
    /\ \/ late' = accepted /\ Goto(p, "verify") /\ UNCHANGED <<put, faults>>
       \/ /\ Fault
          /\ late' \in {late, accepted}
          /\ Put(p, "uncertain", "mutation_or_post_read_failed")
    /\ UNCHANGED <<torrent, durable, mode, lock, req, heard, todo, stuck, cycles, calls,
                   users, crashes>>

Verify(p) ==
    /\ pc[p] = "verify"
    /\ \/ /\ IF Desired(torrent[Target(p)], req[p].action)
             THEN Put(p, "succeeded", "applied")
             ELSE Put(p, "reconcile_required", "post_state_unverified")
          /\ UNCHANGED faults
       \/ /\ Fault
          /\ \/ Put(p, "uncertain", "mutation_or_post_read_failed")
             \/ Put(p, "reconcile_required", "post_read_incomplete")
    /\ UNCHANGED <<clients, durable, mode, lock, req, heard, todo, history, cycles, calls,
                   users, crashes>>

(***************************************************************************)
(* A write of SQLite raises: the call ends where it was, and the lock is   *)
(* given back.                                                             *)
(***************************************************************************)
IsRunning(k) == acts[k] # None /\ acts[k].status = "running"

WriteFails(p) ==
    /\ pc[p] \in {"list", "evaluate", "claim", "count", "save"} /\ Fault
    /\ Raise(p)
    /\ lock' = IF lock = p THEN None ELSE lock
    /\ stuck' = IF pc[p] = "save" /\ IsRunning(Key(p)) THEN stuck \union {Key(p)} ELSE stuck
    /\ req' = [req EXCEPT ![p] = NoRequest] /\ put' = [put EXCEPT ![p] = NoUpdate]
    /\ heard' = [heard EXCEPT ![p] = {}]
    /\ UNCHANGED <<clients, durable, mode, sent, cycles, calls, users, crashes>>

(***************************************************************************)
(* A crash ends every call; the next start runs recover_running_actions.   *)
(***************************************************************************)
\* mutants: interrupted actions are queued again, or left as they are
RecoveredNever(a) == a
RecoveredQueued(a) ==
    IF a # None /\ a.status = "running" THEN [a EXCEPT !.status = "queued", !.code = "queued"] ELSE a
Recovered(a) ==
    IF a # None /\ a.status = "running"
    THEN [a EXCEPT !.status = "reconcile_required", !.code = "restart_recovery"] ELSE a

Crash ==
    /\ Trouble /\ crashes < CrashBudget /\ crashes' = crashes + 1
    /\ acts' = [k \in AllKeys |-> Recovered(acts[k])]
    /\ stuck' = {} /\ lock' = None
    /\ pc' = [p \in Procs |-> "idle"] /\ req' = [p \in Procs |-> NoRequest]
    /\ put' = [p \in Procs |-> NoUpdate] /\ heard' = [p \in Procs |-> {}]
    /\ todo' = [p \in Procs |-> {}]
    /\ UNCHANGED <<clients, rows, mode, sent, cycles, calls, users, faults>>

(***************************************************************************)
(* The clients and their users.                                            *)
(***************************************************************************)
Apply(e) ==
    /\ e \in late
    /\ late' = late \ {e}
    /\ torrent' = [torrent EXCEPT ![e[1]] = IF @ = "absent" THEN @ ELSE e[2]]
    /\ UNCHANGED <<durable, mode, lock, pc, locals, history, budgets>>

UserActs(t) ==
    /\ Trouble /\ users < UserBudget /\ users' = users + 1
    /\ \E s \in {"seeding", "stopped", "unknown", "absent"} \ {torrent[t]} :
         torrent' = [torrent EXCEPT ![t] = s]
    /\ UNCHANGED <<late, durable, mode, lock, pc, locals, history, cycles, calls, faults, crashes>>

Init ==
    /\ torrent \in Fleets /\ late = {}
    /\ rows = [t \in Targets |-> None] /\ acts = [k \in AllKeys |-> None]
    /\ mode \in Modes /\ lock = None
    /\ pc = [p \in Procs |-> "idle"] /\ req = [p \in Procs |-> NoRequest]
    /\ put = [p \in Procs |-> NoUpdate] /\ heard = [p \in Procs |-> {}]
    /\ todo = [p \in Procs |-> {}]
    /\ sent = [k \in AllKeys |-> 0] /\ stuck = {}
    /\ cycles = 0 /\ calls = 0 /\ users = 0 /\ faults = 0 /\ crashes = 0

Cycle(p) == CycleStart(p) \/ CycleSave(p) \/ CycleTimeout(p) \/ CycleEvaluate(p) \/ CycleNext(p)
              \/ \E c \in Clients : CycleRead(p, c)
Control(p) == Claim(p) \/ Enter(p) \/ Count(p) \/ Look(p) \/ Save(p) \/ DryRun(p)
                \/ PreRead(p) \/ Command(p) \/ Verify(p)
Environment == Crash \/ (\E e \in late : Apply(e)) \/ \E t \in Targets : UserActs(t)

Next ==
    \/ \E p \in Cycles : Cycle(p)
    \/ \E p \in Operators : OperatorCalls(p)
    \/ \E p \in Procs : Control(p) \/ WriteFails(p)
    \/ Environment

Spec == Init /\ [][Next]_vars

-----------------------------------------------------------------------------
Rows == [state : States, freshness : {"fresh", "stale"}, owner : Owners]
Codes == Retryable \union {"queued", "running", "dry_run", "already_in_desired_state", "applied",
           "mutation_or_post_read_failed", "post_read_incomplete", "post_state_unverified",
           "restart_recovery"}
Statuses == Outcomes \union {"queued", "running"}
Stages == {"idle", "list", "evaluate", "next", "claim", "wait", "count", "look", "save", "run",
           "command", "verify"}
Updates == [status : Statuses, code : Codes]
Records == [target : Targets, action : Actions, dry : BOOLEAN, status : Statuses, code : Codes,
            attempts : Nat, max : 1..5]
Requests == [key : AllKeys \union {None}, target : Targets \union {None}, action : Actions,
             retry : BOOLEAN, max : 1..5]
Listings == [client : Clients, ok : BOOLEAN, saw : SUBSET (Targets \X States)]

ASSUME NoneIsNoRecord == None \notin Rows /\ None \notin Records

\* Every variable has its type: records keep their request, and stages and
\* codes are those of the code.
TypeOK ==
    /\ torrent \in [Targets -> States \union {"absent"}]
    /\ late \subseteq Targets \X States
    /\ rows \in [Targets -> Rows \union {None}]
    /\ acts \in [AllKeys -> Records \union {None}]
    /\ mode \in Modes /\ lock \in Procs \union {None}
    /\ pc \in [Procs -> Stages]
    /\ req \in [Procs -> Requests] /\ put \in [Procs -> Updates]
    /\ heard \in [Procs -> SUBSET Listings] /\ todo \in [Procs -> SUBSET Targets]
    /\ sent \in [AllKeys -> Nat] /\ stuck \subseteq AllKeys
    /\ {cycles, calls, users, faults, crashes} \subseteq Nat

(***************************************************************************)
(* An action sends its command at most once, over repeated and concurrent  *)
(* calls, policy retries, failed writes and restarts; and once it is out   *)
(* the record never again looks as if nothing had been sent                *)
(* (RETRYABLE_BEFORE_MUTATION_CODES, recover_running_actions).             *)
(***************************************************************************)
SentOnce ==
    \A k \in AllKeys :
        /\ sent[k] <= 1
        /\ sent[k] = 1 => acts[k].status \in {"running", "succeeded", "uncertain", "reconcile_required"}

(***************************************************************************)
(* A record that says running is being run by the holder of the lock,      *)
(* unless its settlement could not be written since the last start: no     *)
(* restart leaves an action running for ever.                              *)
(***************************************************************************)
RunningIsRun ==
    \A k \in AllKeys :
        IsRunning(k) /\ k \notin stuck =>
            lock # None /\ Key(lock) = k /\ pc[lock] \in {"run", "command", "verify", "save"}

(***************************************************************************)
(* No two fresh observations claim the same managed hash, and none is      *)
(* fresh for a torrent that Arr does not know: whatever listing was saved  *)
(* last, and however partial the others were (resolve_snapshot_ownership,  *)
(* save_listing).                                                          *)
(***************************************************************************)
FreshManaged(t) == rows[t] # None /\ rows[t].freshness = "fresh" /\ rows[t].owner = "managed"
ManagedIsUnique ==
    \A t \in Targets : FreshManaged(t) =>
        t[2] \in Managed /\ \A u \in Targets : FreshManaged(u) /\ u[2] = t[2] => u = t

(***************************************************************************)
(* A policy action commands only a torrent Arr knows and the policy's      *)
(* scope admits, never in dry-run mode; and only an operator's action may  *)
(* resume one (evaluate_and_apply_policy).                                 *)
(***************************************************************************)
PolicyStaysInScope ==
    \A t \in Targets : sent[t] > 0 =>
        ~mode.dry /\ t[2] \in Managed /\ OutOfScope(Policy, Metrics[t]) = None /\ acts[t].action = "pause"

=============================================================================
