--------------------------- MODULE MCDeletionJobs ---------------------------
(* Small instances of DeletionJobs for TLC.                                *)
EXTENDS DeletionJobsLifecycle, TLC

CONSTANTS r1, r2, r3, k1, k2, b1, b2

\* Every job has its own key; r3 is the call of r2, repeated.
OwnKeys == (r1 :> k1) @@ (r2 :> k2) @@ (r3 :> k2)
OwnBodies == (r1 :> b1) @@ (r2 :> b2) @@ (r3 :> b2)

\* A client repeats a submission with its key.
RepeatedKeys == (r1 :> k1) @@ (r2 :> k1)
RepeatedBodies == (r1 :> b1) @@ (r2 :> b1)

-----------------------------------------------------------------------------
(* Two beginnings, both of them states that Spec reaches.  As in Init, but *)
(* that r3 was answered: its plan had changed.  Or r2 has completed, with  *)
(* nothing to delete, when r1, which prunes it, and r3 are submitted.      *)

Begin(past) ==
  /\ sys = (IF past = {} THEN "down" ELSE "ready")
  /\ wkPc = (IF past = {} THEN "dead" ELSE "idle")
  /\ db = [j \in Requests |-> IF j \in past THEN [phase |-> "completed", attempts |-> 1] ELSE None]
  /\ mem = db
  /\ ledger = [k \in Keys |-> IF past # {} /\ k = k2 THEN r2 ELSE None]
  /\ queue = <<>> /\ scheduled = {} /\ delayed = {} /\ unsettled = {} /\ backoff = {}
  /\ lock = "free"
  /\ wkJob = None /\ wkRec = None /\ wkShared = FALSE /\ wkDeleted = FALSE /\ wkResult = None
  /\ pending = <<>> /\ broken = FALSE
  /\ req = [r \in Requests |-> IF r = (IF past = {} THEN r3 ELSE r2) THEN "done" ELSE "new"]
  /\ reply = [r \in Requests |-> CASE r \in past -> r
                                   [] past = {} /\ r = r3 -> "rejected"
                                   [] OTHER -> None]
  /\ loaded = [r \in Requests |-> None] /\ doomed = loaded
  /\ victims = [r \in Requests |-> {}]
  /\ dis = "idle" /\ disJob = None
  /\ crashes = 0 /\ faults = 0
  /\ runs = [j \in Requests |-> IF j \in past THEN 1 ELSE 0] /\ applied = {}

JobsSpec == (Begin({}) \/ Begin({r2})) /\ [][Next]_vars
=============================================================================
