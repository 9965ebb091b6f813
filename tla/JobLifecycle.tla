---------------------------- MODULE JobLifecycle ----------------------------
(***************************************************************************)
(* What the service of background deletions promises of each job, without  *)
(* its queue, its memory, its threads or its process: a job is accepted    *)
(* once; it enters its mutations only while nothing is known or suspected  *)
(* to be deleted by an earlier run; it returns to the accepted state only  *)
(* when its run deleted nothing; it finishes once and is then at most      *)
(* removed from the history, for ever. Once a write of the store was lost, *)
(* a job whose outcome did not reach the store may be removed as well.     *)
(***************************************************************************)
CONSTANT Jobs

VARIABLES
  stage,  \* durable stage of each job
  spent,  \* jobs with a deletion made, or with an unknown outcome
  lossy   \* a write of the store has failed

Stages == {"none", "accepted", "mutating", "finished", "removed"}

\* The store may hold a history of finished jobs.
Init == stage \in [Jobs -> {"none", "finished"}] /\ spent = {} /\ lossy = FALSE

Move(j, from, to) ==
  stage[j] \in from /\ stage' = [stage EXCEPT ![j] = to] /\ UNCHANGED lossy

Accept(j) == Move(j, {"none"}, "accepted") /\ UNCHANGED spent
Begin(j) == j \notin spent /\ Move(j, {"accepted"}, "mutating") /\ UNCHANGED spent
Spend(j) == stage[j] = "mutating" /\ spent' = spent \cup {j} /\ UNCHANGED <<stage, lossy>>
GoBack(j) == j \notin spent /\ Move(j, {"mutating"}, "accepted") /\ UNCHANGED spent
Finish(j) == Move(j, {"accepted", "mutating"}, "finished") /\ UNCHANGED spent
Remove(j) ==
  /\ Move(j, {"finished"} \cup (IF lossy THEN {"accepted", "mutating"} ELSE {}), "removed")
  /\ UNCHANGED spent
LoseWrite == lossy' = TRUE /\ UNCHANGED <<stage, spent>>

Next ==
  \/ LoseWrite
  \/ \E j \in Jobs : Accept(j) \/ Begin(j) \/ Spend(j) \/ GoBack(j) \/ Finish(j) \/ Remove(j)

Spec == Init /\ [][Next]_<<stage, spent, lossy>>

=============================================================================
