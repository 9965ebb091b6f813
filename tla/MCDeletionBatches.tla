------------------------- MODULE MCDeletionBatches -------------------------
(* Small instances of DeletionBatches for TLC.                             *)
EXTENDS DeletionBatches, TLC

CONSTANTS r1, r2, r3, r4, k1, k2, k4, b1, b2

\* Every batch has its own key; r3 is the call of r2, repeated.
OwnKeys == (r1 :> k1) @@ (r2 :> k2) @@ (r3 :> k2) @@ (r4 :> k4)
OwnBodies == (r1 :> b1) @@ (r2 :> b2) @@ (r3 :> b2) @@ (r4 :> b1)

-----------------------------------------------------------------------------
(* Beginnings, each of them a state that Spec reaches: rows and objects of *)
(* some calls (rec), where the calls are, and what the worker still prunes. *)

Begin(rec, known, points, replies, old, spent) ==
  /\ db = rec /\ obj = rec /\ mem = [b \in Requests |-> IF b \in known THEN b ELSE None]
  /\ ledger = [k \in Keys |->
       CASE \E b \in Requests : rec[b] # None /\ KeyOf[b] = k ->
              CHOOSE b \in Requests : rec[b] # None /\ KeyOf[b] = k
         [] \E b \in Requests : KeyOf[b] = k /\ replies[b] = "conflict" -> "single"
         [] OTHER -> None]
  /\ born = [b \in Requests |->
       CASE rec[b] = None -> 0
         [] rec[b] # None /\ b \in old -> 1
         [] OTHER -> 1 + Cardinality(old)]
  /\ queue = <<>> /\ scheduled = {} /\ lock = "free"
  /\ pc = [a \in Actors |-> CASE a = "worker" -> IF old = {} THEN "idle" ELSE "prune"
                              [] a = "boot" -> "ready"
                              [] OTHER -> points[a]]
  /\ on = [a \in {"worker", "boot"} |-> IF a = "worker" /\ old # {} THEN r1 ELSE None] /\ kid = 1
  /\ todo = [a \in Actors |-> IF a = "worker" THEN old ELSE {}] /\ rest = {}
  /\ reply = replies
  /\ crashes = spent /\ faults = spent
  /\ ran = [b \in Requests |-> [c \in Children |->
              IF rec[b] # None /\ rec[b].kids[c] = "completed" THEN 1 ELSE 0]]

AllKids(status, kids) == [status |-> status, kids |-> [c \in Children |-> kids]]

\* The batch of r2, refused child by child, is durable and not yet visible
\* when r3 repeats the call.
RepeatedCall ==
  LET rec == [b \in Requests |-> IF b = r2 THEN AllKids("queued", "blocked") ELSE None]
  IN  Begin(rec, {}, (r1 :> "done") @@ (r2 :> "insert") @@ (r3 :> "new") @@ (r4 :> "done"),
            (r1 :> "conflict") @@ (r2 :> None) @@ (r3 :> None) @@ (r4 :> "conflict"), {}, 0)

\* After a crash and a call that failed (the one of r3), r2 and then r1 have
\* completed; the worker has saved r1 and not yet pruned r2 when r4 is submitted.
LongHistory ==
  LET rec == [b \in Requests |-> IF b \in {r1, r2} THEN AllKids("completed", "completed") ELSE None]
  IN  Begin(rec, {r1, r2}, (r1 :> "done") @@ (r2 :> "done") @@ (r3 :> "done") @@ (r4 :> "new"),
            (r1 :> r1) @@ (r2 :> r2) @@ (r3 :> "error") @@ (r4 :> None), {r2}, 1)

\* As in Init, but that r3 and r4 were answered already: a job owns the key of r4.
TwoCalls ==
  /\ db = [b \in Requests |-> None] /\ ledger = [k \in Keys |-> IF k = k4 THEN "single" ELSE None]
  /\ born = [b \in Requests |-> 0]
  /\ obj = db /\ mem = db
  /\ queue = <<>> /\ scheduled = {} /\ lock = "free"
  /\ pc = [a \in Actors |-> CASE a = "worker" -> "dead" [] a = "boot" -> "down"
                              [] a \in {r3, r4} -> "done" [] OTHER -> "new"]
  /\ on = [a \in {"worker", "boot"} |-> None] /\ kid = 1
  /\ todo = [a \in Actors |-> {}] /\ rest = {}
  /\ reply = [r \in Requests |-> CASE r = r3 -> "rejected" [] r = r4 -> "conflict" [] OTHER -> None]
  /\ crashes = 0 /\ faults = 0
  /\ ran = [b \in Requests |-> [c \in Children |-> 0]]

BatchesSpec == (TwoCalls \/ RepeatedCall \/ LongHistory) /\ [][Next]_vars /\ Fairness
=============================================================================
