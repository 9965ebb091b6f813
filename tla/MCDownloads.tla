---------------------------- MODULE MCDownloads ----------------------------
(* Two clients that share a hash, a policy cycle, a refresh request and an operator. *)
EXTENDS Downloads, TLC

CONSTANTS c1, c2, h1, h2, k1, k2, l1, l2, o1, films

TorrentOrder == <<<<c1, h1>>, <<c2, h1>>>>
Reported == [t \in {<<c1, h1>>, <<c2, h1>>} |->
               [category |-> None, tags |-> {films}, ratio |-> 2, minutes |-> None]]
Single == [t \in {<<c1, h1>>, <<c2, h1>>} |-> IF t[1] = c1 THEN "seeding" ELSE "absent"]
OneClient == {Single}
DryOrLive == {[dry |-> d, max |-> n] : d \in BOOLEAN, n \in 1..2} \ {[dry |-> TRUE, max |-> 2]}
StopPolicy == [enabled |-> TRUE, mode |-> "all", minRatio |-> 1, minMinutes |-> None,
               inCategories |-> {}, exCategories |-> {}, inTags |-> {films}, exTags |-> {}]
=============================================================================
