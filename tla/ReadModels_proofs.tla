-------------------------- MODULE ReadModels_proofs --------------------------
(***************************************************************************)
(* What an operator reads before deleting: the cleanup candidates of       *)
(* CleanupCandidates and the storage overview of Storage, each for any     *)
(* number of items, users, torrents, profiles, roots, callers, changes of  *)
(* the world and failed reads.  The two share no state: a behaviour of     *)
(* their composition is a behaviour of each.                               *)
(***************************************************************************)
EXTENDS MCReadModels, Sequences, FiniteSetTheorems, TLAPS

USE DEF world, reads

-----------------------------------------------------------------------------
(* The candidates.  What a request has read of the playback covers the     *)
(* plays that were there when it began:                                    *)
(*   Stages    where the request is, and that nobody is known or heard     *)
(*             before the users were read;                                 *)
(*   Scoped    whoever had an account at the beginning and has it still is *)
(*             in scope, once there is one (a new account is another one); *)
(*   Kept      a play is never taken back;                                 *)
(*   Answered  an answer that was heard shows each such play or a gap;     *)
(*   Asked     beyond the playback stage everybody in scope was heard.     *)

Reading == {"playback", "arr", "history", "done"}

Stages ==
    /\ pc \in {"idle", "items", "users"} \union Reading
    /\ pc \in {"idle", "items", "users"} => scope = {} /\ \A u \in Users : heard[u] = None
    /\ pc # "done" => advice = <<>>
    /\ accounts \subseteq Users /\ scope \subseteq Users
    /\ DOMAIN heard = Users
    /\ IsFiniteSet(DOMAIN rows)

Scoped == scope # {} => accounts \cap before.accounts \subseteq scope

Kept == before.played \subseteq played

Answered ==
    \A u \in scope : heard[u] # None =>
       \A i \in items : <<u, i>> \in before.played =>
          heard[u][i] \in {"played", "missing", "contradictory"}

Asked == pc \in Reading \ {"playback"} => \A u \in scope : heard[u] # None

EvidenceInv == Stages /\ Scoped /\ Kept /\ Answered /\ Asked /\ NeverWatchedIsProven

\* the verdict of reduce_playback, once everybody was heard
LEMMA ReduceProves ==
  ASSUME EvidenceInv, \A u \in scope : heard[u] # None,
         NEW i \in items, Playback(i) = "never_watched",
         NEW u \in accounts \cap before.accounts
  PROVE  <<u, i>> \notin before.played
<1>1. scope # {} /\ {heard[v][i] : v \in scope} \cap {"played", "missing", "contradictory"} = {}
  BY DEF Playback, Reduce
<1>2. u \in scope
  BY <1>1 DEF EvidenceInv, Scoped
<1> QED
  BY <1>1, <1>2 DEF EvidenceInv, Answered

LEMMA EvidenceBegins == Init => EvidenceInv
<1> SUFFICES ASSUME Init PROVE EvidenceInv
  OBVIOUS
<1>1. IsFiniteSet(DOMAIN rows)
  BY CandidatesAssumption, FS_Product DEF Init
<1> QED
  BY <1>1, CandidatesAssumption
  DEF Init, EvidenceInv, Stages, Scoped, Kept, Answered, Asked, Reading, NeverWatchedIsProven

LEMMA EvidenceKept == EvidenceInv /\ [Next]_vars => EvidenceInv'
<1> SUFFICES ASSUME EvidenceInv, [Next]_vars PROVE EvidenceInv'
  OBVIOUS
<1> USE DEF EvidenceInv, Stages, Scoped, Kept, Answered, Asked, Reading, NeverWatchedIsProven
<1>1. CASE BeginList
  BY <1>1 DEF BeginList
<1>2. ASSUME NEW i \in Items, NEW x \in Titles, BeginDetail(i, x) PROVE EvidenceInv'
  BY <1>2 DEF BeginDetail
<1>3. CASE ReadItems
  BY <1>3 DEF ReadItems
<1>4. CASE ReadUsers
  BY <1>4 DEF ReadUsers, After
<1>5. ASSUME NEW u \in Users, ReadPlayback(u) PROVE EvidenceInv'
  BY <1>5 DEF ReadPlayback, Truth, After
<1>6. CASE PlaybackRead
  BY <1>6 DEF PlaybackRead, After
<1>7. ASSUME NEW k \in Configured, ReadCatalog(k) PROVE EvidenceInv'
  BY <1>7 DEF ReadCatalog
<1>8. CASE MapTitles
  BY <1>8 DEF MapTitles
<1>9. ASSUME NEW i \in Items, ReadHistory(i) PROVE EvidenceInv'
  BY <1>9 DEF ReadHistory
<1>10. CASE HistoriesTimeOut
  BY <1>10 DEF HistoriesTimeOut
<1>11. CASE Finish
  <2>1. \A i \in items : Playback(i) = "never_watched" =>
           \A u \in accounts \cap before.accounts : <<u, i>> \notin before.played
    BY <1>11, ReduceProves DEF Finish
  <2>2. DOMAIN advice' = items /\ \A i \in items : advice'[i].playback = Playback(i)
    BY <1>11 DEF Finish
  <2>3. NeverWatchedIsProven'
    BY <1>11, <2>1, <2>2 DEF Finish
  <2> QED
    BY <1>11, <2>3 DEF Finish
<1>12. CASE UserActs
  BY <1>12 DEF UserActs, Elsewhere
<1>13. CASE ArrActs
  BY <1>13 DEF ArrActs, Elsewhere
<1>14. CASE RowChanges
  BY <1>14 DEF RowChanges, Elsewhere
<1>15. CASE UNCHANGED vars
  BY <1>15 DEF vars
<1> QED
  BY <1>1, <1>2, <1>3, <1>4, <1>5, <1>6, <1>7, <1>8, <1>9, <1>10, <1>11, <1>12, <1>13, <1>14, <1>15
  DEF Next

(* "never_watched" is said of an item only if nobody who had an account    *)
(* when the request began, and has it still, had played the item by then:  *)
(* reduce_playback over users who come and go, more of them than the cap,  *)
(* and answers that are incomplete, contradictory or fail.                 *)
THEOREM NeverWatched == Spec => []NeverWatchedIsProven
<1>1. EvidenceInv => NeverWatchedIsProven
  BY DEF EvidenceInv
<1> QED
  BY <1>1, EvidenceBegins, EvidenceKept, PTL DEF Spec

-----------------------------------------------------------------------------
(* The readiness of a title.  Only a policy that is past its thresholds    *)
(* for every torrent makes Decision say "eligible".                        *)

LEMMA DecisionProves ==
  ASSUME NEW torrents, Decision(torrents) = "eligible"
  PROVE  torrents # {} /\ \A s \in torrents : Eligible(Policy, s)
<1>1. {Evaluate(Policy, s) : s \in torrents} = {"thresholds_met"}
  BY DEF Decision
<1> QED
  BY <1>1 DEF Eligible

LEMMA ReadinessProves ==
  ASSUME IsFiniteSet(DOMAIN rows), NEW hashes, Readiness(hashes) = "eligible"
  PROVE  /\ hashes # {}
         /\ \A h \in hashes : \E t \in DOMAIN rows :
               /\ t[2] = h /\ rows[t] # None /\ Eligible(Policy, rows[t])
               /\ \A other \in DOMAIN rows \ {t} : other[2] = h => rows[other] = None
<1>1. /\ hashes # {} /\ \A h \in hashes : Cardinality(Stored(h)) = 1
      /\ Decision(RowsOf(hashes)) = "eligible"
  BY DEF Readiness
<1>2. ASSUME NEW h \in hashes
      PROVE  \E t \in DOMAIN rows :
               /\ t[2] = h /\ rows[t] # None /\ Eligible(Policy, rows[t])
               /\ \A other \in DOMAIN rows \ {t} : other[2] = h => rows[other] = None
  <2>1. Stored(h) \subseteq DOMAIN rows
    BY DEF Stored
  <2>2. IsFiniteSet(Stored(h))
    BY <2>1, FS_Subset
  <2>3. PICK t : Stored(h) = {t}
    BY <1>1, <2>2, FS_Singleton
  <2>4. t \in DOMAIN rows /\ t[2] = h /\ rows[t] # None
    BY <2>3 DEF Stored
  <2>5. rows[t] \in RowsOf(hashes)
    BY <2>3 DEF RowsOf
  <2>6. Eligible(Policy, rows[t])
    BY <1>1, <2>5, DecisionProves
  <2>7. \A other \in DOMAIN rows \ {t} : other[2] = h => rows[other] = None
    BY <2>3 DEF Stored
  <2> QED
    BY <2>4, <2>6, <2>7
<1> QED
  BY <1>1, <1>2

(* "eligible" is said of an item only if its one Arr title grabbed         *)
(* something and each torrent it grabbed is stored for exactly one client, *)
(* fresh, managed and past the thresholds: _seeding_summary, for whatever  *)
(* histories and observations the request met.                             *)
THEOREM EligibleProven == Spec => EligibleIsProven
<1>1. ASSUME EvidenceInv, Finish
      PROVE  \A i \in items : advice'[i].readiness = "eligible" =>
                /\ target[i] # None /\ history[i] # {}
                /\ \A h \in history[i] : \E t \in DOMAIN rows :
                      /\ t[2] = h /\ rows[t] # None /\ Eligible(Policy, rows[t])
                      /\ \A other \in DOMAIN rows \ {t} : other[2] = h => rows[other] = None
  <2> SUFFICES ASSUME NEW i \in items, advice'[i].readiness = "eligible"
               PROVE  /\ target[i] # None /\ history[i] # {}
                      /\ \A h \in history[i] : \E t \in DOMAIN rows :
                            /\ t[2] = h /\ rows[t] # None /\ Eligible(Policy, rows[t])
                            /\ \A other \in DOMAIN rows \ {t} : other[2] = h => rows[other] = None
    OBVIOUS
  <2>1. target[i] # None /\ Readiness(history[i]) = "eligible"
    BY <1>1 DEF Finish
  <2>2. IsFiniteSet(DOMAIN rows)
    BY <1>1 DEF EvidenceInv, Stages
  <2> QED
    BY <2>1, <2>2, ReadinessProves
<1> QED
  BY <1>1, EvidenceBegins, EvidenceKept, PTL DEF Spec, EligibleIsProven

-----------------------------------------------------------------------------
(* The overview.  A snapshot is sound for the proofs of the roots, given   *)
(* as their ages:                                                          *)
(*   Whole     its volumes are observations of its own topology;           *)
(*   Complete  unless it is partial it has every root that was enabled, or *)
(*             was read from an Arr that lists no such root;               *)
(*   Backed    what it calls healthy was proved within the volume's age.   *)

USE DEF Overview!world, Overview!service, Overview!budgets

Whole(s) ==
    /\ s \in Overview!Snapshots
    /\ \A r \in Roots : s.vols[r] # None => s.vols[r].of = s.conf

Complete(s, ages) ==
    ~s.partial =>
       \A r, x \in Roots : Owner[r] \in s.conf.enabled /\ s.vols[r] = None /\ s.vols[x] # None =>
          ages[r] <= s.vols[x].age

Backed(s, ages) ==
    \A r \in Roots : s.vols[r] # None /\ s.vols[r].status = "healthy" => ages[r] <= s.vols[r].age

Sound(s, ages) == Whole(s) /\ Complete(s, ages) /\ Backed(s, ages)

(***************************************************************************)
(* Bounds      the configuration, the disks and the clocks;                *)
(* Underway    a collection that reads has a configuration, an earlier     *)
(*             snapshot of the same topology at most, and answers whose    *)
(*             healthy and unlisted roots were proved since it began;      *)
(* Waiting     a caller that waits may be told of the configuration there  *)
(*             is and of the one that its collection began with;           *)
(* Told        a caller that has an answer has a sound snapshot of one of  *)
(*             those configurations.                                       *)
(***************************************************************************)
Bounds ==
    /\ config \in Configs /\ disk \in [Mounts -> Overview!Readings] /\ folders \in [Roots -> Overview!Folder]
    /\ current \in Overview!Tasks \union {None} /\ forced \in BOOLEAN
    /\ cached \in 0..Cache /\ since \in 0..Throttle
    /\ proof \in [Roots -> Overview!Ages]

Shaped(c) == c = [at |-> c.at, conf |-> c.conf, age |-> c.age, prev |-> c.prev, heard |-> c.heard]

\* the profile of a root was read and lists no such root
Unlisted(r, c) == c.heard[Owner[r]].folders[r] = "unlisted"

Underway(c, ages) ==
    /\ c.conf \in Configs /\ DOMAIN c.heard = c.conf.enabled
    /\ c.prev # None => Sound(c.prev, ages) /\ c.prev.conf = c.conf
    /\ \A r \in Roots :
          /\ Owner[r] \in c.conf.enabled /\ c.heard[Owner[r]] \notin {None, Error}
          /\ Unlisted(r, c) \/ Overview!Volume(r, c).status = "healthy"
          => ages[r] <= c.age

Collections ==
    /\ DOMAIN task = Overview!Tasks
    /\ \A t \in Overview!Tasks :
          /\ Shaped(task[t]) /\ task[t].at \in {"new", "read", "done"} /\ task[t].age \in Overview!Ages
          /\ task[t].at = "read" => Underway(task[t], proof)

Calling(c) ==
    /\ call[c] = [at |-> call[c].at, task |-> call[c].task, snap |-> call[c].snap, confs |-> call[c].confs]
    /\ call[c].at \in {"idle", "wait", "have"}

Waiting(c) ==
    call[c].at = "wait" =>
       /\ config \in call[c].confs
       /\ \A t \in Overview!Tasks :
             call[c].task = t /\ task[t].at = "read" => task[t].conf \in call[c].confs

Told(c) ==
    call[c].at = "have" => Sound(call[c].snap, proof) /\ call[c].snap.conf \in call[c].confs

Calls == DOMAIN call = Callers /\ \A c \in Callers : Calling(c) /\ Waiting(c) /\ Told(c)

OverviewInv == Bounds /\ Collections /\ (snap # None => Sound(snap, proof)) /\ Calls

-----------------------------------------------------------------------------
(* Observations.                                                           *)

LEMMA VolumeType ==
  ASSUME NEW r \in Roots, NEW c, c.conf \in Configs, c.age \in Overview!Ages
  PROVE  /\ Overview!Volume(r, c) \in Overview!Observations
         /\ Overview!Volume(r, c) # None
         /\ Overview!Volume(r, c).of = c.conf /\ Overview!Volume(r, c).age = c.age
<1>1. Overview!Volume(r, c) \in Overview!Observations
  BY DEF Overview!Volume, Overview!Status, Overview!Observations
<1>2. Overview!Volume(r, c).of = c.conf /\ Overview!Volume(r, c).age = c.age
  BY DEF Overview!Volume
<1> QED
  BY <1>1, <1>2, OverviewAssumption DEF Overview!StorageAssumption

\* the status depends on the answers and the thresholds alone
LEMMA VolumeStatus ==
  ASSUME NEW r, NEW b, NEW c, b.conf = c.conf, b.heard[Owner[r]] = c.heard[Owner[r]]
  PROVE  Overview!Volume(r, b).status = Overview!Volume(r, c).status
BY DEF Overview!Volume

\* a root that is not listed, and a healthy reading, are what the proof of a root asks for
LEMMA ReadingProves ==
  ASSUME Bounds, NEW r \in Roots, NEW c, c.conf \in Configs,
         c.heard[Owner[r]] = [folders |-> Overview!Folders(Owner[r]),
                              spaces |-> Overview!Listed(Owner[r])],
         Unlisted(r, c) \/ Overview!Volume(r, c).status = "healthy"
  PROVE  Overview!Enough(r, c.conf)
<1> DEFINE spaces == Overview!Listed(Owner[r])
           deepest == {i \in DOMAIN Under[r] : /\ spaces[Under[r][i]] # Overview!Gone
                                               /\ \A j \in 1..(i - 1) : spaces[Under[r][j]] = Overview!Gone}
<1>0. c.heard[Owner[r]].folders[r] = folders[r]
  BY DEF Overview!Folders
<1> SUFFICES ASSUME folders[r] # "unlisted" PROVE Overview!Enough(r, c.conf)
  BY DEF Overview!Enough
<1>1. /\ folders[r] = "open" /\ Overview!Best(r, spaces) \in Overview!Levels
      /\ Overview!Best(r, spaces) >= c.conf.warning
  <2>1. folders[r] \in {"open", "closed"}
    BY DEF Bounds, Overview!Folder
  <2>2. Overview!Volume(r, c).status = "healthy"
    BY <1>0 DEF Unlisted
  <2> QED
    BY <1>0, <2>1, <2>2 DEF Overview!Volume, Overview!Status, Overview!Levels, Overview!Gone
<1>2. Under[r] \in Seq(Mounts)
  BY OverviewAssumption DEF Overview!StorageAssumption
<1>3. \A i \in DOMAIN Under[r] : spaces[Under[r][i]] = disk[Under[r][i]]
  BY <1>2 DEF Overview!Listed, Overview!ToSet
<1>4. PICK i \in deepest : Overview!Best(r, spaces) = spaces[Under[r][i]]
  <2>1. Overview!Best(r, spaces) =
           IF deepest = {} THEN Overview!Gone ELSE spaces[Under[r][CHOOSE i \in deepest : TRUE]]
    BY DEF Overview!Best
  <2> HIDE DEF deepest, spaces
  <2>2. deepest # {}
    BY <1>1, <2>1 DEF Overview!Levels, Overview!Gone
  <2>3. (CHOOSE i \in deepest : TRUE) \in deepest
    BY <2>2
  <2> QED
    BY <2>1, <2>2, <2>3
<1>5. c.conf.warning \in Nat
  BY OverviewAssumption DEF Overview!StorageAssumption
<1>6. disk[Under[r][i]] \in c.conf.warning..2
  BY <1>1, <1>3, <1>4, <1>5 DEF Overview!Levels
<1>7. \A j \in DOMAIN Under[r] : disk[Under[r][j]] # Overview!Gone => i <= j
  <2> SUFFICES ASSUME NEW j \in DOMAIN Under[r], disk[Under[r][j]] # Overview!Gone, j < i
               PROVE  FALSE
    BY <1>2, <1>4
  <2>1. j \in 1..(i - 1)
    BY <1>2, <1>4
  <2> QED
    BY <1>3, <1>4, <2>1
<1> QED
  BY <1>1, <1>3, <1>4, <1>6, <1>7 DEF Overview!Enough

(* A headline that says healthy is that of a whole snapshot whose volumes  *)
(* are all healthy and fresh.                                              *)
LEMMA HeadlineProves ==
  ASSUME NEW s, NEW ages \in [Roots -> Overview!Ages], Sound(s, ages), Overview!Headline(s) = "healthy",
         NEW r \in Roots, Owner[r] \in s.conf.enabled
  PROVE  ages[r] <= Fresh
<1> DEFINE seen == {Overview!Rendered(s.vols[x]) : x \in {y \in Roots : s.vols[y] # None}}
<1>1. ~s.partial /\ seen \cap {"critical", "unknown", "warning"} = {} /\ "healthy" \in seen
  BY DEF Overview!Headline
<1>2. \A x \in Roots : s.vols[x] # None => s.vols[x] \in Overview!Observations
  BY DEF Sound, Whole, Overview!Snapshots
<1>3. \A x \in Roots : s.vols[x] # None => Overview!Rendered(s.vols[x]) \notin {"critical", "unknown", "warning"}
  BY <1>1
<1>4. \A x \in Roots : s.vols[x] # None => s.vols[x].status = "healthy" /\ s.vols[x].age <= Fresh
  BY <1>2, <1>3 DEF Overview!Rendered, Overview!IsFresh, Overview!Observations
<1>5. PICK x \in Roots : s.vols[x] # None /\ ages[r] <= s.vols[x].age
  <2>1. CASE s.vols[r] # None
    BY <1>4, <2>1 DEF Sound, Backed
  <2>2. CASE s.vols[r] = None
    <3>1. PICK x \in Roots : s.vols[x] # None
      BY <1>1
    <3> QED
      BY <1>1, <2>2, <3>1 DEF Sound, Complete
  <2> QED
    BY <2>1, <2>2
<1>6. Fresh \in Nat /\ ages[r] \in Nat /\ s.vols[x].age \in Nat
  BY <1>2, <1>5, OverviewAssumption DEF Overview!StorageAssumption, Overview!Observations, Overview!Ages
<1> QED
  BY <1>4, <1>5, <1>6

-----------------------------------------------------------------------------
(* What happens to a snapshot: a root is proved again, time passes, or a   *)
(* collection makes a new one.                                             *)

Ages(ages) == ages \in [Roots -> Overview!Ages]
Younger(a, b) == \A r \in Roots : a[r] <= b[r]

LEMMA AgesAreNumbers ==
  /\ Fresh \in Nat /\ Cache \in Nat /\ Throttle \in Nat
  /\ Overview!Ages \subseteq Nat
BY OverviewAssumption DEF Overview!StorageAssumption, Overview!Ages

LEMMA SoundYounger ==
  ASSUME NEW s, NEW a, NEW b, Ages(a), Ages(b), Younger(a, b), Sound(s, b)
  PROVE  Sound(s, a)
<1>1. ASSUME NEW r \in Roots, NEW x \in Roots, s.vols[x] # None, b[r] <= s.vols[x].age
      PROVE  a[r] <= s.vols[x].age
  <2>1. s.vols[x].age \in Overview!Ages
    BY <1>1 DEF Sound, Whole, Overview!Snapshots, Overview!Observations
  <2>2. a[r] \in Overview!Ages /\ b[r] \in Overview!Ages /\ a[r] <= b[r]
    BY DEF Ages, Younger
  <2>3. a[r] \in Nat /\ b[r] \in Nat /\ s.vols[x].age \in Nat
    BY <2>1, <2>2, AgesAreNumbers
  <2> QED
    BY <1>1, <2>2, <2>3
<1> QED
  BY <1>1 DEF Sound, Complete, Backed

LEMMA OlderAge ==
  ASSUME NEW a \in Overview!Ages
  PROVE  /\ Overview!Older(a, Fresh + 1) \in Overview!Ages
         /\ \A b \in Overview!Ages : a <= b => Overview!Older(a, Fresh + 1) <= Overview!Older(b, Fresh + 1)
BY AgesAreNumbers DEF Overview!Older, Overview!Ages

LEMMA OlderVolumeIs ==
  ASSUME NEW v \in Overview!Observations
  PROVE  /\ Overview!OlderVolume(v) \in Overview!Observations /\ Overview!OlderVolume(v) # None
         /\ Overview!OlderVolume(v).of = v.of /\ Overview!OlderVolume(v).status = v.status
         /\ Overview!OlderVolume(v).age = Overview!Older(v.age, Fresh + 1)
<1>1. v # None
  BY OverviewAssumption DEF Overview!StorageAssumption
<1>2. Overview!OlderVolume(v) = [v EXCEPT !.age = Overview!Older(v.age, Fresh + 1)]
  BY <1>1 DEF Overview!OlderVolume
<1>3. Overview!Older(v.age, Fresh + 1) \in Overview!Ages
  BY OlderAge DEF Overview!Observations
<1>4. Overview!OlderVolume(v) \in Overview!Observations
  BY <1>2, <1>3 DEF Overview!Observations
<1> QED
  BY <1>2, <1>4, OverviewAssumption DEF Overview!StorageAssumption, Overview!Observations

LEMMA SoundOlder ==
  ASSUME NEW s, NEW a, NEW b, Ages(a), Sound(s, a), s # None,
         b = [r \in Roots |-> Overview!Older(a[r], Fresh + 1)]
  PROVE  Sound(Overview!OlderSnap(s), b) /\ Overview!OlderSnap(s).conf = s.conf
<1> DEFINE o == Overview!OlderSnap(s)
<1>1. o = [s EXCEPT !.vols = [r \in Roots |-> Overview!OlderVolume(s.vols[r])]]
  BY DEF Overview!OlderSnap
<1>2. /\ o.conf = s.conf /\ o.partial = s.partial
      /\ o.vols = [r \in Roots |-> Overview!OlderVolume(s.vols[r])]
  BY <1>1 DEF Sound, Whole, Overview!Snapshots
<1>3. \A r \in Roots : IF s.vols[r] = None THEN o.vols[r] = None
                       ELSE /\ s.vols[r] \in Overview!Observations
                            /\ o.vols[r] = Overview!OlderVolume(s.vols[r])
  BY <1>2 DEF Sound, Whole, Overview!Snapshots, Overview!OlderVolume
<1>4. \A r \in Roots : o.vols[r] \in Overview!Observations \union {None}
  BY <1>3, OlderVolumeIs
<1>5. o.vols \in [Roots -> Overview!Observations \union {None}]
  BY <1>2, <1>4
<1>6. o \in Overview!Snapshots
  BY <1>1, <1>2, <1>5 DEF Sound, Whole, Overview!Snapshots
<1>7. Whole(o)
  BY <1>2, <1>3, <1>6, OlderVolumeIs DEF Sound, Whole
<1>8. ASSUME NEW r \in Roots, NEW x \in Roots, o.vols[x] # None, a[r] <= s.vols[x].age
      PROVE  b[r] <= o.vols[x].age
  <2>1. s.vols[x] \in Overview!Observations /\ s.vols[x] # None /\ o.vols[x] = Overview!OlderVolume(s.vols[x])
    BY <1>3, <1>8
  <2>2. o.vols[x].age = Overview!Older(s.vols[x].age, Fresh + 1)
    BY <2>1, OlderVolumeIs
  <2>3. a[r] \in Overview!Ages /\ s.vols[x].age \in Overview!Ages
    BY <2>1 DEF Ages, Overview!Observations
  <2> QED
    BY <1>8, <2>2, <2>3, OlderAge
<1>9. Complete(o, b)
  <2> SUFFICES ASSUME ~o.partial, NEW r \in Roots, NEW x \in Roots, Owner[r] \in o.conf.enabled,
                      o.vols[r] = None, o.vols[x] # None
               PROVE  b[r] <= o.vols[x].age
    BY DEF Complete
  <2>1. s.vols[r] = None /\ s.vols[x] # None
    BY <1>3, OlderVolumeIs
  <2>2. a[r] <= s.vols[x].age
    BY <1>2, <2>1 DEF Sound, Complete
  <2> QED
    BY <1>8, <2>2
<1>10. Backed(o, b)
  <2> SUFFICES ASSUME NEW r \in Roots, o.vols[r] # None, o.vols[r].status = "healthy"
               PROVE  b[r] <= o.vols[r].age
    BY DEF Backed
  <2>1. s.vols[r] # None /\ s.vols[r].status = "healthy"
    BY <1>3, OlderVolumeIs
  <2>2. a[r] <= s.vols[r].age
    BY <2>1 DEF Sound, Backed
  <2> QED
    BY <1>8, <2>2
<1> QED
  BY <1>2, <1>7, <1>9, <1>10 DEF Sound

(* What _collect stores is sound: a profile that failed leaves its earlier *)
(* volumes without their status, and makes the snapshot partial.           *)
LEMMA CollectedIsSound ==
  ASSUME NEW c, NEW ages, Ages(ages), c.age \in Overview!Ages, Underway(c, ages),
         \A p \in c.conf.enabled : c.heard[p] # None
  PROVE  Sound(Overview!Collected(c), ages) /\ Overview!Collected(c).conf = c.conf
<1> DEFINE s == Overview!Collected(c)
           vols == Overview!Volumes(c)
           kept(r) == [c.prev.vols[r] EXCEPT !.status = "unknown", !.error = TRUE]
<1>1. s.vols = vols /\ s.conf = c.conf
  BY DEF Overview!Collected
<1>2. ~s.partial => \A p \in c.conf.enabled : ~Overview!Failed(c, p)
  BY DEF Overview!Collected
<1>3. s.partial \in BOOLEAN
  BY DEF Overview!Collected
<1>4. ASSUME NEW r \in Roots, c.prev # None, c.prev.vols[r] # None
      PROVE  kept(r) \in Overview!Observations /\ kept(r).of = c.conf /\ kept(r).status = "unknown"
  <2>1. c.prev.vols[r] \in Overview!Observations /\ c.prev.vols[r].of = c.conf
    BY <1>4 DEF Underway, Sound, Whole, Overview!Snapshots
  <2> QED
    BY <2>1 DEF Overview!Observations
<1>5. ASSUME NEW r \in Roots
      PROVE  \/ /\ vols[r] = None
                /\ Owner[r] \in c.conf.enabled => Overview!Failed(c, Owner[r]) \/ Unlisted(r, c)
             \/ /\ Owner[r] \in c.conf.enabled /\ ~Overview!Failed(c, Owner[r])
                /\ vols[r] = Overview!Volume(r, c)
             \/ c.prev # None /\ c.prev.vols[r] # None /\ vols[r] = kept(r)
  BY DEF Overview!Volumes, Unlisted
<1>6. \A r \in Roots : vols[r] # None => vols[r] \in Overview!Observations /\ vols[r].of = c.conf
  <2> SUFFICES ASSUME NEW r \in Roots, vols[r] # None
               PROVE  vols[r] \in Overview!Observations /\ vols[r].of = c.conf
    OBVIOUS
  <2> HIDE DEF vols, kept
  <2>1. c.conf \in Configs
    BY DEF Underway
  <2> QED
    BY <1>4, <1>5, <2>1, VolumeType
<1>7. vols \in [Roots -> Overview!Observations \union {None}]
  BY <1>6 DEF Overview!Volumes
<1>8. s \in Overview!Snapshots
  BY <1>1, <1>3, <1>7 DEF Overview!Collected, Overview!Snapshots, Underway
<1>9. Complete(s, ages)
  <2> SUFFICES ASSUME ~s.partial, NEW r \in Roots, NEW x \in Roots, Owner[r] \in c.conf.enabled,
                      vols[r] = None, vols[x] # None
               PROVE  ages[r] <= vols[x].age
    BY <1>1 DEF Complete
  <2>1. ~Overview!Failed(c, Owner[r]) /\ (Owner[x] \in c.conf.enabled => ~Overview!Failed(c, Owner[x]))
    BY <1>2
  <2>2. c.conf \in Configs
    BY DEF Underway
  <2>3. Unlisted(r, c)
    BY <2>1, <2>2, VolumeType DEF Overview!Volumes, Unlisted
  <2>4. vols[x] = Overview!Volume(x, c)
    BY <2>1 DEF Overview!Volumes
  <2>5. ages[r] <= c.age
    BY <2>1, <2>3 DEF Underway, Overview!Failed
  <2> QED
    BY <2>2, <2>4, <2>5, VolumeType
<1>10. Backed(s, ages)
  <2> SUFFICES ASSUME NEW r \in Roots, vols[r] # None, vols[r].status = "healthy"
               PROVE  ages[r] <= vols[r].age
    BY <1>1 DEF Backed
  <2>1. /\ Owner[r] \in c.conf.enabled /\ ~Overview!Failed(c, Owner[r])
        /\ vols[r] = Overview!Volume(r, c)
    BY <1>4, <1>5
  <2>2. ages[r] <= c.age
    BY <2>1 DEF Underway, Overview!Failed
  <2> QED
    BY <2>1, <2>2, VolumeType DEF Underway
<1> QED
  BY <1>1, <1>6, <1>8, <1>9, <1>10 DEF Sound, Whole

-----------------------------------------------------------------------------
(* The steps of a collection.                                              *)

LEMMA OverviewBegins == Overview!Init => OverviewInv
<1> SUFFICES ASSUME Overview!Init PROVE OverviewInv
  OBVIOUS
<1>1. Bounds
  <2>1. disk \in [Mounts -> Overview!Readings]
    BY OverviewAssumption DEF Overview!Init, Overview!StorageAssumption
  <2>2. cached \in 0..Cache /\ since \in 0..Throttle /\ Fresh + 1 \in Overview!Ages
    BY AgesAreNumbers DEF Overview!Init, Overview!Ages
  <2>3. proof \in [Roots -> Overview!Ages]
    BY <2>2 DEF Overview!Init
  <2>4. folders \in [Roots -> Overview!Folder]
    BY DEF Overview!Init, Overview!Folder
  <2> QED
    BY <2>1, <2>2, <2>3, <2>4 DEF Overview!Init, Bounds
<1>2. Collections
  <2>1. \A t \in Overview!Tasks : task[t] = Overview!NoTask
    BY DEF Overview!Init
  <2>2. Shaped(Overview!NoTask) /\ Overview!NoTask.at = "done" /\ Overview!NoTask.age \in Overview!Ages
    BY AgesAreNumbers DEF Overview!NoTask, Shaped, Overview!Ages
  <2> QED
    BY <2>1, <2>2 DEF Overview!Init, Collections
<1>3. Calls
  BY DEF Overview!Init, Overview!NoCall, Calls, Calling, Waiting, Told
<1> QED
  BY <1>1, <1>2, <1>3 DEF OverviewInv, Overview!Init

LEMMA UnderwayYounger ==
  ASSUME NEW c, NEW a, NEW b, Ages(a), Ages(b), Younger(a, b), c.age \in Overview!Ages, Underway(c, b)
  PROVE  Underway(c, a)
<1>1. c.prev # None => Sound(c.prev, a) /\ c.prev.conf = c.conf
  BY SoundYounger DEF Underway
<1>2. ASSUME NEW r \in Roots, b[r] <= c.age PROVE a[r] <= c.age
  <2>1. a[r] \in Overview!Ages /\ b[r] \in Overview!Ages /\ a[r] <= b[r]
    BY DEF Ages, Younger
  <2>2. a[r] \in Nat /\ b[r] \in Nat /\ c.age \in Nat
    BY <2>1, AgesAreNumbers
  <2> QED
    BY <1>2, <2>1, <2>2
<1> QED
  BY <1>1, <1>2 DEF Underway

LEMMA BeginStep ==
  ASSUME OverviewInv, NEW t \in Overview!Tasks, Overview!Begin(t)
  PROVE  OverviewInv'
<1> USE DEF Overview!Begin
<1>1. PICK c : task' = [task EXCEPT ![t] = c]
               /\ c = [at |-> "read", conf |-> config, age |-> 0,
                       prev |-> IF snap # None /\ snap.conf = config THEN snap ELSE None,
                       heard |-> [p \in config.enabled |-> None]]
  OBVIOUS
<1>2. config \in Configs /\ 0 \in Overview!Ages
  BY AgesAreNumbers DEF OverviewInv, Bounds, Overview!Ages
<1>3. Shaped(c) /\ c.at = "read" /\ c.age \in Overview!Ages
  BY <1>1, <1>2 DEF Shaped
<1>4. Underway(c, proof)
  BY <1>1, <1>2 DEF Underway, OverviewInv
<1>5. task'[t] = c /\ DOMAIN task' = Overview!Tasks /\ \A u \in Overview!Tasks \ {t} : task'[u] = task[u]
  BY <1>1 DEF OverviewInv, Collections
<1>6. Collections'
  BY <1>3, <1>4, <1>5 DEF OverviewInv, Collections
<1>7. Calls'
  <2> SUFFICES ASSUME NEW x \in Callers PROVE Waiting(x)'
    BY DEF OverviewInv, Calls, Calling, Told
  <2>1. Waiting(x) /\ c.conf = config
    BY <1>1 DEF OverviewInv, Calls
  <2> QED
    BY <1>5, <2>1 DEF Waiting
<1>8. Bounds'
  BY DEF OverviewInv, Bounds
<1> QED
  BY <1>6, <1>7, <1>8 DEF OverviewInv

LEMMA ReadProfileStep ==
  ASSUME OverviewInv, NEW t \in Overview!Tasks, NEW p, Overview!ReadProfile(t, p)
  PROVE  OverviewInv'
<1> DEFINE read == [folders |-> Overview!Folders(p), spaces |-> Overview!Listed(p)]
<1>1. PICK answer, c :
        /\ task' = [task EXCEPT ![t] = c]
        /\ c = [task[t] EXCEPT !.heard = [task[t].heard EXCEPT ![p] = answer]]
        /\ \/ /\ answer = read
              /\ proof' = [r \in Roots |->
                             IF Owner[r] = p /\ Overview!Enough(r, task[t].conf) THEN 0 ELSE proof[r]]
           \/ answer = Error /\ proof' = proof
  <2>1. \E answer :
          /\ task' = [task EXCEPT ![t].heard[p] = answer]
          /\ \/ /\ answer = read
                /\ proof' = [r \in Roots |->
                               IF Owner[r] = p /\ Overview!Enough(r, task[t].conf) THEN 0 ELSE proof[r]]
             \/ answer = Error /\ proof' = proof
    BY DEF Overview!ReadProfile
  <2> QED
    BY <2>1
<1>2. /\ task[t].at = "read" /\ p \in task[t].conf.enabled
      /\ UNCHANGED <<config, disk, folders, current, forced, snap, cached, since, call>>
  BY DEF Overview!ReadProfile
<1>3. Shaped(task[t]) /\ Underway(task[t], proof) /\ task[t].age \in Overview!Ages /\ Ages(proof)
  BY <1>2 DEF OverviewInv, Bounds, Collections, Ages
<1>4. /\ c.at = "read" /\ c.conf = task[t].conf /\ c.age = task[t].age /\ c.prev = task[t].prev
      /\ c.heard = [task[t].heard EXCEPT ![p] = answer] /\ Shaped(c)
  BY <1>1, <1>2, <1>3 DEF Shaped
<1>5. Ages(proof') /\ Younger(proof', proof)
  <2>1. \A r \in Roots : proof[r] \in Overview!Ages /\ proof[r] \in Nat
    BY <1>3, AgesAreNumbers DEF Ages
  <2>2. 0 \in Overview!Ages
    BY AgesAreNumbers DEF Overview!Ages
  <2> QED
    BY <1>1, <1>3, <2>1, <2>2 DEF Ages, Younger
<1>6. Underway(task[t], proof')
  BY <1>3, <1>5, UnderwayYounger
<1>7. ASSUME NEW r \in Roots, Owner[r] \in c.conf.enabled, c.heard[Owner[r]] \notin {None, Error},
             Unlisted(r, c) \/ Overview!Volume(r, c).status = "healthy"
      PROVE  proof'[r] <= c.age
  <2>1. CASE Owner[r] # p
    <3>1. c.heard[Owner[r]] = task[t].heard[Owner[r]]
      BY <1>3, <1>4, <1>7, <2>1 DEF Underway
    <3>2. Unlisted(r, task[t]) \/ Overview!Volume(r, task[t]).status = "healthy"
      BY <1>4, <1>7, <3>1 DEF Overview!Volume, Unlisted
    <3> QED
      BY <1>4, <1>6, <1>7, <3>1, <3>2 DEF Underway
  <2>2. CASE Owner[r] = p
    <3>1. c.heard[Owner[r]] = answer
      BY <1>2, <1>3, <1>4, <2>2 DEF Underway
    <3>2. /\ answer = read
          /\ proof' = [x \in Roots |->
                         IF Owner[x] = p /\ Overview!Enough(x, task[t].conf) THEN 0 ELSE proof[x]]
      BY <1>1, <1>7, <3>1
    <3>3. Overview!Enough(r, c.conf)
      BY <1>3, <1>4, <1>7, <2>2, <3>1, <3>2, ReadingProves DEF OverviewInv, Underway
    <3>4. proof'[r] = 0
      BY <1>4, <2>2, <3>2, <3>3
    <3>5. c.age \in Nat
      BY <1>3, <1>4, AgesAreNumbers
    <3> QED
      BY <3>4, <3>5
  <2> QED
    BY <2>1, <2>2
<1>8. Underway(c, proof')
  BY <1>4, <1>6, <1>7 DEF Underway
<1>9. task'[t] = c /\ DOMAIN task' = Overview!Tasks /\ \A u \in Overview!Tasks \ {t} : task'[u] = task[u]
  BY <1>1 DEF OverviewInv, Collections
<1>10. Collections'
  <2> SUFFICES ASSUME NEW u \in Overview!Tasks
               PROVE  /\ Shaped(task'[u]) /\ task'[u].at \in {"new", "read", "done"}
                      /\ task'[u].age \in Overview!Ages
                      /\ task'[u].at = "read" => Underway(task'[u], proof')
    BY <1>9 DEF Collections
  <2>1. CASE u = t
    BY <1>3, <1>4, <1>8, <1>9, <2>1
  <2>2. CASE u # t
    <3>1. /\ task'[u] = task[u] /\ Shaped(task[u]) /\ task[u].at \in {"new", "read", "done"}
          /\ task[u].age \in Overview!Ages /\ (task[u].at = "read" => Underway(task[u], proof))
      BY <1>9, <2>2 DEF OverviewInv, Collections
    <3> QED
      BY <1>3, <1>5, <3>1, UnderwayYounger
  <2> QED
    BY <2>1, <2>2
<1>11. Calls'
  <2> SUFFICES ASSUME NEW x \in Callers PROVE Waiting(x)' /\ Told(x)'
    BY <1>2 DEF OverviewInv, Calls, Calling
  <2>1. Waiting(x) /\ Told(x)
    BY DEF OverviewInv, Calls
  <2>2. Waiting(x)'
    BY <1>2, <1>4, <1>9, <2>1 DEF Waiting
  <2>3. Told(x)'
    BY <1>2, <1>3, <1>5, <2>1, SoundYounger DEF Told
  <2> QED
    BY <2>2, <2>3
<1>12. snap' # None => Sound(snap', proof')
  BY <1>2, <1>3, <1>5, SoundYounger DEF OverviewInv
<1>13. Bounds'
  BY <1>2, <1>5 DEF OverviewInv, Bounds, Ages
<1> QED
  BY <1>10, <1>11, <1>12, <1>13 DEF OverviewInv

LEMMA StoreStep ==
  ASSUME OverviewInv, NEW t \in Overview!Tasks, Overview!Store(t)
  PROVE  OverviewInv'
<1>1. PICK s : /\ s = Overview!Collected(task[t]) /\ snap' = s
               /\ call' = [c \in Callers |-> IF call[c].at = "wait" /\ call[c].task = t
                             THEN [call[c] EXCEPT !.at = "have", !.task = None, !.snap = s]
                             ELSE call[c]]
  BY DEF Overview!Store
<1>2. /\ task' = [task EXCEPT ![t] = Overview!NoTask] /\ cached' = 0
      /\ UNCHANGED <<config, disk, folders, current, forced, since, proof>>
      /\ task[t].at = "read" /\ \A p \in task[t].conf.enabled : task[t].heard[p] # None
  BY DEF Overview!Store
<1>3. Sound(s, proof) /\ s.conf = task[t].conf
  BY <1>1, <1>2, CollectedIsSound DEF OverviewInv, Bounds, Collections, Ages
<1>4. /\ task'[t] = Overview!NoTask /\ DOMAIN task' = Overview!Tasks
      /\ \A u \in Overview!Tasks \ {t} : task'[u] = task[u]
  BY <1>2 DEF OverviewInv, Collections
<1>5. Shaped(Overview!NoTask) /\ Overview!NoTask.at = "done" /\ Overview!NoTask.age \in Overview!Ages
  BY AgesAreNumbers DEF Overview!NoTask, Shaped, Overview!Ages
<1>6. Collections'
  BY <1>2, <1>4, <1>5 DEF OverviewInv, Collections
<1>7. Calls'
  <2> SUFFICES ASSUME NEW x \in Callers PROVE (Calling(x) /\ Waiting(x) /\ Told(x))'
    BY <1>1 DEF Calls
  <2>1. Calling(x) /\ Waiting(x) /\ Told(x)
    BY DEF OverviewInv, Calls
  <2>2. CASE call[x].at = "wait" /\ call[x].task = t
    <3>1. call'[x] = [at |-> "have", task |-> None, snap |-> s, confs |-> call[x].confs]
      BY <1>1, <2>1, <2>2 DEF Calling
    <3>2. s.conf \in call[x].confs
      BY <1>2, <1>3, <2>1, <2>2 DEF Waiting
    <3> QED
      BY <1>2, <1>3, <3>1, <3>2 DEF Calling, Waiting, Told
  <2>3. CASE ~(call[x].at = "wait" /\ call[x].task = t)
    <3>1. call'[x] = call[x]
      BY <1>1, <2>3
    <3>2. Waiting(x)'
      BY <1>2, <1>4, <2>1, <2>3, <3>1 DEF Waiting
    <3> QED
      BY <1>2, <2>1, <3>1, <3>2 DEF Calling, Told
  <2> QED
    BY <2>2, <2>3
<1>8. Bounds'
  BY <1>2, AgesAreNumbers DEF OverviewInv, Bounds
<1> QED
  BY <1>1, <1>2, <1>3, <1>6, <1>7, <1>8 DEF OverviewInv

-----------------------------------------------------------------------------
(* The callers.  A new call is the last thing a caller does of its own; it *)
(* joins a collection, creates one, or has its answer at once.             *)

\* every call but that of x stays, over collections that stay or begin anew
LEMMA CallChanges ==
  ASSUME OverviewInv, NEW x \in Callers, NEW a, call' = [call EXCEPT ![x] = a],
         UNCHANGED <<config, proof>>,
         \A t \in Overview!Tasks : task'[t].at = "read" => task'[t] = task[t],
         a = [at |-> a.at, task |-> a.task, snap |-> a.snap, confs |-> a.confs],
         a.at \in {"idle", "wait", "have"},
         a.at = "wait" => config \in a.confs
                          /\ \A t \in Overview!Tasks :
                                a.task = t /\ task'[t].at = "read" => task'[t].conf \in a.confs,
         a.at = "have" => Sound(a.snap, proof) /\ a.snap.conf \in a.confs
  PROVE  Calls'
<1>1. call'[x] = a /\ DOMAIN call' = Callers /\ \A y \in Callers \ {x} : call'[y] = call[y]
  BY DEF OverviewInv, Calls
<1> SUFFICES ASSUME NEW y \in Callers PROVE (Calling(y) /\ Waiting(y) /\ Told(y))'
  BY <1>1 DEF Calls
<1>2. CASE y = x
  BY <1>1, <1>2 DEF Calling, Waiting, Told
<1>3. CASE y # x
  <2>1. Calling(y) /\ Waiting(y) /\ Told(y) /\ call'[y] = call[y]
    BY <1>1, <1>3 DEF OverviewInv, Calls
  <2>2. Waiting(y)'
    BY <2>1 DEF Waiting
  <2> QED
    BY <2>1, <2>2 DEF Calling, Told
<1> QED
  BY <1>2, <1>3

LEMMA CallsOn ==
  ASSUME OverviewInv, NEW x \in Callers, NEW u, NEW confs, Overview!CallOn(x, u, confs),
         UNCHANGED <<config, proof>>, config \in confs,
         \A t \in Overview!Tasks : task'[t].at = "read" => task'[t] = task[t],
         \A t \in Overview!Tasks : u = t /\ task'[t].at = "read" => task'[t].conf \in confs
  PROVE  Calls'
<1> DEFINE a == [at |-> "wait", task |-> u, snap |-> None, confs |-> confs]
<1>1. call' = [call EXCEPT ![x] = a]
  BY DEF Overview!CallOn
<1>2. a.at = "wait" /\ a.task = u /\ a.confs = confs
      /\ a = [at |-> a.at, task |-> a.task, snap |-> a.snap, confs |-> a.confs]
  OBVIOUS
<1> HIDE DEF a
<1> QED
  BY <1>1, <1>2, CallChanges

LEMMA CreateKeeps ==
  ASSUME OverviewInv, NEW x \in Callers, Overview!Create(x), UNCHANGED <<config, proof>>
  PROVE  Calls' /\ Collections' /\ current' \in Overview!Tasks
<1> DEFINE u == CHOOSE y \in Overview!Tasks : y # current
           n == [Overview!NoTask EXCEPT !.at = "new"]
<1>1. u \in Overview!Tasks
  <2>1. \E y \in Overview!Tasks : y # current
    BY DEF Overview!Tasks
  <2> QED
    BY <2>1
<1>2. task' = [task EXCEPT ![u] = n] /\ current' = u /\ Overview!CallOn(x, u, {config})
  BY DEF Overview!Create
<1>3. Shaped(n) /\ n.at = "new" /\ n.age \in Overview!Ages
  BY AgesAreNumbers DEF Overview!NoTask, Shaped, Overview!Ages
<1> HIDE DEF u, n
<1>4. task'[u] = n /\ DOMAIN task' = Overview!Tasks /\ \A t \in Overview!Tasks \ {u} : task'[t] = task[t]
  BY <1>1, <1>2 DEF OverviewInv, Collections
<1>5. Collections'
  BY <1>3, <1>4 DEF OverviewInv, Collections
<1>6. /\ \A t \in Overview!Tasks : task'[t].at = "read" => task'[t] = task[t]
      /\ \A t \in Overview!Tasks : u = t => task'[t].at # "read"
  BY <1>3, <1>4
<1>7. Calls'
  BY <1>2, <1>6, CallsOn
<1> QED
  BY <1>1, <1>2, <1>5, <1>7

LEMMA JoinKeeps ==
  ASSUME OverviewInv, NEW x \in Callers, Overview!CallOn(x, current, Overview!Since(current)),
         UNCHANGED <<config, proof, task>>
  PROVE  Calls' /\ Collections'
<1>1. config \in Overview!Since(current)
  BY DEF Overview!Since
<1>2. \A t \in Overview!Tasks : current = t /\ task[t].at = "read" => task[t].conf \in Overview!Since(current)
  BY DEF Overview!Since
<1>3. Calls'
  BY <1>1, <1>2, CallsOn
<1> QED
  BY <1>3 DEF OverviewInv, Collections

LEMMA CallerStep ==
  ASSUME OverviewInv, NEW x \in Callers,
         \/ Overview!GetCached(x) \/ Overview!GetCollected(x) \/ Overview!RefreshJoins(x)
         \/ Overview!RefreshCreates(x) \/ Overview!RefreshThrottled(x) \/ Overview!Respond(x)
  PROVE  OverviewInv'
<1> USE DEF Overview!CallBegins
<1>1. CASE Overview!GetCached(x)
  <2> DEFINE a == [at |-> "have", task |-> None, snap |-> snap, confs |-> {config}]
  <2>1. call' = [call EXCEPT ![x] = a] /\ UNCHANGED <<config, proof, task>>
    BY <1>1 DEF Overview!GetCached
  <2>2. a = [at |-> a.at, task |-> a.task, snap |-> a.snap, confs |-> a.confs] /\ a.at = "have"
    OBVIOUS
  <2>3. Sound(a.snap, proof) /\ a.snap.conf \in a.confs
    BY <1>1 DEF Overview!GetCached, Overview!Usable, OverviewInv
  <2> HIDE DEF a
  <2>4. Calls'
    BY <2>1, <2>2, <2>3, CallChanges
  <2> QED
    BY <1>1, <2>4 DEF Overview!GetCached, OverviewInv, Bounds, Collections
<1>2. CASE Overview!GetCollected(x)
  <2>1. UNCHANGED <<config, disk, folders, snap, cached, since, proof>> /\ forced' \in BOOLEAN
    BY <1>2 DEF Overview!GetCollected, OverviewInv, Bounds
  <2>2. Calls' /\ Collections' /\ current' \in Overview!Tasks \union {None}
    <3>1. CASE Overview!CallOn(x, current, Overview!Since(current)) /\ UNCHANGED <<task, current>>
      BY <2>1, <3>1, JoinKeeps DEF OverviewInv, Bounds
    <3>2. CASE Overview!Create(x)
      BY <2>1, <3>2, CreateKeeps
    <3> QED
      BY <1>2, <3>1, <3>2 DEF Overview!GetCollected
  <2> QED
    BY <2>1, <2>2 DEF OverviewInv, Bounds
<1>3. CASE Overview!RefreshJoins(x)
  <2>1. /\ UNCHANGED <<config, disk, folders, snap, cached, proof, task, current>> /\ forced' \in BOOLEAN
        /\ Overview!CallOn(x, current, Overview!Since(current))
    BY <1>3 DEF Overview!RefreshJoins
  <2>2. since' \in 0..Throttle
    BY <1>3, AgesAreNumbers DEF Overview!RefreshJoins, OverviewInv, Bounds
  <2>3. Calls' /\ Collections'
    BY <2>1, JoinKeeps
  <2> QED
    BY <2>1, <2>2, <2>3 DEF OverviewInv, Bounds
<1>4. CASE Overview!RefreshCreates(x)
  <2>1. UNCHANGED <<config, disk, folders, snap, cached, proof>> /\ forced' \in BOOLEAN /\ Overview!Create(x)
    BY <1>4 DEF Overview!RefreshCreates
  <2>2. since' \in 0..Throttle
    BY <1>4, AgesAreNumbers DEF Overview!RefreshCreates
  <2>3. Calls' /\ Collections' /\ current' \in Overview!Tasks
    BY <2>1, CreateKeeps
  <2> QED
    BY <2>1, <2>2, <2>3 DEF OverviewInv, Bounds
<1>5. CASE Overview!RefreshThrottled(x)
  BY <1>5 DEF Overview!RefreshThrottled, OverviewInv, Bounds, Collections, Calls, Calling, Waiting, Told
<1>6. CASE Overview!Respond(x)
  <2>1. call' = [call EXCEPT ![x] = Overview!NoCall] /\ UNCHANGED <<config, proof, task>>
    BY <1>6 DEF Overview!Respond
  <2>2. /\ Overview!NoCall = [at |-> Overview!NoCall.at, task |-> Overview!NoCall.task,
                              snap |-> Overview!NoCall.snap, confs |-> Overview!NoCall.confs]
        /\ Overview!NoCall.at = "idle"
    BY DEF Overview!NoCall
  <2>3. Calls'
    BY <2>1, <2>2, CallChanges
  <2> QED
    BY <1>6, <2>3 DEF Overview!Respond, OverviewInv, Bounds, Collections
<1> QED
  BY <1>1, <1>2, <1>3, <1>4, <1>5, <1>6

-----------------------------------------------------------------------------
(* The world.                                                              *)

LEMMA ReconfigureStep == ASSUME OverviewInv, Overview!Reconfigure PROVE OverviewInv'
<1>1. PICK conf \in Configs :
        /\ config' = conf
        /\ call' = [x \in Callers |-> IF call[x].at = "wait"
                                      THEN [call[x] EXCEPT !.confs = call[x].confs \union {conf}]
                                      ELSE call[x]]
  BY DEF Overview!Reconfigure
<1>2. UNCHANGED <<disk, folders, task, current, forced, snap, cached, since, proof>>
  BY DEF Overview!Reconfigure
<1>3. ASSUME NEW x \in Callers PROVE (Calling(x) /\ Waiting(x) /\ Told(x))'
  <2>1. Calling(x) /\ Waiting(x) /\ Told(x)
    BY DEF OverviewInv, Calls
  <2>2. CASE call[x].at = "wait"
    <3>1. call'[x] = [at |-> "wait", task |-> call[x].task, snap |-> call[x].snap,
                      confs |-> call[x].confs \union {conf}]
      BY <1>1, <2>1, <2>2 DEF Calling
    <3>2. Waiting(x)'
      BY <1>1, <1>2, <2>1, <2>2, <3>1 DEF Waiting
    <3> QED
      BY <3>1, <3>2 DEF Calling, Told
  <2>3. CASE call[x].at # "wait"
    <3>1. call'[x] = call[x]
      BY <1>1, <2>3
    <3> QED
      BY <1>2, <2>1, <2>3, <3>1 DEF Calling, Waiting, Told
  <2> QED
    BY <2>2, <2>3
<1>4. Calls'
  BY <1>1, <1>3 DEF Calls
<1>5. Bounds' /\ Collections' /\ (snap' # None => Sound(snap', proof'))
  BY <1>1, <1>2 DEF OverviewInv, Bounds, Collections
<1> QED
  BY <1>4, <1>5 DEF OverviewInv

LEMMA DiskStep == ASSUME OverviewInv, Overview!Disk PROVE OverviewInv'
<1>1. UNCHANGED <<config, task, current, forced, snap, cached, since, call, proof>>
  BY DEF Overview!Disk
<1>2. disk' \in [Mounts -> Overview!Readings] /\ folders' \in [Roots -> Overview!Folder]
  BY OverviewAssumption DEF Overview!Disk, Overview!StorageAssumption, OverviewInv, Bounds
<1> QED
  BY <1>1, <1>2 DEF OverviewInv, Bounds, Collections, Calls, Calling, Waiting, Told

LEMMA TickStep == ASSUME OverviewInv, Overview!Tick PROVE OverviewInv'
<1>1. /\ \A x \in Callers : call[x].at # "have"
      /\ snap' = Overview!OlderSnap(snap)
      /\ proof' = [r \in Roots |-> Overview!Older(proof[r], Fresh + 1)]
      /\ cached' = Overview!Older(cached, Cache) /\ since' = Overview!Older(since, Throttle)
      /\ UNCHANGED <<config, disk, folders, current, forced, call>>
  BY DEF Overview!Tick
<1>2. /\ DOMAIN task' = Overview!Tasks
      /\ \A t \in Overview!Tasks :
            task'[t] = IF task[t].at # "read" THEN task[t]
                       ELSE [task[t] EXCEPT !.age = Overview!Older(task[t].age, Fresh + 1),
                                            !.prev = Overview!OlderSnap(task[t].prev)]
  BY DEF Overview!Tick
<1>3. Ages(proof) /\ \A r \in Roots : proof[r] \in Overview!Ages
  BY DEF OverviewInv, Bounds, Ages
<1>4. Ages(proof')
  BY <1>1, <1>3, OlderAge DEF Ages
<1>5. cached' \in 0..Cache /\ since' \in 0..Throttle
  BY <1>1, AgesAreNumbers DEF OverviewInv, Bounds, Overview!Older
<1>6. Overview!OlderSnap(None) = None
  BY DEF Overview!OlderSnap
<1>7. snap' # None => Sound(snap', proof')
  BY <1>1, <1>3, <1>6, SoundOlder DEF OverviewInv
<1>8. ASSUME NEW t \in Overview!Tasks
      PROVE  /\ Shaped(task'[t]) /\ task'[t].at \in {"new", "read", "done"}
             /\ task'[t].age \in Overview!Ages /\ task'[t].at = task[t].at /\ task'[t].conf = task[t].conf
             /\ task'[t].at = "read" => Underway(task'[t], proof')
  <2>1. /\ Shaped(task[t]) /\ task[t].at \in {"new", "read", "done"} /\ task[t].age \in Overview!Ages
        /\ task[t].at = "read" => Underway(task[t], proof)
    BY DEF OverviewInv, Collections
  <2>2. CASE task[t].at # "read"
    BY <1>2, <2>1, <2>2
  <2>3. CASE task[t].at = "read"
    <3>1. task'[t] = [at |-> "read", conf |-> task[t].conf,
                      age |-> Overview!Older(task[t].age, Fresh + 1),
                      prev |-> Overview!OlderSnap(task[t].prev), heard |-> task[t].heard]
      BY <1>2, <2>1, <2>3 DEF Shaped
    <3>2. Shaped(task'[t]) /\ task'[t].age \in Overview!Ages
      BY <2>1, <3>1, OlderAge DEF Shaped
    <3>3. task'[t].prev # None => Sound(task'[t].prev, proof') /\ task'[t].prev.conf = task[t].conf
      <4>1. CASE task[t].prev = None
        BY <1>6, <3>1, <4>1
      <4>2. CASE task[t].prev # None
        <5>1. Sound(task[t].prev, proof) /\ task[t].prev.conf = task[t].conf
          BY <2>1, <2>3, <4>2 DEF Underway
        <5>2. /\ Sound(Overview!OlderSnap(task[t].prev), proof')
              /\ Overview!OlderSnap(task[t].prev).conf = task[t].prev.conf
          BY <1>1, <1>3, <4>2, <5>1, SoundOlder
        <5> QED
          BY <3>1, <5>1, <5>2
      <4> QED
        BY <4>1, <4>2
    <3>4. ASSUME NEW r \in Roots, Owner[r] \in task[t].conf.enabled,
                 task[t].heard[Owner[r]] \notin {None, Error},
                 Unlisted(r, task'[t]) \/ Overview!Volume(r, task'[t]).status = "healthy"
          PROVE  proof'[r] <= task'[t].age
      <4>1. Unlisted(r, task[t]) \/ Overview!Volume(r, task[t]).status = "healthy"
        BY <3>1, <3>4 DEF Overview!Volume, Unlisted
      <4>2. proof[r] <= task[t].age
        BY <2>1, <2>3, <3>4, <4>1 DEF Underway
      <4> QED
        BY <1>1, <1>3, <2>1, <3>1, <4>2, OlderAge
    <3>5. Underway(task'[t], proof')
      BY <2>1, <2>3, <3>1, <3>3, <3>4 DEF Underway
    <3> QED
      BY <2>3, <3>1, <3>2, <3>5
  <2> QED
    BY <2>2, <2>3
<1>9. Collections'
  BY <1>2, <1>8 DEF Collections
<1>10. Calls'
  BY <1>1, <1>8 DEF OverviewInv, Calls, Calling, Waiting, Told
<1>11. Bounds'
  BY <1>1, <1>4, <1>5 DEF OverviewInv, Bounds, Ages
<1> QED
  BY <1>7, <1>9, <1>10, <1>11 DEF OverviewInv

LEMMA OverviewKept == OverviewInv /\ [Overview!Next]_Overview!vars => OverviewInv'
<1> SUFFICES ASSUME OverviewInv, [Overview!Next]_Overview!vars PROVE OverviewInv'
  OBVIOUS
<1>1. ASSUME NEW t \in Overview!Tasks, Overview!Begin(t) \/ Overview!Store(t) PROVE OverviewInv'
  BY <1>1, BeginStep, StoreStep
<1>2. ASSUME NEW t \in Overview!Tasks, NEW p \in Profiles, Overview!ReadProfile(t, p) PROVE OverviewInv'
  BY <1>2, ReadProfileStep
<1>3. CASE Overview!Reconfigure \/ Overview!Disk \/ Overview!Tick
  BY <1>3, ReconfigureStep, DiskStep, TickStep
<1>4. CASE UNCHANGED Overview!vars
  BY <1>4 DEF Overview!vars, OverviewInv, Bounds, Collections, Calls, Calling, Waiting, Told
<1> QED
  BY <1>1, <1>2, <1>3, <1>4, CallerStep DEF Overview!Next

-----------------------------------------------------------------------------
LEMMA OverviewInvGives == OverviewInv => HealthyIsProven /\ AnswersAreCurrent /\ Overview!TypeOK
<1> SUFFICES ASSUME OverviewInv PROVE HealthyIsProven /\ AnswersAreCurrent /\ Overview!TypeOK
  OBVIOUS
<1>1. HealthyIsProven
  BY HeadlineProves
  DEF OverviewInv, Bounds, Calls, Told, HealthyIsProven, Overview!HealthyIsProven
<1>2. AnswersAreCurrent
  BY DEF OverviewInv, Calls, Told, Sound, Whole, AnswersAreCurrent, Overview!AnswersAreCurrent
<1>3. Overview!TypeOK
  BY DEF OverviewInv, Bounds, Collections, Underway, Calls, Calling, Told, Sound, Whole, Overview!TypeOK
<1> QED
  BY <1>1, <1>2, <1>3

(* Every variable of the overview keeps its shape: what a collection knows *)
(* is of the profiles of its own configuration, and ages stay in bounds.   *)
THEOREM OverviewTypes == Overview!Spec => []Overview!TypeOK
BY OverviewBegins, OverviewKept, OverviewInvGives, PTL DEF Overview!Spec

(* The headline of a response (from_snapshot, headline_status) says        *)
(* "healthy" only if, within the freshness limit, every root of every      *)
(* enabled profile was seen on a mount above the warning threshold and not *)
(* reported inaccessible, or was seen to be no longer listed: over failed  *)
(* reads, observations kept from an earlier collection, slow collections   *)
(* and callers that wait.                                                  *)
THEOREM Healthy == Overview!Spec => []HealthyIsProven
BY OverviewBegins, OverviewKept, OverviewInvGives, PTL DEF Overview!Spec

(* An answer of StorageService.get and refresh is of one topology: that of *)
(* the runtime at some moment of the call, or the one that the collection  *)
(* it joined had begun with.                                               *)
THEOREM Current == Overview!Spec => []AnswersAreCurrent
BY OverviewBegins, OverviewKept, OverviewInvGives, PTL DEF Overview!Spec

(* The composition that the run explores moves one view at a time, so its  *)
(* behaviours are behaviours of each, and have the properties of both.     *)
THEOREM ViewsProven ==
  ViewsSpec => [](NeverWatchedIsProven /\ HealthyIsProven /\ AnswersAreCurrent) /\ EligibleIsProven
<1>1. ViewsInit => Init /\ Overview!Init
  BY DEF ViewsInit
<1>2. [ViewsNext]_<<vars, overviewVars, view>> => [Next]_vars
  BY DEF ViewsNext
<1>3. [ViewsNext]_<<vars, overviewVars, view>> => [Overview!Next]_Overview!vars
  BY DEF ViewsNext, overviewVars, Overview!vars
<1>4. ViewsSpec => Spec /\ Overview!Spec
  BY <1>1, <1>2, <1>3, PTL DEF ViewsSpec, Spec, Overview!Spec
<1> QED
  BY <1>4, NeverWatched, EligibleProven, Healthy, Current, PTL

=============================================================================
