------------------------------- MODULE Storage -------------------------------
(***************************************************************************)
(* The storage overview (application/storage.py and its routes in          *)
(* api/app.py): reads of the disks behind the Arr profiles, coalesced into *)
(* one collection at a time, cached, throttled, and rendered into a        *)
(* headline.  Time passes in ticks; an age stops counting where nothing    *)
(* distinguishes it from an older one.                                     *)
(***************************************************************************)
EXTENDS Naturals, FiniteSets, SequencesExt

CONSTANTS Profiles, Roots, Mounts,
          Owner,     \* the profile of each root folder
          Under,     \* the mounts that contain each root folder, the deepest first
          Configs,   \* runtime configurations: [enabled, address, warning, critical]
          Callers,   \* requests, and the loop that refreshes every minute
          None, Error,  \* nothing yet; a read that raised
          Throttle, Cache, Fresh,  \* 10, 60 and 120 seconds in the code
          Start,     \* what is listed of the mounts at the beginning
          Changes,   \* what may be listed of a mount later
          CallBudget, TroubleBudget  \* bounds: calls; configurations, faults and changes of a disk

Levels == 0..2            \* free space, between the thresholds of the configurations
Bad == 3                  \* a mount whose numbers make no sense
Gone == 4                 \* a mount that is not listed
Readings == 0..4
Folder == {"open", "closed", "unlisted"}  \* "open" unless Arr says that it is not accessible
Ages == 0..Fresh + 1
Tasks == {1, 2}           \* one would do, unless two collections could overlap

\* what is known of a root folder: its status, its error, its age, the topology it was read for
Observations == [status : {"healthy", "warning", "critical", "unknown"},
                 error : BOOLEAN, age : Ages, of : Configs]

StorageAssumption ==
    /\ {Throttle, Cache, Fresh, CallBudget, TroubleBudget} \subseteq Nat
    /\ Throttle < Cache /\ Cache < Fresh
    /\ Owner \in [Roots -> Profiles] /\ DOMAIN Under = Roots
    /\ Start \in [Mounts -> Readings] /\ Changes \subseteq Readings
    /\ \A r \in Roots : Under[r] \in Seq(Mounts)
    /\ \A c \in Configs : /\ c.enabled \subseteq Profiles
                            /\ {c.critical, c.warning} \subseteq Nat /\ c.critical < c.warning
    /\ None \notin Observations

VARIABLES
    config,   \* the configuration of the runtime
    disk,     \* what Arr reports of each mount: free space, nonsense or nothing
    folders,  \* what Arr says of each root folder
    task,     \* collections: [at, conf, age, prev, heard]
    current,  \* _collection_task
    forced,   \* is it also _manual_collection_task?
    snap,     \* _snapshot with its topology: [vols, partial, conf], or None
    cached,   \* time since it was stored, up to Cache
    since,    \* time since the last manual refresh, up to Throttle
    call,     \* callers: [at, task, snap, confs]
    proof,    \* history: time since a collection saw each root open, with enough space, or gone
    calls, troubles  \* consumed budgets

budgets == <<calls, troubles>>
world == <<config, disk, folders>>
service == <<task, current, forced, snap, cached, since>>
vars == <<world, service, call, proof, budgets>>

Trouble == troubles < TroubleBudget /\ troubles' = troubles + 1

NoTask == [at |-> "done", conf |-> None, age |-> 0, prev |-> None, heard |-> <<>>]
NoCall == [at |-> "idle", task |-> None, snap |-> None, confs |-> {}]

-----------------------------------------------------------------------------
(* One observation of a root folder: its status, its error, its age.       *)

Status(level, conf) ==
    IF level \notin Levels THEN "unknown"
    ELSE IF level >= conf.warning THEN "healthy"
    ELSE IF level >= conf.critical THEN "warning" ELSE "critical"

\* _best_disk_space: the deepest listed mount that contains the root
Best(r, listed) ==
    LET deepest == {i \in DOMAIN Under[r] : /\ listed[Under[r][i]] # Gone
                                            /\ \A j \in 1..(i - 1) : listed[Under[r][j]] = Gone}
    IN IF deepest = {} THEN Gone ELSE listed[Under[r][CHOOSE i \in deepest : TRUE]]

Volume(r, c) ==
    LET answer == c.heard[Owner[r]]
        level == IF answer.folders[r] = "closed" THEN Gone ELSE Best(r, answer.spaces)
    IN [status |-> Status(level, c.conf), error |-> level \notin Levels,
        age |-> c.age, of |-> c.conf]

\* volume_freshness and rendered_volumes
IsFresh(v) == v.age <= Fresh /\ ~v.error
Rendered(v) == IF IsFresh(v) THEN v.status ELSE "unknown"

\* a mutant: a profile that could not be read does not make the rest partial
HeadlineOfRead(s) ==
    LET seen == {Rendered(s.vols[r]) : r \in {x \in Roots : s.vols[x] # None}}
    IN IF "critical" \in seen THEN "critical"
       ELSE IF "unknown" \in seen THEN "unknown"
       ELSE IF "warning" \in seen THEN "warning"
       ELSE IF "healthy" \in seen THEN "healthy" ELSE "unknown"

\* headline_status
Headline(s) ==
    LET seen == {Rendered(s.vols[r]) : r \in {x \in Roots : s.vols[x] # None}}
    IN IF "critical" \in seen THEN "critical"
       ELSE IF s.partial \/ "unknown" \in seen THEN "unknown"
       ELSE IF "warning" \in seen THEN "warning"
       ELSE IF "healthy" \in seen THEN "healthy" ELSE "unknown"

-----------------------------------------------------------------------------
(* A collection: it takes the configuration when it begins, reads every    *)
(* enabled profile in two calls of their own, and stores what it found.    *)

Running(t) == task[t].at # "done"

Begin(t) ==
    /\ task[t].at = "new"
    /\ task' = [task EXCEPT ![t] =
          [at |-> "read", conf |-> config, age |-> 0,
           prev |-> IF snap # None /\ snap.conf = config THEN snap ELSE None,
           heard |-> [p \in config.enabled |-> None]]]
    /\ UNCHANGED <<world, current, forced, snap, cached, since, call, proof, budgets>>

\* the root folders and the mounts that Arr lists for a profile
Folders(p) == [r \in {x \in Roots : Owner[x] = p} |-> folders[r]]
Listed(p) == [m \in UNION {ToSet(Under[r]) : r \in {x \in Roots : Owner[x] = p}} |-> disk[m]]

\* what the reading of a profile proves of a root: it has no such root, or one
\* that is open on a mount with enough space
Enough(r, conf) ==
    LET listed == {i \in DOMAIN Under[r] : disk[Under[r][i]] # Gone}
    IN \/ folders[r] = "unlisted"
       \/ /\ folders[r] = "open"
          /\ \E i \in listed : /\ \A j \in listed : i <= j
                               /\ disk[Under[r][i]] \in conf.warning..2

(***************************************************************************)
(* _target_storage: list_root_folders and list_disk_space of one profile.  *)
(* They are two requests, but of facts that have nothing to do with each   *)
(* other.  If either raises the profile is unavailable.                    *)
(***************************************************************************)
ReadProfile(t, p) ==
    /\ task[t].at = "read" /\ p \in task[t].conf.enabled /\ task[t].heard[p] = None
    /\ \/ /\ task' = [task EXCEPT ![t].heard[p] = [folders |-> Folders(p), spaces |-> Listed(p)]]
          /\ proof' = [r \in Roots |-> IF Owner[r] = p /\ Enough(r, task[t].conf) THEN 0 ELSE proof[r]]
          /\ UNCHANGED troubles
       \/ /\ Trouble
          /\ task' = [task EXCEPT ![t].heard[p] = Error]
          /\ UNCHANGED proof
    /\ UNCHANGED <<world, current, forced, snap, cached, since, call, calls>>

Failed(c, p) == c.heard[p] = Error

(***************************************************************************)
(* The rest of _collect.  A profile that could not be read keeps its last  *)
(* volumes, without their status; one that was read has a volume for each  *)
(* root folder it lists.                                                   *)
(***************************************************************************)
Volumes(c) ==
    [r \in Roots |->
       IF Owner[r] \notin c.conf.enabled THEN None
       ELSE IF ~Failed(c, Owner[r])
            THEN IF c.heard[Owner[r]].folders[r] = "unlisted" THEN None ELSE Volume(r, c)
       ELSE IF c.prev = None \/ c.prev.vols[r] = None THEN None
       ELSE [c.prev.vols[r] EXCEPT !.status = "unknown", !.error = TRUE]]

Collected(c) ==
    LET vols == Volumes(c)
    IN [vols |-> vols, conf |-> c.conf,
        partial |-> \/ \E p \in c.conf.enabled : Failed(c, p)
                    \/ \E r \in Roots : vols[r] # None /\ vols[r].error
                    \/ c.conf.enabled # {} /\ \A r \in Roots : vols[r] = None]

Store(t) ==
    /\ task[t].at = "read"
    /\ \A p \in task[t].conf.enabled : task[t].heard[p] # None
    /\ LET s == Collected(task[t])
       IN /\ snap' = s
          /\ call' = [c \in Callers |-> IF call[c].at = "wait" /\ call[c].task = t
                                        THEN [call[c] EXCEPT !.at = "have", !.task = None, !.snap = s]
                                        ELSE call[c]]
    /\ cached' = 0
    /\ task' = [task EXCEPT ![t] = NoTask]
    /\ UNCHANGED <<world, current, forced, since, proof, budgets>>

-----------------------------------------------------------------------------
(* The callers. *)

CallOn(c, t, confs) ==
    call' = [call EXCEPT ![c] = [at |-> "wait", task |-> t, snap |-> None, confs |-> confs]]

\* what a caller may be told of when it joins a collection that has begun
Since(t) == {config} \union (IF task[t].at = "read" THEN {task[t].conf} ELSE {})

Create(c) ==
    LET t == CHOOSE x \in Tasks : x # current
    IN /\ task' = [task EXCEPT ![t] = [NoTask EXCEPT !.at = "new"]]
       /\ current' = t
       /\ CallOn(c, t, {config})

CollectionRuns == current # None /\ Running(current)

CallBegins(c) ==
    /\ call[c].at = "idle" /\ calls < CallBudget
    /\ calls' = calls + 1
    /\ UNCHANGED <<world, snap, cached, proof, troubles>>

\* a mutant: the cached snapshot of another topology
UsableAnyTopology == snap # None /\ cached < Cache

Usable == snap # None /\ snap.conf = config /\ cached < Cache

GetCached(c) ==
    /\ CallBegins(c) /\ Usable
    /\ call' = [call EXCEPT ![c] = [at |-> "have", task |-> None, snap |-> snap, confs |-> {config}]]
    /\ UNCHANGED <<task, current, forced, since>>

GetCollected(c) ==
    /\ CallBegins(c) /\ ~Usable
    /\ \/ /\ CollectionRuns /\ CallOn(c, current, Since(current))
          /\ UNCHANGED <<task, current, forced>>
       \/ ~CollectionRuns /\ Create(c) /\ forced' = FALSE
    /\ UNCHANGED since

\* refresh: a manual refresh that joins one is not throttled
RefreshJoins(c) ==
    /\ CallBegins(c)
    /\ CollectionRuns /\ (forced \/ since >= Throttle)
    /\ CallOn(c, current, Since(current))
    /\ forced' = TRUE
    /\ since' = IF forced THEN since ELSE 0
    /\ UNCHANGED <<task, current>>

RefreshCreates(c) ==
    /\ CallBegins(c)
    /\ ~CollectionRuns /\ since >= Throttle
    /\ Create(c)
    /\ forced' = TRUE /\ since' = 0

RefreshThrottled(c) ==
    /\ CallBegins(c)
    /\ since < Throttle /\ ~(CollectionRuns /\ forced)
    /\ UNCHANGED <<service, call>>

\* the response is rendered when the caller wakes up
Respond(c) ==
    /\ call[c].at = "have"
    /\ call' = [call EXCEPT ![c] = NoCall]
    /\ UNCHANGED <<world, service, proof, budgets>>

-----------------------------------------------------------------------------
(* The world. *)

\* a saved configuration replaces the runtime
Reconfigure ==
    /\ Trouble
    /\ \E conf \in Configs \ {config} :
          /\ config' = conf
          /\ call' = [c \in Callers |-> IF call[c].at = "wait"
                                        THEN [call[c] EXCEPT !.confs = @ \union {conf}] ELSE call[c]]
    /\ UNCHANGED <<disk, folders, service, proof, calls>>

Disk ==
    /\ Trouble
    /\ \/ \E m \in Mounts, l \in Changes : disk[m] # l /\ disk' = [disk EXCEPT ![m] = l] /\ UNCHANGED folders
       \/ \E r \in Roots, f \in Folder : folders[r] # f /\ folders' = [folders EXCEPT ![r] = f] /\ UNCHANGED disk
    /\ UNCHANGED <<config, service, call, proof, calls>>

Older(age, most) == IF age < most THEN age + 1 ELSE most
OlderVolume(v) == IF v = None THEN None ELSE [v EXCEPT !.age = Older(@, Fresh + 1)]
OlderSnap(s) == IF s = None THEN None
                ELSE [s EXCEPT !.vols = [r \in Roots |-> OlderVolume(s.vols[r])]]

\* a caller whose answer is there wakes up in the next turn of the loop, before time counts
Tick ==
    /\ \A c \in Callers : call[c].at # "have"
    /\ snap' = OlderSnap(snap)
    /\ task' = [t \in Tasks |-> IF task[t].at # "read" THEN task[t]
                                ELSE [task[t] EXCEPT !.age = Older(@, Fresh + 1),
                                                     !.prev = OlderSnap(@)]]
    /\ cached' = Older(cached, Cache) /\ since' = Older(since, Throttle)
    /\ proof' = [r \in Roots |-> Older(proof[r], Fresh + 1)]
    /\ UNCHANGED <<world, current, forced, call, budgets>>

Init ==
    /\ config \in Configs
    /\ disk = Start /\ folders = [r \in Roots |-> "open"]
    /\ task = [t \in Tasks |-> NoTask]
    /\ current = None /\ forced = FALSE
    /\ snap = None /\ cached = Cache /\ since = Throttle
    /\ call = [c \in Callers |-> NoCall]
    /\ proof = [r \in Roots |-> Fresh + 1]
    /\ calls = 0 /\ troubles = 0

Next ==
    \/ \E t \in Tasks : Begin(t) \/ Store(t)
    \/ \E t \in Tasks, p \in Profiles : ReadProfile(t, p)
    \/ \E c \in Callers : \/ GetCached(c) \/ GetCollected(c)
                          \/ RefreshJoins(c) \/ RefreshCreates(c) \/ RefreshThrottled(c)
                          \/ Respond(c)
    \/ Reconfigure \/ Disk \/ Tick

Spec == Init /\ [][Next]_vars

-----------------------------------------------------------------------------
Snapshots == [vols : [Roots -> Observations \union {None}], partial : BOOLEAN, conf : Configs]

(* Every variable keeps its shape: what a collection knows is known of the *)
(* profiles of its own configuration, and ages stay within their bounds.   *)
TypeOK ==
    /\ config \in Configs /\ disk \in [Mounts -> Readings] /\ folders \in [Roots -> Folder]
    /\ \A t \in Tasks : /\ task[t].at \in {"new", "read", "done"} /\ task[t].age \in Ages
                        /\ task[t].at = "read" => DOMAIN task[t].heard = task[t].conf.enabled
    /\ current \in Tasks \union {None} /\ forced \in BOOLEAN
    /\ snap \in Snapshots \union {None}
    /\ cached \in 0..Cache /\ since \in 0..Throttle
    /\ \A c \in Callers : /\ call[c].at \in {"idle", "wait", "have"}
                          /\ call[c].at = "have" => call[c].snap \in Snapshots

(* The headline a response shows (api/storage.py from_snapshot) says       *)
(* "healthy" only if, within the freshness of 120 seconds, every root of   *)
(* every profile that was enabled has been seen on a mount above the       *)
(* warning threshold and not reported inaccessible, or has been seen to be *)
(* no longer listed: over failed reads, observations kept from an earlier  *)
(* collection, slow collections and callers that wait.                     *)
HealthyIsProven ==
    \A c \in Callers :
       call[c].at = "have" /\ Headline(call[c].snap) = "healthy" =>
          \A r \in Roots : Owner[r] \in call[c].snap.conf.enabled =>
             proof[r] <= Fresh

(* An answer is of one topology, with the volumes it kept, and that is the *)
(* topology of the runtime at some moment of the call, or the one that the *)
(* collection it joined had begun with.                                    *)
AnswersAreCurrent ==
    \A c \in Callers :
       call[c].at = "have" =>
          /\ call[c].snap.conf \in call[c].confs
          /\ \A r \in Roots : call[c].snap.vols[r] # None =>
                call[c].snap.vols[r].of = call[c].snap.conf

=============================================================================
