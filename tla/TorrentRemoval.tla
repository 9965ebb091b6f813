--------------------------- MODULE TorrentRemoval ---------------------------
(***************************************************************************)
(* One fleet removal of torrents with their data (MultiDownloaderClient    *)
(* .delete_hashes and the adapters of qBittorrent, Transmission, Deluge    *)
(* and rTorrent, infrastructure/downloaders.py and clients.py): read every *)
(* inventory, assess it, let rTorrent clients confirm their membership,    *)
(* then let all clients remove concurrently. Every RPC is a step and may   *)
(* fail; meanwhile users add and move torrents. The shared execution lock  *)
(* admits one removal at a time; a failed one is tried again.              *)
(***************************************************************************)
EXTENDS ContentSafety, Integers

CONSTANTS Clients, Hashes,
          Order,        \* the configured targets, a sequence of Clients
          Places,       \* data paths torrents are stored at
          Fleets,       \* initial fleets: the torrents each client holds
          KindChoices, PolicyChoices, \* adapter and removal policy of each client
          RequestChoices, \* sets of hashes a cascade asks for
          Attempts,     \* bound: removals explored
          UserBudget, FaultBudget  \* bounds: user actions and failed RPCs

Kinds == {"qbittorrent", "transmission", "deluge", "rtorrent"}
Policies == {"immediate", "keep", "defer"}
Pairs == Clients \X Hashes

(***************************************************************************)
(* A torrent is open (files known), closed (rTorrent reports no base       *)
(* path), bare (no file list yet) or empty (no payload, proved by its      *)
(* counters).                                                              *)
(***************************************************************************)
Torrent == [at : Places, state : {"open", "closed", "bare", "empty"}]

\* what a client answers when its inventory is read
Inventories == [failed : {FALSE}, scopes : SUBSET [hash : Hashes, paths : SUBSET Seq(STRING),
                                                   uncertain : BOOLEAN, closed : BOOLEAN]]

ASSUME RemovalAssumption ==
    /\ IsFiniteSet(Clients) /\ IsFiniteSet(Hashes)
    /\ Order \in Seq(Clients) /\ {Order[i] : i \in DOMAIN Order} = Clients
    /\ Places \subseteq Seq(STRING)
    /\ \A f \in Fleets :
         /\ f = [c \in Clients |-> f[c]]
         /\ \A c \in Clients : DOMAIN f[c] \subseteq Hashes /\ f[c] \in [DOMAIN f[c] -> Torrent]
    /\ KindChoices \subseteq [Clients -> Kinds]
    /\ PolicyChoices \subseteq [Clients -> Policies]
    /\ RequestChoices \subseteq (SUBSET Hashes) \ {{}}
    /\ {Attempts, UserBudget, FaultBudget} \subseteq Nat
    /\ Unread # Unreadable
    /\ {Unread, Unreadable} \cap Inventories = {}
    /\ None \notin SafetyReasons \union {"seeding_policy"}

VARIABLES
    kind, policy,  \* configuration of each client
    fleet,         \* the torrents each client holds: [Clients -> [held -> Torrent]]
    pc,            \* stage of the removal
    request, dry,  \* its hashes, and whether it is a dry run
    inv,           \* inventories read
    evidence,      \* the fleet assessment
    turn, stage, listed, \* the rTorrent recheck: target, step, first listing
    step,          \* stage of each client's removal
    left,          \* hashes the client has still to handle
    found,         \* what the client's adapter saw of each requested hash
    results,       \* DownloaderRemovalResult records
    tries, users, faults, \* consumed budgets
    seen,          \* history: <<client, hash, place>> the evidence rests on
    touched,       \* history: torrents this removal acted on
    moved,         \* history: torrents a user added or moved during it
    hit            \* history: <<torrent, other>>: its removal hit the other's data

config == <<kind, policy>>
call == <<request, dry>>
reading == <<inv, evidence>>
recheck == <<turn, stage, listed>>
removing == <<step, left, found>>
budgets == <<tries, users, faults>>
history == <<seen, touched, moved, hit>>
vars == <<config, fleet, pc, call, reading, recheck, removing, results, budgets, history>>

Held(c) == DOMAIN fleet[c]
Parent(p) == SubSeq(p, 1, Len(p) - 1)
Has(x) == x[2] \in Held(x[1])
At(x) == fleet[x[1]][x[2]].at

(***************************************************************************)
(* Results.                                                                *)
(***************************************************************************)
Result(c, h, existed, skip, error) ==
    [client |-> c, hash |-> h, existed |-> existed, skip |-> skip, error |-> error]
Unverifiable(c) ==
    {Result(c, h, "unknown", "ownership_unverifiable", FALSE) : h \in request}

\* a seeding policy keeps the torrent; ready: the thresholds of DEFER are met
SeedingReason(c, ready) ==
    IF policy[c] = "immediate" \/ (policy[c] = "defer" /\ ready) THEN None
    ELSE "seeding_policy"

(***************************************************************************)
(* list_content_inventory of the adapters.  qBittorrent, Transmission and  *)
(* Deluge report the content, the directory above it when its files are    *)
(* not known yet, and nothing when the counters prove that there is none.  *)
(* rTorrent reports base paths, derived ones for closed torrents.          *)
(***************************************************************************)
ListedScope(h, t) ==
    CASE t.state = "open"  -> Scope(h, {t.at}, FALSE, FALSE)
      [] t.state = "bare"  -> Scope(h, {Parent(t.at)}, TRUE, FALSE)
      [] t.state = "empty" -> Scope(h, {}, FALSE, FALSE)

RTorrentScope(h, t) ==
    CASE t.state = "open"   -> Scope(h, {t.at}, FALSE, FALSE)
      [] t.state = "closed" -> Scope(h, {t.at}, TRUE, TRUE)
      [] t.state = "bare"   -> Scope(h, {Parent(t.at)}, TRUE, FALSE)

ScopeOf(c, h) ==
    IF kind[c] = "rtorrent" THEN RTorrentScope(h, fleet[c][h]) ELSE ListedScope(h, fleet[c][h])

InventoryOf(c) == [failed |-> FALSE, scopes |-> {ScopeOf(c, h) : h \in Held(c)}]
SeenNow(c) == {<<c, h, fleet[c][h].at>> : h \in {k \in Held(c) : fleet[c][k].state # "empty"}}
Forget(c) == {s \in seen : s[1] # c}

Fault == faults < FaultBudget /\ faults' = faults + 1

(***************************************************************************)
(* delete_hashes.                                                          *)
(***************************************************************************)
Start ==
    /\ pc = "idle" /\ tries < Attempts
    /\ \E hs \in RequestChoices, d \in BOOLEAN : request' = hs /\ dry' = d
    /\ pc' = "reading"
    /\ tries' = tries + 1 /\ moved' = {}
    /\ UNCHANGED <<config, fleet, reading, recheck, removing, results, users, faults,
                   seen, touched, hit>>

ReadInventory(c) ==
    /\ pc = "reading" /\ inv[c] = Unread
    /\ \/ /\ inv' = [inv EXCEPT ![c] = InventoryOf(c)]
          /\ seen' = seen \union SeenNow(c)
          /\ UNCHANGED faults
       \/ Fault /\ inv' = [inv EXCEPT ![c] = Unreadable] /\ UNCHANGED seen
    /\ UNCHANGED <<config, fleet, pc, call, evidence, recheck, removing, results,
                   tries, users, touched, moved, hit>>

AssessFleet ==
    /\ pc = "reading" /\ \A c \in Clients : inv[c] # Unread
    /\ evidence' = Assess(inv, request, {})
    /\ pc' = "rechecking"
    /\ UNCHANGED <<config, fleet, call, inv, recheck, removing, results, budgets, history>>

(***************************************************************************)
(* _recheck_content_assessment for the rTorrent targets, one after the     *)
(* other: a changed membership is read again once and must then be stable. *)
(***************************************************************************)
Observed(a, c) == {x[2] : x \in {y \in a.observed : y[1] = c}}
ScopesOf(a, c) == {s \in a.scopes : s[1][1] = c /\ s[1][2] \in request}

NextTarget == turn' = turn + 1 /\ stage' = "list" /\ listed' = {}

RecheckSkip ==
    /\ pc = "rechecking" /\ turn <= Len(Order) /\ stage = "list"
    /\ kind[Order[turn]] # "rtorrent" \/ ~evidence.complete
    /\ NextTarget
    /\ UNCHANGED <<config, fleet, pc, call, reading, removing, results, budgets, history>>

RecheckList ==
    LET c == Order[turn] IN
    /\ pc = "rechecking" /\ turn <= Len(Order) /\ stage = "list"
    /\ kind[c] = "rtorrent" /\ evidence.complete
    /\ \/ /\ IF Held(c) = Observed(evidence, c) THEN NextTarget
             ELSE stage' = "inventory" /\ listed' = Held(c) /\ UNCHANGED turn
          /\ UNCHANGED <<evidence, faults>>
       \/ Fault /\ evidence' = Incomplete /\ NextTarget
    /\ UNCHANGED <<config, fleet, pc, call, inv, removing, results, tries, users, history>>

RecheckInventory ==
    LET c == Order[turn] IN
    /\ pc = "rechecking" /\ stage = "inventory"
    /\ \/ /\ inv' = [inv EXCEPT ![c] = InventoryOf(c)]
          /\ seen' = Forget(c) \union SeenNow(c)
          /\ UNCHANGED faults
       \/ Fault /\ inv' = [inv EXCEPT ![c] = Unreadable] /\ UNCHANGED seen
    /\ stage' = "final"
    /\ UNCHANGED <<config, fleet, pc, call, evidence, turn, listed, removing, results,
                   tries, users, touched, moved, hit>>

\* the refreshed evidence is stable: no target came, left or changed its scope
Stable(fresh, c, final) ==
    /\ listed = Observed(fresh, c) /\ final = Observed(fresh, c)
    /\ Observed(evidence, c) \cap request = Observed(fresh, c) \cap request
    /\ ScopesOf(evidence, c) = ScopesOf(fresh, c)

RecheckFinal ==
    LET c == Order[turn]
        fresh == Refresh(evidence, c, inv[c], request)
    IN
    /\ pc = "rechecking" /\ stage = "final"
    /\ \/ /\ evidence' = IF fresh.complete /\ Stable(fresh, c, Held(c))
                         THEN fresh ELSE Incomplete
          /\ UNCHANGED faults
       \/ Fault /\ evidence' = Incomplete
    /\ NextTarget
    /\ UNCHANGED <<config, fleet, pc, call, inv, removing, results, tries, users, history>>

\* no client may remove anything unless the whole fleet is accounted for
Authorize ==
    /\ pc = "rechecking" /\ turn > Len(Order)
    /\ IF evidence.complete
       THEN /\ pc' = "removing"
            /\ step' = [c \in Clients |-> "look"]
            /\ UNCHANGED results
       ELSE /\ pc' = "done"
            /\ results' = Unverifiable(None)
            /\ UNCHANGED step
    /\ UNCHANGED <<config, fleet, call, reading, recheck, left, found, budgets, history>>

(***************************************************************************)
(* Parts of the adapters.  found[c] holds <<hash, reason>> for every       *)
(* requested torrent the client listed.                                    *)
(***************************************************************************)
Goto(c, s) == step' = [step EXCEPT ![c] = s]
Answer(c, rs) == results' = results \union rs

\* a mutant: a failed adapter reports the hashes as absent
RaisedAbsent(c) ==
    /\ Goto(c, "done")
    /\ Answer(c, {Result(c, h, "no", None, FALSE) : h \in request})
\* a mutant: a failed adapter reports the hashes as kept
RaisedSkipped(c) == Goto(c, "done") /\ Answer(c, Unverifiable(c))
\* the adapter raised: every hash of the client is reported as an error
Raised(c) ==
    /\ Goto(c, "done")
    /\ Answer(c, {Result(c, h, "unknown", None, TRUE) : h \in request})

FoundHashes(c) == {f[1] : f \in found[c]}
Answers(c) ==
    {Result(c, f[1], "yes", f[2], FALSE) : f \in found[c]}
      \union {Result(c, h, "no", None, FALSE) : h \in request \ FoundHashes(c)}

\* removing the data at place p hits every torrent whose data overlaps it
Victims(x, p) ==
    {y \in {z \in Pairs : Has(z)} : y # x /\ fleet[y[1]][y[2]].state # "empty"
                /\ (Within(At(y), p) \/ Within(p, At(y)))}
HitBy(x, p) == {<<x, y>> : y \in {v \in Victims(x, p) : <<v[1], v[2], At(v)>> \in seen}}

Without(c, hs) == [fleet EXCEPT ![c] = [h \in Held(c) \ hs |-> fleet[c][h]]]

(***************************************************************************)
(* qBittorrent: one read of the requested torrents, whose content path     *)
(* must be the one recorded, then one removal call.                        *)
(***************************************************************************)
QbittorrentReason(c, h, ready) ==
    LET x == <<c, h>>
        reason == SafetyReason(evidence, x)
    IN IF reason # None THEN reason
       ELSE IF fleet[c][h].state # "open" \/ ~ScopeMatches(evidence, x, At(x), TRUE)
            THEN "ownership_unverifiable"
       ELSE SeedingReason(c, ready)

QbittorrentLook(c) ==
    /\ pc = "removing" /\ step[c] = "look" /\ kind[c] = "qbittorrent"
    /\ \/ \E ready \in BOOLEAN :
            /\ found' = [found EXCEPT ![c] =
                 {<<h, QbittorrentReason(c, h, ready)>> : h \in request \cap Held(c)}]
            /\ left' = [left EXCEPT ![c] =
                 {h \in request \cap Held(c) : QbittorrentReason(c, h, ready) = None}]
            /\ Goto(c, "remove")
            /\ UNCHANGED <<results, faults>>
       \/ Fault /\ Raised(c) /\ UNCHANGED <<found, left>>
    /\ UNCHANGED <<config, fleet, pc, call, reading, recheck, tries, users, history>>

(***************************************************************************)
(* Transmission: one read of the requested torrents, one removal call.     *)
(***************************************************************************)
TransmissionReason(c, h, ready) ==
    LET x == <<c, h>>
        reason == SafetyReason(evidence, x)
    IN IF reason # None THEN reason
       ELSE IF SeedingReason(c, ready) # None THEN SeedingReason(c, ready)
       ELSE IF ScopeMatches(evidence, x, Parent(At(x)), FALSE) THEN None
       ELSE "ownership_unverifiable"

TransmissionLook(c) ==
    /\ pc = "removing" /\ step[c] = "look" /\ kind[c] = "transmission"
    /\ \/ \E ready \in BOOLEAN :
            /\ found' = [found EXCEPT ![c] =
                 {<<h, TransmissionReason(c, h, ready)>> : h \in request \cap Held(c)}]
            /\ left' = [left EXCEPT ![c] =
                 {h \in request \cap Held(c) : TransmissionReason(c, h, ready) = None}]
            /\ Goto(c, "remove")
            /\ UNCHANGED <<results, faults>>
       \/ Fault /\ Raised(c) /\ UNCHANGED <<found, left>>
    /\ UNCHANGED <<config, fleet, pc, call, reading, recheck, tries, users, history>>

\* Deluge reads the session first and the torrents' status after it
DelugeLook(c) ==
    /\ pc = "removing" /\ step[c] = "look" /\ kind[c] = "deluge"
    /\ \/ /\ left' = [left EXCEPT ![c] = request \cap Held(c)]
          /\ Goto(c, "status")
          /\ UNCHANGED <<results, faults>>
       \/ Fault /\ Raised(c) /\ UNCHANGED left
    /\ UNCHANGED <<config, fleet, pc, call, reading, recheck, found, tries, users, history>>

DelugeReason(c, h, ready, read) ==
    LET x == <<c, h>>
        reason == SafetyReason(evidence, x)
    IN IF reason # None THEN reason
       ELSE IF SeedingReason(c, ready) # None THEN SeedingReason(c, ready)
       ELSE IF read /\ Has(x) /\ ScopeMatches(evidence, x, Parent(At(x)), FALSE) THEN None
       ELSE "ownership_unverifiable"

\* without the status a DEFER client cannot decide and raises; others go on
DelugeStatus(c) ==
    /\ pc = "removing" /\ step[c] = "status"
    /\ \/ \E ready, read \in BOOLEAN :
            /\ IF read THEN UNCHANGED faults
               ELSE Fault /\ policy[c] # "defer" /\ left[c] # {}
            /\ found' = [found EXCEPT ![c] =
                 {<<h, DelugeReason(c, h, ready /\ read, read)>> : h \in left[c]}]
            /\ left' = [left EXCEPT ![c] =
                 {h \in @ : DelugeReason(c, h, ready /\ read, read) = None}]
            /\ Goto(c, "remove")
            /\ UNCHANGED results
       \/ /\ policy[c] = "defer" /\ left[c] # {}
          /\ Fault /\ Raised(c) /\ UNCHANGED <<found, left>>
    /\ UNCHANGED <<config, fleet, pc, call, reading, recheck, tries, users, history>>

(***************************************************************************)
(* The removal call of these three adapters: one RPC for all torrents,     *)
(* with their data.  A failed call may have been carried out in part.      *)
(***************************************************************************)
CarryOut(c, hs) ==
    LET gone == {<<c, h>> : h \in hs \cap Held(c)} IN
    /\ fleet' = Without(c, hs)
    /\ touched' = touched \union gone
    /\ hit' = hit \union UNION {HitBy(x, At(x)) : x \in gone}

RemoveCall(c) ==
    /\ pc = "removing" /\ step[c] = "remove"
    /\ IF dry \/ left[c] = {}
       THEN /\ Goto(c, "done") /\ Answer(c, Answers(c))
            /\ UNCHANGED <<fleet, touched, hit, faults>>
       ELSE \/ CarryOut(c, left[c]) /\ Goto(c, "done") /\ Answer(c, Answers(c)) /\ UNCHANGED faults
            \/ Fault /\ Raised(c) /\ \E hs \in SUBSET left[c] : CarryOut(c, hs)
    /\ UNCHANGED <<config, pc, call, reading, recheck, left, found, tries, users, seen, moved>>

(***************************************************************************)
(* rTorrent: the membership must be that of the evidence; then each        *)
(* torrent is decided, located, closed, its data removed and its entry     *)
(* erased, one RPC after the other.  Any failure ends the adapter's call.  *)
(***************************************************************************)
RTorrentLook(c) ==
    /\ pc = "removing" /\ step[c] = "look" /\ kind[c] = "rtorrent"
    /\ \/ /\ IF Held(c) = Observed(evidence, c)
             THEN /\ left' = [left EXCEPT ![c] = request \cap Held(c)]
                  /\ Goto(c, "decide") /\ UNCHANGED results
             ELSE /\ Goto(c, "done") /\ UNCHANGED left
                  /\ Answer(c, {Result(c, h, IF h \in Held(c) THEN "yes" ELSE "unknown",
                                       "ownership_unverifiable", FALSE) : h \in request})
          /\ UNCHANGED faults
       \/ Fault /\ Raised(c) /\ UNCHANGED left
    /\ UNCHANGED <<config, fleet, pc, call, reading, recheck, found, tries, users, history>>

\* the hash handled next, in a fixed order
Current(c) == CHOOSE h \in left[c] : TRUE
Settle(c, reason) ==
    /\ found' = [found EXCEPT ![c] = @ \union {<<Current(c), reason>>}]
    /\ left' = [left EXCEPT ![c] = @ \ {Current(c)}]
    /\ Goto(c, "decide")

RTorrentDecide(c) ==
    LET x == <<c, Current(c)>> IN
    /\ pc = "removing" /\ step[c] = "decide" /\ left[c] # {}
    /\ \/ /\ \E ready \in BOOLEAN :
               LET reason == IF SafetyReason(evidence, x) # None THEN SafetyReason(evidence, x)
                             ELSE SeedingReason(c, ready)
               IN IF reason # None THEN Settle(c, reason)
                  ELSE Goto(c, "locate") /\ UNCHANGED <<left, found>>
          /\ UNCHANGED <<results, faults>>
       \/ policy[c] = "defer" /\ Fault /\ Raised(c) /\ UNCHANGED <<left, found>>
    /\ UNCHANGED <<config, fleet, pc, call, reading, recheck, tries, users, history>>

\* the base path is read again and must be the one recorded; a path that
\* cannot be read or trusted keeps the torrent
RTorrentLocate(c) ==
    LET x == <<c, Current(c)>>
        good == /\ Has(x) /\ fleet[c][x[2]].state = "open"
                /\ ScopeMatches(evidence, x, At(x), TRUE)
    IN
    /\ pc = "removing" /\ step[c] = "locate"
    /\ \/ /\ IF ~good THEN Settle(c, "ownership_unverifiable")
             ELSE IF dry THEN Settle(c, None)
             ELSE Goto(c, "close") /\ UNCHANGED <<left, found>>
          /\ UNCHANGED faults
       \/ Fault /\ Settle(c, "ownership_unverifiable")
    /\ UNCHANGED <<config, fleet, pc, call, reading, recheck, results, tries, users, history>>

\* d.stop and d.close; a closed torrent no longer reports its base path
RTorrentClose(c) ==
    LET x == <<c, Current(c)>> IN
    /\ pc = "removing" /\ step[c] = "close"
    /\ \/ /\ Has(x)
          /\ fleet' = [fleet EXCEPT ![c][x[2]].state = "closed"]
          /\ touched' = touched \union {x}
          /\ \/ Goto(c, "rm") /\ UNCHANGED <<results, faults>>
             \/ Fault /\ Raised(c)
       \/ /\ ~Has(x) \/ faults < FaultBudget
          /\ Raised(c)
          /\ IF Has(x) THEN Fault ELSE UNCHANGED faults
          /\ UNCHANGED <<fleet, touched>>
    /\ UNCHANGED <<config, pc, call, reading, recheck, left, found, tries, users, seen, moved, hit>>

\* /bin/rm -rf on the path that was located, wherever the torrent is now
RTorrentRemoveData(c) ==
    LET x == <<c, Current(c)>>
        path == CHOOSE p \in Places : ScopeMatches(evidence, x, p, TRUE)
    IN
    /\ pc = "removing" /\ step[c] = "rm"
    /\ \/ /\ hit' = hit \union HitBy(x, path)
          /\ Goto(c, "erase") /\ UNCHANGED <<results, faults>>
       \/ /\ hit' \in {hit, hit \union HitBy(x, path)}
          /\ Fault /\ Raised(c)
    /\ UNCHANGED <<config, fleet, pc, call, reading, recheck, left, found, tries, users, seen, touched, moved>>

RTorrentErase(c) ==
    LET x == <<c, Current(c)>> IN
    /\ pc = "removing" /\ step[c] = "erase"
    /\ \/ Has(x) /\ fleet' = Without(c, {x[2]}) /\ Settle(c, None) /\ UNCHANGED <<results, faults>>
       \/ /\ IF Has(x) THEN Fault ELSE UNCHANGED faults
          /\ Raised(c)
          /\ fleet' = Without(c, {x[2]}) \/ UNCHANGED fleet
          /\ UNCHANGED <<left, found>>
    /\ UNCHANGED <<config, pc, call, reading, recheck, tries, users, history>>

RTorrentDone(c) ==
    /\ pc = "removing" /\ step[c] = "decide" /\ left[c] = {}
    /\ Goto(c, "done") /\ Answer(c, Answers(c))
    /\ UNCHANGED <<config, fleet, pc, call, reading, recheck, left, found, budgets, history>>

Gather ==
    /\ pc = "removing" /\ \A c \in Clients : step[c] = "done"
    /\ pc' = "done"
    /\ UNCHANGED <<config, fleet, call, reading, recheck, removing, results, budgets, history>>

\* the cascade takes the results and the call's data are gone; a job or a delivery may ask again
Return ==
    /\ pc = "done"
    /\ pc' = "idle" /\ request' = {} /\ dry' = FALSE
    /\ inv' = [c \in Clients |-> Unread] /\ evidence' = Incomplete
    /\ turn' = 1 /\ stage' = "list" /\ listed' = {}
    /\ left' = [c \in Clients |-> {}] /\ found' = [c \in Clients |-> {}]
    /\ results' = {} /\ seen' = {} /\ touched' = {} /\ hit' = {}
    /\ UNCHANGED <<config, fleet, step, budgets, moved>>

(***************************************************************************)
(* Users of the download clients, who take no lock.                        *)
(***************************************************************************)
ByUser == users < UserBudget /\ users' = users + 1

UserAdds(c, h) ==
    /\ ByUser /\ h \notin Held(c)
    /\ \E p \in Places :
         fleet' = [fleet EXCEPT ![c] =
                     [k \in Held(c) \union {h} |->
                        IF k = h THEN [at |-> p, state |-> "open"] ELSE fleet[c][k]]]
    /\ moved' = moved \union {<<c, h>>}
    /\ UNCHANGED <<config, pc, call, reading, recheck, removing, results, tries, faults,
                   seen, touched, hit>>

UserMoves(c, h) ==
    /\ ByUser /\ h \in Held(c)
    /\ \E p \in {q \in Places : Parent(q) # Parent(At(<<c, h>>))} :
         fleet' = [fleet EXCEPT ![c][h].at = p]
    /\ moved' = moved \union {<<c, h>>}
    /\ UNCHANGED <<config, pc, call, reading, recheck, removing, results, tries, faults,
                   seen, touched, hit>>

UserRemoves(c, h) ==
    /\ ByUser /\ h \in Held(c)
    /\ fleet' = Without(c, {h})
    /\ moved' = moved \union {<<c, h>>}
    /\ UNCHANGED <<config, pc, call, reading, recheck, removing, results, tries, faults,
                   seen, touched, hit>>

Init ==
    /\ kind \in KindChoices /\ policy \in PolicyChoices /\ fleet \in Fleets
    /\ \A c \in Clients : \A h \in Held(c) :   \* states the adapter can report
          fleet[c][h].state # IF kind[c] = "rtorrent" THEN "empty" ELSE "closed"
    /\ pc = "idle" /\ request = {} /\ dry = FALSE
    /\ inv = [c \in Clients |-> Unread] /\ evidence = Incomplete
    /\ turn = 1 /\ stage = "list" /\ listed = {}
    /\ step = [c \in Clients |-> "done"]
    /\ left = [c \in Clients |-> {}] /\ found = [c \in Clients |-> {}]
    /\ results = {} /\ seen = {} /\ touched = {} /\ moved = {}
    /\ tries = 0 /\ users = 0 /\ faults = 0 /\ hit = {}

Fleet == Start \/ AssessFleet \/ RecheckSkip \/ RecheckList \/ RecheckInventory
           \/ RecheckFinal \/ Authorize \/ Gather \/ Return
Adapter(c) ==
    \/ ReadInventory(c) \/ QbittorrentLook(c) \/ TransmissionLook(c) \/ DelugeLook(c)
    \/ DelugeStatus(c) \/ RemoveCall(c) \/ RTorrentLook(c) \/ RTorrentDecide(c) \/ RTorrentLocate(c)
    \/ RTorrentClose(c) \/ RTorrentRemoveData(c) \/ RTorrentErase(c) \/ RTorrentDone(c)
User(c, h) == UserAdds(c, h) \/ UserMoves(c, h) \/ UserRemoves(c, h)

Next ==
    \/ Fleet
    \/ \E c \in Clients : Adapter(c)
    \/ \E c \in Clients, h \in Hashes : User(c, h)

Spec == Init /\ [][Next]_vars

-----------------------------------------------------------------------------
Existences == {"yes", "no", "unknown"}
Skips == SafetyReasons \union {"seeding_policy", None}

\* Every variable has its type: torrents a client holds are known hashes at
\* known places, and a result names a configured client and a known reason.
TypeOK ==
    /\ kind \in [Clients -> Kinds] /\ policy \in [Clients -> Policies]
    /\ DOMAIN fleet = Clients
    /\ \A c \in Clients : Held(c) \subseteq Hashes /\ fleet[c] \in [Held(c) -> Torrent]
    /\ pc \in {"idle", "reading", "rechecking", "removing", "done"}
    /\ request \subseteq Hashes /\ dry \in BOOLEAN
    /\ step \in [Clients -> {"look", "status", "remove", "decide", "locate", "close",
                              "rm", "erase", "done"}]
    /\ left \in [Clients -> SUBSET Hashes]
    /\ found \in [Clients -> SUBSET (Hashes \X Skips)]
    /\ results \subseteq [client : Clients \union {None}, hash : Hashes,
                          existed : Existences, skip : Skips, error : BOOLEAN]
    /\ touched \subseteq Pairs /\ moved \subseteq Pairs

(***************************************************************************)
(* The removal of one torrent never hits data that another torrent of the  *)
(* fleet held when the evidence was read, in whichever client and however  *)
(* the removals interleave (data_safety.py, _recheck_content_assessment).  *)
(* The exception is a torrent that its user moves between the evidence and *)
(* the removal in a client that removes data by the torrent's present      *)
(* place: the check of Transmission and Deluge compares directories only,  *)
(* and qBittorrent's is over before its removal call.                      *)
(***************************************************************************)
NoSiblingHit ==
    \A e \in hit : e[1] \in moved /\ kind[e[1][1]] # "rtorrent"

(***************************************************************************)
(* What the cascade concludes from the results (strategies.py              *)
(* _cleanup_hashes lets dependent deletions continue): nothing failed,     *)
(* every existence is known and only seeding policies retained anything.   *)
(***************************************************************************)
Ready ==
    \A r \in results : ~r.error /\ r.existed # "unknown" /\ r.skip \in {None, "seeding_policy"}

(***************************************************************************)
(* When the results let the cascade continue, every requested torrent is   *)
(* gone from every client or retained untouched: no entry is left whose    *)
(* data was removed, by this attempt or by an earlier one that failed half *)
(* way.  Torrents a user added or moved meanwhile are excepted.            *)
(***************************************************************************)
ReadyMeansSettled ==
    pc = "done" /\ Ready /\ ~dry =>
        \A c \in Clients, h \in request :
            \/ <<c, h>> \in moved
            \/ h \notin Held(c)
            \/ /\ <<c, h>> \notin touched
               /\ fleet[c][h].state # "closed"
               /\ Result(c, h, "yes", "seeding_policy", FALSE) \in results

(***************************************************************************)
(* A torrent the results call retained was not touched, and one they call  *)
(* absent is not there: the results of concurrent adapters tell what each  *)
(* of them did (DownloaderRemovalResult).                                  *)
(***************************************************************************)
ResultsAreTrue ==
    \A r \in results :
        LET x == <<r.client, r.hash>> IN
        /\ r.skip # None => x \notin touched
        /\ r.existed = "no" /\ x \notin moved => r.hash \notin Held(r.client)
=============================================================================
