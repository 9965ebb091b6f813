---------------------------- MODULE MCReadModels ----------------------------
(***************************************************************************)
(* The two views an operator decides on share no state and never call each *)
(* other, so one run explores the behaviours of each while the other one   *)
(* is at rest.                                                             *)
(***************************************************************************)
EXTENDS CleanupCandidates, TLC

CONSTANTS Profiles, Roots, Mounts, Owner, Under, Configs, Callers, Error, Throttle, Cache, Fresh,
          Start, Changes, CallBudget, DiskBudget,
          p1, p2, r1, r2, m0, m1, g1, g2,
          i1, i2, x1, x2, x3, u1, u2, u3, c1, c2, h1

VARIABLES config, disk, folders, task, current, forced, snap, cached, since, call, proof, calls,
          diskTroubles,
          view   \* the one that is explored

overviewVars == <<config, disk, folders, task, current, forced, snap, cached, since, call, proof, calls,
                 diskTroubles>>

Overview == INSTANCE Storage WITH TroubleBudget <- DiskBudget, troubles <- diskTroubles

ASSUME OverviewAssumption == Overview!StorageAssumption

\* A profile on a mount of its own below a shared one, and a profile on the shared one.
RootOwner == (r1 :> p1) @@ (r2 :> p2)
RootMounts == (r1 :> <<m1, m0>>) @@ (r2 :> <<m0>>)
AllHealthy == (m0 :> 2) @@ (m1 :> 2)
EqualCallers == Permutations({g1, g2})
SomeConfigs ==
    {[enabled |-> {p1, p2}, address |-> a, warning |-> 2, critical |-> 1] : a \in {1, 2}}

\* A film that two Radarr profiles may hold, a show, and a torrent that two clients may hold.
KindOf == (i1 :> "movie") @@ (i2 :> "series") @@ (x1 :> "movie") @@ (x2 :> "movie") @@ (x3 :> "series")
IdsOf == (i1 :> [tmdb |-> 1, imdb |-> 1]) @@ (i2 :> [tmdb |-> None, imdb |-> 2])
         @@ (x1 :> [tmdb |-> 1, imdb |-> None]) @@ (x2 :> [tmdb |-> 1, imdb |-> 1])
         @@ (x3 :> [tmdb |-> 2, imdb |-> 2])
Row(freshness, owner, ratio) ==
    [freshness |-> freshness, owner |-> owner, state |-> "seeding", ratio |-> ratio, minutes |-> None,
     category |-> None, tags |-> {}]
SomeRows == {Row("fresh", "managed", 2), Row("fresh", "managed", 0), Row("stale", "managed", 2),
             Row("fresh", "conflict", 2)}
Seeding(g) == (x1 :> {h1}) @@ (x2 :> {h1}) @@ (x3 :> g)
SomeStarts ==
    [accounts : {{u1, u2}, {u1, u2, u3}}, played : {{}, {<<u1, i1>>, <<u2, i2>>}},
     grabs : {Seeding({h1}), Seeding({Unnamed})},
     rows : {[t \in {c1, c2} \X {h1} |-> IF t[1] = c1 THEN Row("fresh", "managed", 2) ELSE None]}]
StopPolicy == [enabled |-> TRUE, mode |-> "all", minRatio |-> 1, minMinutes |-> None,
               inCategories |-> {}, exCategories |-> {}, inTags |-> {}, exTags |-> {}]

-----------------------------------------------------------------------------
\* The configurations differ in an address, so one stands for both; the
\* evidence at rest is one of the beginnings of the list.
ViewsInit ==
    /\ Init /\ Overview!Init
    /\ config = CHOOSE c \in Configs : TRUE
    /\ view \in {"storage", "candidates"}
    /\ view = "storage" =>
          LET s == CHOOSE x \in Starts : TRUE
          IN <<accounts, played, grabs, rows>> = <<s.accounts, s.played, s.grabs, s.rows>>

ViewsNext ==
    \/ view = "candidates" /\ Next /\ UNCHANGED <<overviewVars, view>>
    \/ view = "storage" /\ Overview!Next /\ UNCHANGED <<vars, view>>

ViewsSpec == ViewsInit /\ [][ViewsNext]_<<vars, overviewVars, view>>

\* Storage's properties, under this module's names
HealthyIsProven == Overview!HealthyIsProven
AnswersAreCurrent == Overview!AnswersAreCurrent
=============================================================================
