-------------------------- MODULE CleanupCandidates --------------------------
(***************************************************************************)
(* The list of cleanup candidates (application/cleanup_candidates.py,      *)
(* domain/playback.py): a request reads the Jellyfin catalogue, the users, *)
(* what each of them has played, the Arr catalogues, the history of each   *)
(* mapped title and the stored torrents, one after the other, while all of *)
(* them change, are truncated, or fail.  What it advises is evidence for   *)
(* an operator about to delete, so every gap must show as "unknown".       *)
(***************************************************************************)
EXTENDS DownloadPolicy, FiniteSetsExt

CONSTANTS Items,      \* what Jellyfin holds
          Titles,     \* what Radarr and Sonarr may hold
          Kind,       \* "movie" or "series", of items and titles
          Ids,        \* provider ids of items and titles: [provider -> id or None]
          Users, Hashes, Clients,
          Rows,       \* what may be stored of a torrent
          Starts,     \* the world when the request begins: [accounts, played, grabs, rows]
          Policy,     \* the seeding-stop policy
          Configured, \* kinds whose Arr service is configured
          UserCap, ItemCap,      \* 20 and 200 in the code
          HistoryCap, RecordCap, \* 50 titles and 1000 records of each in the code
          Unnamed,    \* a record of the history without a usable hash
          ReadError,  \* a read that raised or timed out
          TroubleBudget  \* bound: changes of the world, failed and malformed answers

ASSUME CandidatesAssumption ==
    /\ Items \cap Titles = {}
    /\ Kind \in [Items \union Titles -> {"movie", "series"}]
    /\ {UserCap, ItemCap, HistoryCap, RecordCap, TroubleBudget} \subseteq Nat
    /\ Unnamed \notin Hashes
    /\ IsFiniteSet(Hashes) /\ IsFiniteSet(Clients)
    /\ \A s \in Starts : /\ s.accounts \subseteq Users
                         /\ s.rows \in [Clients \X Hashes -> Rows \union {None}]

VARIABLES
    library,   \* items in Jellyfin
    accounts,  \* its users
    played,    \* who has played what: <<user, item>>
    listed,    \* titles in the Arr catalogues
    grabs,     \* history of each title: hashes, Unnamed
    rows,      \* stored observations: [<<client, hash>> -> row or None]
    pc,        \* where the request is
    detail,    \* is it for one item of the library (enrich_library_item)?
    items, scope, heard,   \* what it has read: items, users, answers of the users
    catalog, target,       \* ... the Arr catalogues, and the title of each item
    todo, history,         \* items whose history is being read, and what was read
    partial,   \* has it noted a failure or a truncation?
    advice,    \* the response: for each item [playback, readiness, link]
    before,    \* history: accounts and plays when the request began
    troubles   \* consumed budget

world == <<library, accounts, played, listed, grabs, rows>>
reads == <<items, scope, heard, catalog, target, todo, history>>
vars == <<world, pc, detail, reads, partial, advice, before, troubles>>

Trouble == troubles < TroubleBudget /\ troubles' = troubles + 1

-----------------------------------------------------------------------------
(* domain/playback.py: one item, all users. *)

\* a mutant: a user who said nothing of the item is left out
ReduceWhoAnswered(users, answers) ==
    LET said == answers \ {"missing"}
    IN IF users = {} \/ "contradictory" \in said THEN "unknown"
       ELSE IF "played" \in said THEN "watched" ELSE "never_watched"

(***************************************************************************)
(* reduce_playback: every user in scope must have answered, and made sense.*)
(* A count that contradicts the flag, or a value of the wrong type, is     *)
(* "contradictory".                                                        *)
(***************************************************************************)
Reduce(users, answers) ==
    IF users = {} \/ answers \cap {"missing", "contradictory"} # {} THEN "unknown"
    ELSE IF "played" \in answers THEN "watched" ELSE "never_watched"

-----------------------------------------------------------------------------
(* Mapping to an Arr title and the summary of its torrents. *)

\* _provider_match: an id in common, and none in conflict
Matches(i, x) ==
    LET both == {p \in DOMAIN Ids[i] \cap DOMAIN Ids[x] : None \notin {Ids[i][p], Ids[x][p]}}
    IN both # {} /\ \A p \in both : Ids[i][p] = Ids[x][p]

Candidates(i) ==
    IF Kind[i] \notin Configured \/ catalog[Kind[i]] = ReadError THEN {}
    ELSE {x \in catalog[Kind[i]] : Matches(i, x)}
\* _map_movie, _map_series
Mapped(i) == IF Cardinality(Candidates(i)) = 1 THEN CHOOSE x \in Candidates(i) : TRUE ELSE None

Stored(h) == {t \in DOMAIN rows : t[2] = h /\ rows[t] # None}
RowsOf(hashes) == {rows[t] : t \in UNION {Stored(h) : h \in hashes}}

\* the policy's word on a title's torrents, once nothing of them is unknown
Decision(torrents) ==
    LET evaluated == {Evaluate(Policy, s) : s \in torrents}
    IN IF ~Policy.enabled THEN "disabled"
       ELSE IF \E s \in torrents : \E c \in Thresholds(Policy, s) : c[2] = None THEN "unknown"
       ELSE IF evaluated \cap {"excluded_category", "excluded_tag"} # {} THEN "excluded"
       ELSE IF evaluated = {"thresholds_met"} THEN "eligible" ELSE "blocked"

\* a mutant: a hash that several clients have is judged by all of them
ReadinessOfAny(hashes) ==
    IF hashes = ReadError \/ Unnamed \in hashes THEN "unknown"
    ELSE IF hashes = {} THEN IF Policy.enabled THEN "blocked" ELSE "disabled"
    ELSE IF \E h \in hashes : Stored(h) = {} THEN "unknown"
    ELSE IF \E s \in RowsOf(hashes) : s.freshness # "fresh" \/ s.owner # "managed" \/ s.state = "unknown"
         THEN "unknown"
    ELSE Decision(RowsOf(hashes))

(***************************************************************************)
(* _seeding_summary: the readiness of a title.  Each hash of its history   *)
(* must be exactly one torrent, fresh and managed, before the policy is    *)
(* asked.                                                                  *)
(***************************************************************************)
Readiness(hashes) ==
    IF hashes = ReadError \/ Unnamed \in hashes THEN "unknown"
    ELSE IF hashes = {} THEN IF Policy.enabled THEN "blocked" ELSE "disabled"
    ELSE IF \E h \in hashes : Cardinality(Stored(h)) # 1 THEN "unknown"
    ELSE IF \E s \in RowsOf(hashes) : s.freshness # "fresh" \/ s.owner # "managed" \/ s.state = "unknown"
         THEN "unknown"
    ELSE Decision(RowsOf(hashes))

-----------------------------------------------------------------------------
(* list_candidates, await by await.  Where a read fails the request notes  *)
(* it and goes on with what it lacks.                                      *)

After(stage) == IF detail THEN "history" ELSE stage

BeginList ==
    /\ pc = "idle" /\ pc' = "items"
    /\ before' = [accounts |-> accounts, played |-> played]
    /\ UNCHANGED <<world, detail, reads, partial, advice, troubles>>

\* one item of the library, whose Arr title is known
BeginDetail(i, x) ==
    /\ pc = "idle" /\ pc' = "users"
    /\ i \in library /\ x \in listed /\ Kind[i] = Kind[x] /\ Matches(i, x)
    /\ before' = [accounts |-> accounts, played |-> played]
    /\ detail' = TRUE /\ items' = {i} /\ todo' = {i}
    /\ target' = [target EXCEPT ![i] = x]
    /\ UNCHANGED <<world, scope, heard, catalog, history, partial, advice, troubles>>

\* the catalogue of Jellyfin, up to ItemCap items of it
ReadItems ==
    /\ pc = "items"
    /\ \/ /\ \E n \in 0..ItemCap : \E is \in kSubset(n, library) :
                /\ n = ItemCap \/ is = library
                /\ items' = is /\ partial' = (is # library)
          /\ pc' = "users"
          /\ UNCHANGED <<advice, troubles>>
       \/ /\ Trouble /\ pc' = "done"
          /\ partial' = TRUE
          /\ UNCHANGED <<items, advice>>
    /\ UNCHANGED <<world, detail, scope, heard, catalog, target, todo, history, before>>

\* the users; without all of them nobody is asked
ReadUsers ==
    /\ pc = "users"
    /\ \/ /\ accounts # {} /\ Cardinality(accounts) <= UserCap
          /\ scope' = accounts /\ pc' = "playback"
          /\ UNCHANGED <<partial, troubles>>
       \/ /\ \/ (accounts = {} \/ Cardinality(accounts) > UserCap) /\ UNCHANGED troubles
             \/ Trouble
          /\ pc' = After("arr") /\ partial' = TRUE
          /\ UNCHANGED scope
    /\ UNCHANGED <<world, detail, items, heard, catalog, target, todo, history, advice, before>>

Truth(u, i) == IF <<u, i>> \in played THEN "played" ELSE "unplayed"

(***************************************************************************)
(* list_user_playback of one user, for a chunk that holds every item.  An  *)
(* answer may lack an item, or make no sense for it; one that raises, or   *)
(* tells of an item that was not asked for, spoils them all.               *)
(***************************************************************************)
ReadPlayback(u) ==
    /\ pc = "playback" /\ u \in scope /\ heard[u] = None
    /\ \/ /\ heard' = [heard EXCEPT ![u] = [i \in items |-> Truth(u, i)]]
          /\ UNCHANGED <<pc, scope, partial, troubles>>
       \/ /\ Trouble
          /\ \E i \in items, gap \in {"missing", "contradictory"} :
                heard' = [heard EXCEPT ![u] = [x \in items |-> IF x = i THEN gap ELSE Truth(u, x)]]
          /\ UNCHANGED <<pc, scope, partial>>
       \/ /\ Trouble
          /\ scope' = {} /\ pc' = After("arr") /\ partial' = TRUE
          /\ UNCHANGED heard
    /\ UNCHANGED <<world, detail, items, catalog, target, todo, history, advice, before>>

Playback(i) == Reduce(scope, {heard[u][i] : u \in scope})

PlaybackRead ==
    /\ pc = "playback" /\ \A u \in scope : heard[u] # None
    /\ partial' = (partial \/ \E i \in items : Playback(i) = "unknown")
    /\ pc' = After("arr")
    /\ UNCHANGED <<world, detail, reads, advice, before, troubles>>

\* list_movies, then list_series, each where it is configured
ReadCatalog(k) ==
    /\ pc = "arr" /\ catalog[k] = None
    /\ k = "series" /\ "movie" \in Configured => catalog["movie"] # None
    /\ \/ /\ catalog' = [catalog EXCEPT ![k] = {x \in listed : Kind[x] = k}]
          /\ UNCHANGED <<partial, troubles>>
       \/ /\ Trouble
          /\ catalog' = [catalog EXCEPT ![k] = ReadError] /\ partial' = TRUE
    /\ UNCHANGED <<world, pc, detail, items, scope, heard, target, todo, history, advice, before>>

\* the titles are mapped; the history of HistoryCap of them is asked for
MapTitles ==
    /\ pc = "arr" /\ \A k \in Configured : catalog[k] # None
    /\ target' = [i \in Items |-> IF i \in items THEN Mapped(i) ELSE None]
    /\ LET mapped == {i \in items : Mapped(i) # None}
       IN \E n \in 0..HistoryCap : \E is \in kSubset(n, mapped) :
             /\ n = HistoryCap \/ is = mapped
             /\ todo' = is /\ partial' = (partial \/ is # mapped)
    /\ pc' = "history"
    /\ UNCHANGED <<world, detail, items, scope, heard, catalog, history, advice, before, troubles>>

\* list_movie_history or list_series_history; as many records as the cap are too many
ReadHistory(i) ==
    /\ pc = "history" /\ i \in todo
    /\ \/ LET records == grabs[target[i]]
          IN /\ history' = [history EXCEPT ![i] = IF Cardinality(records) >= RecordCap THEN ReadError ELSE records]
             /\ UNCHANGED <<partial, troubles>>
       \/ Trouble /\ partial' = TRUE /\ UNCHANGED history
    /\ todo' = todo \ {i}
    /\ UNCHANGED <<world, pc, detail, items, scope, heard, catalog, target, advice, before>>

\* the histories together took longer than they may
HistoriesTimeOut ==
    /\ pc = "history" /\ todo # {} /\ ~detail
    /\ Trouble
    /\ todo' = {} /\ history' = [i \in Items |-> ReadError] /\ partial' = TRUE
    /\ UNCHANGED <<world, pc, detail, items, scope, heard, catalog, target, advice, before>>

HasIdentity(i) == \E p \in DOMAIN Ids[i] : Ids[i][p] # None

Link(i) ==
    IF detail THEN "none"
    ELSE IF target[i] # None THEN "arr"
    ELSE IF /\ Kind[i] = "movie"
            /\ "movie" \in Configured => HasIdentity(i) /\ catalog["movie"] # ReadError
         THEN "jellyfin_only" ELSE "none"

\* the stored torrents are read and the response is made
Finish ==
    /\ pc = "history" /\ todo = {}
    /\ advice' = [i \in items |->
          [playback |-> Playback(i),
           readiness |-> IF target[i] = None THEN "unknown" ELSE Readiness(history[i]),
           link |-> Link(i)]]
    /\ partial' = (partial \/ \E i \in items : target[i] # None /\ history[i] = ReadError)
    /\ pc' = "done"
    /\ UNCHANGED <<world, detail, reads, before, troubles>>

-----------------------------------------------------------------------------
(* Meanwhile. *)

Elsewhere ==
    /\ pc # "done" /\ Trouble
    /\ UNCHANGED <<pc, detail, reads, partial, advice, before>>

\* (an account that was removed comes back as another one)
UserActs ==
    /\ Elsewhere
    /\ \/ /\ \/ \E u \in accounts : accounts' = accounts \ {u}
             \/ \E u \in Users \ (accounts \union before.accounts) : accounts' = accounts \union {u}
          /\ UNCHANGED <<library, played>>
       \/ /\ \E u \in accounts, i \in library : played' = played \union {<<u, i>>}
          /\ UNCHANGED <<library, accounts>>
       \/ /\ \E i \in Items : library' = IF i \in library THEN library \ {i} ELSE library \union {i}
          /\ UNCHANGED <<accounts, played>>
    /\ UNCHANGED <<listed, grabs, rows>>

\* a title added or removed, with its history; another release grabbed
ArrActs ==
    /\ Elsewhere
    /\ \/ \E x \in Titles : IF x \in listed THEN listed' = listed \ {x} /\ grabs' = [grabs EXCEPT ![x] = {}]
                            ELSE listed' = listed \union {x} /\ UNCHANGED grabs
       \/ /\ \E x \in listed, h \in Hashes \union {Unnamed} : grabs' = [grabs EXCEPT ![x] = @ \union {h}]
          /\ UNCHANGED listed
    /\ UNCHANGED <<library, accounts, played, rows>>

\* a cycle of the Downloads service stores something else of a torrent
RowChanges ==
    /\ Elsewhere
    /\ \E t \in DOMAIN rows, row \in Rows \union {None} : rows' = [rows EXCEPT ![t] = row]
    /\ UNCHANGED <<library, accounts, played, listed, grabs>>

Init ==
    /\ library = Items /\ listed = Titles
    /\ \E start \in Starts :
          /\ accounts = start.accounts /\ played = start.played
          /\ grabs = start.grabs /\ rows = start.rows
    /\ pc = "idle" /\ detail = FALSE
    /\ items = {} /\ scope = {} /\ heard = [u \in Users |-> None]
    /\ catalog = [k \in Configured |-> None] /\ target = [i \in Items |-> None]
    /\ todo = {} /\ history = [i \in Items |-> ReadError]
    /\ partial = FALSE /\ advice = <<>>
    /\ before = [accounts |-> {}, played |-> {}]
    /\ troubles = 0

Next ==
    \/ BeginList \/ \E i \in Items, x \in Titles : BeginDetail(i, x)
    \/ ReadItems \/ ReadUsers \/ \E u \in Users : ReadPlayback(u)
    \/ PlaybackRead
    \/ \E k \in Configured : ReadCatalog(k)
    \/ MapTitles \/ \E i \in Items : ReadHistory(i)
    \/ HistoriesTimeOut \/ Finish
    \/ UserActs \/ ArrActs \/ RowChanges

Spec == Init /\ [][Next]_vars

-----------------------------------------------------------------------------
(* "never_watched" is said of an item only if nobody who had an account    *)
(* when the request began, and has it still, had played the item by then:  *)
(* over users that come and go, too many users, answers that lack an item, *)
(* contradict themselves or fail (domain/playback.py reduce_playback).     *)
NeverWatchedIsProven ==
    pc = "done" =>
       \A i \in DOMAIN advice : advice[i].playback = "never_watched" =>
          \A u \in accounts \cap before.accounts : <<u, i>> \notin before.played

(* "eligible" is said of an item only if its one Arr title has grabbed     *)
(* something, and each torrent it grabbed by the time its history was read *)
(* is now stored for exactly one client, fresh, managed and past the       *)
(* thresholds of the policy (_seeding_summary): a truncated history, a     *)
(* record without a hash or a hash in two clients proves nothing.          *)
EligibleIsProven ==
    [][Finish =>
         \A i \in items : advice'[i].readiness = "eligible" =>
            /\ target[i] # None /\ history[i] # {}
            /\ \A h \in history[i] : \E t \in DOMAIN rows :
                  /\ t[2] = h /\ rows[t] # None /\ Eligible(Policy, rows[t])
                  /\ \A other \in DOMAIN rows \ {t} : other[2] = h => rows[other] = None]_vars
=============================================================================
