------------------------------ MODULE Cascade ------------------------------
(***************************************************************************)
(* The deletion cascade: CascadeDeletionService and the four deletion      *)
(* strategies for webhooks, ManualDeletionService with the verdicts of a   *)
(* deletion job for manual selections.  One attempt at a time: the global  *)
(* safety lock orders them (WebhookCoordinator, DeletionJobs).  An attempt *)
(* reads what the services report, has torrents removed (TorrentRemoval),  *)
(* then changes Arr, Seerr and Jellyfin call by call.  Any call may fail,  *)
(* with or without its effect.  Meanwhile Jellyfin rescans, torrents       *)
(* disappear and the operator switches the dry-run mode.                   *)
(***************************************************************************)
EXTENDS Naturals, FiniteSets, Sequences

CONSTANTS
  Shapes,        \* the libraries explored: what is where before the first attempt
  AttemptBudget, \* bound: attempts
  TroubleBudget, \* bound: failed calls, crashes, and changes made by others
  None           \* no match, no season, no verdict yet

INSTANCE Resolver
INSTANCE SonarrSafety

\* Why something may be kept, and what comes of an attempt.
Kept == {"pack_torrent", "shared_file", "seeding_policy", "partial_request_retained"}
Verdicts == {"success", "ignored", "partial_failure", "refused", "completed", "partial", "failed", "retry", "lost"}

ASSUME NoneAssumption == None \notin Kept \cup Verdicts

\* A manual deletion is of a movie, a series or a season.  What Arr guarantees
\* of its own records: an id names one thing, an episode file belongs to one
\* series that lists all its episodes, a movie has no episodes, and a grab is
\* of an episode of its own series.
ASSUME ShapesAssumption ==
  \A s \in Shapes :
    /\ \A event \in s.events : /\ event.type \in {"Movie", "Series", "Season", "Episode"}
                               /\ event.origin \in {"webhook", "manual", "jellyfin_only"}
                               /\ event.origin = "manual" => event.type # "Episode"
    /\ \A t \in s.titles : t.id # None
    /\ \A e \in s.episodes :
         /\ DOMAIN e = {"id", "title", "season", "number", "file", "listed"} /\ e.id # None
         /\ \A x \in s.episodes : x.id = e.id => x = e
         /\ e.file # None => e.listed /\ \A x \in s.episodes : x.file = e.file => x.title = e.title
         /\ \A t \in s.titles : t.id = e.title => t.kind = "series"
         /\ \A g \in s.grabs : g.episode = e.id => g.title = e.title

\* Nor does an id name two titles, two media or two requests, and what was
\* grabbed for an episode is of one that Sonarr knew.
ASSUME RecordsAssumption ==
  \A s \in Shapes :
    /\ IsFiniteSet(s.titles) /\ \A t, x \in s.titles : x.id = t.id => x = t
    /\ IsFiniteSet(s.media) /\ \A m, x \in s.media : x.id = m.id => x = m
    /\ \A r \in s.requests : /\ DOMAIN r = {"id", "media", "seasons"}
                             /\ \A q \in s.requests : q.id = r.id => q = r
    /\ \A g \in s.grabs : g.episode = None \/ \E e \in s.episodes : e.id = g.episode

VARIABLES
  shape,    \* what the services report that no attempt changes
  config,   \* general.dry_run
  lib,      \* Arr: titles, files, monitored episodes and seasons
  torrents, \* hashes the download clients hold
  retained, \* hashes in retained_torrents
  seerr,    \* Seerr: media, requests with their seasons, issues
  jelly,    \* the source item in Jellyfin: here, rescanned under a new id, or gone
  pc,       \* control point of the running attempt
  att,      \* the running or last attempt
  spent     \* consumed budgets

vars == <<shape, config, lib, torrents, retained, seerr, jelly, pc, att, spent>>

Transient == {"downstream_error", "authentication_failed"}
ReadActions == {"process_event", "resolve_media", "list_requests", "list_issues", "resolve_title",
                "verify_download_ownership"}
Placeholders == {"delete_movie", "delete_series", "delete_season_scope", "delete_episode_scope",
                 "cleanup", "delete_item"}

Act(name, status, reason) == [name |-> name, status |-> status, reason |-> reason]
Skip(name, reason) == Act(name, "skipped", reason)
Failure(name, reason) == Act(name, "failed", reason)

Kind(event) == IF event.type = "Movie" THEN "movie" ELSE "series"
Spend(b) == spent' = [spent EXCEPT ![b] = @ + 1]

\* One more failure, crash or interference.
Trouble == spent.troubles < TroubleBudget /\ Spend("troubles")

\* The durable and remote state an attempt is there to change.
world == <<lib, torrents, retained, seerr>>

NoEvent == [origin |-> "none", type |-> "none", season |-> None, numbers |-> {},
            ids |-> [f \in Identifiers |-> None], source |-> FALSE]

Idle ==
  [event |-> NoEvent, pass |-> None, dry |-> TRUE, acts |-> {}, title |-> None,
   hashes |-> {}, files |-> {}, unmonitor |-> {}, results |-> [h \in {} |-> None], clean |-> TRUE,
   todo |-> <<>>, replaced |-> FALSE, severed |-> FALSE, stayed |-> FALSE, touched |-> FALSE, verdict |-> None]

Init ==
  /\ shape \in Shapes /\ config \in BOOLEAN
  /\ lib = [titles |-> {t.id : t \in shape.titles},
            files |-> {e.file : e \in shape.episodes} \ {None},
            monitored |-> {e.id : e \in shape.episodes},
            seasons |-> {<<e.title, e.season>> : e \in shape.episodes}]
  /\ torrents = {g.hash : g \in shape.grabs} /\ retained = {}
  /\ seerr = [media |-> {m.id : m \in shape.media}, requests |-> shape.requests,
              issues |-> {i.id : i \in shape.issues}]
  /\ jelly \in {"here", "gone"}
  /\ pc = "idle" /\ att = Idle
  /\ spent = [attempts |-> 0, troubles |-> 0]

-----------------------------------------------------------------------------
(* What the services answer.                                               *)

Listed(kind) == {t \in shape.titles : t.kind = kind /\ t.id \in lib.titles}
Episodes(title) ==
  {[e EXCEPT !.file = IF @ \in lib.files THEN @ ELSE None] :
     e \in {x \in shape.episodes : x.title = title /\ x.listed}}
Grabs(title) == {g \in shape.grabs : g.title = title}
Media(kind) == {m \in shape.media : m.kind = kind /\ m.id \in seerr.media}
Identified(event) == \E f \in {"tmdb", "tvdb", "imdb"} : event.ids[f] # None

\* What an event names: all of a movie or series, or the episodes in its scope.
Scope(event, title) == Targets(event, {e \in shape.episodes : e.title = title})

-----------------------------------------------------------------------------
(* Control.                                                                *)

Goto(point) == pc' = point
Note(acts) == att' = [att EXCEPT !.acts = @ \cup acts]

\* A call fails because the service does, or because a configuration change
\* replaced and closed the clients that the attempt still uses.
CallFails == \/ att.severed /\ UNCHANGED spent
             \/ ~att.severed /\ Trouble
CallWorks == ~att.severed /\ UNCHANGED spent

\* strategy_factory() and is_dry_run are asked when a pass begins.
Began(event, pass) ==
  [Idle EXCEPT !.event = event, !.pass = pass,
               !.dry = (pass = "preview" \/ config), !.stayed = (jelly # "gone")]

\* A webhook is processed at once.  A manual job is bound to a title that Arr
\* lists, and previews its plan first.  A movie that Radarr does not know may
\* be removed from Jellyfin alone.
Begin(event) ==
  /\ pc \in {"idle", "done"} /\ spent.attempts < AttemptBudget /\ Spend("attempts")
  /\ event.origin = "manual" => \E t \in Listed(Kind(event)) : t.ids = event.ids
  /\ event.origin = "jellyfin_only" => jelly # "gone"
  /\ att' = Began(event, IF event.origin = "manual" THEN "preview" ELSE "execute")
  /\ Goto(CASE event.origin = "webhook" -> "by_id" [] event.origin = "manual" -> "catalogue"
             [] event.origin = "jellyfin_only" -> "unlinked")
  /\ UNCHANGED <<shape, config, jelly, world>>

-----------------------------------------------------------------------------
(* _confirm_source_absent.                                                 *)

Refuse(status, reason) ==
  /\ Goto("done")
  /\ att' = [att EXCEPT !.acts = {Act("confirm_deletion", status, reason)},
                        !.verdict = IF status = "failed" THEN "partial_failure" ELSE "ignored"]

\* Mutant of FindById: an item that is not found by its id is gone.
FindByIdOnly ==
  /\ pc = "by_id" /\ CallWorks
  /\ IF jelly = "here" THEN Refuse("ignored", "source_still_present") ELSE Goto("catalogue") /\ UNCHANGED att
  /\ UNCHANGED <<shape, config, jelly, world>>

FindById ==
  /\ pc = "by_id" /\ CallWorks
  /\ IF jelly = "here" THEN Refuse("ignored", "source_still_present")
       ELSE Goto(IF Identified(att.event) THEN "by_provider" ELSE "catalogue") /\ UNCHANGED att
  /\ UNCHANGED <<shape, config, jelly, world>>

FindByProvider ==
  /\ pc = "by_provider" /\ CallWorks
  /\ IF jelly = "gone" THEN Goto("catalogue") /\ UNCHANGED att ELSE Refuse("ignored", "source_still_present")
  /\ UNCHANGED <<shape, config, jelly, world>>

\* A failed lookup, or one whose items do not match the event.
FindFails ==
  /\ pc \in {"by_id", "by_provider"} /\ CallFails /\ Refuse("failed", "source_unverifiable")
  /\ UNCHANGED <<shape, config, jelly, world>>

-----------------------------------------------------------------------------
(* Evidence: the Arr title, its history and what of it is in scope.        *)

\* Only an event that nothing in Arr matches goes on to Seerr.
Catalogue ==
  /\ pc = "catalogue" /\ CallWorks
  /\ LET kind == Kind(att.event)
         match == Resolve(att.event.ids, att.event.origin = "manual", Listed(kind),
                          IF kind = "movie" THEN Movies ELSE Series)
     IN \/ /\ match.item # None /\ att' = [att EXCEPT !.title = match.item.id] /\ Goto("history")
        \/ /\ match.item = None /\ Note({Skip("resolve_title", match.reason)})
           /\ Goto(IF match.reason = "no_match" THEN "media" ELSE "built")
  /\ UNCHANGED <<shape, config, jelly, world>>

History ==
  /\ pc = "history" /\ CallWorks
  /\ \/ /\ att.event.type = "Movie"
        /\ att' = [att EXCEPT !.hashes = {g.hash : g \in Grabs(att.title)}]
        /\ Goto("owners")
     \/ /\ att.event.type # "Movie"
        /\ LET safe == Analyze(att.event, Episodes(att.title), Grabs(att.title))
           IN att' = [att EXCEPT !.hashes = safe.hashes, !.files = safe.files, !.unmonitor = safe.targets,
                                 !.acts = @ \cup {Skip("safety_note", r) : r \in safe.notes}]
        /\ Goto("remove")
  /\ UNCHANGED <<shape, config, jelly, world>>

\* An exception in one of these reads ends the strategy; what was done stays.
EvidenceFails ==
  /\ pc \in {"catalogue", "history"} /\ CallFails
  /\ \E reason \in Transient : Note({Failure("process_event", reason)})
  /\ Goto("built") /\ UNCHANGED <<shape, config, jelly, world>>

Films == {t.id : t \in {x \in shape.titles : x.kind = "movie"}}
OtherMovies(hash) == ({g.title : g \in {x \in shape.grabs : x.hash = hash}} \cap Films) \ {att.title}

\* _movie_hashes_exclusive asks every Radarr for the history of each hash.
Owners ==
  /\ pc = "owners"
  /\ \/ /\ CallWorks /\ \A h \in att.hashes : OtherMovies(h) = {}
        /\ Goto("remove") /\ UNCHANGED att
     \/ /\ CallWorks /\ \E h \in att.hashes : OtherMovies(h) # {}
        /\ Goto("blocked") /\ Note({Skip("verify_download_ownership", "pack_torrent")})
     \/ /\ att.hashes # {} /\ CallFails /\ Goto("blocked")
        /\ \E reason \in {"authentication_failed", "ownership_unverifiable"} :
             Note({Failure("verify_download_ownership", reason)})
  /\ UNCHANGED <<shape, config, jelly, world>>

-----------------------------------------------------------------------------
(* _cleanup_hashes.                                                        *)

Outcomes == {"removed", "absent", "kept", "unsafe", "unverified", "error"}

\* What delete_hashes may report of a hash (TorrentRemoval): a removal, an
\* absence and a policy skip are true, an error says nothing of the torrent.
Plausible(h, outcome) ==
  /\ outcome \in {"removed", "kept"} => h \in torrents
  /\ outcome = "absent" => h \notin torrents
  /\ outcome = "kept" => h \in shape.seeding
  /\ outcome = "unsafe" => h \in shape.tangled
  /\ outcome \in {"unverified", "error"} => att.severed \/ spent.troubles < TroubleBudget

Unsettled(results) == \E h \in DOMAIN results : results[h] \in {"unverified", "error"}

\* Only a season or an episode without files to delete needs no torrent.
AllowEmpty == att.event.type \in {"Season", "Episode"} /\ att.files = {}

NothingToRemove ==
  /\ pc = "remove" /\ att.hashes = {}
  /\ Note({Skip("delete_hashes", "no_match")})
  /\ Goto(IF AllowEmpty THEN "ready" ELSE "blocked")
  /\ UNCHANGED <<shape, config, jelly, world, spent>>

Remove ==
  /\ pc = "remove" /\ att.hashes # {}
  /\ \E results \in [att.hashes -> Outcomes] :
       /\ \A h \in att.hashes : Plausible(h, results[h])
       /\ att.severed => \A h \in att.hashes : results[h] \in {"unverified", "error"}
       /\ att' = [att EXCEPT !.results = results]
       /\ IF Unsettled(results) THEN CallFails ELSE CallWorks
       /\ \E lost \in SUBSET {h \in att.hashes : results[h] = "error" /\ ~att.dry /\ ~att.severed} :
            torrents' = torrents \ (lost \cup {h \in att.hashes : results[h] = "removed" /\ ~att.dry})
  /\ Goto("account") /\ UNCHANGED <<shape, config, jelly, lib, retained, seerr>>

RemoveRaises ==
  /\ pc = "remove" /\ att.hashes # {} /\ CallFails
  /\ Note({Failure("delete_hashes", "downstream_error")})
  /\ Goto("blocked") /\ UNCHANGED <<shape, config, jelly, world>>

\* Mutant of Soured: a retention record that cannot be written is let pass.
SouredButKept(act) == ~att.clean \/ (act.status = "failed" /\ act.name # "record_retention")

\* Whether the results so far still let the dependent steps run.
Soured(act) ==
  \/ ~att.clean \/ act.status = "failed"
  \/ act.status = "skipped" /\ act.reason # "seeding_policy"

Accounted(h, act) ==
  att' = [att EXCEPT !.results = [x \in DOMAIN @ \ {h} |-> @[x]], !.acts = @ \cup {act},
                     !.clean = ~Soured(act)]

\* One result: a torrent kept by policy counts once its record is durable.
Account(h) ==
  /\ pc = "account" /\ h \in DOMAIN att.results
  /\ LET outcome == att.results[h] IN
     \/ /\ outcome = "error" /\ Accounted(h, Failure("delete_hash", "downstream_error"))
        /\ UNCHANGED <<retained, spent>>
     \/ /\ outcome = "unverified" /\ Accounted(h, Failure("delete_hash", "ownership_unverifiable"))
        /\ UNCHANGED <<retained, spent>>
     \/ /\ outcome = "unsafe" /\ Accounted(h, Skip("delete_hash", "shared_path"))
        /\ UNCHANGED <<retained, spent>>
     \/ /\ outcome = "kept" /\ Accounted(h, Skip("delete_hash", "seeding_policy"))
        /\ retained' = (IF att.dry THEN retained ELSE retained \cup {h}) /\ UNCHANGED spent
     \/ /\ outcome = "kept" /\ ~att.dry /\ Trouble
        /\ Accounted(h, Failure("record_retention", "downstream_error")) /\ UNCHANGED retained
     \/ /\ outcome = "removed" /\ Accounted(h, Act("delete_hash", IF att.dry THEN "dry_run" ELSE "deleted", None))
        /\ UNCHANGED <<retained, spent>>
     \/ /\ outcome = "absent" /\ Accounted(h, Act("delete_hash", "already_absent", None))
        /\ UNCHANGED <<retained, spent>>
  /\ UNCHANGED <<shape, config, jelly, lib, torrents, seerr, pc>>

AccountsEnd ==
  /\ pc = "account" /\ DOMAIN att.results = {}
  /\ Goto(IF att.clean THEN "ready" ELSE "blocked")
  /\ UNCHANGED <<shape, config, jelly, world, att, spent>>

-----------------------------------------------------------------------------
(* The dependent steps in Arr, one call after the other.                   *)

ArrScope(type) ==
  CASE type = "Movie" -> "delete_movie" [] type = "Series" -> "delete_series"
    [] type = "Season" -> "delete_season_scope" [] type = "Episode" -> "delete_episode_scope"

\* The Arr and Seerr records are kept so that the removal can be retried.
Blocked ==
  /\ pc = "blocked" /\ Goto("built")
  /\ Note({Skip(ArrScope(att.event.type), "downstream_error"), Skip("cleanup", "downstream_error")})
  /\ UNCHANGED <<shape, config, jelly, world, spent>>

Call(name, on) == [name |-> name, on |-> on]

\* The calls are listed as sets that follow each other.
MovieCalls == <<{Call("delete_movie", att.title)}>>
SeriesCalls == <<{Call("delete_series", att.title)}>>
EpisodeCalls == <<{Call("unmonitor_episodes", x) : x \in {att.unmonitor} \ {{}}},
                  {Call("delete_episode_file", f) : f \in att.files}>>
SeasonCalls == EpisodeCalls \o <<{Call("unmonitor_season", <<att.title, att.event.season>>)}>>

ArrCalls ==
  CASE att.event.type = "Movie"   -> MovieCalls
    [] att.event.type = "Series"  -> SeriesCalls
    [] att.event.type = "Season"  -> SeasonCalls
    [] att.event.type = "Episode" -> EpisodeCalls

Ready ==
  /\ pc = "ready" /\ Goto("arr")
  /\ att' = [att EXCEPT !.todo = ArrCalls,
       !.acts = IF att.event.type \in {"Season", "Episode"} /\ att.unmonitor = {}
                  THEN @ \cup {Skip("unmonitor_episodes", "no_match")} ELSE @]
  /\ UNCHANGED <<shape, config, jelly, world, spent>>

Present(call) ==
  CASE call.name \in {"delete_movie", "delete_series"} -> call.on \in lib.titles
    [] call.name = "delete_episode_file" -> call.on \in lib.files
    [] call.name \in {"update_request", "delete_request"} -> call.on \in {r.id : r \in seerr.requests}
    [] call.name = "delete_issue" -> call.on \in seerr.issues
    [] call.name = "delete_media" -> call.on \in seerr.media
    [] OTHER -> TRUE

\* A deleted title goes with its files.
LibAfter(call) ==
  CASE call.name \in {"delete_movie", "delete_series"} ->
         [lib EXCEPT !.titles = @ \ {call.on},
                     !.files = @ \ {e.file : e \in {x \in shape.episodes : x.title = call.on}}]
    [] call.name = "unmonitor_episodes" -> [lib EXCEPT !.monitored = @ \ call.on]
    [] call.name = "delete_episode_file" -> [lib EXCEPT !.files = @ \ {call.on}]
    [] call.name = "unmonitor_season" -> [lib EXCEPT !.seasons = @ \ {call.on}]
    [] OTHER -> lib

SeerrAfter(call) ==
  CASE call.name = "update_request" ->
         [seerr EXCEPT !.requests =
            {IF r.id = call.on THEN [r EXCEPT !.seasons = r.seasons \ {att.event.season}] ELSE r : r \in seerr.requests}]
    [] call.name = "delete_request" -> [seerr EXCEPT !.requests = {r \in @ : r.id # call.on}]
    [] call.name = "delete_issue" -> [seerr EXCEPT !.issues = @ \ {call.on}]
    [] call.name = "delete_media" -> [seerr EXCEPT !.media = @ \ {call.on}]
    [] OTHER -> seerr

Effect(call) == lib' = LibAfter(call) /\ seerr' = SeerrAfter(call)

Called(call, act, touched) ==
  att' = [att EXCEPT !.acts = @ \cup {act}, !.touched = @ \/ touched,
                     !.todo[1] = @ \ {call}]

\* Mutant of Mutate: a dry run makes the call.
MutateAnyway(call) ==
  \/ CallWorks /\ Effect(call) /\ Called(call, Act(call.name, IF att.dry THEN "dry_run" ELSE "deleted", None), TRUE)
  \/ CallFails /\ UNCHANGED <<lib, seerr>> /\ Called(call, Failure(call.name, "downstream_error"), FALSE)

\* _run_mutation: simulated, absent, done, failed, or done and not answered.
Mutate(call) ==
  \/ /\ att.dry /\ UNCHANGED <<lib, seerr, spent>> /\ Called(call, Act(call.name, "dry_run", None), FALSE)
  \/ /\ ~att.dry /\ ~Present(call) /\ CallWorks /\ UNCHANGED <<lib, seerr>>
     /\ Called(call, Act(call.name, "already_absent", None), FALSE)
  \/ /\ ~att.dry /\ Present(call) /\ CallWorks /\ Effect(call)
     /\ Called(call, Act(call.name, "deleted", None), TRUE)
  \/ /\ ~att.dry /\ CallFails /\ UNCHANGED <<lib, seerr>>
     /\ \E reason \in Transient : Called(call, Failure(call.name, reason), FALSE)
  \/ /\ ~att.dry /\ ~att.severed /\ Present(call) /\ CallFails /\ Effect(call)
     /\ Called(call, Failure(call.name, "downstream_error"), TRUE)

Mutations ==
  /\ pc \in {"arr", "tidy"} /\ att.todo # <<>>
  /\ \E call \in Head(att.todo) : Mutate(call)
  /\ UNCHANGED <<shape, config, jelly, torrents, retained, pc>>

StageEnds ==
  /\ pc \in {"arr", "tidy"} /\ att.todo # <<>> /\ Head(att.todo) = {}
  /\ att' = [att EXCEPT !.todo = Tail(@)]
  /\ UNCHANGED <<shape, config, jelly, world, pc, spent>>

CallsEnd ==
  /\ pc \in {"arr", "tidy"} /\ att.todo = <<>>
  /\ Goto(IF pc = "arr" THEN "media" ELSE "built")
  /\ UNCHANGED <<shape, config, jelly, world, att, spent>>

-----------------------------------------------------------------------------
(* Seerr: the media, its requests and its issues.                          *)

RequestsOf(m) == {r \in seerr.requests : r.media = m.id}
IssuesOf(m) == {i \in shape.issues : i.id \in seerr.issues /\ i.media = m.id}
Asking(m) == {r \in RequestsOf(m) : att.event.season \in r.seasons}

\* The event names every episode that Sonarr lists of the season.  An event
\* that no series matched knows of none.
CoversSeason ==
  LET known == IF att.title = None THEN {}
                 ELSE {e.number : e \in {x \in Episodes(att.title) : x.season = att.event.season}}
  IN known # {} /\ known \subseteq att.event.numbers

\* A request keeps the seasons that are not deleted.
SeasonRequests(m) ==
  {Call(IF r.seasons = {att.event.season} THEN "delete_request" ELSE "update_request", r.id) : r \in Asking(m)}

MatchingIssues(m) ==
  {i \in IssuesOf(m) :
     \/ Kind(att.event) = "movie" \/ att.event.type = "Series"
     \/ i.season = att.event.season /\ (att.event.type = "Episode" => i.episode \in att.event.numbers)}

Issues(m) == {Call("delete_issue", i.id) : i \in MatchingIssues(m)}

SeerrTitle(m) == <<{Call("delete_request", r.id) : r \in RequestsOf(m)}, Issues(m), {Call("delete_media", m.id)}>>
SeerrSeason(m) == <<SeasonRequests(m), Issues(m)>>
SeerrEpisode(m) == <<IF CoversSeason THEN SeasonRequests(m) ELSE {}, Issues(m)>>

SeerrCalls(m) ==
  CASE att.event.type \in {"Movie", "Series"} -> SeerrTitle(m)
    [] att.event.type = "Season" -> SeerrSeason(m)
    [] att.event.type = "Episode" -> SeerrEpisode(m)

FindMedia ==
  /\ pc = "media" /\ CallWorks
  /\ LET kind == Kind(att.event)
         match == Resolve(att.event.ids, att.event.origin = "manual", Media(kind),
                          IF kind = "movie" THEN SeerrMovies ELSE SeerrSeries)
     IN \/ /\ match.item = None /\ Note({Skip("resolve_media", match.reason)}) /\ Goto("built")
        \/ /\ match.item # None /\ Goto("tidy")
           /\ att' = [att EXCEPT !.todo = SeerrCalls(match.item),
                !.acts = IF att.event.type = "Episode" /\ ~CoversSeason /\ Asking(match.item) # {}
                           THEN @ \cup {Skip("retain_request", "partial_request_retained")} ELSE @]
  /\ UNCHANGED <<shape, config, jelly, world>>

\* The media, the requests or the issues cannot be read: nothing is deleted.
MediaFails ==
  /\ pc = "media" /\ CallFails
  /\ \E name \in {"resolve_media", "list_requests", "list_issues"}, reason \in Transient :
       Note({Failure(name, reason)})
  /\ Goto("built") /\ UNCHANGED <<shape, config, jelly, world>>

-----------------------------------------------------------------------------
(* The result and what is made of it.                                      *)

Status(acts) ==
  LET statuses == {a.status : a \in acts}
  IN CASE "failed" \in statuses -> "partial_failure"
       [] statuses # {} /\ statuses \subseteq {"skipped", "ignored", "already_absent"} -> "ignored"
       [] OTHER -> "success"

\* Mutant of SourceBlocked: only a failure keeps the source.
SourceBlockedByFailure(acts) == Status(acts) = "partial_failure"

\* _source_cleanup_blocked: anything kept but a torrent that seeds on or a
\* season's request keeps the source item.
SourceBlocked(acts) ==
  \/ Status(acts) = "partial_failure"
  \/ \E a \in acts : a.status = "skipped" /\ a.reason \notin {"seeding_policy", "partial_request_retained"}

\* _preflight_block_code and validate_plan_confirmation.
PlanRefused(acts) ==
  \/ Status(acts) \in {"partial_failure", "ignored"}
  \/ \E a \in acts : a.status = "skipped" /\ a.reason \notin Kept

\* _execution_result_block_code = "unsafe_result".
Unsafe(acts) ==
  \/ Status(acts) = "ignored" /\ \E a \in acts : a.status \notin {"skipped", "already_absent"}
  \/ \E a \in acts : a.status = "ignored"
  \/ \E a \in acts : /\ a.status = "skipped" /\ a.reason \notin Kept
                     /\ ~(a.reason = "downstream_error" /\ a.name \in Placeholders)
  \/ \E a \in acts : a.status = "failed" /\ a.reason \notin Transient

\* Mutant of Unfinished: only a blocked step is looked at.
UnfinishedIfBlocked(acts) ==
  \E a \in acts : a.status = "skipped" /\ a.reason = "downstream_error" /\ a.name \in Placeholders

Unfinished(acts) ==
  \/ Status(acts) = "partial_failure"
  \/ \E a \in acts : a.status = "skipped" /\ a.reason = "downstream_error" /\ a.name \in Placeholders

\* Mutant of Retryable: any transient failure is tried again.
RetryableIfTransient(acts) ==
  \E a \in acts : a.status = "failed" /\ \A b \in acts : b.status = "failed" => b.reason \in Transient

\* _execution_result_retryable: only reads and torrent removals failed.
Retryable(acts) ==
  LET failed == {a \in acts : a.status = "failed"}
  IN /\ failed # {}
     /\ \A a \in failed : /\ a.reason \in Transient
                          /\ a.name \in {"delete_hash", "delete_hashes"} \cup (ReadActions \ {"process_event"})

\* How the job service classifies what an execution returned.
JobVerdict(acts) ==
  IF /\ \E a \in acts : a.status = "deleted"
     /\ Status(acts) = "partial_failure" \/ Unsafe(acts) \/ Unfinished(acts) THEN "partial"
  ELSE IF Unsafe(acts) \/ \E a \in acts : a.status = "failed" /\ a.name = "record_retention" THEN "failed"
  ELSE IF ~Unfinished(acts) THEN "completed"
  ELSE IF Retryable(acts) THEN "retry" ELSE "failed"

Finished(acts) ==
  IF att.event.origin = "webhook" THEN Status(acts) ELSE JobVerdict(acts)

\* with_jellyfin_action of a preview; a plan that may run is run at once.
PreviewEnds ==
  /\ pc = "built" /\ att.pass = "preview"
  /\ LET acts == IF ~att.event.source THEN att.acts
                   ELSE att.acts \cup {IF SourceBlocked(att.acts) THEN Skip("delete_item", "downstream_error")
                                         ELSE Act("delete_item", "dry_run", None)}
     IN \/ /\ PlanRefused(acts) /\ Goto("done")
           /\ att' = [att EXCEPT !.acts = acts, !.verdict = "refused"]
        \/ /\ ~PlanRefused(acts) /\ Goto("catalogue")
           /\ att' = Began(att.event, "execute")
  /\ UNCHANGED <<shape, config, jelly, world, spent>>

\* A webhook, or a selection without a source item: the cascade was all.
CascadeEnds ==
  /\ pc = "built" /\ att.pass = "execute" /\ (att.event.origin = "webhook" \/ ~att.event.source)
  /\ att' = [att EXCEPT !.verdict = Finished(att.acts)] /\ Goto("done")
  /\ UNCHANGED <<shape, config, jelly, world, spent>>

DecideSource(acts) == att' = [att EXCEPT !.acts = acts, !.verdict = Finished(acts)] /\ Goto("done")

\* The source item is next, unless the cascade was blocked.  The dry-run
\* mode is asked again, of the configuration of the moment.
DeleteSource ==
  /\ pc = "built" /\ att.pass = "execute" /\ att.event.origin = "manual" /\ att.event.source
  /\ \/ /\ SourceBlocked(att.acts) /\ DecideSource(att.acts \cup {Skip("delete_item", "downstream_error")})
        /\ UNCHANGED <<jelly, spent>>
     \/ /\ ~SourceBlocked(att.acts) /\ config /\ DecideSource(att.acts \cup {Act("delete_item", "dry_run", None)})
        /\ UNCHANGED <<jelly, spent>>
     \/ /\ ~SourceBlocked(att.acts) /\ ~config /\ UNCHANGED spent
        /\ jelly' = "gone" /\ DecideSource(att.acts \cup {Act("delete_item", "deleted", None)})
     \/ /\ ~SourceBlocked(att.acts) /\ ~config /\ Trouble
        /\ jelly' \in {jelly, "gone"} /\ DecideSource(att.acts \cup {Failure("delete_item", "downstream_error")})
  /\ UNCHANGED <<shape, config, world>>

\* _resolve_jellyfin_only_movie: one conflicting match is no link.
Unlinked ==
  /\ pc = "unlinked" /\ CallWorks
  /\ LET match == Resolve(att.event.ids, FALSE, Listed("movie"), Movies)
     IN IF match.item # None \/ match.reason = "ambiguous_match"
          THEN Goto("done") /\ att' = [att EXCEPT !.verdict = "refused"]
          ELSE Goto("alone") /\ UNCHANGED att
  /\ UNCHANGED <<shape, config, jelly, world>>

UnlinkedFails ==
  /\ pc = "unlinked" /\ CallFails
  /\ Goto("done") /\ att' = [att EXCEPT !.verdict = "refused"]
  /\ UNCHANGED <<shape, config, jelly, world>>

\* _execute_jellyfin_only.
DeleteAlone ==
  /\ pc = "alone"
  /\ \/ config /\ DecideSource({Act("delete_item", "dry_run", None)}) /\ UNCHANGED <<jelly, spent>>
     \/ ~config /\ jelly' = "gone" /\ DecideSource({Act("delete_item", "deleted", None)}) /\ UNCHANGED spent
     \/ /\ ~config /\ Trouble
        /\ jelly' \in {jelly, "gone"} /\ DecideSource({Failure("delete_item", "downstream_error")})
  /\ UNCHANGED <<shape, config, world>>

-----------------------------------------------------------------------------
(* The rest of the world, and restarts.                                    *)

Running == pc \notin {"idle", "done"}

\* Jellyfin loses the item, or rescans it under a new id.
ItemMoves ==
  /\ Trouble
  /\ jelly' \in {"gone", "moved"} \ {jelly}
  /\ att' = [att EXCEPT !.stayed = @ /\ jelly' # "gone"]
  /\ UNCHANGED <<shape, config, world, pc>>

TorrentVanishes(h) ==
  /\ Trouble
  /\ h \in torrents /\ torrents' = torrents \ {h}
  /\ UNCHANGED <<shape, config, lib, retained, seerr, jelly, pc, att>>

\* refresh_runtime does not wait for the safety lock.
SwitchMode ==
  /\ Trouble
  /\ config' = ~config /\ att' = [att EXCEPT !.replaced = TRUE]
  /\ UNCHANGED <<shape, jelly, world, pc>>

\* It closes the clients of the runtime that it replaced.
OldClientsClose ==
  /\ Running /\ att.replaced /\ ~att.severed
  /\ att' = [att EXCEPT !.severed = TRUE]
  /\ UNCHANGED <<shape, config, jelly, world, pc, spent>>

\* The process dies; the attempt is not resumed.
Crash ==
  /\ Running /\ Trouble
  /\ Goto("done") /\ att' = [Idle EXCEPT !.verdict = "lost"]
  /\ UNCHANGED <<shape, config, jelly, world>>

Guard == FindById \/ FindByProvider \/ FindFails
Evidence == Catalogue \/ History \/ EvidenceFails \/ Owners
Cleanup == NothingToRemove \/ Remove \/ RemoveRaises \/ (\E h \in att.hashes : Account(h)) \/ AccountsEnd
Dependent == Blocked \/ Ready \/ Mutations \/ StageEnds \/ CallsEnd \/ FindMedia \/ MediaFails
Ending == PreviewEnds \/ CascadeEnds \/ DeleteSource \/ Unlinked \/ UnlinkedFails \/ DeleteAlone

Next ==
  \/ \E event \in shape.events : Begin(event)
  \/ Guard \/ Evidence \/ Cleanup \/ Dependent \/ Ending
  \/ ItemMoves \/ (\E h \in torrents : TorrentVanishes(h)) \/ SwitchMode \/ OldClientsClose \/ Crash

Spec == Init /\ [][Next]_vars

-----------------------------------------------------------------------------
(* Properties.                                                             *)

Pcs == {"idle", "by_id", "by_provider", "catalogue", "history", "owners", "remove", "account", "blocked",
        "ready", "arr", "media", "tidy", "built", "unlinked", "alone", "done"}

TypeOK ==
  /\ shape \in Shapes /\ config \in BOOLEAN /\ pc \in Pcs
  /\ lib.titles \subseteq {t.id : t \in shape.titles}
  /\ lib.files \subseteq {e.file : e \in shape.episodes} \ {None}
  /\ lib.monitored \subseteq {e.id : e \in shape.episodes}
  /\ torrents \cup retained \subseteq {g.hash : g \in shape.grabs}
  /\ seerr.media \subseteq {m.id : m \in shape.media}
  /\ \A r \in seerr.requests : \E q \in shape.requests : q.id = r.id /\ r.seasons \subseteq q.seasons
  /\ jelly \in {"here", "moved", "gone"}
  /\ att.verdict \in Verdicts \cup {None} /\ (pc # "done" => att.verdict = None)
  /\ DOMAIN att.results \subseteq att.hashes
  /\ pc \notin {"arr", "tidy"} => att.todo = <<>>

Settled(h) == h \notin torrents \/ h \in retained
Changes == lib' # lib \/ seerr' # seerr

\* The torrents that back nothing but what the event names.
Backing ==
  IF att.event.type = "Movie" THEN {g.hash : g \in Grabs(att.title)}
  ELSE {h \in {g.hash : g \in Grabs(att.title)} :
          Within(GrabbedFor(h, Grabs(att.title)), Targets(att.event, Episodes(att.title)))}

\* A torrent is settled when it is out of the clients or durably recorded as
\* kept.  Nothing in Arr or Seerr is changed for a title before every torrent
\* that backs only what goes is settled.  An event of a season or an episode
\* takes an episode file only when, moreover, every torrent behind it is.  A
\* series takes its files whatever else is behind them: FilesLast.
TorrentsFirst ==
  [][/\ Changes /\ att.title # None => \A h \in Backing : Settled(h)'
     /\ att.event.type # "Series" =>
          \A f \in lib.files \ lib'.files, e \in shape.episodes, g \in shape.grabs :
            e.file = f /\ g.episode = e.id => Settled(g.hash)']_vars

\* The rule of a season, for every event (SAFETY.md:30-38): no episode file
\* goes while a torrent behind it is neither removed nor recorded as kept.
FilesLast ==
  [][\A f \in lib.files \ lib'.files, e \in shape.episodes, g \in shape.grabs :
       e.file = f /\ g.episode = e.id => Settled(g.hash)']_vars

Means(ids, item) ==
  /\ \E f \in Identifiers : ids[f] # None /\ ids[f] = item.ids[f]
  /\ \A f \in Identifiers \ {"path"} : ids[f] = None \/ item.ids[f] = None \/ ids[f] = item.ids[f]

InScope(e) == e.title = att.title /\ e.id \in Scope(att.event, att.title)

\* What the code asks about a torrent: the history of every film in Radarr,
\* or of the one series in Sonarr.
Recorded(hash) ==
  {g \in shape.grabs : /\ g.hash = hash
                       /\ IF att.event.type = "Movie" THEN g.title \in Films ELSE g.title = att.title}

\* Nothing outside the event is lost: a title and a Seerr media only when
\* their identifiers agree with the event's, a file and its monitoring only
\* when every episode in it is named, a request only for the season that goes
\* as a whole.  A torrent is lost only when all it was grabbed for is named,
\* as far as the code asks, and only when it was grabbed for something; that
\* the code asks too little is OwnTorrentsOnly.
ScopeKept ==
  [][/\ \A t \in shape.titles : t.id \in lib.titles \ lib'.titles => Means(att.event.ids, t)
     /\ \A m \in shape.media : m.id \in seerr.media \ seerr'.media => Means(att.event.ids, m)
     /\ \A e \in shape.episodes : e.file \in lib.files \ lib'.files => InScope(e)
     /\ \A e \in shape.episodes : e.id \in lib.monitored \ lib'.monitored => InScope(e)
     /\ pc # pc' => \A h \in torrents \ torrents' :
          /\ Recorded(h) # {}
          /\ \A g \in Recorded(h) :
               /\ g.title = att.title
               /\ g.episode = None \/ \E e \in shape.episodes : e.id = g.episode /\ InScope(e)
     /\ att.event.type \in {"Season", "Episode"} =>
          \A r \in seerr.requests \ seerr'.requests :
            /\ \A x \in r.seasons \ {att.event.season} : \E q \in seerr'.requests : q.id = r.id /\ x \in q.seasons
            /\ att.event.type = "Episode" =>
                 \A e \in Episodes(att.title) : e.season = att.event.season => e.number \in att.event.numbers]_vars

\* What SAFETY.md:30-38 says of every torrent: one that holds another film or
\* series, too, is not removed.
OwnTorrentsOnly ==
  [][pc # pc' => \A g \in shape.grabs : g.hash \in torrents \ torrents' => g.title = att.title]_vars

\* A webhook touches nothing while Jellyfin still has the item, under its id
\* or under another one with the same provider identifiers.
PresentMeansUntouched ==
  [][att.event.origin = "webhook" /\ Identified(att.event) /\ att.stayed =>
       ~Changes /\ UNCHANGED retained /\ (pc # pc' => UNCHANGED torrents)]_vars

\* What of the event's scope Arr still has, and Seerr still asks for.
Remains ==
  CASE att.event.type \in {"Movie", "Series"} -> att.title \in lib.titles
    [] att.event.type = "Season" ->
         \/ <<att.title, att.event.season>> \in lib.seasons
         \/ \E e \in Episodes(att.title) : InScope(e) /\ e.id \in lib.monitored
Leftovers == {e \in Episodes(att.title) : InScope(e) /\ e.file # None}

\* A job is completed only when all of it is done: the title is gone, or the
\* season is neither monitored nor on disk, but for what is shared with
\* something outside; and the torrents are settled.
CompletedIsDone ==
  att.verdict = "completed" /\ ~att.dry /\ att.event.origin = "manual" =>
    /\ ~Remains
    /\ \A h \in Backing : Settled(h)
    /\ Leftovers # {} => \E a \in att.acts : a.name = "safety_note"

\* The source item leaves Jellyfin last: when a job removes it after a real
\* cascade, nothing of its scope is left in Arr, shared or not, no Seerr
\* media is left for a whole title, and every torrent is settled.
SourceLast ==
  [][pc = "built" /\ pc' = "done" /\ jelly' # jelly /\ ~att.dry =>
       /\ ~Remains /\ Leftovers = {}
       /\ \A h \in {g.hash : g \in Grabs(att.title)} \cap att.hashes : Settled(h)
       /\ att.event.type \in {"Movie", "Series"} => ~\E m \in Media(Kind(att.event)) : Means(att.event.ids, m)]_vars

\* An attempt that the job service will repeat has changed nothing in Arr,
\* Seerr or Jellyfin.
RetryTouchedNothing == att.verdict = "retry" => ~att.touched /\ ~\E a \in att.acts : a.name = "delete_item" /\ a.status = "deleted"

\* Dry-run binds twice.  An attempt that captured it when it began, or a
\* preview, changes nothing in Arr, Seerr, the clients or the records of
\* retention, whatever is switched later; and no attempt, however it began,
\* deletes the item in Jellyfin while the configuration says dry-run.
DryRunBinds ==
  [][/\ att.dry => ~Changes /\ UNCHANGED retained /\ (pc # pc' => UNCHANGED torrents)
     /\ config /\ pc # pc' => UNCHANGED jelly]_vars

\* What SAFETY.md:12-14 says of a dry run: it invokes no mutation downstream,
\* hence none in Jellyfin either.
DryRunTouchesNothing ==
  [][att.dry => /\ ~Changes /\ UNCHANGED retained
                /\ pc # pc' => UNCHANGED <<torrents, jelly>>]_vars

=============================================================================
