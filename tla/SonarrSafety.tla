---------------------------- MODULE SonarrSafety ----------------------------
(***************************************************************************)
(* SonarrDeletionSafetyAnalyzer: what of one series a deletion event may   *)
(* touch.  An episode is a record [id, season, number, file], a grab a     *)
(* record [episode, hash] of the series' history.                          *)
(***************************************************************************)
CONSTANT None \* no file, no season, no episode

\* _resolve_target_episode_ids.
Targets(event, episodes) ==
  {e.id : e \in {x \in episodes :
     \/ event.type = "Series"
     \/ /\ event.season # None /\ x.season = event.season
        /\ event.type = "Season" \/ (event.type = "Episode" /\ x.number \in event.numbers)}}

EpisodesOf(file, episodes) == {e.id : e \in {x \in episodes : x.file = file}}
GrabbedFor(hash, grabs) == {g.episode : g \in {x \in grabs : x.hash = hash}} \ {None}

\* Something is inside the scope when all it belongs to is.
Within(things, targets) == things \cap targets # {} /\ things \subseteq targets
Across(things, targets) == things \cap targets # {} /\ ~(things \subseteq targets)

\* analyze: the files and torrents entirely in scope, without the files of
\* an episode that a torrent from a larger pack also backs.
Analyze(event, episodes, grabs) ==
  LET targets == Targets(event, episodes)
      files == {e.file : e \in episodes} \ {None}
      hashes == {g.hash : g \in grabs}
      packs == {h \in hashes : Across(GrabbedFor(h, grabs), targets)}
      blocked == UNION {GrabbedFor(h, grabs) : h \in packs}
  IN [targets |-> targets,
      files |-> {f \in files : /\ Within(EpisodesOf(f, episodes), targets)
                               /\ EpisodesOf(f, episodes) \cap blocked = {}},
      hashes |-> {h \in hashes : Within(GrabbedFor(h, grabs), targets)},
      notes |-> (IF targets = {} THEN {"no_match"} ELSE {})
                \cup (IF \E f \in files : Across(EpisodesOf(f, episodes), targets) THEN {"shared_file"} ELSE {})
                \cup (IF packs # {} THEN {"pack_torrent"} ELSE {})]

=============================================================================
