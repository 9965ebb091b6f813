----------------------------- MODULE MCCascade -----------------------------
(* Small libraries for the cascade.                                        *)
EXTENDS Cascade

Ids(tmdb, tvdb, imdb, path) == [tmdb |-> tmdb, tvdb |-> tvdb, imdb |-> imdb, path |-> path]
Title(id, kind, ids) == [id |-> id, kind |-> kind, ids |-> ids]
Grab(title, episode, hash) == [title |-> title, episode |-> episode, hash |-> hash]
Media1(id, kind, ids) == [id |-> id, kind |-> kind, ids |-> [ids EXCEPT !.path = None]]
Request(id, media, seasons) == [id |-> id, media |-> media, seasons |-> seasons]
Issue(id, media, season, episode) == [id |-> id, media |-> media, season |-> season, episode |-> episode]
Episode(id, title, season, number, file) ==
  [id |-> id, title |-> title, season |-> season, number |-> number, file |-> file, listed |-> TRUE]
Event(origin, type, season, numbers, ids, source) ==
  [origin |-> origin, type |-> type, season |-> season, numbers |-> numbers, ids |-> ids, source |-> source]
Movie(origin, ids, source) == Event(origin, "Movie", None, {}, ids, source)

\* Movies: m1 with two torrents of its own, m2 and m3 the same film in two
\* Radarr instances, m4 with a torrent that m2 was also grabbed with.
M1 == Ids("t1", None, "i1", "/m1")
M2 == Ids("t2", None, "i2", "/m2")
M3 == Ids("t2", None, "i2", "/m3")
M4 == Ids("t4", None, None, "/m4")
FilmLibrary ==
  [titles |-> {Title("m1", "movie", M1), Title("m2", "movie", M2), Title("m3", "movie", M3), Title("m4", "movie", M4)},
   episodes |-> {},
   grabs |-> {Grab("m1", None, "h1"), Grab("m1", None, "h2"), Grab("m2", None, "h4"), Grab("m4", None, "h4")},
   media |-> {Media1("a1", "movie", M1), Media1("a9", "movie", Ids("t9", None, None, None))},
   requests |-> {Request("q1", "a1", {})}, issues |-> {Issue("x1", "a1", None, None)},
   seeding |-> {"h1"}, tangled |-> {"h2"},
   events |-> {Movie("webhook", Ids("t1", None, "i1", "/media/m1.mkv"), FALSE),
               Movie("webhook", Ids(None, None, None, "/m1"), FALSE),
               Movie("webhook", Ids("t1", None, "i2", None), FALSE),
               Movie("webhook", Ids("t2", None, None, None), FALSE),
               Movie("webhook", Ids("t4", None, None, None), FALSE),
               Movie("webhook", Ids("t9", None, None, None), FALSE),
               Movie("manual", M1, TRUE), Movie("manual", M4, FALSE),
               Movie("jellyfin_only", Ids("t9", None, None, None), TRUE),
               Movie("jellyfin_only", Ids("t1", None, None, None), TRUE)}]

\* One series: season 1 with episodes e1 and e2, season 2 with e3 that shares
\* its file with e2; h2 is a pack of e2 and e3.
S1 == Ids(None, "v1", "i5", "/s1")
Show(origin, type, season, numbers, source) == Event(origin, type, season, numbers, S1, source)
SharedShow ==
  [titles |-> {Title("s1", "series", S1)},
   episodes |-> {Episode("e1", "s1", 1, 1, "f1"), Episode("e2", "s1", 1, 2, "f2"), Episode("e3", "s1", 2, 1, "f2")},
   grabs |-> {Grab("s1", "e1", "h1"), Grab("s1", "e2", "h2"), Grab("s1", "e3", "h2")},
   media |-> {Media1("a5", "series", S1)},
   requests |-> {Request("q5", "a5", {1, 2}), Request("q6", "a5", {1})},
   issues |-> {Issue("x5", "a5", 1, 1), Issue("x6", "a5", 2, 1)},
   seeding |-> {"h1"}, tangled |-> {"h2"},
   events |-> {Show("webhook", "Series", None, {}, FALSE), Show("webhook", "Season", 1, {}, FALSE),
               Show("webhook", "Season", 2, {}, FALSE), Show("webhook", "Season", 3, {}, FALSE),
               Show("webhook", "Episode", 1, {1}, FALSE), Show("webhook", "Episode", 2, {1}, FALSE),
               Show("webhook", "Episode", 1, {1, 2}, FALSE), Show("webhook", "Episode", 1, {3}, FALSE),
               Show("manual", "Season", 1, {}, TRUE), Show("manual", "Season", 1, {}, FALSE),
               Show("manual", "Series", None, {}, TRUE)}]

\* A series whose seasons have their own files and torrents; Sonarr no longer
\* lists e9, which h9 was also grabbed for.
Unlisted(e) == [e EXCEPT !.listed = FALSE]
CleanShow ==
  [titles |-> {Title("s1", "series", S1)},
   episodes |-> {Episode("e1", "s1", 1, 1, "f1"), Episode("e3", "s1", 2, 1, "f3"),
                 Unlisted(Episode("e9", "s1", 3, 1, None))},
   grabs |-> {Grab("s1", "e1", "h1"), Grab("s1", "e3", "h3"), Grab("s1", "e3", "h9"), Grab("s1", "e9", "h9")},
   media |-> {Media1("a5", "series", S1)},
   requests |-> {Request("q5", "a5", {1, 2}), Request("q6", "a5", {1})},
   issues |-> {Issue("x5", "a5", 1, 1)},
   seeding |-> {"h1"}, tangled |-> {},
   events |-> {Show("webhook", "Series", None, {}, FALSE), Show("webhook", "Season", 1, {}, FALSE),
               Show("webhook", "Episode", 1, {1}, FALSE),
               Show("manual", "Season", 1, {}, TRUE), Show("manual", "Season", 2, {}, FALSE),
               Show("manual", "Series", None, {}, FALSE)}]

Libraries == {FilmLibrary, SharedShow, CleanShow}

\* The clean show beside another series that h1 was grabbed for, too.
S2 == Ids(None, "v2", "i6", "/s2")
TwoShows ==
  [CleanShow EXCEPT !.titles = @ \cup {Title("s2", "series", S2)},
                    !.episodes = @ \cup {Episode("e7", "s2", 1, 1, "f7")},
                    !.grabs = @ \cup {Grab("s2", "e7", "h1")}]
TwoShowsOnly == {TwoShows}
CleanShowOnly == {CleanShow}

=============================================================================
