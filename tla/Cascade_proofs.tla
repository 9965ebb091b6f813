--------------------------- MODULE Cascade_proofs ---------------------------
(***************************************************************************)
(* Proofs about Cascade, for everything the services may report within     *)
(* ShapesAssumption and any number of attempts and troubles: what is       *)
(* touched and when, and what "completed" means.                           *)
(***************************************************************************)
EXTENDS Cascade, SequenceTheorems, FiniteSetTheorems, TLAPS

Fields ==
  {"event", "pass", "dry", "acts", "title", "hashes", "files", "unmonitor", "results", "clean", "todo",
   "replaced", "severed", "stayed", "touched", "verdict"}

\* The records have their fields, whatever the services put into them.
Shaped ==
  /\ DOMAIN att = Fields
  /\ DOMAIN lib = {"titles", "files", "monitored", "seasons"}
  /\ DOMAIN seerr = {"media", "requests", "issues"}
  /\ shape \in Shapes

LEMMA EventFacts ==
  ASSUME Shaped, NEW event \in shape.events
  PROVE  /\ event.type \in {"Movie", "Series", "Season", "Episode"}
         /\ event.origin \in {"webhook", "manual", "jellyfin_only"}
         /\ event.origin = "manual" => event.type # "Episode"
<1>1. shape \in Shapes
  BY DEF Shaped
<1>2. \A e \in shape.events : /\ e.type \in {"Movie", "Series", "Season", "Episode"}
                              /\ e.origin \in {"webhook", "manual", "jellyfin_only"}
                              /\ e.origin = "manual" => e.type # "Episode"
  BY <1>1, ShapesAssumption
<1> QED
  BY <1>2

LEMMA ShapedInit == Init => Shaped
  BY DEF Init, Shaped, Idle, Fields

LEMMA IdleShaped ==
  /\ DOMAIN Idle = Fields
  /\ \A event, pass : DOMAIN Began(event, pass) = Fields
  BY DEF Idle, Fields, Began

-----------------------------------------------------------------------------
(* The steps that leave Arr, Seerr, the records and the torrents alone.    *)

LEMMA QuietSteps ==
  ASSUME \/ \E event \in shape.events : Begin(event)
         \/ Guard \/ Evidence \/ NothingToRemove \/ RemoveRaises \/ AccountsEnd
         \/ Blocked \/ Ready \/ StageEnds \/ CallsEnd \/ FindMedia \/ MediaFails \/ Ending
         \/ ItemMoves \/ SwitchMode \/ OldClientsClose \/ Crash \/ UNCHANGED vars
  PROVE  UNCHANGED <<lib, torrents, retained, seerr>>
<1>1. ASSUME NEW event \in shape.events, Begin(event) PROVE UNCHANGED world
  BY <1>1 DEF Begin
<1>2. CASE Guard
  BY <1>2 DEF Guard, FindById, FindByProvider, FindFails, world
<1>3. CASE Evidence
  BY <1>3 DEF Evidence, Catalogue, History, EvidenceFails, Owners, world
<1>4. CASE NothingToRemove \/ RemoveRaises \/ AccountsEnd
  BY <1>4 DEF NothingToRemove, RemoveRaises, AccountsEnd, world
<1>5. CASE Blocked \/ Ready \/ StageEnds \/ CallsEnd \/ FindMedia \/ MediaFails
  BY <1>5 DEF Blocked, Ready, StageEnds, CallsEnd, FindMedia, MediaFails, world
<1>6. CASE Ending
  BY <1>6 DEF Ending, PreviewEnds, CascadeEnds, DeleteSource, Unlinked, UnlinkedFails, DeleteAlone, world
<1>7. CASE ItemMoves \/ SwitchMode \/ OldClientsClose \/ Crash \/ UNCHANGED vars
  BY <1>7 DEF ItemMoves, SwitchMode, OldClientsClose, Crash, world, vars
<1> QED
  BY <1>1, <1>2, <1>3, <1>4, <1>5, <1>6, <1>7 DEF world

\* The steps that are not quiet.
LEMMA OtherSteps ==
  ASSUME [Next]_vars
  PROVE  \/ UNCHANGED <<lib, torrents, retained, seerr>>
         \/ Remove
         \/ \E h \in att.hashes : Account(h)
         \/ Mutations
         \/ \E h \in torrents : TorrentVanishes(h)
  BY QuietSteps DEF Next, Cleanup, Dependent

-----------------------------------------------------------------------------
(* Dry-run binds.                                                          *)

\* Whatever the operator switches meanwhile, an attempt that captured the
\* dry-run mode when it began, or a preview, changes nothing in Arr, Seerr,
\* the clients or the records of retention (strategies.py captures the mode
\* once and branches on it).  The item in Jellyfin is under the mode of the
\* moment (manual_deletion.py asks again): no attempt deletes it while that
\* is dry-run, but one that began dry may when it is not.
THEOREM DryRunIsDry == Spec => DryRunBinds
<1>1. ASSUME [Next]_vars
      PROVE  att.dry => ~Changes /\ UNCHANGED retained /\ (pc # pc' => UNCHANGED torrents)
  <2>1. CASE UNCHANGED <<lib, torrents, retained, seerr>>
    BY <2>1 DEF Changes
  <2>2. CASE Remove
    <3>1. UNCHANGED <<lib, retained, seerr>>
      BY <2>2 DEF Remove
    <3>2. ASSUME att.dry PROVE torrents' = torrents
      BY <2>2, <3>2 DEF Remove
    <3> QED
      BY <3>1, <3>2 DEF Changes
  <2>3. ASSUME NEW h \in att.hashes, Account(h)
        PROVE  att.dry => ~Changes /\ UNCHANGED retained /\ (pc # pc' => UNCHANGED torrents)
    BY <2>3 DEF Account, Changes
  <2>4. CASE Mutations
    BY <2>4 DEF Mutations, Mutate, Changes
  <2>5. ASSUME NEW h \in torrents, TorrentVanishes(h)
        PROVE  att.dry => ~Changes /\ UNCHANGED retained /\ (pc # pc' => UNCHANGED torrents)
    BY <2>5 DEF TorrentVanishes, Changes
  <2> QED
    BY <1>1, <2>1, <2>2, <2>3, <2>4, <2>5, OtherSteps
<1>2. ASSUME [Next]_vars, config, pc # pc'
      PROVE  UNCHANGED jelly
  <2>1. CASE Guard \/ Evidence \/ Cleanup \/ Dependent
    BY <2>1 DEF Guard, FindById, FindByProvider, FindFails, Refuse, Evidence, Catalogue, History, EvidenceFails, Owners,
       Cleanup, NothingToRemove, Remove, RemoveRaises, Account, AccountsEnd,
       Dependent, Blocked, Ready, Mutations, StageEnds, CallsEnd, FindMedia, MediaFails
  <2>2. CASE Ending
    BY <1>2, <2>2 DEF Ending, PreviewEnds, CascadeEnds, DeleteSource, Unlinked, UnlinkedFails, DeleteAlone
  <2>3. ASSUME NEW event \in shape.events, Begin(event)
        PROVE  UNCHANGED jelly
    BY <2>3 DEF Begin
  <2>4. ASSUME NEW h \in torrents, TorrentVanishes(h)
        PROVE  UNCHANGED jelly
    BY <2>4 DEF TorrentVanishes
  <2>5. CASE ItemMoves \/ SwitchMode \/ OldClientsClose \/ Crash \/ UNCHANGED vars
    BY <1>2, <2>5 DEF ItemMoves, SwitchMode, OldClientsClose, Crash, vars
  <2> QED
    BY <1>2, <2>1, <2>2, <2>3, <2>4, <2>5 DEF Next
<1> QED
  BY <1>1, <1>2, PTL DEF Spec, DryRunBinds

-----------------------------------------------------------------------------
(* The shape of the records is kept.                                       *)

LEMMA ShapeStays == [Next]_vars => shape' = shape
  BY DEF Next, vars, Begin, Guard, FindById, FindByProvider, FindFails, Evidence, Catalogue, History, EvidenceFails,
     Owners, Cleanup, NothingToRemove, Remove, RemoveRaises, Account, AccountsEnd, Dependent, Blocked, Ready,
     Mutations, StageEnds, CallsEnd, FindMedia, MediaFails, Ending, PreviewEnds, CascadeEnds, DeleteSource,
     Unlinked, UnlinkedFails, DeleteAlone, ItemMoves, TorrentVanishes, SwitchMode, OldClientsClose, Crash

LEMMA ShapedStep ==
  ASSUME Shaped, [Next]_vars
  PROVE  Shaped'
<1>1. shape' = shape
  BY ShapeStays
<1>2. DOMAIN lib' = DOMAIN lib /\ DOMAIN seerr' = DOMAIN seerr
  <2>1. CASE Mutations
    <3>1. \A call : DOMAIN LibAfter(call) = DOMAIN lib /\ DOMAIN SeerrAfter(call) = DOMAIN seerr
      BY DEF LibAfter, SeerrAfter
    <3> QED
      BY <2>1, <3>1 DEF Mutations, Mutate, Effect
  <2> QED
    BY <2>1, OtherSteps DEF Remove, Account, TorrentVanishes
<1>3. DOMAIN att' = Fields
  <2>1. ASSUME NEW event \in shape.events, Begin(event) PROVE DOMAIN att' = Fields
    BY <2>1, IdleShaped DEF Begin
  <2>2. CASE Guard
    BY <2>2 DEF Guard, FindById, FindByProvider, FindFails, Refuse, Shaped
  <2>3. CASE Evidence
    BY <2>3 DEF Evidence, Catalogue, History, EvidenceFails, Owners, Note, Shaped
  <2>4. CASE NothingToRemove \/ Remove \/ RemoveRaises \/ AccountsEnd
    BY <2>4 DEF NothingToRemove, Remove, RemoveRaises, AccountsEnd, Note, Shaped
  <2>5. ASSUME NEW h \in att.hashes, Account(h) PROVE DOMAIN att' = Fields
    BY <2>5 DEF Account, Accounted, Shaped
  <2>6. CASE Blocked \/ Ready \/ StageEnds \/ CallsEnd \/ FindMedia \/ MediaFails
    BY <2>6 DEF Blocked, Ready, StageEnds, CallsEnd, FindMedia, MediaFails, Note, Shaped
  <2>7. CASE Mutations
    BY <2>7 DEF Mutations, Mutate, Called, Shaped
  <2>8. CASE Ending
    BY <2>8, IdleShaped DEF Ending, PreviewEnds, CascadeEnds, DeleteSource, DecideSource, Unlinked, UnlinkedFails,
       DeleteAlone, Shaped
  <2>9. ASSUME NEW h \in torrents, TorrentVanishes(h) PROVE DOMAIN att' = Fields
    BY <2>9 DEF TorrentVanishes, Shaped
  <2>10. CASE ItemMoves \/ SwitchMode \/ OldClientsClose \/ Crash \/ UNCHANGED vars
    BY <2>10, IdleShaped DEF ItemMoves, SwitchMode, OldClientsClose, Crash, vars, Shaped
  <2> QED
    BY <2>1, <2>2, <2>3, <2>4, <2>5, <2>6, <2>7, <2>8, <2>9, <2>10 DEF Next, Cleanup, Dependent
<1> QED
  BY <1>1, <1>2, <1>3 DEF Shaped

-----------------------------------------------------------------------------
(* A webhook whose item is still in Jellyfin.                              *)

\* It gets no further than the two lookups; a preview is of a manual job.
Guarded ==
  /\ pc \in {"by_id", "by_provider"} => att.event.origin = "webhook" /\ (att.stayed => jelly # "gone")
  /\ pc \in {"alone", "unlinked"} => att.event.origin = "jellyfin_only"
  /\ att.event.origin = "webhook" /\ Identified(att.event) /\ att.stayed => pc \in {"by_id", "by_provider", "done"}
  /\ att.pass = "preview" => att.event.origin = "manual" \/ pc \in {"idle", "done"}

LEMMA GuardedInit == Init => Guarded
  BY DEF Init, Guarded, Idle, NoEvent

LEMMA GuardedStep ==
  ASSUME Shaped, Guarded, [Next]_vars
  PROVE  Guarded'
<1>1. ASSUME NEW event \in shape.events, Begin(event) PROVE Guarded'
  <2>1. \/ event.origin = "webhook" /\ pc' = "by_id"
        \/ event.origin = "manual" /\ pc' = "catalogue"
        \/ event.origin = "jellyfin_only" /\ pc' = "unlinked"
    <3>1. event.origin \in {"webhook", "manual", "jellyfin_only"}
      BY EventFacts
    <3> QED
      BY <1>1, <3>1 DEF Begin, Goto
  <2>2. /\ att'.event = event /\ jelly' = jelly
        /\ att'.pass = IF event.origin = "manual" THEN "preview" ELSE "execute"
    BY <1>1 DEF Begin, Began, Idle
  <2>3. att'.stayed <=> jelly # "gone"
    BY <1>1 DEF Begin, Began, Idle
  <2> QED
    BY <2>1, <2>2, <2>3 DEF Guarded
<1>2. CASE Guard
  BY <1>2 DEF Guard, FindById, FindByProvider, FindFails, Refuse, Shaped, Fields, Guarded, Goto, Identified
<1>3. CASE Evidence
  BY <1>3 DEF Evidence, Catalogue, History, EvidenceFails, Owners, Note, Shaped, Fields, Guarded, Goto, Identified
<1>4. CASE NothingToRemove \/ Remove \/ RemoveRaises \/ AccountsEnd
  BY <1>4 DEF NothingToRemove, Remove, RemoveRaises, AccountsEnd, Note, Shaped, Fields, Guarded, Goto, Identified
<1>5. ASSUME NEW h \in att.hashes, Account(h) PROVE Guarded'
  BY <1>5 DEF Account, Accounted, Shaped, Fields, Guarded, Identified
<1>6. CASE Blocked \/ Ready \/ StageEnds \/ CallsEnd \/ FindMedia \/ MediaFails
  BY <1>6 DEF Blocked, Ready, StageEnds, CallsEnd, FindMedia, MediaFails, Note, Shaped, Fields, Guarded, Goto, Identified
<1>7. CASE Mutations
  BY <1>7 DEF Mutations, Mutate, Called, Shaped, Fields, Guarded, Identified
<1>8. CASE Ending
  BY <1>8 DEF Ending, PreviewEnds, CascadeEnds, DeleteSource, DecideSource, Unlinked, UnlinkedFails,
       DeleteAlone, Shaped, Fields, Guarded, Goto, Identified, Began, Idle
<1>9. ASSUME NEW h \in torrents, TorrentVanishes(h) PROVE Guarded'
  BY <1>9 DEF TorrentVanishes, Guarded, Identified
<1>10. CASE ItemMoves \/ SwitchMode \/ OldClientsClose \/ Crash \/ UNCHANGED vars
  <2>1. CASE SwitchMode \/ OldClientsClose \/ Crash \/ UNCHANGED vars
    BY <2>1 DEF SwitchMode, OldClientsClose, Crash, vars, Shaped, Fields, Guarded, Identified, Idle, NoEvent, Goto
  <2>2. CASE ItemMoves
    <3>1. att'.event = att.event /\ att'.pass = att.pass /\ pc' = pc
      BY <2>2 DEF ItemMoves, Shaped, Fields
    <3>2. att'.stayed = (att.stayed /\ jelly' # "gone")
      BY <2>2 DEF ItemMoves, Shaped, Fields
    <3> QED
      BY <3>1, <3>2 DEF Guarded, Identified
  <2> QED
    BY <1>10, <2>1, <2>2
<1> QED
  BY <1>1, <1>2, <1>3, <1>4, <1>5, <1>6, <1>7, <1>8, <1>9, <1>10 DEF Next, Cleanup, Dependent

\* While Jellyfin has had the item ever since the attempt began, under its
\* id or another one, a webhook's strategy returns before it changes anything.
THEOREM PresentIsUntouched == Spec => PresentMeansUntouched
<1>1. ASSUME Guarded, [Next]_vars
      PROVE  att.event.origin = "webhook" /\ Identified(att.event) /\ att.stayed =>
               ~Changes /\ UNCHANGED retained /\ (pc # pc' => UNCHANGED torrents)
  <2>1. CASE UNCHANGED <<lib, torrents, retained, seerr>>
    BY <2>1 DEF Changes
  <2>2. CASE Remove
    BY <1>1, <2>2 DEF Remove, Guarded
  <2>3. CASE \E h \in att.hashes : Account(h)
    BY <1>1, <2>3 DEF Account, Guarded
  <2>4. CASE Mutations
    BY <1>1, <2>4 DEF Mutations, Guarded
  <2>5. CASE \E h \in torrents : TorrentVanishes(h)
    BY <2>5 DEF TorrentVanishes, Changes
  <2> QED
    BY <1>1, <2>1, <2>2, <2>3, <2>4, <2>5, OtherSteps
<1>2. Spec => [](Shaped /\ Guarded)
  BY ShapedInit, GuardedInit, ShapedStep, GuardedStep, PTL DEF Spec
<1> QED
  BY <1>1, <1>2, PTL DEF Spec, PresentMeansUntouched

-----------------------------------------------------------------------------
(* The calls still to make.                                                *)

\* A list is a sequence of whatever it holds.
IsList(s) == s \in Seq({s[i] : i \in DOMAIN s})

LEMMA ListHead ==
  ASSUME NEW s, IsList(s), s # <<>>
  PROVE  1 \in DOMAIN s /\ Head(s) = s[1]
  BY DEF IsList

LEMMA ListOf ==
  ASSUME NEW n \in Nat, NEW S, NEW s \in [1..n -> S]
  PROVE  IsList(s)
<1> DEFINE T == {s[i] : i \in DOMAIN s}
<1>1. \A i \in 1..n : s[i] \in T
  OBVIOUS
<1>2. DOMAIN s = 1..n /\ s = [i \in 1..n |-> s[i]]
  OBVIOUS
<1> HIDE DEF T
<1>3. s \in [1..n -> T]
  BY <1>1, <1>2
<1>4. s \in Seq(T)
  BY <1>3, SeqDef
<1> QED
  BY <1>4 DEF IsList, T

LEMMA ListTail ==
  ASSUME NEW s, IsList(s), s # <<>>
  PROVE  /\ IsList(Tail(s))
         /\ \A i \in DOMAIN Tail(s) : i + 1 \in DOMAIN s /\ Tail(s)[i] = s[i + 1]
         /\ \A i \in DOMAIN s : i # 1 => i - 1 \in DOMAIN Tail(s) /\ Tail(s)[i - 1] = s[i]
<1> DEFINE S == {s[i] : i \in DOMAIN s}
           t == Tail(s)
<1>1. s \in Seq(S) /\ Len(s) \in Nat \ {0} /\ DOMAIN s = 1..Len(s)
  BY DEF IsList
<1>2. t \in Seq(S) /\ Len(t) = Len(s) - 1 /\ \A i \in 1..Len(t) : t[i] = s[i + 1]
  <2> HIDE DEF S
  <2> QED
    BY <1>1, HeadTailProperties
<1> HIDE DEF S
<1>3. Len(t) \in Nat /\ t \in [1..Len(t) -> S]
  BY <1>2, LenProperties
<1>4. IsList(t)
  BY <1>3, ListOf
<1> QED
  BY <1>1, <1>2, <1>3, <1>4

LEMMA ListExcept ==
  ASSUME NEW s, IsList(s), s # <<>>, NEW v
  PROVE  LET t == [s EXCEPT ![1] = v]
         IN  /\ IsList(t) /\ DOMAIN t = DOMAIN s
             /\ t[1] = v /\ \A i \in DOMAIN s : i # 1 => t[i] = s[i]
<1> DEFINE S == {s[i] : i \in DOMAIN s} \cup {v}
           t == [s EXCEPT ![1] = v]
<1>1. Len(s) \in Nat \ {0} /\ DOMAIN s = 1..Len(s)
  BY DEF IsList
<1>2. DOMAIN t = DOMAIN s /\ t[1] = v /\ \A i \in DOMAIN s : i # 1 => t[i] = s[i]
  BY <1>1
<1>3. t \in [1..Len(s) -> S]
  BY <1>1, <1>2
<1> HIDE DEF S
<1>4. IsList(t)
  BY <1>1, <1>3, ListOf
<1> QED
  BY <1>2, <1>4

LEMMA ShortLists ==
  /\ IsList(<<>>) /\ DOMAIN <<>> = {}
  /\ \A a : IsList(<<a>>) /\ DOMAIN <<a>> = {1} /\ <<a>>[1] = a
  /\ \A a, b : IsList(<<a, b>>) /\ DOMAIN <<a, b>> = {1, 2} /\ <<a, b>>[1] = a /\ <<a, b>>[2] = b
  /\ \A a, b, c : /\ IsList(<<a, b, c>>) /\ DOMAIN <<a, b, c>> = {1, 2, 3}
                  /\ <<a, b, c>>[1] = a /\ <<a, b, c>>[2] = b /\ <<a, b, c>>[3] = c
<1>1. IsList(<<>>) /\ DOMAIN <<>> = {}
  BY DEF IsList
<1>2. ASSUME NEW a PROVE IsList(<<a>>) /\ DOMAIN <<a>> = {1} /\ <<a>>[1] = a
  BY DEF IsList
<1>3. ASSUME NEW a, NEW b
      PROVE  IsList(<<a, b>>) /\ DOMAIN <<a, b>> = {1, 2} /\ <<a, b>>[1] = a /\ <<a, b>>[2] = b
  BY DEF IsList
<1>4. ASSUME NEW a, NEW b, NEW c
      PROVE  /\ IsList(<<a, b, c>>) /\ DOMAIN <<a, b, c>> = {1, 2, 3}
             /\ <<a, b, c>>[1] = a /\ <<a, b, c>>[2] = b /\ <<a, b, c>>[3] = c
  BY DEF IsList
<1> QED
  BY <1>1, <1>2, <1>3, <1>4

LEMMA ThreeStages ==
  ASSUME NEW a, NEW b, NEW c
  PROVE  LET s == <<a, b>> \o <<c>>
         IN  IsList(s) /\ DOMAIN s = {1, 2, 3} /\ s[1] = a /\ s[2] = b /\ s[3] = c
<1> DEFINE S == {a, b, c}
           s == <<a, b>> \o <<c>>
<1>1. <<a, b>> \in Seq(S) /\ <<c>> \in Seq(S) /\ Len(<<a, b>>) = 2 /\ Len(<<c>>) = 1
  OBVIOUS
<1> HIDE DEF S
<1>2. /\ s \in Seq(S) /\ Len(s) = 3
      /\ \A i \in 1..3 : s[i] = IF i <= 2 THEN <<a, b>>[i] ELSE <<c>>[i - 2]
  BY <1>1, ConcatProperties
<1>3. s \in [1..3 -> S] /\ DOMAIN s = 1..3
  BY <1>2, LenProperties
<1>4. IsList(s)
  BY <1>3, ListOf
<1>5. s[1] = a /\ s[2] = b /\ s[3] = c
  BY <1>2
<1> QED
  BY <1>3, <1>4, <1>5

\* A call to Arr that the event asks for, and a call to Seerr.
ArrCall(c, event, title, files) ==
  \/ c.name = "delete_movie" /\ event.type = "Movie" /\ c.on = title
  \/ c.name = "delete_series" /\ event.type = "Series" /\ c.on = title
  \/ /\ event.type \in {"Season", "Episode"}
     /\ c.name \in {"unmonitor_episodes", "unmonitor_season"} \/ (c.name = "delete_episode_file" /\ c.on \in files)

SeerrCall(c) == c.name \in {"update_request", "delete_request", "delete_issue", "delete_media"}

\* The work at hand: a list of calls to Arr or to Seerr, and none elsewhere.
Planned ==
  /\ pc \notin {"idle", "done"} => att.event \in shape.events
  /\ IsList(att.todo)
  /\ pc \notin {"arr", "tidy"} => att.todo = <<>>
  /\ pc = "arr" => \A i \in DOMAIN att.todo : \A c \in att.todo[i] : ArrCall(c, att.event, att.title, att.files)
  /\ pc = "tidy" => \A i \in DOMAIN att.todo : \A c \in att.todo[i] : SeerrCall(c)

LEMMA PlannedInit == Init => Planned
  BY ShortLists DEF Init, Planned, Idle

LEMMA ArrCallsPlanned ==
  ASSUME att.event.type \in {"Movie", "Series", "Season", "Episode"}
  PROVE  /\ IsList(ArrCalls)
         /\ \A i \in DOMAIN ArrCalls : \A c \in ArrCalls[i] : ArrCall(c, att.event, att.title, att.files)
<1>1. CASE att.event.type \in {"Movie", "Series"}
  BY <1>1, ShortLists DEF ArrCalls, MovieCalls, SeriesCalls, ArrCall, Call
<1>2. CASE att.event.type = "Episode"
  BY <1>2, ShortLists DEF ArrCalls, EpisodeCalls, ArrCall, Call
<1>3. CASE att.event.type = "Season"
  <2>1. ArrCalls = SeasonCalls
    BY <1>3 DEF ArrCalls
  <2>2. /\ IsList(SeasonCalls)
        /\ \A i \in DOMAIN SeasonCalls :
             SeasonCalls[i] \in {{Call("unmonitor_episodes", x) : x \in {att.unmonitor} \ {{}}},
                                 {Call("delete_episode_file", f) : f \in att.files},
                                 {Call("unmonitor_season", <<att.title, att.event.season>>)}}
    BY ThreeStages DEF SeasonCalls, EpisodeCalls
  <2> QED
    BY <1>3, <2>1, <2>2 DEF ArrCall, Call
<1> QED
  BY <1>1, <1>2, <1>3

LEMMA SeerrCallsPlanned ==
  ASSUME att.event.type \in {"Movie", "Series", "Season", "Episode"}, NEW m
  PROVE  /\ IsList(SeerrCalls(m))
         /\ \A i \in DOMAIN SeerrCalls(m) : \A c \in SeerrCalls(m)[i] : SeerrCall(c)
<1>1. \A c \in SeasonRequests(m) \cup Issues(m) \cup {Call("delete_media", m.id)}
              \cup {Call("delete_request", r.id) : r \in RequestsOf(m)} : SeerrCall(c)
  BY DEF SeasonRequests, Issues, Call, SeerrCall
<1>2. CASE att.event.type \in {"Movie", "Series"}
  BY <1>1, <1>2, ShortLists DEF SeerrCalls, SeerrTitle
<1>3. CASE att.event.type = "Season"
  BY <1>1, <1>3, ShortLists DEF SeerrCalls, SeerrSeason
<1>4. CASE att.event.type = "Episode"
  BY <1>1, <1>4, ShortLists DEF SeerrCalls, SeerrEpisode
<1> QED
  BY <1>2, <1>3, <1>4

\* What a call leaves of the attempt, and what it records.
LEMMA CalledFrame ==
  ASSUME Shaped, NEW call, NEW act, NEW touched, Called(call, act, touched)
  PROVE  /\ \A f \in Fields \ {"acts", "touched", "todo"} : att'[f] = att[f]
         /\ att'.acts = att.acts \cup {act}
         /\ att'.todo = [att.todo EXCEPT ![1] = @ \ {call}]
         /\ att'.touched = (att.touched \/ touched)
<1>1. \A f \in Fields \ {"acts", "touched", "todo"} : att'[f] = att[f]
  BY DEF Called, Shaped
<1>2. att'.acts = att.acts \cup {act}
  BY DEF Called, Shaped, Fields
<1>3. att'.todo = [att.todo EXCEPT ![1] = @ \ {call}]
  BY DEF Called, Shaped, Fields
<1>4. att'.touched = (att.touched \/ touched)
  BY DEF Called, Shaped, Fields
<1> QED
  BY <1>1, <1>2, <1>3, <1>4

LEMMA MutateFrame ==
  ASSUME Shaped, NEW call, Mutate(call)
  PROVE  /\ att'.event = att.event /\ att'.title = att.title /\ att'.files = att.files
         /\ att'.hashes = att.hashes /\ att'.dry = att.dry /\ att'.clean = att.clean
         /\ att'.verdict = att.verdict
         /\ att'.pass = att.pass /\ att'.unmonitor = att.unmonitor /\ att'.results = att.results
         /\ att'.todo = [att.todo EXCEPT ![1] = @ \ {call}]
<1>1. PICK act, touched : Called(call, act, touched)
  BY DEF Mutate
<1> QED
  BY <1>1, CalledFrame DEF Fields

LEMMA PlannedStep ==
  ASSUME Shaped, Planned, [Next]_vars
  PROVE  Planned'
<1>0. shape' = shape
  BY ShapeStays
<1>t. pc \notin {"idle", "done"} => att.event.type \in {"Movie", "Series", "Season", "Episode"}
  BY EventFacts DEF Planned
<1>1. ASSUME NEW event \in shape.events, Begin(event) PROVE Planned'
  <2>1. pc' \in {"by_id", "catalogue", "unlinked"}
    BY <1>1, EventFacts DEF Begin, Goto
  <2>2. att'.event = event /\ att'.todo = <<>>
    BY <1>1 DEF Begin, Began, Idle
  <2> QED
    BY <1>0, <2>1, <2>2, ShortLists DEF Planned
<1>2. CASE Guard
  BY <1>0, <1>2, ShortLists DEF Guard, FindById, FindByProvider, FindFails, Refuse, Shaped, Fields, Planned, Goto
<1>3. CASE Evidence
  BY <1>0, <1>3, ShortLists DEF Evidence, Catalogue, History, EvidenceFails, Owners, Note, Shaped, Fields, Planned, Goto
<1>4. CASE NothingToRemove \/ Remove \/ RemoveRaises \/ AccountsEnd
  BY <1>0, <1>4, ShortLists DEF NothingToRemove, Remove, RemoveRaises, AccountsEnd, Note, Shaped, Fields, Planned, Goto
<1>5. ASSUME NEW h \in att.hashes, Account(h) PROVE Planned'
  BY <1>0, <1>5, ShortLists DEF Account, Accounted, Shaped, Fields, Planned
<1>6. CASE Blocked \/ CallsEnd \/ MediaFails
  BY <1>0, <1>6, ShortLists DEF Blocked, CallsEnd, MediaFails, Note, Shaped, Fields, Planned, Goto
<1>7. CASE Ready
  <2>1. /\ pc = "ready" /\ pc' = "arr" /\ att'.todo = ArrCalls /\ att'.event = att.event /\ att'.title = att.title
        /\ att'.files = att.files
    BY <1>7 DEF Ready, Goto, Shaped, Fields
  <2>2. /\ IsList(ArrCalls)
        /\ \A i \in DOMAIN ArrCalls : \A c \in ArrCalls[i] : ArrCall(c, att.event, att.title, att.files)
    BY <1>t, <2>1, ArrCallsPlanned
  <2> QED
    BY <1>0, <2>1, <2>2 DEF Planned
<1>8. CASE StageEnds
  <2>1. /\ pc \in {"arr", "tidy"} /\ pc' = pc /\ att.todo # <<>> /\ att'.todo = Tail(att.todo)
        /\ att'.event = att.event /\ att'.title = att.title /\ att'.files = att.files
    BY <1>8 DEF StageEnds, Shaped, Fields
  <2>2. /\ IsList(Tail(att.todo))
        /\ \A i \in DOMAIN Tail(att.todo) : i + 1 \in DOMAIN att.todo /\ Tail(att.todo)[i] = att.todo[i + 1]
    BY <2>1, ListTail DEF Planned
  <2> QED
    BY <1>0, <2>1, <2>2 DEF Planned
<1>9. CASE Mutations
  <2>1. PICK call \in Head(att.todo) : Mutate(call)
    BY <1>9 DEF Mutations
  <2>2. /\ pc \in {"arr", "tidy"} /\ pc' = pc /\ att.todo # <<>>
        /\ att'.event = att.event /\ att'.title = att.title /\ att'.files = att.files
        /\ att'.todo = [att.todo EXCEPT ![1] = @ \ {call}]
    BY <1>9, <2>1, MutateFrame DEF Mutations
  <2>3. /\ IsList(att'.todo) /\ DOMAIN att'.todo = DOMAIN att.todo /\ 1 \in DOMAIN att.todo
        /\ \A i \in DOMAIN att.todo : att'.todo[i] \subseteq att.todo[i]
    BY <2>2, ListHead, ListExcept DEF Planned
  <2> QED
    BY <1>0, <2>2, <2>3 DEF Planned
<1>10. CASE FindMedia
  <2>1. CASE pc' = "built"
    BY <1>0, <1>10, <2>1, ShortLists DEF FindMedia, Note, Shaped, Fields, Planned, Goto
  <2>2. CASE pc' # "built"
    <3> DEFINE match == Resolve(att.event.ids, att.event.origin = "manual", Media(Kind(att.event)),
                          IF Kind(att.event) = "movie" THEN SeerrMovies ELSE SeerrSeries)
               m == match.item
    <3>0. /\ pc = "media" /\ pc' = "tidy"
          /\ att' = [att EXCEPT !.todo = SeerrCalls(m),
                !.acts = IF att.event.type = "Episode" /\ ~CoversSeason /\ Asking(m) # {}
                           THEN @ \cup {Skip("retain_request", "partial_request_retained")} ELSE @]
      BY <1>10, <2>2 DEF FindMedia, Goto
    <3> HIDE DEF match
    <3>1. att'.todo = SeerrCalls(m) /\ pc' = "tidy" /\ att'.event = att.event /\ pc = "media"
      BY <3>0 DEF Shaped, Fields
    <3>2. /\ IsList(SeerrCalls(m))
          /\ \A i \in DOMAIN SeerrCalls(m) : \A c \in SeerrCalls(m)[i] : SeerrCall(c)
      BY <1>t, <3>1, SeerrCallsPlanned
    <3> QED
      BY <1>0, <3>1, <3>2 DEF Planned
  <2> QED
    BY <2>1, <2>2
<1>11. CASE Ending
  <2>1. CASE CascadeEnds \/ DeleteSource \/ Unlinked \/ UnlinkedFails \/ DeleteAlone
    BY <1>0, <2>1, ShortLists DEF CascadeEnds, DeleteSource, DecideSource, Unlinked, UnlinkedFails, DeleteAlone,
       Shaped, Fields, Planned, Goto
  <2>2. CASE PreviewEnds
    <3>1. pc = "built" /\ pc' \in {"done", "catalogue"} /\ att.todo = <<>>
      BY <2>2 DEF PreviewEnds, Goto, Planned
    <3>2. att'.event = att.event /\ att'.todo = <<>>
      BY <2>2, <3>1 DEF PreviewEnds, Began, Idle, Shaped, Fields
    <3> QED
      BY <1>0, <3>1, <3>2, ShortLists DEF Planned
  <2> QED
    BY <1>11, <2>1, <2>2 DEF Ending
<1>12. ASSUME NEW h \in torrents, TorrentVanishes(h) PROVE Planned'
  BY <1>0, <1>12 DEF TorrentVanishes, Planned
<1>13. CASE ItemMoves \/ SwitchMode \/ OldClientsClose \/ Crash \/ UNCHANGED vars
  BY <1>0, <1>13, ShortLists DEF ItemMoves, SwitchMode, OldClientsClose, Crash, vars, Shaped, Fields, Planned, Idle, Goto
<1> QED
  BY <1>1, <1>2, <1>3, <1>4, <1>5, <1>6, <1>7, <1>8, <1>9, <1>10, <1>11, <1>12, <1>13 DEF Next, Cleanup, Dependent

-----------------------------------------------------------------------------
(* What a repeated attempt has left undone.                                *)

Changing ==
  {"delete_movie", "delete_series", "unmonitor_episodes", "delete_episode_file", "unmonitor_season",
   "update_request", "delete_request", "delete_issue", "delete_media"}

\* Results with which the job service tries again.
Repeatable(acts) ==
  \A a \in acts : /\ a.status # "deleted"
                  /\ a.status = "failed" => a.name \in {"delete_hash", "delete_hashes"} \cup ReadActions

\* What was changed shows in the results.
Traced ==
  /\ att.touched => \E a \in att.acts : a.status = "deleted" \/ (a.status = "failed" /\ a.name \in Changing)
  /\ pc \in {"by_id", "by_provider", "unlinked", "alone"} => ~att.touched
  /\ att.verdict = "retry" => pc = "done" /\ Repeatable(att.acts)

LEMMA RetryIsRepeatable ==
  ASSUME NEW acts, Finished(acts) = "retry"
  PROVE  Repeatable(acts)
<1>1. Status(acts) # "retry"
  BY DEF Status
<1>2. JobVerdict(acts) = "retry"
  BY <1>1 DEF Finished
<1>3. /\ Unfinished(acts) /\ Retryable(acts) /\ ~\E a \in acts : a.status = "deleted"
  BY <1>2 DEF JobVerdict
<1> QED
  BY <1>3 DEF Repeatable, Retryable

LEMMA NoneIsNotRetry == None # "retry"
  BY NoneAssumption DEF Verdicts, Kept

LEMMA TracedInit == Init => Traced
<1> SUFFICES ASSUME Init PROVE Traced
  OBVIOUS
<1>1. ~att.touched
  BY DEF Init, Idle
<1>2. att.verdict = None
  BY DEF Init, Idle
<1> QED
  BY <1>1, <1>2, NoneIsNotRetry DEF Traced

LEMMA NoteGrows ==
  ASSUME Shaped, NEW acts, Note(acts)
  PROVE  att.acts \subseteq att'.acts
<1>1. att'.acts = att.acts \cup acts
  BY DEF Note, Shaped, Fields
<1> QED
  BY <1>1

\* Results are added to those before.
LEMMA ResultsGrow ==
  ASSUME Shaped,
         \/ Evidence \/ (\E h \in att.hashes : Account(h))
         \/ Blocked \/ CallsEnd \/ MediaFails \/ Ready \/ StageEnds \/ FindMedia
  PROVE  att.acts \subseteq att'.acts
<1>1. CASE Catalogue
  <2>1. \/ \E t : att' = [att EXCEPT !.title = t]
        \/ \E acts : Note(acts)
    BY <1>1 DEF Catalogue
  <2> QED
    BY <2>1, NoteGrows DEF Shaped, Fields
<1>2. CASE History
  <2>1. CASE \E hs : att' = [att EXCEPT !.hashes = hs]
    BY <2>1 DEF Shaped, Fields
  <2>2. CASE \E safe, notes : att' = [att EXCEPT !.hashes = safe.hashes, !.files = safe.files,
                                              !.unmonitor = safe.targets, !.acts = @ \cup notes]
    <3>1. PICK safe, notes : att' = [att EXCEPT !.hashes = safe.hashes, !.files = safe.files,
                                              !.unmonitor = safe.targets, !.acts = @ \cup notes]
      BY <2>2
    <3>2. att'.acts = att.acts \cup notes
      BY <3>1 DEF Shaped, Fields
    <3> QED
      BY <3>2
  <2> QED
    BY <1>2, <2>1, <2>2 DEF History
<1>3. CASE EvidenceFails \/ Owners \/ Blocked \/ CallsEnd \/ MediaFails
  <2>1. att' = att \/ \E acts : Note(acts)
    BY <1>3 DEF EvidenceFails, Owners, Blocked, CallsEnd, MediaFails
  <2> QED
    BY <2>1, NoteGrows
<1>4. CASE \E h \in att.hashes : Account(h)
  <2>1. PICK h, act : Accounted(h, act)
    BY <1>4 DEF Account
  <2>2. att'.acts = att.acts \cup {act}
    BY <2>1 DEF Accounted, Shaped, Fields
  <2> QED
    BY <2>2
<1>5. CASE StageEnds
  BY <1>5 DEF StageEnds, Shaped, Fields
<1>6. CASE Ready
  <2>1. att'.acts = IF att.event.type \in {"Season", "Episode"} /\ att.unmonitor = {}
                      THEN att.acts \cup {Skip("unmonitor_episodes", "no_match")} ELSE att.acts
    BY <1>6 DEF Ready, Shaped, Fields
  <2> QED
    BY <2>1
<1>7. CASE FindMedia
  <2>1. \/ \E acts : Note(acts)
        \/ \E m : att' = [att EXCEPT !.todo = SeerrCalls(m),
              !.acts = IF att.event.type = "Episode" /\ ~CoversSeason /\ Asking(m) # {}
                         THEN @ \cup {Skip("retain_request", "partial_request_retained")} ELSE @]
    BY <1>7 DEF FindMedia
  <2>2. ASSUME NEW m, att' = [att EXCEPT !.todo = SeerrCalls(m),
              !.acts = IF att.event.type = "Episode" /\ ~CoversSeason /\ Asking(m) # {}
                         THEN @ \cup {Skip("retain_request", "partial_request_retained")} ELSE @]
        PROVE  att.acts \subseteq att'.acts
    <3>1. att'.acts = IF att.event.type = "Episode" /\ ~CoversSeason /\ Asking(m) # {}
                         THEN att.acts \cup {Skip("retain_request", "partial_request_retained")} ELSE att.acts
      BY <2>2 DEF Shaped, Fields
    <3> QED
      BY <3>1
  <2> QED
    BY <2>1, <2>2, NoteGrows
<1> QED
  BY <1>1, <1>2, <1>3, <1>4, <1>5, <1>6, <1>7 DEF Evidence

\* A step of a running attempt that only adds results.
LEMMA TracedKept ==
  ASSUME Traced, pc # "done", pc \in {"by_id", "by_provider", "unlinked", "alone"} \/ pc' \notin {"unlinked", "alone", "by_id", "by_provider"},
         att.acts \subseteq att'.acts, att'.touched = att.touched, att'.verdict = att.verdict
  PROVE  Traced'
  BY DEF Traced

LEMMA CallChanges ==
  ASSUME Planned, pc \in {"arr", "tidy"}, att.todo # <<>>
  PROVE  /\ \A call \in Head(att.todo) : call.name \in Changing
         /\ pc = "arr" => \A call \in Head(att.todo) : ArrCall(call, att.event, att.title, att.files)
         /\ pc = "tidy" => \A call \in Head(att.todo) : SeerrCall(call)
  BY ListHead DEF Planned, ArrCall, SeerrCall, Changing

LEMMA TracedStep ==
  ASSUME Shaped, Planned, Traced, [Next]_vars
  PROVE  Traced'
<1>1. ASSUME NEW event \in shape.events, Begin(event) PROVE Traced'
  <2>1. ~att'.touched /\ att'.verdict = None
    BY <1>1 DEF Begin, Began, Idle
  <2> QED
    BY <2>1, NoneIsNotRetry DEF Traced
<1>2. CASE Guard
  BY <1>2 DEF Guard, FindById, FindByProvider, FindFails, Refuse, Shaped, Fields, Traced, Goto
<1>3. CASE Evidence
  <2>1. pc # "done" /\ pc' \notin {"unlinked", "alone", "by_id", "by_provider"}
    BY <1>3 DEF Evidence, Catalogue, History, EvidenceFails, Owners, Note, Goto
  <2>2. att'.verdict = att.verdict
    BY <1>3 DEF Evidence, Catalogue, History, EvidenceFails, Owners, Note, Goto, Shaped, Fields
  <2>3. att'.touched = att.touched
    BY <1>3 DEF Evidence, Catalogue, History, EvidenceFails, Owners, Note, Goto, Shaped, Fields
  <2>4. att.acts \subseteq att'.acts
    BY <1>3, ResultsGrow
  <2> QED
    BY <2>1, <2>2, <2>3, <2>4, TracedKept
<1>4. CASE NothingToRemove \/ Remove \/ RemoveRaises \/ AccountsEnd
  <2>1. pc # "done" /\ pc' \notin {"unlinked", "alone", "by_id", "by_provider"}
    BY <1>4 DEF NothingToRemove, Remove, RemoveRaises, AccountsEnd, Note, Goto
  <2>2. att.acts \subseteq att'.acts /\ att'.verdict = att.verdict
    BY <1>4 DEF NothingToRemove, Remove, RemoveRaises, AccountsEnd, Note, Goto, Shaped, Fields
  <2>3. att'.touched = att.touched
    BY <1>4 DEF NothingToRemove, Remove, RemoveRaises, AccountsEnd, Note, Goto, Shaped, Fields
  <2> QED
    BY <2>1, <2>2, <2>3, TracedKept
<1>5. ASSUME NEW h \in att.hashes, Account(h) PROVE Traced'
  <2>1. pc # "done" /\ pc' \notin {"unlinked", "alone", "by_id", "by_provider"}
    BY <1>5 DEF Account, Accounted
  <2>2. att'.verdict = att.verdict
    BY <1>5 DEF Account, Accounted, Shaped, Fields
  <2>3. att'.touched = att.touched
    BY <1>5 DEF Account, Accounted, Shaped, Fields
  <2>4. att.acts \subseteq att'.acts
    BY <1>5, ResultsGrow
  <2> QED
    BY <2>1, <2>2, <2>3, <2>4, TracedKept
<1>6. CASE Blocked \/ CallsEnd \/ MediaFails \/ Ready \/ StageEnds \/ FindMedia
  <2>1. pc # "done" /\ pc' \notin {"unlinked", "alone", "by_id", "by_provider"}
    BY <1>6 DEF Blocked, CallsEnd, MediaFails, Ready, StageEnds, FindMedia, Note, Goto
  <2>2. att'.verdict = att.verdict
    BY <1>6 DEF Blocked, CallsEnd, MediaFails, Ready, StageEnds, FindMedia, Note, Goto, Shaped, Fields
  <2>3. att'.touched = att.touched
    BY <1>6 DEF Blocked, CallsEnd, MediaFails, Ready, StageEnds, FindMedia, Note, Goto, Shaped, Fields
  <2>4. att.acts \subseteq att'.acts
    BY <1>6, ResultsGrow
  <2> QED
    BY <2>1, <2>2, <2>3, <2>4, TracedKept
<1>7. CASE Mutations
  <2>1. pc' = pc /\ pc \in {"arr", "tidy"} /\ att.todo # <<>>
    BY <1>7 DEF Mutations
  <2>2. PICK call \in Head(att.todo) : Mutate(call)
    BY <1>7 DEF Mutations
  <2>3. call.name \in Changing
    BY <2>1, <2>2, CallChanges
  <2>4. \/ \E act : Called(call, act, FALSE)
        \/ \E act : /\ Called(call, act, TRUE)
                    /\ act.status = "deleted" \/ (act.status = "failed" /\ act.name = call.name)
    <3>1. \/ \E act : Called(call, act, FALSE)
          \/ Called(call, Act(call.name, "deleted", None), TRUE)
          \/ Called(call, Failure(call.name, "downstream_error"), TRUE)
      BY <2>2 DEF Mutate
    <3>2. /\ Act(call.name, "deleted", None).status = "deleted"
          /\ Failure(call.name, "downstream_error").status = "failed"
          /\ Failure(call.name, "downstream_error").name = call.name
      BY DEF Act, Failure
    <3> QED
      BY <3>1, <3>2
  <2>5. CASE \E act : Called(call, act, FALSE)
    <3>1. PICK act : Called(call, act, FALSE)
      BY <2>5
    <3>2. att'.acts = att.acts \cup {act} /\ att'.verdict = att.verdict
      BY <3>1, MutateFrame, <2>2, CalledFrame
    <3>3. att'.touched = (att.touched \/ FALSE)
      BY <3>1, CalledFrame
    <3> QED
      BY <2>1, <3>2, <3>3 DEF Traced
  <2>6. CASE \E act : /\ Called(call, act, TRUE)
                      /\ act.status = "deleted" \/ (act.status = "failed" /\ act.name = call.name)
    <3>1. PICK act : /\ Called(call, act, TRUE)
                     /\ act.status = "deleted" \/ (act.status = "failed" /\ act.name = call.name)
      BY <2>6
    <3>2. att'.acts = att.acts \cup {act} /\ att'.verdict = att.verdict
      BY <3>1, MutateFrame, <2>2, CalledFrame
    <3> QED
      BY <2>1, <2>3, <3>1, <3>2 DEF Traced
  <2> QED
    BY <2>4, <2>5, <2>6
<1>8. CASE Ending
  <2>1. CASE PreviewEnds
    <3>1. CASE pc' = "catalogue"
      <4>1. ~att'.touched
        BY <2>1, <3>1 DEF PreviewEnds, Goto, Began, Idle
      <4>2. att'.verdict = None
        BY <2>1, <3>1 DEF PreviewEnds, Goto, Began, Idle
      <4> QED
        BY <4>1, <4>2, NoneIsNotRetry DEF Traced
    <3>2. CASE pc' # "catalogue"
      <4>0. PICK acts : /\ att.acts \subseteq acts /\ pc' = "done"
                        /\ att' = [att EXCEPT !.acts = acts, !.verdict = "refused"]
        BY <2>1, <3>2 DEF PreviewEnds, Goto
      <4>1. pc' = "done" /\ att.acts \subseteq att'.acts /\ att'.verdict = "refused"
        BY <4>0 DEF Shaped, Fields
      <4>2. att'.touched = att.touched
        BY <4>0 DEF Shaped, Fields
      <4> QED
        BY <4>1, <4>2 DEF Traced
    <3> QED
      BY <3>1, <3>2
  <2>2. CASE CascadeEnds
    BY <2>2, RetryIsRepeatable DEF CascadeEnds, Shaped, Fields, Traced, Goto
  <2>3. CASE DeleteSource
    <3>0. /\ pc = "built"
          /\ \E act : DecideSource(att.acts \cup {act})
      BY <2>3 DEF DeleteSource
    <3>1. PICK acts : DecideSource(acts) /\ att.acts \subseteq acts /\ pc' = "done" /\ pc = "built"
      BY <3>0 DEF DecideSource, Goto
    <3>2. att'.acts = acts /\ att'.verdict = Finished(acts)
      BY <3>1 DEF DecideSource, Shaped, Fields
    <3>3. att'.touched = att.touched
      BY <3>1 DEF DecideSource, Shaped, Fields
    <3> QED
      BY <3>1, <3>2, <3>3, RetryIsRepeatable DEF Traced
  <2>4. CASE Unlinked \/ UnlinkedFails
    BY <2>4 DEF Unlinked, UnlinkedFails, Shaped, Fields, Traced, Goto
  <2>5. CASE DeleteAlone
    <3>1. PICK acts : DecideSource(acts) /\ pc' = "done" /\ pc = "alone"
      BY <2>5 DEF DeleteAlone, DecideSource, Goto
    <3>2. att'.acts = acts /\ att'.verdict = Finished(acts)
      BY <3>1 DEF DecideSource, Shaped, Fields
    <3>3. att'.touched = att.touched
      BY <3>1 DEF DecideSource, Shaped, Fields
    <3> QED
      BY <3>1, <3>2, <3>3, RetryIsRepeatable DEF Traced
  <2> QED
    BY <1>8, <2>1, <2>2, <2>3, <2>4, <2>5 DEF Ending
<1>9. ASSUME NEW h \in torrents, TorrentVanishes(h) PROVE Traced'
  BY <1>9 DEF TorrentVanishes, Traced
<1>10. CASE ItemMoves \/ SwitchMode \/ OldClientsClose \/ Crash \/ UNCHANGED vars
  BY <1>10, NoneAssumption DEF ItemMoves, SwitchMode, OldClientsClose, Crash, vars, Shaped, Fields, Traced, Idle, Goto
<1> QED
  BY <1>1, <1>2, <1>3, <1>4, <1>5, <1>6, <1>7, <1>8, <1>9, <1>10 DEF Next, Cleanup, Dependent

\* The job service repeats an attempt only when its results list no deletion
\* and no failed call that changes Arr or Seerr (_run_job), and then nothing
\* in Arr, Seerr or Jellyfin has been changed: every change shows in the
\* results.
THEOREM RetryIsHarmless == Spec => []RetryTouchedNothing
<1>1. Traced => RetryTouchedNothing
  BY DEF Traced, RetryTouchedNothing, Repeatable, ReadActions, Changing
<1>2. Spec => [](Shaped /\ Planned /\ Traced)
  BY ShapedInit, PlannedInit, TracedInit, ShapedStep, PlannedStep, TracedStep, PTL DEF Spec
<1> QED
  BY <1>1, <1>2, PTL

-----------------------------------------------------------------------------
(* The evidence: what the attempt is about and which torrents are behind.  *)

\* The first of up to four.
LEMMA FirstOf ==
  ASSUME NEW hits \in SUBSET {1, 2, 3, 4}, hits # {}
  PROVE  (CHOOSE k \in hits : \A j \in hits : k <= j) \in hits
<1>1. \E k \in hits : \A j \in hits : k <= j
  <2>1. CASE 1 \in hits
    BY <2>1
  <2>2. CASE 1 \notin hits /\ 2 \in hits
    BY <2>2
  <2>3. CASE 1 \notin hits /\ 2 \notin hits /\ 3 \in hits
    BY <2>3
  <2>4. CASE hits = {4}
    BY <2>4
  <2> QED
    BY <2>1, <2>2, <2>3, <2>4
<1> QED
  BY <1>1

LEMMA ResolveFinds ==
  ASSUME NEW ids, NEW ofArr, NEW items, NEW order \in {Movies, Series, SeerrMovies, SeerrSeries},
         Resolve(ids, ofArr, items, order).item # None
  PROVE  Resolve(ids, ofArr, items, order).item \in items
<1> DEFINE hits == {k \in DOMAIN order : Having(ids, items, order[k]) # {}}
           first == CHOOSE k \in hits : \A j \in hits : k <= j
           found == Having(ids, items, order[first])
<1>1. hits \subseteq {1, 2, 3, 4}
  BY DEF Movies, Series, SeerrMovies, SeerrSeries
<1>2. hits # {}
  BY DEF Resolve, Failed
<1>3. first \in hits
  <2> HIDE DEF hits
  <2> QED
    BY <1>1, <1>2, FirstOf
<1>4. found # {} /\ found \subseteq items
  BY <1>3 DEF Having
<1>5. Resolve(ids, ofArr, items, order).item \in {CHOOSE i \in found : TRUE, None}
  <2> HIDE DEF found
  <2> QED
    BY DEF Resolve, Failed, found
<1> QED
  BY <1>4, <1>5

\* What an event names, whatever files are left.
Named(s, event, title) == Targets(event, {x \in s.episodes : x.title = title /\ x.listed})
GrabsOf(s, title) == {g \in s.grabs : g.title = title}

\* The hashes hold every torrent that backs nothing but what the event names,
\* and every torrent behind the files.
Covers(s, event, title, hashes, files) ==
  /\ \A g \in GrabsOf(s, title) :
       \/ event.type = "Movie"
       \/ Within(GrabbedFor(g.hash, GrabsOf(s, title)), Named(s, event, title))
       => g.hash \in hashes
  /\ event.type \in {"Season", "Episode"} =>
       \A f \in files, e \in s.episodes, g \in s.grabs : e.file = f /\ g.episode = e.id => g.hash \in hashes

LEMMA TargetsAreNamed ==
  ASSUME Shaped, NEW event, NEW title
  PROVE  Targets(event, Episodes(title)) = Named(shape, event, title)
<1> DEFINE X == {x \in shape.episodes : x.title = title /\ x.listed}
           now(e) == [e EXCEPT !.file = IF @ \in lib.files THEN @ ELSE None]
<1>1. \A e \in shape.episodes : /\ now(e).id = e.id /\ now(e).season = e.season /\ now(e).number = e.number
  BY ShapesAssumption DEF Shaped
<1>2. Episodes(title) = {now(e) : e \in X}
  BY DEF Episodes
<1> HIDE DEF now
<1>3. \A i : i \in Targets(event, {now(e) : e \in X}) <=> i \in Targets(event, X)
  BY <1>1 DEF Targets
<1>4. Targets(event, {now(e) : e \in X}) = Targets(event, X)
  BY <1>3
<1> QED
  BY <1>2, <1>4 DEF Named

\* The analysis of a series lets through only what lies entirely in scope.
LEMMA AnalysisConfines ==
  ASSUME Shaped, NEW event, NEW title
  PROVE  LET safe == Analyze(event, Episodes(title), Grabs(title))
             T == Named(shape, event, title)
         IN  /\ safe.targets = T
             /\ \A f \in safe.files, e \in shape.episodes :
               e.file = f => e.title = title /\ e.id \in T /\ e.id \in EpisodesOf(f, Episodes(title))
             /\ \A h \in safe.hashes : Within(GrabbedFor(h, GrabsOf(shape, title)), T)
<1> DEFINE safe == Analyze(event, Episodes(title), Grabs(title))
           G == GrabsOf(shape, title)
           T == Named(shape, event, title)
<1>1. Grabs(title) = G /\ Targets(event, Episodes(title)) = T
  BY TargetsAreNamed DEF Grabs, GrabsOf
<1>2. safe.targets = T /\ safe.hashes = {h \in {g.hash : g \in G} : Within(GrabbedFor(h, G), T)}
  BY <1>1 DEF Analyze
<1>3. \A f \in safe.files : /\ f \in {e.file : e \in Episodes(title)} \ {None}
                            /\ Within(EpisodesOf(f, Episodes(title)), T)
  BY <1>1 DEF Analyze
<1>4. ASSUME NEW f \in safe.files, NEW e \in shape.episodes, e.file = f
      PROVE  e.title = title /\ e.id \in T /\ e.id \in EpisodesOf(f, Episodes(title))
  <2>1. PICK x \in shape.episodes : x.title = title /\ x.listed /\ x.file = f /\ f \in lib.files /\ f # None
    <3>1. PICK y \in Episodes(title) : y.file = f /\ f # None
      BY <1>3, <1>4
    <3>2. PICK x \in shape.episodes : x.title = title /\ x.listed
                                      /\ y = [x EXCEPT !.file = IF x.file \in lib.files THEN x.file ELSE None]
      BY <3>1 DEF Episodes
    <3>3. y.file = IF x.file \in lib.files THEN x.file ELSE None
      BY <3>2, ShapesAssumption DEF Shaped
    <3> QED
      BY <3>1, <3>2, <3>3
  <2>2. e.title = title /\ e.listed
    BY <1>4, <2>1, ShapesAssumption DEF Shaped
  <2>3. e.id \in EpisodesOf(f, Episodes(title))
    <3> DEFINE y == [e EXCEPT !.file = IF e.file \in lib.files THEN e.file ELSE None]
    <3>1. y \in Episodes(title)
      BY <2>2 DEF Episodes
    <3>2. y.file = f /\ y.id = e.id
      BY <1>4, <2>1, ShapesAssumption DEF Shaped
    <3> HIDE DEF y
    <3> QED
      BY <3>1, <3>2 DEF EpisodesOf
  <2> QED
    BY <1>3, <2>2, <2>3 DEF Within
<1> HIDE DEF T, G, safe
<1>5. \A h \in safe.hashes : Within(GrabbedFor(h, G), T)
  BY <1>2
<1> QED
  BY <1>2, <1>4, <1>5 DEF safe, T, G

\* The analysis of a series names all of them.
LEMMA AnalysisCovers ==
  ASSUME Shaped, NEW event, event.type # "Movie", NEW title
  PROVE  LET safe == Analyze(event, Episodes(title), Grabs(title))
         IN  Covers(shape, event, title, safe.hashes, safe.files)
<1> DEFINE safe == Analyze(event, Episodes(title), Grabs(title))
           G == GrabsOf(shape, title)
           T == Named(shape, event, title)
<1>1. Grabs(title) = G /\ Targets(event, Episodes(title)) = T
  BY TargetsAreNamed DEF Grabs, GrabsOf
<1>2. safe.hashes = {h \in {g.hash : g \in G} : Within(GrabbedFor(h, G), T)}
  BY <1>1 DEF Analyze
<1>3. \A f \in safe.files : \A h \in {g.hash : g \in G} : Across(GrabbedFor(h, G), T) =>
        EpisodesOf(f, Episodes(title)) \cap GrabbedFor(h, G) = {}
  BY <1>1 DEF Analyze
<1>4. ASSUME NEW f \in safe.files, NEW e \in shape.episodes, NEW g \in shape.grabs, e.file = f, g.episode = e.id
      PROVE  g.hash \in safe.hashes
  <2>1. e.title = title /\ e.id \in T /\ e.id \in EpisodesOf(f, Episodes(title))
    BY <1>4, AnalysisConfines
  <2>2. g \in G /\ e.id # None
    BY <1>4, <2>1, ShapesAssumption DEF GrabsOf, Shaped
  <2>3. e.id \in GrabbedFor(g.hash, G)
    BY <1>4, <2>2 DEF GrabbedFor
  <2>4. ~Across(GrabbedFor(g.hash, G), T)
    BY <1>3, <2>1, <2>2, <2>3
  <2>5. Within(GrabbedFor(g.hash, G), T)
    BY <2>1, <2>3, <2>4 DEF Across, Within
  <2> QED
    BY <1>2, <2>2, <2>5
<1> HIDE DEF T, G, safe
<1>5. Covers(shape, event, title, safe.hashes, safe.files)
  BY <1>2, <1>4 DEF Covers, T, G
<1> QED
  BY <1>5 DEF safe

\* Where the title is known, and where its torrents are, too.
Titled == {"history", "owners", "remove", "account", "ready", "arr"}
Gathered == pc \in Titled \ {"history"} \/ (pc \in {"media", "tidy"} /\ att.title # None)

\* A title that was resolved is of the event's kind, and the evidence gathered
\* for it covers what the event goes by.
Evident ==
  /\ pc \in {"by_id", "by_provider", "catalogue", "unlinked", "alone"} => att.title = None
  /\ pc \in Titled => \E t \in shape.titles : t.id = att.title /\ t.kind = Kind(att.event)
  /\ Gathered => Covers(shape, att.event, att.title, att.hashes, att.files)

LEMMA EvidentInit == Init => Evident
  BY DEF Init, Evident, Gathered, Titled

LEMMA EvidentStep ==
  ASSUME Shaped, Planned, Evident, [Next]_vars
  PROVE  Evident'
<1>0. shape' = shape
  BY ShapeStays
<1>1. ASSUME NEW event \in shape.events, Begin(event) PROVE Evident'
  <2>1. att'.title = None /\ pc' \in {"by_id", "catalogue", "unlinked"}
    BY <1>1, EventFacts DEF Begin, Began, Idle, Goto
  <2> QED
    BY <2>1 DEF Evident, Gathered, Titled
<1>2. CASE Guard
  BY <1>2 DEF Guard, FindById, FindByProvider, FindFails, Refuse, Shaped, Fields, Evident, Gathered, Titled, Goto
<1>3. CASE Catalogue
  <2> DEFINE match == Resolve(att.event.ids, att.event.origin = "manual", Listed(Kind(att.event)),
                              IF Kind(att.event) = "movie" THEN Movies ELSE Series)
  <2>1. CASE match.item # None
    <3>1. match.item \in Listed(Kind(att.event))
      BY <2>1, ResolveFinds
    <3>2. /\ att' = [att EXCEPT !.title = match.item.id] /\ pc' = "history"
      BY <1>3, <2>1 DEF Catalogue, Goto
    <3> HIDE DEF match
    <3>3. att'.title = match.item.id /\ att'.event = att.event
      BY <3>2 DEF Shaped, Fields
    <3> QED
      BY <1>0, <3>1, <3>2, <3>3 DEF Evident, Gathered, Titled, Listed, Kind
  <2>2. CASE match.item = None
    <3>1. pc = "catalogue" /\ pc' \in {"media", "built"} /\ \E acts : Note(acts)
      BY <1>3, <2>2 DEF Catalogue, Goto
    <3>2. att'.title = att.title
      BY <3>1 DEF Note, Shaped, Fields
    <3> QED
      BY <3>1, <3>2 DEF Evident, Gathered, Titled
  <2> QED
    BY <2>1, <2>2
<1>4. CASE History
  <2>1. att'.title = att.title /\ att'.event = att.event /\ pc = "history" /\ pc' \in {"owners", "remove"}
    BY <1>4 DEF History, Goto, Shaped, Fields
  <2>2. CASE att.event.type = "Movie"
    <3>1. att'.hashes = {g.hash : g \in Grabs(att.title)}
      BY <1>4, <2>2 DEF History, Shaped, Fields
    <3>2. Covers(shape, att.event, att.title, att'.hashes, att'.files)
      BY <2>2, <3>1 DEF Covers, Grabs, GrabsOf
    <3> QED
      BY <1>0, <2>1, <3>2 DEF Evident, Gathered, Titled
  <2>3. CASE att.event.type # "Movie"
    <3> DEFINE safe == Analyze(att.event, Episodes(att.title), Grabs(att.title))
    <3>1. PICK notes : att' = [att EXCEPT !.hashes = safe.hashes, !.files = safe.files, !.unmonitor = safe.targets,
                                          !.acts = @ \cup notes]
      BY <1>4, <2>3 DEF History
    <3>2. Covers(shape, att.event, att.title, safe.hashes, safe.files)
      BY <2>3, AnalysisCovers
    <3> HIDE DEF safe
    <3>3. att'.hashes = safe.hashes /\ att'.files = safe.files
      BY <3>1 DEF Shaped, Fields
    <3> QED
      BY <1>0, <2>1, <3>2, <3>3 DEF Evident, Gathered, Titled
  <2> QED
    BY <2>2, <2>3
<1>5. CASE EvidenceFails \/ Owners
  <2>1. /\ att' = att \/ \E acts : Note(acts)
        /\ \/ pc \in {"catalogue", "history"} /\ pc' = "built"
           \/ pc = "owners" /\ pc' \in {"remove", "blocked"}
    BY <1>5 DEF EvidenceFails, Owners, Goto
  <2>2. att'.title = att.title /\ att'.event = att.event /\ att'.hashes = att.hashes /\ att'.files = att.files
    BY <2>1 DEF Note, Shaped, Fields
  <2> QED
    BY <1>0, <2>1, <2>2 DEF Evident, Gathered, Titled
<1>6. CASE NothingToRemove \/ Remove \/ RemoveRaises \/ AccountsEnd
  <2>1. /\ \/ pc = "remove" /\ pc' \in {"ready", "blocked", "account"}
           \/ pc = "account" /\ pc' \in {"ready", "blocked"}
        /\ \/ att' = att
           \/ \E acts : Note(acts)
           \/ \E results : att' = [att EXCEPT !.results = results]
    BY <1>6 DEF NothingToRemove, Remove, RemoveRaises, AccountsEnd, Goto
  <2>2. att'.title = att.title /\ att'.event = att.event /\ att'.hashes = att.hashes /\ att'.files = att.files
    BY <2>1 DEF Note, Shaped, Fields
  <2> QED
    BY <1>0, <2>1, <2>2 DEF Evident, Gathered, Titled
<1>7. ASSUME NEW h \in att.hashes, Account(h) PROVE Evident'
  <2>1. pc' = pc /\ \E act : Accounted(h, act)
    BY <1>7 DEF Account
  <2>2. att'.title = att.title /\ att'.event = att.event /\ att'.hashes = att.hashes /\ att'.files = att.files
    BY <2>1 DEF Accounted, Shaped, Fields
  <2> QED
    BY <1>0, <2>1, <2>2 DEF Evident, Gathered
<1>8. CASE Blocked \/ CallsEnd \/ MediaFails \/ Ready \/ StageEnds \/ FindMedia
  <2>1. /\ pc' \in {"built", "arr", "media", "tidy"}
        /\ pc' = "arr" => pc \in {"ready", "arr"}
        /\ pc' \in {"media", "tidy"} => pc \in {"arr", "media", "tidy"}
    BY <1>8 DEF Blocked, CallsEnd, MediaFails, Ready, StageEnds, FindMedia, Goto
  <2>2. att'.title = att.title /\ att'.event = att.event /\ att'.hashes = att.hashes /\ att'.files = att.files
    BY <1>8 DEF Blocked, CallsEnd, MediaFails, Ready, StageEnds, FindMedia, Note, Shaped, Fields
  <2> QED
    BY <1>0, <2>1, <2>2 DEF Evident, Gathered, Titled
<1>9. CASE Mutations
  <2>1. pc' = pc /\ \E call : Mutate(call)
    BY <1>9 DEF Mutations
  <2>2. att'.title = att.title /\ att'.event = att.event /\ att'.hashes = att.hashes /\ att'.files = att.files
    BY <2>1, MutateFrame
  <2> QED
    BY <1>0, <2>1, <2>2 DEF Evident, Gathered
<1>10. CASE Ending
  <2>1. /\ pc' \in {"catalogue", "done", "alone"}
        /\ pc' = "catalogue" => att'.title = None
        /\ pc' = "alone" => pc = "unlinked" /\ att' = att
    BY <1>10 DEF Ending, PreviewEnds, CascadeEnds, DeleteSource, DecideSource, Unlinked, UnlinkedFails,
         DeleteAlone, Goto, Began, Idle
  <2> QED
    BY <2>1 DEF Evident, Gathered, Titled
<1>11. ASSUME NEW h \in torrents, TorrentVanishes(h) PROVE Evident'
  BY <1>0, <1>11 DEF TorrentVanishes, Evident, Gathered
<1>12. CASE ItemMoves \/ SwitchMode \/ OldClientsClose \/ UNCHANGED vars
  <2>1. pc' = pc
    BY <1>12 DEF ItemMoves, SwitchMode, OldClientsClose, vars
  <2>2. att'.title = att.title /\ att'.event = att.event /\ att'.hashes = att.hashes /\ att'.files = att.files
    BY <1>12 DEF ItemMoves, SwitchMode, OldClientsClose, vars, Shaped, Fields
  <2> QED
    BY <1>0, <2>1, <2>2 DEF Evident, Gathered
<1>13. CASE Crash
  BY <1>13 DEF Crash, Goto, Evident, Gathered, Titled
<1> QED
  BY <1>1, <1>2, <1>3, <1>4, <1>5, <1>6, <1>7, <1>8, <1>9, <1>10, <1>11, <1>12, <1>13
     DEF Next, Evidence, Cleanup, Dependent

-----------------------------------------------------------------------------
(* Torrents first.                                                         *)

\* While the results are accounted for, and afterwards.
Cleared ==
  /\ pc = "account" /\ ~att.dry =>
       /\ \A h \in DOMAIN att.results : att.results[h] \in {"removed", "absent"} => h \notin torrents
       /\ att.clean => \A h \in att.hashes \ DOMAIN att.results : Settled(h)
  /\ pc \in {"ready", "arr"} \/ (pc \in {"media", "tidy"} /\ att.title # None) =>
       att.dry \/ \A h \in att.hashes : Settled(h)

\* What is settled stays so.
LEMMA SettledStays ==
  ASSUME [Next]_vars
  PROVE  \A h : /\ Settled(h) => Settled(h)'
                /\ h \notin torrents => h \notin torrents'
<1>1. torrents' \subseteq torrents /\ retained \subseteq retained'
  <2>1. CASE Remove
    BY <2>1 DEF Remove
  <2>2. CASE \E h \in att.hashes : Account(h)
    BY <2>2 DEF Account
  <2>3. CASE Mutations
    BY <2>3 DEF Mutations
  <2>4. CASE \E h \in torrents : TorrentVanishes(h)
    BY <2>4 DEF TorrentVanishes
  <2> QED
    BY <2>1, <2>2, <2>3, <2>4, OtherSteps
<1> QED
  BY <1>1 DEF Settled

LEMMA ClearedInit == Init => Cleared
  BY DEF Init, Cleared

\* A step that keeps the evidence and the results.
LEMMA ClearedKept ==
  ASSUME Cleared, [Next]_vars, att'.hashes = att.hashes, att'.results = att.results, att'.dry = att.dry,
         att'.clean = att.clean, att'.title = att.title,
         \/ pc' = pc
         \/ pc' \notin {"account", "ready", "arr", "media", "tidy"}
         \/ pc \in {"ready", "arr"} /\ pc' \in {"arr", "media"}
         \/ pc = "media" /\ pc' = "tidy"
  PROVE  Cleared'
  BY SettledStays DEF Cleared

LEMMA NoteKeeps ==
  ASSUME Shaped, NEW acts, Note(acts)
  PROVE  /\ att'.hashes = att.hashes /\ att'.results = att.results /\ att'.dry = att.dry
         /\ att'.clean = att.clean /\ att'.title = att.title
<1>1. att'.hashes = att.hashes /\ att'.results = att.results /\ att'.title = att.title
  BY DEF Note, Shaped, Fields
<1>2. att'.dry = att.dry
  BY DEF Note, Shaped, Fields
<1>3. att'.clean = att.clean
  BY DEF Note, Shaped, Fields
<1> QED
  BY <1>1, <1>2, <1>3

LEMMA RemoveClears ==
  ASSUME Shaped, Remove
  PROVE  Cleared'
<1>1. PICK results \in [att.hashes -> Outcomes] :
        /\ \A h \in att.hashes : Plausible(h, results[h])
        /\ att' = [att EXCEPT !.results = results]
        /\ \E lost \in SUBSET {h \in att.hashes : results[h] = "error" /\ ~att.dry /\ ~att.severed} :
             torrents' = torrents \ (lost \cup {h \in att.hashes : results[h] = "removed" /\ ~att.dry})
  BY DEF Remove
<1>2. att'.results = results /\ att'.hashes = att.hashes /\ pc' = "account"
  BY <1>1 DEF Remove, Goto, Shaped, Fields
<1>3. att'.dry = att.dry
  BY <1>1 DEF Shaped, Fields
<1>4. ASSUME ~att.dry, NEW h \in att.hashes, results[h] \in {"removed", "absent"}
      PROVE  h \notin torrents'
  <2>1. CASE results[h] = "removed"
    BY <1>1, <1>4, <2>1
  <2>2. CASE results[h] = "absent"
    <3>1. h \notin torrents
      BY <1>1, <1>4, <2>2 DEF Plausible
    <3> QED
      BY <1>1, <3>1
  <2> QED
    BY <1>4, <2>1, <2>2
<1> QED
  BY <1>1, <1>2, <1>3, <1>4 DEF Cleared

LEMMA AccountClears ==
  ASSUME Shaped, Cleared, [Next]_vars, NEW h \in att.hashes, Account(h)
  PROVE  Cleared'
<1>1. PICK act : Accounted(h, act)
  BY DEF Account
<1>2. pc = "account" /\ pc' = pc
  BY DEF Account
<1>3. /\ att'.results = [x \in DOMAIN att.results \ {h} |-> att.results[x]]
      /\ att'.hashes = att.hashes
  BY <1>1 DEF Accounted, Shaped, Fields
<1>4. att'.dry = att.dry
  BY <1>1 DEF Accounted, Shaped, Fields
<1>5. \A x \in DOMAIN att'.results : x \in DOMAIN att.results /\ att'.results[x] = att.results[x]
  BY <1>3
<1>6. ASSUME ~att.dry, att'.clean
      PROVE  att.clean /\ Settled(h)'
  <2>1. PICK a : /\ att' = [att EXCEPT !.results = [x \in DOMAIN @ \ {h} |-> @[x]], !.acts = @ \cup {a},
                                       !.clean = ~Soured(a)]
                 /\ \/ a.status = "failed"
                    \/ a.status = "skipped" /\ a.reason # "seeding_policy"
                    \/ att.results[h] = "kept" /\ retained' = retained \cup {h}
                    \/ att.results[h] \in {"removed", "absent"} /\ UNCHANGED torrents
    <3>1. \/ \E name, reason : Accounted(h, Failure(name, reason))
          \/ Accounted(h, Skip("delete_hash", "shared_path"))
          \/ att.results[h] = "kept" /\ retained' = retained \cup {h} /\ \E a : Accounted(h, a)
          \/ att.results[h] \in {"removed", "absent"} /\ UNCHANGED torrents /\ \E a : Accounted(h, a)
      BY <1>6 DEF Account
    <3>2. /\ \A name, reason : Failure(name, reason).status = "failed"
          /\ Skip("delete_hash", "shared_path").status = "skipped"
          /\ Skip("delete_hash", "shared_path").reason = "shared_path"
      BY DEF Failure, Skip, Act
    <3> DEFINE Meant(a) == att' = [att EXCEPT !.results = [x \in DOMAIN @ \ {h} |-> @[x]], !.acts = @ \cup {a},
                                             !.clean = ~Soured(a)]
    <3>3. \A a : Accounted(h, a) <=> Meant(a)
      BY DEF Accounted
    <3> HIDE DEF Meant
    <3>4. \E a : /\ Meant(a)
                 /\ \/ a.status = "failed"
                    \/ a.status = "skipped" /\ a.reason # "seeding_policy"
                    \/ att.results[h] = "kept" /\ retained' = retained \cup {h}
                    \/ att.results[h] \in {"removed", "absent"} /\ UNCHANGED torrents
      BY <3>1, <3>2, <3>3
    <3> QED
      BY <3>4 DEF Meant
  <2>2. att'.clean = ~Soured(a)
    BY <2>1 DEF Shaped, Fields
  <2>3. ~Soured(a)
    BY <1>6, <2>2
  <2>4. att.clean /\ a.status # "failed" /\ ~(a.status = "skipped" /\ a.reason # "seeding_policy")
    BY <2>3 DEF Soured
  <2>5. h \in DOMAIN att.results
    BY DEF Account
  <2> QED
    BY <1>2, <1>6, <2>1, <2>4, <2>5 DEF Cleared, Settled
<1> QED
  BY <1>2, <1>3, <1>4, <1>5, <1>6, SettledStays DEF Cleared

LEMMA ClearedStep ==
  ASSUME Shaped, Evident, Cleared, [Next]_vars
  PROVE  Cleared'
<1>1. ASSUME NEW event \in shape.events, Begin(event) PROVE Cleared'
  <2>1. pc' \in {"by_id", "catalogue", "unlinked"}
    BY <1>1, EventFacts DEF Begin, Goto
  <2> QED
    BY <2>1 DEF Cleared
<1>2. CASE Guard
  BY <1>2 DEF Guard, FindById, FindByProvider, FindFails, Refuse, Goto, Cleared
<1>3. CASE Evidence
  <2>1. /\ pc \in {"catalogue", "history", "owners"}
        /\ pc' \in {"history", "media", "built", "owners", "remove", "blocked"}
    BY <1>3 DEF Evidence, Catalogue, History, EvidenceFails, Owners, Goto
  <2>2. CASE pc' = "media"
    <3>1. pc = "catalogue" /\ \E acts : Note(acts)
      BY <1>3, <2>2 DEF Evidence, Catalogue, History, EvidenceFails, Owners, Goto
    <3>2. att'.title = None
      BY <3>1, NoteKeeps DEF Evident
    <3> QED
      BY <2>2, <3>2 DEF Cleared
  <2> QED
    BY <2>1, <2>2 DEF Cleared
<1>4. CASE NothingToRemove
  <2>1. pc' \in {"ready", "blocked"} /\ att.hashes = {} /\ \E acts : Note(acts)
    BY <1>4 DEF NothingToRemove, Goto
  <2>2. att'.hashes = {}
    BY <2>1, NoteKeeps
  <2> QED
    BY <2>1, <2>2 DEF Cleared
<1>5. CASE Remove
  BY <1>5, RemoveClears
<1>6. CASE RemoveRaises
  BY <1>6 DEF RemoveRaises, Goto, Cleared
<1>7. CASE AccountsEnd
  BY <1>7, SettledStays DEF AccountsEnd, Goto, Cleared
<1>8. ASSUME NEW h \in att.hashes, Account(h) PROVE Cleared'
  BY <1>8, AccountClears
<1>9. CASE Blocked
  BY <1>9 DEF Blocked, Goto, Cleared
<1>10. CASE Ready \/ StageEnds \/ CallsEnd
  <2>1. \/ pc = "ready" /\ pc' = "arr"
        \/ pc' = pc
        \/ pc = "arr" /\ pc' = "media"
        \/ pc' = "built"
    BY <1>10 DEF Ready, StageEnds, CallsEnd, Goto
  <2>2. att'.hashes = att.hashes /\ att'.results = att.results /\ att'.title = att.title
    BY <1>10 DEF Ready, StageEnds, CallsEnd, Shaped, Fields
  <2>3. att'.dry = att.dry
    BY <1>10 DEF Ready, StageEnds, CallsEnd, Shaped, Fields
  <2>4. att'.clean = att.clean
    BY <1>10 DEF Ready, StageEnds, CallsEnd, Shaped, Fields
  <2> QED
    BY <2>1, <2>2, <2>3, <2>4, ClearedKept
<1>11. CASE FindMedia \/ MediaFails
  <2>1. pc = "media" /\ pc' \in {"built", "tidy"}
    BY <1>11 DEF FindMedia, MediaFails, Goto
  <2>2. att'.hashes = att.hashes /\ att'.results = att.results /\ att'.title = att.title
    BY <1>11 DEF FindMedia, MediaFails, Note, Shaped, Fields
  <2>3. att'.dry = att.dry
    BY <1>11 DEF FindMedia, MediaFails, Note, Shaped, Fields
  <2>4. att'.clean = att.clean
    BY <1>11 DEF FindMedia, MediaFails, Note, Shaped, Fields
  <2> QED
    BY <2>1, <2>2, <2>3, <2>4, ClearedKept
<1>12. CASE Mutations
  <2>1. pc' = pc /\ \E call : Mutate(call)
    BY <1>12 DEF Mutations
  <2>2. /\ att'.hashes = att.hashes /\ att'.results = att.results /\ att'.dry = att.dry
        /\ att'.clean = att.clean /\ att'.title = att.title
    BY <2>1, MutateFrame
  <2> QED
    BY <2>1, <2>2, ClearedKept
<1>13. CASE Ending
  <2>1. pc' \in {"catalogue", "done", "alone"}
    BY <1>13 DEF Ending, PreviewEnds, CascadeEnds, DeleteSource, DecideSource, Unlinked, UnlinkedFails,
         DeleteAlone, Goto
  <2> QED
    BY <2>1 DEF Cleared
<1>14. ASSUME NEW h \in torrents, TorrentVanishes(h) PROVE Cleared'
  <2>1. att' = att /\ pc' = pc
    BY <1>14 DEF TorrentVanishes
  <2> QED
    BY <2>1, ClearedKept
<1>15. CASE ItemMoves \/ SwitchMode \/ OldClientsClose \/ UNCHANGED vars
  <2>1. pc' = pc
    BY <1>15 DEF ItemMoves, SwitchMode, OldClientsClose, vars
  <2>2. att'.hashes = att.hashes /\ att'.results = att.results /\ att'.title = att.title
    BY <1>15 DEF ItemMoves, SwitchMode, OldClientsClose, vars, Shaped, Fields
  <2>3. att'.dry = att.dry
    BY <1>15 DEF ItemMoves, SwitchMode, OldClientsClose, vars, Shaped, Fields
  <2>4. att'.clean = att.clean
    BY <1>15 DEF ItemMoves, SwitchMode, OldClientsClose, vars, Shaped, Fields
  <2> QED
    BY <2>1, <2>2, <2>3, <2>4, ClearedKept
<1>16. CASE Crash
  BY <1>16 DEF Crash, Goto, Cleared
<1> QED
  BY <1>1, <1>2, <1>3, <1>4, <1>5, <1>6, <1>7, <1>8, <1>9, <1>10, <1>11, <1>12, <1>13, <1>14, <1>15, <1>16
     DEF Next, Cleanup, Dependent

\* What a call deletes from the library.
LEMMA FilesGone ==
  ASSUME Shaped, Evident, Planned, Mutations, NEW f \in lib.files \ lib'.files
  PROVE  /\ pc = "arr"
         /\ att.event.type # "Series" => att.event.type \in {"Season", "Episode"} /\ f \in att.files
<1>1. PICK call \in Head(att.todo) : Mutate(call)
  BY DEF Mutations
<1>2. pc \in {"arr", "tidy"} /\ att.todo # <<>>
  BY DEF Mutations
<1>3. lib' = LibAfter(call)
  BY <1>1 DEF Mutate, Effect
<1>4. \/ /\ call.name \in {"delete_movie", "delete_series"}
         /\ f \in {e.file : e \in {x \in shape.episodes : x.title = call.on}}
      \/ call.name = "delete_episode_file" /\ f = call.on
  BY <1>3 DEF LibAfter, Shaped
<1>5. pc = "arr" /\ ArrCall(call, att.event, att.title, att.files)
  BY <1>1, <1>2, <1>4, CallChanges DEF SeerrCall
<1>6. att.event.type # "Movie"
  <2> SUFFICES ASSUME att.event.type = "Movie" PROVE FALSE
    OBVIOUS
  <2>1. PICK e \in shape.episodes : e.title = att.title
    BY <1>4, <1>5 DEF ArrCall
  <2>2. PICK t \in shape.titles : t.id = att.title /\ t.kind = "movie"
    BY <1>5 DEF Evident, Titled, Kind
  <2> QED
    BY <2>1, <2>2, ShapesAssumption DEF Shaped
<1> QED
  BY <1>4, <1>5, <1>6 DEF ArrCall

\* Every strategy settles the torrents of its evidence, in the clients or in
\* retained_torrents, before its first call to Arr or Seerr.
THEOREM TorrentsGoFirst == Spec => TorrentsFirst
<1> DEFINE P == /\ Changes /\ att.title # None => \A h \in Backing : Settled(h)'
                /\ att.event.type # "Series" =>
                     \A f \in lib.files \ lib'.files, e \in shape.episodes, g \in shape.grabs :
                       e.file = f /\ g.episode = e.id => Settled(g.hash)'
<1>1. ASSUME Shaped, Planned, Evident, Cleared, [Next]_vars
      PROVE  P
  <2>1. CASE UNCHANGED <<lib, seerr>>
    BY <2>1 DEF Changes
  <2>2. CASE Mutations
    <3>1. pc \in {"arr", "tidy"} /\ (Changes => ~att.dry)
      BY <2>2 DEF Mutations, Mutate, Changes
    <3>2. ASSUME Changes, pc = "arr" \/ att.title # None
          PROVE  Gathered /\ \A h \in att.hashes : Settled(h)'
      BY <1>1, <3>1, <3>2, SettledStays DEF Cleared, Gathered, Titled
    <3>3. Gathered => \A h \in Backing : h \in att.hashes
      BY <1>1, TargetsAreNamed DEF Backing, Evident, Covers, Grabs, GrabsOf
    <3>4. ASSUME att.event.type # "Series", NEW f \in lib.files \ lib'.files, NEW e \in shape.episodes,
                 NEW g \in shape.grabs, e.file = f, g.episode = e.id
          PROVE  Settled(g.hash)'
      <4>1. pc = "arr" /\ att.event.type \in {"Season", "Episode"} /\ f \in att.files
        BY <1>1, <2>2, <3>4, FilesGone
      <4>2. Changes
        BY <3>4 DEF Changes
      <4>3. g.hash \in att.hashes
        BY <1>1, <3>2, <3>4, <4>1, <4>2 DEF Evident, Covers
      <4> QED
        BY <3>2, <4>1, <4>2, <4>3
    <3> QED
      BY <3>2, <3>3, <3>4
  <2> QED
    BY <1>1, <2>1, <2>2, OtherSteps DEF Remove, Account, TorrentVanishes
<1> HIDE DEF P
<1>2. Spec => [](Shaped /\ Planned /\ Evident /\ Cleared)
  BY ShapedInit, PlannedInit, EvidentInit, ClearedInit, ShapedStep, PlannedStep, EvidentStep, ClearedStep, PTL DEF Spec
<1>3. Spec => [][P]_vars
  BY <1>1, <1>2, PTL DEF Spec
<1> QED
  BY <1>3 DEF TorrentsFirst, P

-----------------------------------------------------------------------------
(* A completed job has done all of it.                                     *)

\* Nothing failed, and what was skipped may be kept.
Fine(acts) == \A a \in acts : a.status # "failed" /\ (a.status = "skipped" => a.reason \in Kept)

\* What is left of the library only shrinks.
LEMMA LibShrinks ==
  ASSUME [Next]_vars
  PROVE  /\ lib'.titles \subseteq lib.titles /\ lib'.files \subseteq lib.files
         /\ lib'.monitored \subseteq lib.monitored /\ lib'.seasons \subseteq lib.seasons
<1>1. CASE UNCHANGED lib
  BY <1>1
<1>2. CASE Mutations
  <2>1. lib' = lib \/ \E call : lib' = LibAfter(call)
    BY <1>2 DEF Mutations, Mutate, Effect
  <2>2. ASSUME NEW call, lib' = LibAfter(call)
        PROVE  /\ lib'.titles \subseteq lib.titles /\ lib'.files \subseteq lib.files
               /\ lib'.monitored \subseteq lib.monitored /\ lib'.seasons \subseteq lib.seasons
    BY <2>2 DEF LibAfter
  <2> QED
    BY <2>1, <2>2
<1> QED
  BY <1>1, <1>2, OtherSteps DEF Remove, Account, TorrentVanishes

\* A title goes with its files.
Together ==
  /\ None \notin lib.files
  /\ \A e \in shape.episodes :
       e.file \in lib.files /\ (\E t \in shape.titles : t.id = e.title) => e.title \in lib.titles

LEMMA TogetherInit == Init => Together
  BY DEF Init, Together

LEMMA TogetherStep ==
  ASSUME Shaped, Together, [Next]_vars
  PROVE  Together'
<1>0. shape' = shape
  BY ShapeStays
<1>1. CASE UNCHANGED lib
  BY <1>0, <1>1 DEF Together
<1>2. CASE Mutations
  <2>1. lib' = lib \/ \E call : lib' = LibAfter(call)
    BY <1>2 DEF Mutations, Mutate, Effect
  <2>2. ASSUME NEW call, lib' = LibAfter(call)
        PROVE  \A e \in shape.episodes :
                 e.file \in lib'.files => e.file \in lib.files /\ (e.title \in lib.titles => e.title \in lib'.titles)
    <3>1. CASE call.name \in {"delete_movie", "delete_series"}
      BY <2>2, <3>1 DEF LibAfter, Shaped
    <3>2. CASE call.name \notin {"delete_movie", "delete_series"}
      BY <2>2, <3>2 DEF LibAfter, Shaped
    <3> QED
      BY <3>1, <3>2
  <2> QED
    BY <1>0, <2>1, <2>2, LibShrinks DEF Together
<1> QED
  BY <1>1, <1>2, OtherSteps DEF Remove, Account, TorrentVanishes

\* A listed episode that an event names and whose file is there keeps it only
\* because it is shared with something outside, and the results say so.
Noted(s, files, a) ==
  \/ \A e \in s.episodes :
       e.title = a.title /\ e.listed /\ e.id \in Named(s, a.event, a.title) /\ e.file \in files => e.file \in a.files
  \/ \E reason \in {"shared_file", "pack_torrent"} : Skip("safety_note", reason) \in a.acts

LEMMA AnalysisNotes ==
  ASSUME Shaped, NEW event, NEW title, NEW e \in shape.episodes,
         e.title = title, e.listed, e.id \in Named(shape, event, title), e.file \in lib.files, e.file # None
  PROVE  LET safe == Analyze(event, Episodes(title), Grabs(title))
         IN  e.file \in safe.files \/ "shared_file" \in safe.notes \/ "pack_torrent" \in safe.notes
<1> DEFINE safe == Analyze(event, Episodes(title), Grabs(title))
           T == Named(shape, event, title)
           files == {x.file : x \in Episodes(title)} \ {None}
           hashes == {g.hash : g \in Grabs(title)}
           packs == {h \in hashes : Across(GrabbedFor(h, Grabs(title)), T)}
           blocked == UNION {GrabbedFor(h, Grabs(title)) : h \in packs}
           y == [e EXCEPT !.file = IF e.file \in lib.files THEN e.file ELSE None]
<1>1. Targets(event, Episodes(title)) = T
  BY TargetsAreNamed
<1>2. y \in Episodes(title) /\ y.file = e.file /\ y.id = e.id
  <2>1. y \in Episodes(title)
    BY DEF Episodes
  <2>2. y.file = e.file /\ y.id = e.id
    BY ShapesAssumption DEF Shaped
  <2> QED
    BY <2>1, <2>2
<1> HIDE DEF y
<1>3. e.file \in files
  BY <1>2
<1>4. e.id \in EpisodesOf(e.file, Episodes(title)) \cap T
  BY <1>2 DEF EpisodesOf
<1>5. safe.files = {f \in files : Within(EpisodesOf(f, Episodes(title)), T) /\ EpisodesOf(f, Episodes(title)) \cap blocked = {}}
  BY <1>1 DEF Analyze
<1>6. /\ (\E f \in files : Across(EpisodesOf(f, Episodes(title)), T)) => "shared_file" \in safe.notes
      /\ packs # {} => "pack_torrent" \in safe.notes
  BY <1>1 DEF Analyze
<1>7. CASE Across(EpisodesOf(e.file, Episodes(title)), T)
  BY <1>3, <1>6, <1>7
<1>8. CASE ~Across(EpisodesOf(e.file, Episodes(title)), T) /\ packs # {}
  BY <1>6, <1>8
<1>9. CASE ~Across(EpisodesOf(e.file, Episodes(title)), T) /\ packs = {}
  <2>1. Within(EpisodesOf(e.file, Episodes(title)), T)
    BY <1>4, <1>9 DEF Across, Within
  <2>2. blocked = {}
    BY <1>9
  <2> QED
    BY <1>3, <1>5, <2>1, <2>2
<1> QED
  BY <1>7, <1>8, <1>9

\* From the torrents on, as long as nothing stands in the way of success.
Worked == {"remove", "account", "ready", "arr", "media", "tidy", "built"}

\* An attempt that knows all it is to do.
Aware(s, files, a) ==
  /\ \E t \in s.titles : t.id = a.title /\ t.kind = Kind(a.event)
  /\ Covers(s, a.event, a.title, a.hashes, a.files)
  /\ a.event.type = "Season" => a.unmonitor = Named(s, a.event, a.title) /\ Noted(s, files, a)

\* As long as nothing failed, the attempt knows all it has to remove.
Working ==
  /\ pc = "owners" => att.event.type = "Movie"
  /\ pc \in Worked /\ Fine(att.acts) => Aware(shape, lib.files, att)

LEMMA WorkingInit == Init => Working
  BY DEF Init, Working, Worked

LEMMA FineBefore ==
  ASSUME NEW acts, NEW more, acts \subseteq more, Fine(more)
  PROVE  Fine(acts)
  BY DEF Fine

LEMMA AwareStays ==
  ASSUME NEW s, NEW a, NEW b, NEW files, NEW fewer \in SUBSET files,
         Aware(s, files, a), b.event = a.event, b.title = a.title, b.hashes = a.hashes, b.files = a.files,
         b.unmonitor = a.unmonitor, a.acts \subseteq b.acts
  PROVE  Aware(s, fewer, b)
<1>1. Noted(s, files, a) => Noted(s, fewer, b)
  BY DEF Noted
<1> QED
  BY <1>1 DEF Aware

\* A step after the evidence that keeps it and adds to the results.
LEMMA WorkingKept ==
  ASSUME Working, [Next]_vars, pc \in Worked, pc' # "owners",
         att'.event = att.event, att'.title = att.title, att'.hashes = att.hashes, att'.files = att.files,
         att'.unmonitor = att.unmonitor, att.acts \subseteq att'.acts
  PROVE  Working'
<1>1. shape' = shape /\ lib'.files \subseteq lib.files
  BY ShapeStays, LibShrinks
<1>2. ASSUME Fine(att'.acts)
      PROVE  Aware(shape', lib'.files, att')
  <2>1. Aware(shape, lib.files, att)
    BY <1>2, FineBefore DEF Working
  <2> QED
    BY <1>1, <2>1, AwareStays
<1> QED
  BY <1>2 DEF Working

LEMMA ResolveReasons ==
  ASSUME NEW ids, NEW ofArr, NEW items, NEW order, Resolve(ids, ofArr, items, order).item = None
  PROVE  Resolve(ids, ofArr, items, order).reason \notin Kept
  BY NoneAssumption DEF Resolve, Failed, Kept

\* Evidence that fails, a match that fails and a blocked step stand in the way.
LEMMA NotFine ==
  /\ \A acts, name, reason : ~Fine(acts \cup {Failure(name, reason)})
  /\ \A acts, name, reason : reason \notin Kept => ~Fine(acts \cup {Skip(name, reason)})
<1>1. \A name, reason : /\ Failure(name, reason).status = "failed"
                        /\ Skip(name, reason).status = "skipped" /\ Skip(name, reason).reason = reason
  BY DEF Failure, Skip, Act
<1> QED
  BY <1>1 DEF Fine

LEMMA StoppedShort ==
  ASSUME Shaped, (Catalogue /\ pc' # "history") \/ EvidenceFails \/ Blocked
  PROVE  ~Fine(att'.acts)
<1>1. CASE Catalogue /\ pc' # "history"
  <2> DEFINE match == Resolve(att.event.ids, att.event.origin = "manual", Listed(Kind(att.event)),
                              IF Kind(att.event) = "movie" THEN Movies ELSE Series)
  <2>1. match.item = None /\ Note({Skip("resolve_title", match.reason)})
    BY <1>1 DEF Catalogue, Goto
  <2>2. match.reason \notin Kept
    BY <2>1, ResolveReasons
  <2> HIDE DEF match
  <2>3. att'.acts = att.acts \cup {Skip("resolve_title", match.reason)}
    BY <2>1 DEF Note, Shaped, Fields
  <2> QED
    BY <2>2, <2>3, NotFine
<1>2. CASE EvidenceFails
  <2>1. PICK reason : Note({Failure("process_event", reason)})
    BY <1>2 DEF EvidenceFails
  <2>2. att'.acts = att.acts \cup {Failure("process_event", reason)}
    BY <2>1 DEF Note, Shaped, Fields
  <2> QED
    BY <2>2, NotFine
<1>3. CASE Blocked
  <2>1. PICK name : Note({Skip(name, "downstream_error"), Skip("cleanup", "downstream_error")})
    BY <1>3 DEF Blocked
  <2>2. att'.acts = (att.acts \cup {Skip(name, "downstream_error")}) \cup {Skip("cleanup", "downstream_error")}
    BY <2>1 DEF Note, Shaped, Fields
  <2>3. "downstream_error" \notin Kept
    BY DEF Kept
  <2> QED
    BY <2>2, <2>3, NotFine
<1> QED
  BY <1>1, <1>2, <1>3

LEMMA WorkingStep ==
  ASSUME Shaped, Together, Evident, Working, [Next]_vars
  PROVE  Working'
<1>0. shape' = shape /\ lib'.files \subseteq lib.files
  BY ShapeStays, LibShrinks
<1>1. ASSUME NEW event \in shape.events, Begin(event) PROVE Working'
  <2>1. pc' \in {"by_id", "catalogue", "unlinked"}
    BY <1>1, EventFacts DEF Begin, Goto
  <2> QED
    BY <2>1 DEF Working, Worked
<1>2. CASE Guard
  BY <1>2 DEF Guard, FindById, FindByProvider, FindFails, Refuse, Goto, Working, Worked
<1>3. CASE Catalogue
  <2>1. pc' \in {"history", "media", "built"}
    BY <1>3 DEF Catalogue, Goto
  <2> QED
    BY <1>3, <2>1, StoppedShort DEF Working, Worked
<1>4. CASE History
  <2>1. att'.title = att.title /\ att'.event = att.event /\ pc = "history" /\ lib' = lib
    BY <1>4 DEF History, Shaped, Fields, world
  <2>2. CASE att.event.type = "Movie"
    BY <1>4, <2>1, <2>2 DEF History, Goto, Working, Worked
  <2>3. CASE att.event.type # "Movie"
    <3> DEFINE safe == Analyze(att.event, Episodes(att.title), Grabs(att.title))
               notes == {Skip("safety_note", r) : r \in safe.notes}
    <3>1. pc' = "remove" /\ att' = [att EXCEPT !.hashes = safe.hashes, !.files = safe.files,
                                              !.unmonitor = safe.targets, !.acts = @ \cup notes]
      BY <1>4, <2>3 DEF History, Goto
    <3>2. Covers(shape, att.event, att.title, safe.hashes, safe.files)
      BY <2>3, AnalysisCovers
    <3>3. safe.targets = Named(shape, att.event, att.title)
      BY TargetsAreNamed DEF Analyze
    <3>4. ASSUME NEW e \in shape.episodes, e.title = att.title, e.listed,
                 e.id \in Named(shape, att.event, att.title), e.file \in lib.files
          PROVE  e.file \in safe.files \/ \E r \in {"shared_file", "pack_torrent"} : Skip("safety_note", r) \in notes
      <4>1. e.file # None
        BY <3>4 DEF Together
      <4>2. e.file \in safe.files \/ "shared_file" \in safe.notes \/ "pack_torrent" \in safe.notes
        BY <3>4, <4>1, AnalysisNotes
      <4> QED
        BY <4>2
    <3> HIDE DEF safe, notes
    <3>5. /\ att'.hashes = safe.hashes /\ att'.files = safe.files /\ att'.unmonitor = safe.targets
          /\ att'.acts = att.acts \cup notes
      BY <3>1 DEF Shaped, Fields
    <3>6. Noted(shape, lib.files, att')
      BY <2>1, <3>4, <3>5 DEF Noted
    <3>7. Aware(shape', lib'.files, att')
      BY <1>0, <2>1, <3>2, <3>3, <3>5, <3>6 DEF Aware, Evident, Titled
    <3> QED
      BY <3>1, <3>7 DEF Working
  <2> QED
    BY <2>2, <2>3
<1>5. CASE EvidenceFails \/ Blocked
  <2>1. pc' = "built"
    BY <1>5 DEF EvidenceFails, Blocked, Goto
  <2> QED
    BY <1>5, <2>1, StoppedShort DEF Working
<1>6. CASE Owners
  <2>1. CASE pc' = "blocked"
    BY <2>1 DEF Working, Worked
  <2>2. CASE pc' # "blocked"
    <3>1. pc = "owners" /\ att' = att /\ pc' = "remove" /\ lib' = lib
      BY <1>6, <2>2 DEF Owners, Goto, world
    <3>2. Aware(shape, lib.files, att)
      BY <3>1 DEF Working, Evident, Titled, Gathered, Aware
    <3> QED
      BY <1>0, <3>1, <3>2 DEF Working
  <2> QED
    BY <2>1, <2>2
<1>7. CASE NothingToRemove \/ Remove \/ RemoveRaises \/ AccountsEnd
  <2>1. CASE pc' = "blocked"
    BY <2>1 DEF Working, Worked
  <2>2. CASE pc' # "blocked"
    <3>1. /\ pc \in Worked /\ pc' # "owners"
          /\ \/ att' = att
             \/ \E acts : Note(acts)
             \/ \E results : att' = [att EXCEPT !.results = results]
      BY <1>7, <2>2 DEF NothingToRemove, Remove, RemoveRaises, AccountsEnd, Goto, Worked
    <3>2. /\ att'.event = att.event /\ att'.title = att.title /\ att'.hashes = att.hashes /\ att'.files = att.files
          /\ att'.unmonitor = att.unmonitor
      BY <3>1 DEF Note, Shaped, Fields
    <3>3. att.acts \subseteq att'.acts
      BY <3>1, NoteGrows DEF Shaped, Fields
    <3> QED
      BY <3>1, <3>2, <3>3, WorkingKept
  <2> QED
    BY <2>1, <2>2
<1>8. ASSUME NEW h \in att.hashes, Account(h) PROVE Working'
  <2>1. pc = "account" /\ pc' = pc /\ \E act : Accounted(h, act)
    BY <1>8 DEF Account
  <2>2. /\ att'.event = att.event /\ att'.title = att.title /\ att'.hashes = att.hashes /\ att'.files = att.files
        /\ att'.unmonitor = att.unmonitor
    BY <2>1 DEF Accounted, Shaped, Fields
  <2>3. att.acts \subseteq att'.acts
    BY <1>8, ResultsGrow
  <2> QED
    BY <2>1, <2>2, <2>3, WorkingKept DEF Worked
<1>9. CASE Ready \/ StageEnds \/ CallsEnd \/ FindMedia \/ MediaFails
  <2>1. pc \in Worked /\ pc' # "owners"
    BY <1>9 DEF Ready, StageEnds, CallsEnd, FindMedia, MediaFails, Goto, Worked
  <2>2. /\ att'.event = att.event /\ att'.title = att.title /\ att'.hashes = att.hashes /\ att'.files = att.files
        /\ att'.unmonitor = att.unmonitor
    BY <1>9 DEF Ready, StageEnds, CallsEnd, FindMedia, MediaFails, Note, Shaped, Fields
  <2>3. att.acts \subseteq att'.acts
    BY <1>9, ResultsGrow
  <2> QED
    BY <2>1, <2>2, <2>3, WorkingKept
<1>10. CASE Mutations
  <2>1. PICK call : Mutate(call)
    BY <1>10 DEF Mutations
  <2>2. /\ att'.event = att.event /\ att'.title = att.title /\ att'.hashes = att.hashes /\ att'.files = att.files
        /\ att'.unmonitor = att.unmonitor
    BY <2>1, MutateFrame
  <2>3. PICK act, touched : Called(call, act, touched)
    BY <2>1 DEF Mutate
  <2>4. att.acts \subseteq att'.acts
    BY <2>3, CalledFrame
  <2> QED
    BY <1>10, <2>2, <2>4, WorkingKept DEF Mutations, Worked
<1>11. CASE Ending
  <2>1. pc' \in {"catalogue", "done", "alone"}
    BY <1>11 DEF Ending, PreviewEnds, CascadeEnds, DeleteSource, DecideSource, Unlinked, UnlinkedFails,
         DeleteAlone, Goto
  <2> QED
    BY <2>1 DEF Working, Worked
<1>12. CASE (\E h \in torrents : TorrentVanishes(h)) \/ ItemMoves \/ SwitchMode \/ OldClientsClose \/ UNCHANGED vars
  <2>1. pc' = pc
    BY <1>12 DEF TorrentVanishes, ItemMoves, SwitchMode, OldClientsClose, vars
  <2>2. /\ att'.event = att.event /\ att'.title = att.title /\ att'.hashes = att.hashes /\ att'.files = att.files
        /\ att'.unmonitor = att.unmonitor /\ att'.acts = att.acts
    BY <1>12 DEF TorrentVanishes, ItemMoves, SwitchMode, OldClientsClose, vars, Shaped, Fields
  <2>3. CASE pc \in Worked
    BY <2>1, <2>2, <2>3, WorkingKept DEF Worked
  <2>4. CASE pc \notin Worked
    BY <2>1, <2>2, <2>4 DEF Working
  <2> QED
    BY <2>3, <2>4
<1>13. CASE Crash
  BY <1>13 DEF Crash, Goto, Working, Worked
<1> QED
  BY <1>1, <1>2, <1>3, <1>4, <1>5, <1>6, <1>7, <1>8, <1>9, <1>10, <1>11, <1>12, <1>13
     DEF Next, Evidence, Cleanup, Dependent
\* A call that has nothing left to do.
Over(call) ==
  /\ call.name \in {"delete_movie", "delete_series"} => call.on \notin lib.titles
  /\ call.name = "delete_episode_file" => call.on \notin lib.files
  /\ call.name = "unmonitor_episodes" => call.on \cap lib.monitored = {}
  /\ call.name = "unmonitor_season" => call.on \notin lib.seasons

Pending(call) == pc = "arr" /\ \E i \in DOMAIN att.todo : call \in att.todo[i]
Asked(call) == \E i \in DOMAIN ArrCalls : call \in ArrCalls[i]

\* Without a failure, what was asked of Arr is over or still to be called.
Performed ==
  pc \in {"arr", "media", "tidy", "built"} /\ ~att.dry /\ Fine(att.acts) =>
    /\ \A h \in att.hashes : Settled(h)
    /\ \A call : Asked(call) => Over(call) \/ Pending(call)

LEMMA PerformedInit == Init => Performed
  BY DEF Init, Performed

LEMMA OverStays ==
  ASSUME [Next]_vars
  PROVE  \A call : Over(call) => Over(call)'
  BY LibShrinks DEF Over

LEMMA AskedStays ==
  ASSUME att'.event = att.event, att'.title = att.title, att'.unmonitor = att.unmonitor, att'.files = att.files
  PROVE  \A call : Asked(call)' <=> Asked(call)
  BY DEF Asked, ArrCalls, MovieCalls, SeriesCalls, SeasonCalls, EpisodeCalls

\* A call that did not fail is over.
LEMMA MutateIsOver ==
  ASSUME Shaped, NEW call, Mutate(call), ~att.dry, Fine(att'.acts), call.name \in Changing
  PROVE  Over(call)'
<1>1. CASE ~Present(call) /\ UNCHANGED lib
  BY <1>1 DEF Present, Over
<1>2. CASE lib' = LibAfter(call)
  BY <1>2 DEF LibAfter, Over, Shaped
<1>3. CASE \E reason, touched : Called(call, Failure(call.name, reason), touched)
  <2>1. PICK reason, touched : Called(call, Failure(call.name, reason), touched)
    BY <1>3
  <2>2. att'.acts = att.acts \cup {Failure(call.name, reason)}
    BY <2>1, CalledFrame
  <2> QED
    BY <2>2, NotFine
<1> QED
  BY <1>1, <1>2, <1>3 DEF Mutate, Effect

\* A step of a real attempt that keeps the work and adds to the results.
LEMMA PerformedKept ==
  ASSUME Performed, [Next]_vars, pc \in {"arr", "media", "tidy", "built"},
         att'.event = att.event, att'.title = att.title, att'.hashes = att.hashes, att'.files = att.files,
         att'.unmonitor = att.unmonitor,
         att'.dry = att.dry, att.acts \subseteq att'.acts,
         \A call : Pending(call) => Pending(call)' \/ (~att.dry /\ Fine(att'.acts) => Over(call)')
  PROVE  Performed'
<1>1. ASSUME ~att.dry, Fine(att'.acts), NEW call, Asked(call)'
      PROVE  Over(call)' \/ Pending(call)'
  <2>1. Fine(att.acts) /\ Asked(call)
    BY <1>1, FineBefore, AskedStays
  <2>2. Over(call) \/ Pending(call)
    BY <1>1, <2>1 DEF Performed
  <2> QED
    BY <1>1, <2>2, OverStays
<1>2. ASSUME ~att.dry, Fine(att'.acts), NEW h \in att.hashes
      PROVE  Settled(h)'
  BY <1>2, FineBefore, SettledStays DEF Performed
<1> QED
  BY <1>1, <1>2 DEF Performed

LEMMA PerformedStep ==
  ASSUME Shaped, Planned, Cleared, Performed, [Next]_vars
  PROVE  Performed'
<1>1. ASSUME NEW event \in shape.events, Begin(event) PROVE Performed'
  <2>1. pc' \in {"by_id", "catalogue", "unlinked"}
    BY <1>1, EventFacts DEF Begin, Goto
  <2> QED
    BY <2>1 DEF Performed
<1>2. CASE Guard
  BY <1>2 DEF Guard, FindById, FindByProvider, FindFails, Refuse, Goto, Performed
<1>3. CASE Evidence
  <2>1. CASE Catalogue
    BY <2>1, StoppedShort DEF Performed
  <2>2. CASE EvidenceFails
    BY <2>2, StoppedShort DEF Performed
  <2>3. CASE History \/ Owners
    BY <2>3 DEF History, Owners, Goto, Performed
  <2> QED
    BY <1>3, <2>1, <2>2, <2>3 DEF Evidence
<1>4. CASE NothingToRemove \/ Remove \/ RemoveRaises \/ AccountsEnd
  BY <1>4 DEF NothingToRemove, Remove, RemoveRaises, AccountsEnd, Goto, Performed
<1>5. ASSUME NEW h \in att.hashes, Account(h) PROVE Performed'
  BY <1>5 DEF Account, Performed
<1>6. CASE Blocked
  BY <1>6, StoppedShort DEF Performed
<1>7. CASE Ready
  <2>1. /\ pc = "ready" /\ pc' = "arr" /\ att'.todo = ArrCalls /\ att'.event = att.event /\ att'.title = att.title
        /\ att'.hashes = att.hashes /\ att'.files = att.files /\ att'.unmonitor = att.unmonitor
    BY <1>7 DEF Ready, Goto, Shaped, Fields
  <2>2. \A call : Asked(call) <=> \E i \in DOMAIN att'.todo : call \in att'.todo[i]
    BY <2>1 DEF Asked
  <2>3. \A call : Asked(call)' => Pending(call)'
    BY <2>1, <2>2, AskedStays DEF Pending
  <2>4. att'.dry = att.dry
    BY <1>7 DEF Ready, Shaped, Fields
  <2>5. ASSUME ~att.dry, NEW h \in att.hashes PROVE Settled(h)'
    BY <2>1, <2>5, SettledStays DEF Cleared
  <2> QED
    BY <2>1, <2>3, <2>4, <2>5 DEF Performed
<1>8. CASE StageEnds \/ CallsEnd \/ FindMedia \/ MediaFails
  <2>1. /\ pc \in {"arr", "media", "tidy"}
        /\ pc = "arr" => StageEnds \/ (CallsEnd /\ att.todo = <<>>)
    BY <1>8 DEF StageEnds, CallsEnd, FindMedia, MediaFails
  <2>2. /\ att'.event = att.event /\ att'.title = att.title /\ att'.hashes = att.hashes /\ att'.files = att.files
        /\ att'.unmonitor = att.unmonitor
    BY <1>8 DEF StageEnds, CallsEnd, FindMedia, MediaFails, Note, Shaped, Fields
  <2>3. att'.dry = att.dry
    BY <1>8 DEF StageEnds, CallsEnd, FindMedia, MediaFails, Note, Shaped, Fields
  <2>4. att.acts \subseteq att'.acts
    BY <1>8, ResultsGrow
  <2>5. ASSUME NEW call, Pending(call) PROVE Pending(call)'
    <3>1. pc = "arr" /\ StageEnds
      BY <2>1, <2>5, ShortLists DEF Pending
    <3>2. /\ pc' = "arr" /\ att'.todo = Tail(att.todo) /\ att.todo # <<>> /\ Head(att.todo) = {}
      BY <3>1 DEF StageEnds, Shaped, Fields
    <3>3. PICK i \in DOMAIN att.todo : call \in att.todo[i]
      BY <2>5 DEF Pending
    <3>4. i # 1
      BY <3>2, <3>3, ListHead DEF Planned
    <3>5. i - 1 \in DOMAIN Tail(att.todo) /\ Tail(att.todo)[i - 1] = att.todo[i]
      BY <3>2, <3>4, ListTail DEF Planned
    <3> QED
      BY <3>2, <3>3, <3>5 DEF Pending
  <2> QED
    BY <2>1, <2>2, <2>3, <2>4, <2>5, PerformedKept
<1>9. CASE Mutations
  <2>1. /\ pc \in {"arr", "tidy"} /\ pc' = pc /\ att.todo # <<>>
    BY <1>9 DEF Mutations
  <2>2. PICK call \in Head(att.todo) : Mutate(call)
    BY <1>9 DEF Mutations
  <2>3. /\ att'.event = att.event /\ att'.title = att.title /\ att'.hashes = att.hashes /\ att'.files = att.files
        /\ att'.unmonitor = att.unmonitor /\ att'.dry = att.dry
        /\ att'.todo = [att.todo EXCEPT ![1] = @ \ {call}]
    BY <2>2, MutateFrame
  <2>4. PICK act, touched : Called(call, act, touched)
    BY <2>2 DEF Mutate
  <2>5. att.acts \subseteq att'.acts
    BY <2>4, CalledFrame
  <2>6. ASSUME ~att.dry, Fine(att'.acts) PROVE Over(call)'
    BY <2>1, <2>2, <2>6, CallChanges, MutateIsOver
  <2>7. ASSUME NEW c, Pending(c), c # call PROVE Pending(c)'
    <3>1. PICK i \in DOMAIN att.todo : c \in att.todo[i]
      BY <2>7 DEF Pending
    <3>2. i \in DOMAIN att'.todo /\ c \in att'.todo[i]
      BY <2>1, <2>3, <2>7, <3>1, ListExcept DEF Planned
    <3> QED
      BY <2>1, <2>7, <3>2 DEF Pending
  <2> QED
    BY <2>1, <2>3, <2>5, <2>6, <2>7, PerformedKept
<1>10. CASE Ending
  <2>1. pc' \in {"catalogue", "done", "alone"}
    BY <1>10 DEF Ending, PreviewEnds, CascadeEnds, DeleteSource, DecideSource, Unlinked, UnlinkedFails,
         DeleteAlone, Goto
  <2> QED
    BY <2>1 DEF Performed
<1>11. CASE (\E h \in torrents : TorrentVanishes(h)) \/ ItemMoves \/ SwitchMode \/ OldClientsClose \/ UNCHANGED vars
  <2>1. pc' = pc
    BY <1>11 DEF TorrentVanishes, ItemMoves, SwitchMode, OldClientsClose, vars
  <2>2. /\ att'.event = att.event /\ att'.title = att.title /\ att'.hashes = att.hashes /\ att'.files = att.files
        /\ att'.unmonitor = att.unmonitor /\ att'.acts = att.acts /\ att'.todo = att.todo
    BY <1>11 DEF TorrentVanishes, ItemMoves, SwitchMode, OldClientsClose, vars, Shaped, Fields
  <2>3. att'.dry = att.dry
    BY <1>11 DEF TorrentVanishes, ItemMoves, SwitchMode, OldClientsClose, vars, Shaped, Fields
  <2>4. \A call : Pending(call) => Pending(call)'
    BY <2>1, <2>2 DEF Pending
  <2>5. CASE pc \in {"arr", "media", "tidy", "built"}
    BY <2>2, <2>3, <2>4, <2>5, PerformedKept
  <2>6. CASE pc \notin {"arr", "media", "tidy", "built"}
    BY <2>1, <2>6 DEF Performed
  <2> QED
    BY <2>5, <2>6
<1>12. CASE Crash
  BY <1>12 DEF Crash, Goto, Performed
<1> QED
  BY <1>1, <1>2, <1>3, <1>4, <1>5, <1>6, <1>7, <1>8, <1>9, <1>10, <1>11, <1>12 DEF Next, Cleanup, Dependent

LEMMA CompletedIsFine ==
  ASSUME NEW acts, Finished(acts) = "completed"
  PROVE  Fine(acts)
<1>1. Status(acts) # "completed"
  BY DEF Status
<1>2. JobVerdict(acts) = "completed"
  BY <1>1 DEF Finished
<1>3. ~Unsafe(acts) /\ ~Unfinished(acts)
  BY <1>2 DEF JobVerdict
<1>4. \A a \in acts : a.status # "failed"
  BY <1>3 DEF Unfinished, Status
<1> QED
  BY <1>3, <1>4 DEF Fine, Unsafe, Unfinished

\* All that an attempt had to do.
Accomplished ==
  /\ Aware(shape, lib.files, att)
  /\ \A h \in att.hashes : Settled(h)
  /\ \A call : Asked(call) => Over(call)

\* A manual attempt that counts as completed has done it all.
Complete ==
  att.verdict = "completed" /\ ~att.dry /\ att.event.origin = "manual" =>
    pc = "done" /\ att.event \in shape.events /\ Accomplished

LEMMA CompleteInit == Init => Complete
<1> SUFFICES ASSUME Init PROVE Complete
  OBVIOUS
<1>1. att.dry
  BY DEF Init, Idle
<1> QED
  BY <1>1 DEF Complete

LEMMA AccomplishedStays ==
  ASSUME Accomplished, [Next]_vars,
         att'.event = att.event, att'.title = att.title, att'.hashes = att.hashes, att'.files = att.files,
         att'.unmonitor = att.unmonitor, att.acts \subseteq att'.acts
  PROVE  Accomplished'
<1>1. shape' = shape /\ lib'.files \subseteq lib.files
  BY ShapeStays, LibShrinks
<1>2. Aware(shape', lib'.files, att')
  BY <1>1, AwareStays DEF Accomplished
<1>3. \A call : Asked(call)' => Over(call)'
  BY AskedStays, OverStays DEF Accomplished
<1>4. \A h \in att'.hashes : Settled(h)'
  BY SettledStays DEF Accomplished
<1> QED
  BY <1>2, <1>3, <1>4 DEF Accomplished

LEMMA BuiltIsAccomplished ==
  ASSUME Working, Performed, pc = "built", ~att.dry, Fine(att.acts)
  PROVE  Accomplished
  BY DEF Working, Worked, Performed, Pending, Accomplished

\* Another verdict, or none.
LEMMA OtherVerdict ==
  ASSUME att'.verdict \in {None, "ignored", "partial_failure", "refused", "lost"}
  PROVE  Complete'
<1>1. None # "completed"
  BY NoneAssumption DEF Kept, Verdicts
<1> QED
  BY <1>1 DEF Complete

LEMMA CompleteKept ==
  ASSUME Complete, pc # "done", att'.verdict = att.verdict, att'.event = att.event, att'.dry = att.dry
  PROVE  Complete'
  BY DEF Complete

LEMMA CompleteStep ==
  ASSUME Shaped, Guarded, Planned, Working, Performed, Complete, [Next]_vars
  PROVE  Complete'
<1>0. shape' = shape
  BY ShapeStays
<1>1. ASSUME NEW event \in shape.events, Begin(event) PROVE Complete'
  <2>1. att'.verdict = None
    BY <1>1 DEF Begin, Began, Idle
  <2> QED
    BY <2>1, OtherVerdict
<1>2. CASE Guard
  <2>1. pc # "done" /\ \/ att' = att
                       \/ \E status, reason : Refuse(status, reason)
    BY <1>2 DEF Guard, FindById, FindByProvider, FindFails
  <2>2. CASE att' = att
    BY <2>1, <2>2, CompleteKept
  <2>3. CASE \E status, reason : Refuse(status, reason)
    <3>1. att'.verdict \in {"ignored", "partial_failure"}
      BY <2>3 DEF Refuse, Shaped, Fields
    <3> QED
      BY <3>1, OtherVerdict
  <2> QED
    BY <2>1, <2>2, <2>3
<1>3. CASE Evidence \/ NothingToRemove \/ Remove \/ RemoveRaises \/ AccountsEnd
  <2>1. pc # "done"
    BY <1>3 DEF Evidence, Catalogue, History, EvidenceFails, Owners, NothingToRemove, Remove, RemoveRaises, AccountsEnd
  <2>2. att'.verdict = att.verdict /\ att'.event = att.event
    BY <1>3 DEF Evidence, Catalogue, History, EvidenceFails, Owners, NothingToRemove, Remove, RemoveRaises, AccountsEnd,
         Note, Shaped, Fields
  <2>3. att'.dry = att.dry
    BY <1>3 DEF Evidence, Catalogue, History, EvidenceFails, Owners, NothingToRemove, Remove, RemoveRaises, AccountsEnd,
         Note, Shaped, Fields
  <2> QED
    BY <2>1, <2>2, <2>3, CompleteKept
<1>4. ASSUME NEW h \in att.hashes, Account(h) PROVE Complete'
  <2>1. pc # "done" /\ \E act : Accounted(h, act)
    BY <1>4 DEF Account
  <2>2. att'.verdict = att.verdict /\ att'.event = att.event
    BY <2>1 DEF Accounted, Shaped, Fields
  <2>3. att'.dry = att.dry
    BY <2>1 DEF Accounted, Shaped, Fields
  <2> QED
    BY <2>1, <2>2, <2>3, CompleteKept
<1>5. CASE Blocked \/ Ready \/ StageEnds \/ CallsEnd \/ FindMedia \/ MediaFails
  <2>1. pc # "done"
    BY <1>5 DEF Blocked, Ready, StageEnds, CallsEnd, FindMedia, MediaFails
  <2>2. att'.verdict = att.verdict /\ att'.event = att.event
    BY <1>5 DEF Blocked, Ready, StageEnds, CallsEnd, FindMedia, MediaFails, Note, Shaped, Fields
  <2>3. att'.dry = att.dry
    BY <1>5 DEF Blocked, Ready, StageEnds, CallsEnd, FindMedia, MediaFails, Note, Shaped, Fields
  <2> QED
    BY <2>1, <2>2, <2>3, CompleteKept
<1>6. CASE Mutations
  <2>1. PICK call : Mutate(call)
    BY <1>6 DEF Mutations
  <2>2. att'.verdict = att.verdict /\ att'.event = att.event /\ att'.dry = att.dry
    BY <2>1, MutateFrame
  <2> QED
    BY <1>6, <2>2, CompleteKept DEF Mutations
<1>7. CASE PreviewEnds
  <2>1. \/ att' = Began(att.event, "execute")
        \/ \E acts : att' = [att EXCEPT !.acts = acts, !.verdict = "refused"]
    BY <1>7 DEF PreviewEnds
  <2>2. att'.verdict \in {None, "refused"}
    BY <2>1 DEF Began, Idle, Shaped, Fields
  <2> QED
    BY <2>2, OtherVerdict
<1>8. CASE CascadeEnds \/ DeleteSource
  <2>1. PICK acts : /\ att.acts \subseteq acts
                    /\ att' = [att EXCEPT !.acts = acts, !.verdict = Finished(acts)]
    <3>1. CASE CascadeEnds
      <4>1. att' = [att EXCEPT !.acts = att.acts, !.verdict = Finished(att.acts)]
        BY <3>1 DEF CascadeEnds, Shaped, Fields
      <4> QED
        BY <4>1
    <3>2. CASE DeleteSource
      <4>1. \E act : DecideSource(att.acts \cup {act})
        BY <3>2 DEF DeleteSource
      <4> QED
        BY <4>1 DEF DecideSource
    <3> QED
      BY <1>8, <3>1, <3>2
  <2>2. pc = "built" /\ pc' = "done" /\ UNCHANGED <<lib, torrents, retained>>
    BY <1>8 DEF CascadeEnds, DeleteSource, DecideSource, Goto, world
  <2>3. /\ att'.event = att.event /\ att'.title = att.title /\ att'.hashes = att.hashes /\ att'.files = att.files
        /\ att'.unmonitor = att.unmonitor /\ att'.acts = acts /\ att'.verdict = Finished(acts)
    BY <2>1 DEF Shaped, Fields
  <2>4. att'.dry = att.dry
    BY <2>1 DEF Shaped, Fields
  <2>5. ASSUME att'.verdict = "completed", ~att.dry PROVE Accomplished'
    <3>1. Fine(att.acts)
      BY <2>1, <2>3, <2>5, CompletedIsFine, FineBefore
    <3>2. Accomplished
      BY <2>2, <2>5, <3>1, BuiltIsAccomplished
    <3> QED
      BY <2>1, <2>3, <3>2, AccomplishedStays
  <2> QED
    BY <1>0, <2>2, <2>3, <2>4, <2>5 DEF Complete, Planned
<1>9. CASE Unlinked \/ UnlinkedFails
  <2>1. pc = "unlinked" /\ (att' = att \/ att' = [att EXCEPT !.verdict = "refused"])
    BY <1>9 DEF Unlinked, UnlinkedFails
  <2>2. CASE att' = att
    BY <2>1, <2>2, CompleteKept
  <2>3. CASE att' = [att EXCEPT !.verdict = "refused"]
    <3>1. att'.verdict = "refused"
      BY <2>3 DEF Shaped, Fields
    <3> QED
      BY <3>1, OtherVerdict
  <2> QED
    BY <2>1, <2>2, <2>3
<1>10. CASE DeleteAlone
  <2>1. pc = "alone" /\ \E acts : DecideSource(acts)
    BY <1>10 DEF DeleteAlone
  <2>2. att'.event = att.event
    BY <2>1 DEF DecideSource, Shaped, Fields
  <2> QED
    BY <2>1, <2>2 DEF Guarded, Complete
<1>11. CASE (\E h \in torrents : TorrentVanishes(h)) \/ ItemMoves \/ SwitchMode \/ OldClientsClose \/ UNCHANGED vars
  <2>1. pc' = pc
    BY <1>11 DEF TorrentVanishes, ItemMoves, SwitchMode, OldClientsClose, vars
  <2>2. /\ att'.event = att.event /\ att'.title = att.title /\ att'.hashes = att.hashes /\ att'.files = att.files
        /\ att'.unmonitor = att.unmonitor /\ att'.acts = att.acts /\ att'.verdict = att.verdict
    BY <1>11 DEF TorrentVanishes, ItemMoves, SwitchMode, OldClientsClose, vars, Shaped, Fields
  <2>3. att'.dry = att.dry
    BY <1>11 DEF TorrentVanishes, ItemMoves, SwitchMode, OldClientsClose, vars, Shaped, Fields
  <2>4. Accomplished => Accomplished'
    BY <2>2, AccomplishedStays
  <2> QED
    BY <1>0, <2>1, <2>2, <2>3, <2>4 DEF Complete
<1>12. CASE Crash
  <2>1. att'.verdict = "lost"
    BY <1>12 DEF Crash, Idle
  <2> QED
    BY <2>1, OtherVerdict
<1> QED
  BY <1>1, <1>2, <1>3, <1>4, <1>5, <1>6, <1>7, <1>8, <1>9, <1>10, <1>11, <1>12 DEF Next, Cleanup, Dependent, Ending

-----------------------------------------------------------------------------
(* What completion means.                                                  *)

\* What is asked of Arr.
LEMMA AskedCalls ==
  /\ att.event.type = "Movie" => Asked(Call("delete_movie", att.title))
  /\ att.event.type = "Series" => Asked(Call("delete_series", att.title))
  /\ att.event.type = "Season" =>
       /\ Asked(Call("unmonitor_season", <<att.title, att.event.season>>))
       /\ att.unmonitor # {} => Asked(Call("unmonitor_episodes", att.unmonitor))
       /\ \A f \in att.files : Asked(Call("delete_episode_file", f))
<1>1. CASE att.event.type = "Movie"
  BY <1>1, ShortLists DEF Asked, ArrCalls, MovieCalls
<1>2. CASE att.event.type = "Series"
  BY <1>2, ShortLists DEF Asked, ArrCalls, SeriesCalls
<1>3. CASE att.event.type = "Season"
  <2>1. ArrCalls = SeasonCalls
    BY <1>3 DEF ArrCalls
  <2>2. /\ DOMAIN SeasonCalls = {1, 2, 3}
        /\ SeasonCalls[1] = {Call("unmonitor_episodes", x) : x \in {att.unmonitor} \ {{}}}
        /\ SeasonCalls[2] = {Call("delete_episode_file", f) : f \in att.files}
        /\ SeasonCalls[3] = {Call("unmonitor_season", <<att.title, att.event.season>>)}
    BY ThreeStages DEF SeasonCalls, EpisodeCalls
  <2> QED
    BY <1>3, <2>1, <2>2 DEF Asked
<1> QED
  BY <1>1, <1>2, <1>3

\* Nothing of a title or a season is left but files shared with something outside.
LEMMA NothingRemains ==
  ASSUME Shaped, Together, Accomplished, att.event.type \in {"Movie", "Series", "Season"}
  PROVE  /\ ~Remains
         /\ \A h \in Backing : Settled(h)
         /\ Leftovers # {} => \E r \in {"shared_file", "pack_torrent"} : Skip("safety_note", r) \in att.acts
<1>a. Aware(shape, lib.files, att) /\ \A call : Asked(call) => Over(call)
  BY DEF Accomplished
<1>1. \A name, on : Call(name, on).name = name /\ Call(name, on).on = on
  BY DEF Call
<1>2. ASSUME att.event.type \in {"Movie", "Series"} PROVE ~Remains /\ Leftovers = {}
  <2>1. att.title \notin lib.titles
    BY <1>a, <1>1, <1>2, AskedCalls DEF Over
  <2>2. PICK t \in shape.titles : t.id = att.title
    BY <1>a DEF Aware
  <2>3. \A e \in shape.episodes : e.title = att.title => e.file \notin lib.files
    BY <2>1, <2>2 DEF Together
  <2>4. Leftovers = {}
    <3> SUFFICES ASSUME NEW y \in Episodes(att.title), y.file # None PROVE FALSE
      BY DEF Leftovers
    <3>1. PICK e \in shape.episodes : /\ e.title = att.title
                                      /\ y = [e EXCEPT !.file = IF e.file \in lib.files THEN e.file ELSE None]
      BY DEF Episodes
    <3>2. y.file = None
      BY <2>3, <3>1, ShapesAssumption DEF Shaped
    <3> QED
      BY <3>2
  <2> QED
    BY <1>2, <2>1, <2>4 DEF Remains
<1>3. ASSUME att.event.type = "Season"
      PROVE  /\ ~Remains
             /\ Leftovers # {} => \E r \in {"shared_file", "pack_torrent"} : Skip("safety_note", r) \in att.acts
  <2> DEFINE T == Named(shape, att.event, att.title)
  <2>1. att.unmonitor = T /\ Noted(shape, lib.files, att)
    BY <1>a, <1>3 DEF Aware
  <2>2. <<att.title, att.event.season>> \notin lib.seasons
    BY <1>a, <1>1, <1>3, AskedCalls DEF Over
  <2>3. T \cap lib.monitored = {}
    BY <1>a, <1>1, <1>3, <2>1, AskedCalls DEF Over
  <2>4. \A f \in att.files : f \notin lib.files
    BY <1>a, <1>1, <1>3, AskedCalls DEF Over
  <2>5. ASSUME NEW y \in Episodes(att.title), InScope(y)
        PROVE  \E e \in shape.episodes : /\ e.title = att.title /\ e.listed /\ e.id = y.id /\ e.id \in T
                                         /\ y.file # None => e.file \in lib.files
    <3>1. PICK e \in shape.episodes : /\ e.title = att.title /\ e.listed
                                      /\ y = [e EXCEPT !.file = IF e.file \in lib.files THEN e.file ELSE None]
      BY DEF Episodes
    <3>2. y.id = e.id /\ (y.file # None => e.file \in lib.files)
      BY <3>1, ShapesAssumption DEF Shaped
    <3>3. e.id \in Targets(att.event, {x \in shape.episodes : x.title = att.title})
      BY <2>5, <3>2 DEF InScope, Scope
    <3>4. \A x \in shape.episodes : x.id = e.id => x = e
      BY ShapesAssumption DEF Shaped
    <3>5. e.id \in T
      BY <3>1, <3>3, <3>4 DEF Targets, Named
    <3> QED
      BY <3>1, <3>2, <3>5
  <2> HIDE DEF T
  <2>6. ~Remains
    BY <1>3, <2>2, <2>3, <2>5 DEF Remains
  <2>7. ASSUME Leftovers # {}
        PROVE  \E r \in {"shared_file", "pack_torrent"} : Skip("safety_note", r) \in att.acts
    <3>1. PICK y \in Episodes(att.title) : InScope(y) /\ y.file # None
      BY <2>7 DEF Leftovers
    <3>2. PICK e \in shape.episodes : e.title = att.title /\ e.listed /\ e.id \in T /\ e.file \in lib.files
      BY <2>5, <3>1
    <3> QED
      BY <2>1, <2>4, <3>2 DEF Noted, T
  <2> QED
    BY <2>6, <2>7
<1>4. \A h \in Backing : Settled(h)
  <2>1. \A h \in Backing : h \in att.hashes
    BY <1>a, TargetsAreNamed DEF Backing, Aware, Covers, Grabs, GrabsOf
  <2> QED
    BY <2>1 DEF Accomplished
<1>5. CASE att.event.type \in {"Movie", "Series"}
  BY <1>2, <1>4, <1>5
<1>6. CASE att.event.type = "Season"
  BY <1>3, <1>4, <1>6
<1> QED
  BY <1>5, <1>6

\* The inductive invariant.
CascadeInv ==
  Shaped /\ Guarded /\ Planned /\ Traced /\ Evident /\ Cleared /\ Together /\ Working /\ Performed /\ Complete

\* Everything above holds of every state of an attempt, from the lookups to
\* the verdict that _run_job draws.
THEOREM CascadeInvariant == Spec => []CascadeInv
<1>1. Init => CascadeInv
  BY ShapedInit, GuardedInit, PlannedInit, TracedInit, EvidentInit, ClearedInit, TogetherInit, WorkingInit,
     PerformedInit, CompleteInit DEF CascadeInv
<1>2. CascadeInv /\ [Next]_vars => CascadeInv'
  BY ShapedStep, GuardedStep, PlannedStep, TracedStep, EvidentStep, ClearedStep, TogetherStep, WorkingStep,
     PerformedStep, CompleteStep DEF CascadeInv
<1> QED
  BY <1>1, <1>2, PTL DEF Spec

\* When _run_job completes a real manual deletion, its title is gone from Arr,
\* or its season neither monitored nor on disk but for noted shared files, and
\* every torrent that backs only what goes is out of the clients or retained.
THEOREM CompletedMeansDone == Spec => []CompletedIsDone
<1>1. CascadeInv => CompletedIsDone
  <2> SUFFICES ASSUME CascadeInv, att.verdict = "completed", ~att.dry, att.event.origin = "manual"
               PROVE  /\ ~Remains /\ \A h \in Backing : Settled(h)
                      /\ Leftovers # {} => \E a \in att.acts : a.name = "safety_note"
    BY DEF CompletedIsDone
  <2>1. Accomplished /\ att.event \in shape.events
    BY DEF CascadeInv, Complete
  <2>2. att.event.type \in {"Movie", "Series", "Season"}
    BY <2>1, EventFacts DEF CascadeInv
  <2>3. \A r : Skip("safety_note", r).name = "safety_note"
    BY DEF Skip, Act
  <2> QED
    BY <2>1, <2>2, <2>3, NothingRemains DEF CascadeInv
<1> QED
  BY <1>1, CascadeInvariant, PTL

\* The step that removes the source item follows an attempt that has done all
\* it had to, and kept nothing but what seeds or a season's request.
LEMMA SourceStep ==
  ASSUME CascadeInv, [Next]_vars, pc = "built", pc' = "done", jelly' # jelly, ~att.dry
  PROVE  /\ Fine(att.acts)
         /\ ~Remains /\ Leftovers = {} /\ \A h \in Backing \cup att.hashes : Settled(h)
<1>1. DeleteSource
  <2>1. CASE Guard \/ Evidence \/ Cleanup \/ Dependent
    BY <2>1 DEF Guard, FindById, FindByProvider, FindFails, Evidence, Catalogue, History, EvidenceFails, Owners,
       Cleanup, NothingToRemove, Remove, RemoveRaises, Account, AccountsEnd, Dependent, Blocked, Ready, Mutations,
       StageEnds, CallsEnd, FindMedia, MediaFails
  <2>2. CASE Ending
    BY <2>2 DEF Ending, PreviewEnds, CascadeEnds, Unlinked, UnlinkedFails, DeleteAlone
  <2>3. CASE \E event \in shape.events : Begin(event)
    BY <2>3 DEF Begin
  <2>4. CASE ItemMoves \/ (\E h \in torrents : TorrentVanishes(h)) \/ SwitchMode \/ OldClientsClose \/ Crash \/ UNCHANGED vars
    BY <2>4 DEF ItemMoves, TorrentVanishes, SwitchMode, OldClientsClose, Crash, vars
  <2> QED
    BY <2>1, <2>2, <2>3, <2>4 DEF Next
<1>2. ~SourceBlocked(att.acts) /\ att.event.origin = "manual"
  BY <1>1 DEF DeleteSource
<1>3. /\ Fine(att.acts)
      /\ \A a \in att.acts : a.status = "skipped" => a.reason \in {"seeding_policy", "partial_request_retained"}
  BY <1>2 DEF SourceBlocked, Status, Fine, Kept
<1>4. Accomplished
  BY <1>3, BuiltIsAccomplished DEF CascadeInv
<1>5. att.event.type \in {"Movie", "Series", "Season"}
  BY <1>2, EventFacts DEF CascadeInv, Planned
<1>6. \A r \in {"shared_file", "pack_torrent"} : Skip("safety_note", r) \notin att.acts
  <2>1. \A r : Skip("safety_note", r).status = "skipped" /\ Skip("safety_note", r).reason = r
    BY DEF Skip, Act
  <2> QED
    BY <1>3, <2>1
<1> QED
  BY <1>3, <1>4, <1>5, <1>6, NothingRemains DEF CascadeInv, Accomplished

\* After a real cascade the manual runner deletes the Jellyfin item only when
\* nothing of its scope is left in Arr, shared or not, and every torrent of
\* its evidence is settled: all of SourceLast but its clause on Seerr.
THEOREM SourceGoesLast ==
  Spec => [][pc = "built" /\ pc' = "done" /\ jelly' # jelly /\ ~att.dry =>
               ~Remains /\ Leftovers = {} /\ \A h \in Backing \cup att.hashes : Settled(h)]_vars
<1>1. CascadeInv /\ [Next]_vars /\ pc = "built" /\ pc' = "done" /\ jelly' # jelly /\ ~att.dry =>
        ~Remains /\ Leftovers = {} /\ \A h \in Backing \cup att.hashes : Settled(h)
  BY SourceStep
<1> QED
  BY <1>1, CascadeInvariant, PTL DEF Spec

-----------------------------------------------------------------------------
(* Nothing outside the event.                                              *)

\* A resolver finds only what the event means: it shares an identifier and
\* contradicts none.
LEMMA ResolveMeans ==
  ASSUME NEW ids, NEW ofArr, NEW items, IsFiniteSet(items), NEW order \in {Movies, Series, SeerrMovies, SeerrSeries},
         Resolve(ids, ofArr, items, order).item # None
  PROVE  /\ Resolve(ids, ofArr, items, order).item \in items
         /\ Means(ids, Resolve(ids, ofArr, items, order).item)
<1> DEFINE hits == {k \in DOMAIN order : Having(ids, items, order[k]) # {}}
           first == CHOOSE k \in hits : \A j \in hits : k <= j
           found == Having(ids, items, order[first])
<1>1. hits \subseteq {1, 2, 3, 4}
  BY DEF Movies, Series, SeerrMovies, SeerrSeries
<1>2. hits # {}
  BY DEF Resolve, Failed
<1>3. first \in hits
  <2> HIDE DEF hits
  <2> QED
    BY <1>1, <1>2, FirstOf
<1>4. found # {} /\ found \subseteq items
  BY <1>3 DEF Having
<1>5. order[first] \in Identifiers
  BY <1>3 DEF Movies, Series, SeerrMovies, SeerrSeries, Identifiers
<1>6. IsFiniteSet(found)
  BY <1>4, FS_Subset
<1>7. Cardinality(found) \in Nat /\ Cardinality(found) # 0
  BY <1>4, <1>6, FS_CardinalityType, FS_EmptySet
<1>8. /\ ~(Cardinality(found) > 1)
      /\ ~(Cardinality(found) = 1 /\ \E i \in found : Contradicts(ids, ofArr, i))
      /\ Resolve(ids, ofArr, items, order).item = CHOOSE i \in found : TRUE
  <2>1. Resolve(ids, ofArr, items, order) =
          CASE hits = {} -> Failed("no_match")
            [] hits # {} /\ Cardinality(found) > 1 -> Failed("ambiguous_match")
            [] hits # {} /\ Cardinality(found) = 1 /\ \E i \in found : Contradicts(ids, ofArr, i) -> Failed("conflicting_identifiers")
            [] OTHER -> [item |-> CHOOSE i \in found : TRUE, reason |-> None]
    BY DEF Resolve
  <2>2. \A r : Failed(r).item = None
    BY DEF Failed
  <2>3. [item |-> CHOOSE i \in found : TRUE, reason |-> None].item = CHOOSE i \in found : TRUE
    OBVIOUS
  <2> HIDE DEF found, hits
  <2>4. CASE Cardinality(found) > 1
    BY <1>2, <1>7, <2>1, <2>2, <2>4
  <2>5. CASE ~(Cardinality(found) > 1) /\ Cardinality(found) = 1 /\ \E i \in found : Contradicts(ids, ofArr, i)
    BY <1>2, <2>1, <2>2, <2>5
  <2> QED
    BY <1>2, <2>1, <2>2, <2>3, <2>4, <2>5
<1> DEFINE item == CHOOSE i \in found : TRUE
<1>9. item \in found
  <2> HIDE DEF found
  <2> QED
    BY <1>4
<1>10. ~Contradicts(ids, ofArr, item)
  <2> HIDE DEF found, item
  <2> QED
    BY <1>7, <1>8, <1>9
<1>11. ids[order[first]] # None /\ item.ids[order[first]] = ids[order[first]] /\ item \in items
  <2> HIDE DEF item, first
  <2> QED
    BY <1>9 DEF Having
<1>12. Means(ids, item)
  <2> HIDE DEF item, first
  <2> QED
    BY <1>5, <1>10, <1>11 DEF Means, Contradicts
<1> QED
  BY <1>8, <1>11, <1>12

\* The identifiers of the title agree with the event's.
Narrow(s, a) == \A t \in s.titles : t.id = a.title => Means(a.event.ids, t)

\* Every episode to unmonitor, and every episode of a file to delete, is named.
Confined(s, a) ==
  /\ a.unmonitor \subseteq Named(s, a.event, a.title)
  /\ \A f \in a.files, e \in s.episodes : e.file = f => e.title = a.title /\ e.id \in Named(s, a.event, a.title)

FilmsOf(s) == {t.id : t \in {x \in s.titles : x.kind = "movie"}}

\* So is all that a torrent to remove was grabbed for, of the films or of the
\* one series: what the code asks about.
Owned(s, a) ==
  /\ a.event.type = "Movie" => \A h \in a.hashes, g \in s.grabs : g.hash = h /\ g.title \in FilmsOf(s) => g.title = a.title
  /\ a.event.type # "Movie" =>
       \A h \in a.hashes : Within(GrabbedFor(h, GrabsOf(s, a.title)), Named(s, a.event, a.title))

\* Every listed episode of the season is named.
WholeSeason(s, a) ==
  \A e \in s.episodes : e.title = a.title /\ e.listed /\ e.season = a.event.season => e.number \in a.event.numbers

\* A call to Seerr concerns a media the event means, and a request only as
\* far as the season goes.
SeerrScoped(c, s, requests, a) ==
  /\ c.name = "delete_media" => \A m \in s.media : m.id = c.on => Means(a.event.ids, m)
  /\ c.name = "delete_request" /\ a.event.type \in {"Season", "Episode"} =>
       \A r \in requests : r.id = c.on => r.seasons \subseteq {a.event.season}
  /\ c.name \in {"update_request", "delete_request"} /\ a.event.type = "Episode" => WholeSeason(s, a)

RequestsKnown(requests) ==
  \A r \in requests : DOMAIN r = {"id", "media", "seasons"} /\ \A q \in requests : q.id = r.id => q = r

\* What an attempt may touch.
Bounded ==
  /\ RequestsKnown(seerr.requests)
  /\ pc \in Titled => Narrow(shape, att)
  /\ pc \in Titled \ {"history"} /\ att.event.type # "Movie" => Confined(shape, att)
  /\ pc = "owners" => att.event.type = "Movie"
  /\ pc \in {"owners", "remove"} => att.hashes \subseteq {g.hash : g \in GrabsOf(shape, att.title)}
  /\ pc = "remove" => Owned(shape, att)
  /\ pc = "arr" => \A i \in DOMAIN att.todo : \A c \in att.todo[i] : c.name = "unmonitor_episodes" => c.on = att.unmonitor
  /\ pc = "tidy" => \A i \in DOMAIN att.todo : \A c \in att.todo[i] : SeerrScoped(c, shape, seerr.requests, att)

LEMMA BoundedInit == Init => Bounded
<1> SUFFICES ASSUME Init PROVE Bounded
  OBVIOUS
<1>1. pc = "idle" /\ seerr.requests = shape.requests /\ shape \in Shapes
  BY DEF Init
<1>2. RequestsKnown(seerr.requests)
  BY <1>1, RecordsAssumption DEF RequestsKnown
<1> QED
  BY <1>1, <1>2 DEF Bounded, Titled

\* A step that keeps what the attempt is about.
LEMMA BoundedKept ==
  ASSUME Bounded, shape' = shape, seerr' = seerr,
         att'.event = att.event, att'.title = att.title, att'.hashes = att.hashes, att'.files = att.files,
         att'.unmonitor = att.unmonitor, att'.todo = att.todo,
         \/ pc' = pc
         \/ pc' \notin Titled \cup {"tidy"}
         \/ pc = "remove" /\ pc' \in {"account", "ready"}
         \/ pc = "account" /\ pc' = "ready"
  PROVE  Bounded'
<1>1. RequestsKnown(seerr'.requests)
  BY DEF Bounded
<1>2. pc' \in Titled => Narrow(shape', att')
  BY DEF Bounded, Narrow, Titled
<1>3. pc' \in Titled \ {"history"} /\ att'.event.type # "Movie" => Confined(shape', att')
  BY DEF Bounded, Confined, Titled
<1>4. /\ pc' = "remove" => Owned(shape', att')
      /\ pc' \in {"owners", "remove"} => att'.hashes \subseteq {g.hash : g \in GrabsOf(shape', att'.title)}
  BY DEF Bounded, Owned, Titled
<1>5. pc' = "arr" => \A i \in DOMAIN att'.todo : \A c \in att'.todo[i] : c.name = "unmonitor_episodes" => c.on = att'.unmonitor
  BY DEF Bounded, Titled
<1>6. pc' = "tidy" => \A i \in DOMAIN att'.todo : \A c \in att'.todo[i] : SeerrScoped(c, shape', seerr'.requests, att')
  BY DEF Bounded, SeerrScoped, WholeSeason
<1>7. pc' = "owners" => att'.event.type = "Movie"
  BY DEF Bounded, Titled
<1> QED
  BY <1>1, <1>2, <1>3, <1>4, <1>5, <1>6, <1>7 DEF Bounded

\* What the title matched, the event means.
LEMMA CatalogueNarrows ==
  ASSUME Shaped, Catalogue, pc' = "history"
  PROVE  Narrow(shape, att') /\ att'.event = att.event /\ att'.todo = att.todo /\ seerr' = seerr
<1> DEFINE match == Resolve(att.event.ids, att.event.origin = "manual", Listed(Kind(att.event)),
                            IF Kind(att.event) = "movie" THEN Movies ELSE Series)
<1>1. match.item # None /\ att' = [att EXCEPT !.title = match.item.id] /\ seerr' = seerr
  BY DEF Catalogue, Goto, world
<1>2. /\ IsFiniteSet(shape.titles)
      /\ \A t, x \in shape.titles : x.id = t.id => x = t
  BY RecordsAssumption DEF Shaped
<1>3. Listed(Kind(att.event)) \subseteq shape.titles
  BY DEF Listed
<1>4. IsFiniteSet(Listed(Kind(att.event)))
  BY <1>2, <1>3, FS_Subset
<1>5. match.item \in Listed(Kind(att.event)) /\ Means(att.event.ids, match.item)
  BY <1>1, <1>4, ResolveMeans
<1> HIDE DEF match
<1>6. att'.title = match.item.id /\ att'.event = att.event /\ att'.todo = att.todo
  BY <1>1 DEF Shaped, Fields
<1>7. \A t \in shape.titles : t.id = match.item.id => t = match.item
  BY <1>2, <1>3, <1>5
<1> QED
  BY <1>1, <1>5, <1>6, <1>7 DEF Narrow

\* What is asked of Seerr lies in the scope.
LEMMA SeerrCallsScoped ==
  ASSUME Shaped, RequestsKnown(seerr.requests), NEW m \in shape.media, Means(att.event.ids, m),
         att.event.type \in {"Movie", "Series", "Season", "Episode"}
  PROVE  \A i \in DOMAIN SeerrCalls(m) : \A c \in SeerrCalls(m)[i] : SeerrScoped(c, shape, seerr.requests, att)
<1>1. \A x \in shape.media : x.id = m.id => x = m
  BY RecordsAssumption DEF Shaped
<1>2. SeerrScoped(Call("delete_media", m.id), shape, seerr.requests, att)
  BY <1>1 DEF Call, SeerrScoped
<1>3. \A c \in Issues(m) : SeerrScoped(c, shape, seerr.requests, att)
  BY DEF Issues, Call, SeerrScoped
<1>4. ASSUME att.event.type \in {"Movie", "Series"}, NEW c \in {Call("delete_request", r.id) : r \in RequestsOf(m)}
      PROVE  SeerrScoped(c, shape, seerr.requests, att)
  BY <1>4 DEF Call, SeerrScoped
<1>5. ASSUME att.event.type = "Season" \/ (att.event.type = "Episode" /\ CoversSeason), NEW c \in SeasonRequests(m)
      PROVE  SeerrScoped(c, shape, seerr.requests, att)
  <2>1. PICK r \in Asking(m) : c = Call(IF r.seasons = {att.event.season} THEN "delete_request" ELSE "update_request", r.id)
    BY <1>5 DEF SeasonRequests
  <2>2. c.on = r.id /\ r \in seerr.requests /\ c.name \in {"update_request", "delete_request"}
        /\ (c.name = "delete_request" => r.seasons = {att.event.season})
    BY <2>1 DEF Asking, RequestsOf, Call
  <2>3. \A q \in seerr.requests : q.id = r.id => q = r
    BY <2>2 DEF RequestsKnown
  <2>4. ASSUME att.event.type = "Episode" PROVE WholeSeason(shape, att)
    <3> SUFFICES ASSUME NEW e \in shape.episodes, e.title = att.title, e.listed, e.season = att.event.season
                 PROVE  e.number \in att.event.numbers
      BY DEF WholeSeason
    <3> DEFINE y == [e EXCEPT !.file = IF e.file \in lib.files THEN e.file ELSE None]
    <3>1. y \in Episodes(att.title)
      BY DEF Episodes
    <3>2. y.season = e.season /\ y.number = e.number
      BY ShapesAssumption DEF Shaped
    <3> HIDE DEF y
    <3>3. CoversSeason
      BY <1>5, <2>4
    <3>4. CASE att.title = None
      BY <3>3, <3>4 DEF CoversSeason
    <3>5. CASE att.title # None
      <4>1. {x.number : x \in {x \in Episodes(att.title) : x.season = att.event.season}} \subseteq att.event.numbers
        BY <3>3, <3>5 DEF CoversSeason
      <4> QED
        BY <3>1, <3>2, <4>1
    <3> QED
      BY <3>4, <3>5
  <2> QED
    BY <2>2, <2>3, <2>4 DEF SeerrScoped
<1>6. CASE att.event.type \in {"Movie", "Series"}
  BY <1>2, <1>3, <1>4, <1>6, ShortLists DEF SeerrCalls, SeerrTitle
<1>7. CASE att.event.type = "Season"
  BY <1>3, <1>5, <1>7, ShortLists DEF SeerrCalls, SeerrSeason
<1>8. CASE att.event.type = "Episode"
  BY <1>3, <1>5, <1>8, ShortLists DEF SeerrCalls, SeerrEpisode
<1> QED
  BY <1>6, <1>7, <1>8

\* A media that is found is one the event means.
LEMMA MediaMeant ==
  ASSUME Shaped, FindMedia, pc' # "built"
  PROVE  \E m \in shape.media :
           /\ m.kind = Kind(att.event) /\ Means(att.event.ids, m) /\ pc' = "tidy" /\ seerr' = seerr
           /\ att' = [att EXCEPT !.todo = SeerrCalls(m),
                !.acts = IF att.event.type = "Episode" /\ ~CoversSeason /\ Asking(m) # {}
                           THEN @ \cup {Skip("retain_request", "partial_request_retained")} ELSE @]
<1> DEFINE match == Resolve(att.event.ids, att.event.origin = "manual", Media(Kind(att.event)),
                            IF Kind(att.event) = "movie" THEN SeerrMovies ELSE SeerrSeries)
<1>1. /\ match.item # None /\ pc' = "tidy" /\ seerr' = seerr
      /\ att' = [att EXCEPT !.todo = SeerrCalls(match.item),
                !.acts = IF att.event.type = "Episode" /\ ~CoversSeason /\ Asking(match.item) # {}
                           THEN @ \cup {Skip("retain_request", "partial_request_retained")} ELSE @]
  BY DEF FindMedia, Goto, world
<1>2. IsFiniteSet(shape.media)
  BY RecordsAssumption DEF Shaped
<1>3. \A m \in Media(Kind(att.event)) : m \in shape.media /\ m.kind = Kind(att.event)
  BY DEF Media
<1>4. IsFiniteSet(Media(Kind(att.event)))
  BY <1>2, <1>3, FS_Subset
<1>5. match.item \in Media(Kind(att.event)) /\ Means(att.event.ids, match.item)
  BY <1>1, <1>4, ResolveMeans
<1> HIDE DEF match
<1> QED
  BY <1>1, <1>3, <1>5

\* Requests go, or lose a season.
LEMMA RequestsShrink ==
  ASSUME Shaped, RequestsKnown(seerr.requests), NEW call
  PROVE  /\ RequestsKnown(SeerrAfter(call).requests)
         /\ \A r \in SeerrAfter(call).requests : \E q \in seerr.requests : q.id = r.id /\ r.seasons \subseteq q.seasons
<1> DEFINE less(r) == [r EXCEPT !.seasons = r.seasons \ {att.event.season}]
           after(r) == IF r.id = call.on THEN less(r) ELSE r
<1>0. \A r \in seerr.requests : /\ DOMAIN r = {"id", "media", "seasons"}
                                /\ \A q \in seerr.requests : q.id = r.id => q = r
  BY DEF RequestsKnown
<1>1. \A r \in seerr.requests : /\ DOMAIN after(r) = {"id", "media", "seasons"} /\ after(r).id = r.id
                                /\ after(r).seasons \subseteq r.seasons
  BY <1>0
<1>2. CASE call.name = "update_request"
  <2>1. SeerrAfter(call).requests = {after(r) : r \in seerr.requests}
    BY <1>2 DEF SeerrAfter, Shaped
  <2> HIDE DEF after
  <2> QED
    BY <1>0, <1>1, <2>1 DEF RequestsKnown
<1>3. CASE call.name # "update_request"
  <2>1. SeerrAfter(call).requests \subseteq seerr.requests
    BY <1>3 DEF SeerrAfter, Shaped
  <2> HIDE DEF after
  <2> QED
    BY <1>0, <2>1 DEF RequestsKnown
<1> QED
  BY <1>2, <1>3

LEMMA BoundedStep ==
  ASSUME Shaped, Planned, Bounded, [Next]_vars
  PROVE  Bounded'
<1>0. shape' = shape
  BY ShapeStays
<1>t. pc \notin {"idle", "done"} => att.event.type \in {"Movie", "Series", "Season", "Episode"}
  BY EventFacts DEF Planned
<1>1. CASE UNCHANGED seerr /\ pc' \notin Titled \cup {"tidy"}
  BY <1>0, <1>1 DEF Bounded, Titled
<1>2. ASSUME NEW event \in shape.events, Begin(event) PROVE Bounded'
  <2>1. pc' \in {"by_id", "catalogue", "unlinked"} /\ seerr' = seerr
    BY <1>2, EventFacts DEF Begin, Goto, world
  <2> QED
    BY <1>1, <2>1 DEF Titled
<1>3. CASE Guard
  BY <1>1, <1>3 DEF Guard, FindById, FindByProvider, FindFails, Refuse, Goto, Titled, world
<1>4. CASE Catalogue
  <2>1. CASE pc' = "history"
    <3>1. Narrow(shape, att') /\ att'.event = att.event /\ att'.todo = att.todo /\ seerr' = seerr
      BY <1>4, <2>1, CatalogueNarrows
    <3> QED
      BY <1>0, <2>1, <3>1 DEF Bounded
  <2>2. CASE pc' # "history"
    BY <1>1, <1>4, <2>2 DEF Catalogue, Goto, Titled, world
  <2> QED
    BY <2>1, <2>2
<1>5. CASE History
  <2>1. /\ pc = "history" /\ pc' \in {"owners", "remove"} /\ seerr' = seerr
        /\ att'.event = att.event /\ att'.title = att.title
    BY <1>5 DEF History, Goto, Shaped, Fields, world
  <2>2. RequestsKnown(seerr'.requests) /\ Narrow(shape', att')
    BY <1>0, <2>1 DEF Bounded, Narrow, Titled
  <2>3. CASE att.event.type = "Movie"
    <3>1. pc' = "owners" /\ att'.hashes = {g.hash : g \in GrabsOf(shape, att.title)}
      BY <1>5, <2>3 DEF History, Goto, Shaped, Fields, Grabs, GrabsOf
    <3> QED
      BY <1>0, <2>1, <2>2, <2>3, <3>1 DEF Bounded
  <2>4. CASE att.event.type # "Movie"
    <3> DEFINE safe == Analyze(att.event, Episodes(att.title), Grabs(att.title))
    <3>1. PICK notes : pc' = "remove" /\ att' = [att EXCEPT !.hashes = safe.hashes, !.files = safe.files,
                                              !.unmonitor = safe.targets, !.acts = @ \cup notes]
      BY <1>5, <2>4 DEF History, Goto
    <3>2. /\ safe.targets = Named(shape, att.event, att.title)
          /\ \A f \in safe.files, e \in shape.episodes :
               e.file = f => e.title = att.title /\ e.id \in Named(shape, att.event, att.title)
          /\ \A h \in safe.hashes :
               Within(GrabbedFor(h, GrabsOf(shape, att.title)), Named(shape, att.event, att.title))
      BY AnalysisConfines
    <3> HIDE DEF safe
    <3>3. att'.hashes = safe.hashes /\ att'.files = safe.files /\ att'.unmonitor = safe.targets
      BY <3>1 DEF Shaped, Fields
    <3>4. Confined(shape', att') /\ Owned(shape', att')
      BY <1>0, <2>1, <2>4, <3>2, <3>3 DEF Confined, Owned
    <3>5. att'.hashes \subseteq {g.hash : g \in GrabsOf(shape, att.title)}
      <4>1. safe.hashes \subseteq {g.hash : g \in Grabs(att.title)}
        BY DEF safe, Analyze
      <4> QED
        BY <3>3, <4>1 DEF Grabs, GrabsOf
    <3> QED
      BY <1>0, <2>1, <2>2, <3>1, <3>4, <3>5 DEF Bounded
  <2> QED
    BY <2>3, <2>4
<1>6. CASE Owners
  <2>1. CASE pc' = "remove"
    <3>1. /\ pc = "owners" /\ att' = att /\ seerr' = seerr /\ att.event.type = "Movie"
          /\ \A h \in att.hashes : OtherMovies(h) = {}
      BY <1>6, <2>1 DEF Owners, Goto, world, Bounded
    <3>2. \A h \in att.hashes, g \in shape.grabs : g.hash = h /\ g.title \in Films => g.title = att.title
      BY <3>1 DEF OtherMovies
    <3>3. Owned(shape', att')
      BY <1>0, <3>1, <3>2 DEF Owned, Films, FilmsOf
    <3> QED
      BY <1>0, <2>1, <3>1, <3>3 DEF Bounded, Titled
  <2>2. CASE pc' # "remove"
    BY <1>1, <1>6, <2>2 DEF Owners, Goto, Titled, world
  <2> QED
    BY <2>1, <2>2
<1>7. CASE NothingToRemove \/ Remove \/ RemoveRaises \/ AccountsEnd
  <2>1. /\ \/ pc = "remove" /\ pc' \in {"ready", "blocked", "account"}
           \/ pc = "account" /\ pc' \in {"ready", "blocked"}
        /\ \/ att' = att
           \/ \E acts : Note(acts)
           \/ \E results : att' = [att EXCEPT !.results = results]
        /\ seerr' = seerr
    BY <1>7 DEF NothingToRemove, Remove, RemoveRaises, AccountsEnd, Goto, world
  <2>2. /\ att'.title = att.title /\ att'.event = att.event /\ att'.hashes = att.hashes /\ att'.files = att.files
        /\ att'.unmonitor = att.unmonitor /\ att'.todo = att.todo
    BY <2>1 DEF Note, Shaped, Fields
  <2> QED
    BY <1>0, <2>1, <2>2, BoundedKept DEF Titled
<1>8. ASSUME NEW h \in att.hashes, Account(h) PROVE Bounded'
  <2>1. pc' = pc /\ seerr' = seerr /\ \E act : Accounted(h, act)
    BY <1>8 DEF Account
  <2>2. /\ att'.title = att.title /\ att'.event = att.event /\ att'.hashes = att.hashes /\ att'.files = att.files
        /\ att'.unmonitor = att.unmonitor /\ att'.todo = att.todo
    BY <2>1 DEF Accounted, Shaped, Fields
  <2> QED
    BY <1>0, <2>1, <2>2, BoundedKept
<1>9. CASE EvidenceFails \/ Blocked \/ CallsEnd \/ MediaFails
  BY <1>1, <1>9 DEF EvidenceFails, Blocked, CallsEnd, MediaFails, Goto, Titled, world
<1>10. CASE Ready
  <2>1. /\ pc = "ready" /\ pc' = "arr" /\ att'.todo = ArrCalls /\ att'.event = att.event /\ att'.title = att.title
        /\ att'.files = att.files /\ att'.unmonitor = att.unmonitor /\ seerr' = seerr
    BY <1>10 DEF Ready, Goto, Shaped, Fields, world
  <2>2. \A i \in DOMAIN ArrCalls : \A c \in ArrCalls[i] : c.name = "unmonitor_episodes" => c.on = att.unmonitor
    <3>1. CASE att.event.type \in {"Movie", "Series"}
      BY <3>1, ShortLists DEF ArrCalls, MovieCalls, SeriesCalls, Call
    <3>2. CASE att.event.type = "Episode"
      BY <3>2, ShortLists DEF ArrCalls, EpisodeCalls, Call
    <3>3. CASE att.event.type = "Season"
      <4>1. ArrCalls = SeasonCalls
        BY <3>3 DEF ArrCalls
      <4>2. /\ DOMAIN SeasonCalls = {1, 2, 3}
            /\ SeasonCalls[1] = {Call("unmonitor_episodes", x) : x \in {att.unmonitor} \ {{}}}
            /\ SeasonCalls[2] = {Call("delete_episode_file", f) : f \in att.files}
            /\ SeasonCalls[3] = {Call("unmonitor_season", <<att.title, att.event.season>>)}
        BY ThreeStages DEF SeasonCalls, EpisodeCalls
      <4> QED
        BY <4>1, <4>2 DEF Call
    <3> QED
      BY <1>t, <2>1, <3>1, <3>2, <3>3
  <2> QED
    BY <1>0, <2>1, <2>2 DEF Bounded, Narrow, Confined, Titled
<1>11. CASE FindMedia
  <2>1. CASE pc' = "built"
    BY <1>1, <1>11, <2>1 DEF FindMedia, Titled, world
  <2>2. CASE pc' # "built"
    <3>1. PICK m \in shape.media :
           /\ Means(att.event.ids, m) /\ pc' = "tidy" /\ seerr' = seerr
           /\ att' = [att EXCEPT !.todo = SeerrCalls(m),
                !.acts = IF att.event.type = "Episode" /\ ~CoversSeason /\ Asking(m) # {}
                           THEN @ \cup {Skip("retain_request", "partial_request_retained")} ELSE @]
      BY <1>11, <2>2, MediaMeant
    <3>2. att'.todo = SeerrCalls(m) /\ att'.event = att.event /\ att'.title = att.title /\ pc = "media"
      BY <1>11, <3>1 DEF FindMedia, Shaped, Fields
    <3>3. \A i \in DOMAIN SeerrCalls(m) : \A c \in SeerrCalls(m)[i] : SeerrScoped(c, shape, seerr.requests, att)
      BY <1>t, <3>1, <3>2, SeerrCallsScoped DEF Bounded
    <3> QED
      BY <1>0, <3>1, <3>2, <3>3 DEF Bounded, Titled, SeerrScoped, WholeSeason
  <2> QED
    BY <2>1, <2>2
<1>12. CASE StageEnds
  <2>1. /\ pc \in {"arr", "tidy"} /\ pc' = pc /\ att.todo # <<>> /\ att'.todo = Tail(att.todo) /\ seerr' = seerr
        /\ att'.event = att.event /\ att'.title = att.title /\ att'.files = att.files /\ att'.unmonitor = att.unmonitor
    BY <1>12 DEF StageEnds, Shaped, Fields, world
  <2>2. \A i \in DOMAIN Tail(att.todo) : i + 1 \in DOMAIN att.todo /\ Tail(att.todo)[i] = att.todo[i + 1]
    BY <2>1, ListTail DEF Planned
  <2> QED
    BY <1>0, <2>1, <2>2 DEF Bounded, Titled, Narrow, Confined, SeerrScoped, WholeSeason
<1>13. CASE Mutations
  <2>1. PICK call \in Head(att.todo) : Mutate(call)
    BY <1>13 DEF Mutations
  <2>2. /\ pc \in {"arr", "tidy"} /\ pc' = pc /\ att.todo # <<>>
        /\ att'.event = att.event /\ att'.title = att.title /\ att'.files = att.files /\ att'.unmonitor = att.unmonitor
        /\ att'.todo = [att.todo EXCEPT ![1] = @ \ {call}]
    BY <1>13, <2>1, MutateFrame DEF Mutations
  <2>3. /\ DOMAIN att'.todo = DOMAIN att.todo
        /\ \A i \in DOMAIN att.todo : att'.todo[i] \subseteq att.todo[i]
    BY <2>2, ListHead, ListExcept DEF Planned
  <2>4. seerr' = seerr \/ seerr' = SeerrAfter(call)
    BY <2>1 DEF Mutate, Effect
  <2>5. /\ RequestsKnown(seerr'.requests)
        /\ \A r \in seerr'.requests : \E q \in seerr.requests : q.id = r.id /\ r.seasons \subseteq q.seasons
    BY <2>4, RequestsShrink DEF Bounded
  <2>6. \A c : SeerrScoped(c, shape, seerr.requests, att) => SeerrScoped(c, shape', seerr'.requests, att')
    BY <1>0, <2>2, <2>5 DEF SeerrScoped, WholeSeason
  <2> QED
    BY <1>0, <2>2, <2>3, <2>5, <2>6 DEF Bounded, Titled, Narrow, Confined
<1>14. CASE Ending
  <2>1. pc' \in {"catalogue", "done", "alone"} /\ seerr' = seerr
    BY <1>14 DEF Ending, PreviewEnds, CascadeEnds, DeleteSource, DecideSource, Unlinked, UnlinkedFails,
         DeleteAlone, Goto, world
  <2> QED
    BY <1>1, <2>1 DEF Titled
<1>15. CASE (\E h \in torrents : TorrentVanishes(h)) \/ ItemMoves \/ SwitchMode \/ OldClientsClose \/ UNCHANGED vars
  <2>1. pc' = pc /\ seerr' = seerr
    BY <1>15 DEF TorrentVanishes, ItemMoves, SwitchMode, OldClientsClose, vars, world
  <2>2. /\ att'.event = att.event /\ att'.title = att.title /\ att'.hashes = att.hashes /\ att'.files = att.files
        /\ att'.unmonitor = att.unmonitor /\ att'.todo = att.todo
    BY <1>15 DEF TorrentVanishes, ItemMoves, SwitchMode, OldClientsClose, vars, Shaped, Fields
  <2> QED
    BY <1>0, <2>1, <2>2, BoundedKept
<1>16. CASE Crash
  BY <1>1, <1>16 DEF Crash, Goto, Titled, world
<1> QED
  BY <1>2, <1>3, <1>4, <1>5, <1>6, <1>7, <1>8, <1>9, <1>10, <1>11, <1>12, <1>13, <1>14, <1>15, <1>16
     DEF Next, Evidence, Cleanup, Dependent

LEMMA NamedIsInScope ==
  ASSUME NEW e, e.title = att.title, e.id \in Named(shape, att.event, att.title)
  PROVE  InScope(e)
  BY DEF Named, InScope, Scope, Targets

\* What a call takes out of Arr is in the scope.
LEMMA ArrKeepsScope ==
  ASSUME Shaped, Planned, Evident, Together, Bounded, Mutations
  PROVE  /\ \A t \in shape.titles : t.id \in lib.titles \ lib'.titles => Means(att.event.ids, t)
         /\ \A e \in shape.episodes : e.file \in lib.files \ lib'.files => InScope(e)
         /\ \A e \in shape.episodes : e.id \in lib.monitored \ lib'.monitored => InScope(e)
<1>1. PICK call \in Head(att.todo) : Mutate(call)
  BY DEF Mutations
<1>2. pc \in {"arr", "tidy"} /\ att.todo # <<>>
  BY DEF Mutations
<1>3. lib' = lib \/ lib' = LibAfter(call)
  BY <1>1 DEF Mutate, Effect
<1>4. call.name \in {"delete_movie", "delete_series", "unmonitor_episodes", "delete_episode_file", "unmonitor_season"} =>
        pc = "arr" /\ ArrCall(call, att.event, att.title, att.files)
  BY <1>1, <1>2, CallChanges DEF SeerrCall
<1>5. call.name = "unmonitor_episodes" => call.on = att.unmonitor
  BY <1>1, <1>2, <1>4, ListHead DEF Bounded, Planned
<1>6. ASSUME NEW t \in shape.titles, t.id \in lib.titles \ lib'.titles
      PROVE  Means(att.event.ids, t)
  <2>1. call.name \in {"delete_movie", "delete_series"} /\ t.id = call.on
    BY <1>3, <1>6 DEF LibAfter, Shaped
  <2>2. pc = "arr" /\ t.id = att.title
    BY <1>4, <2>1 DEF ArrCall
  <2> QED
    BY <2>2 DEF Bounded, Narrow, Titled
<1>7. ASSUME NEW e \in shape.episodes, e.file \in lib.files \ lib'.files
      PROVE  InScope(e)
  <2>1. pc = "arr" /\ e.file # None
    BY <1>7, FilesGone DEF Together
  <2>2. CASE att.event.type = "Series"
    <3>1. call.name = "delete_series" /\ call.on = att.title
      BY <1>3, <1>4, <1>7, <2>2 DEF LibAfter, Shaped, ArrCall
    <3>2. lib'.files = lib.files \ {x.file : x \in {y \in shape.episodes : y.title = att.title}}
      <4>1. lib' = [lib EXCEPT !.titles = @ \ {call.on},
                               !.files = @ \ {x.file : x \in {y \in shape.episodes : y.title = call.on}}]
        BY <1>3, <1>7, <3>1 DEF LibAfter
      <4> QED
        BY <3>1, <4>1 DEF Shaped
    <3>3. PICK x \in shape.episodes : x.title = att.title /\ x.file = e.file
      BY <1>7, <3>2
    <3>4. e.title = att.title
      BY <2>1, <3>3, ShapesAssumption DEF Shaped
    <3> QED
      BY <2>2, <3>4 DEF InScope, Scope, Targets
  <2>3. CASE att.event.type # "Series"
    <3>1. att.event.type \in {"Season", "Episode"} /\ e.file \in att.files
      BY <1>7, <2>3, FilesGone
    <3> QED
      BY <2>1, <3>1, NamedIsInScope DEF Bounded, Confined, Titled
  <2> QED
    BY <2>2, <2>3
<1>8. ASSUME NEW e \in shape.episodes, e.id \in lib.monitored \ lib'.monitored
      PROVE  InScope(e)
  <2>1. call.name = "unmonitor_episodes" /\ e.id \in call.on
    BY <1>3, <1>8 DEF LibAfter, Shaped
  <2>2. pc = "arr" /\ att.event.type \in {"Season", "Episode"} /\ e.id \in att.unmonitor
    BY <1>4, <1>5, <2>1 DEF ArrCall
  <2>3. e.id \in Named(shape, att.event, att.title)
    BY <2>2 DEF Bounded, Confined, Titled
  <2>4. PICK x \in shape.episodes : x.title = att.title /\ x.id = e.id
    BY <2>3 DEF Named, Targets
  <2>5. x = e
    BY <2>4, ShapesAssumption DEF Shaped
  <2> QED
    BY <2>3, <2>4, <2>5, NamedIsInScope
<1> QED
  BY <1>6, <1>7, <1>8

\* So is what a call takes out of Seerr.
LEMMA SeerrKeepsScope ==
  ASSUME Shaped, Planned, Bounded, Mutations
  PROVE  /\ \A m \in shape.media : m.id \in seerr.media \ seerr'.media => Means(att.event.ids, m)
         /\ att.event.type \in {"Season", "Episode"} =>
              \A r \in seerr.requests \ seerr'.requests :
                /\ \A x \in r.seasons \ {att.event.season} : \E q \in seerr'.requests : q.id = r.id /\ x \in q.seasons
                /\ att.event.type = "Episode" => WholeSeason(shape, att)
<1>1. PICK call \in Head(att.todo) : Mutate(call)
  BY DEF Mutations
<1>2. pc \in {"arr", "tidy"} /\ att.todo # <<>>
  BY DEF Mutations
<1>3. seerr' = seerr \/ seerr' = SeerrAfter(call)
  BY <1>1 DEF Mutate, Effect
<1>4. SeerrCall(call) => pc = "tidy" /\ SeerrScoped(call, shape, seerr.requests, att)
  <2>1. pc = "arr" => ~SeerrCall(call)
    BY <1>1, <1>2, CallChanges DEF ArrCall, SeerrCall
  <2>2. pc = "tidy" => SeerrScoped(call, shape, seerr.requests, att)
    BY <1>1, <1>2, ListHead DEF Bounded, Planned
  <2> QED
    BY <1>2, <2>1, <2>2
<1>5. ASSUME NEW m \in shape.media, m.id \in seerr.media \ seerr'.media
      PROVE  Means(att.event.ids, m)
  <2>1. call.name = "delete_media" /\ m.id = call.on
    BY <1>3, <1>5 DEF SeerrAfter, Shaped
  <2> QED
    BY <1>4, <2>1 DEF SeerrCall, SeerrScoped
<1>6. ASSUME att.event.type \in {"Season", "Episode"}, NEW r \in seerr.requests \ seerr'.requests
      PROVE  /\ \A x \in r.seasons \ {att.event.season} : \E q \in seerr'.requests : q.id = r.id /\ x \in q.seasons
             /\ att.event.type = "Episode" => WholeSeason(shape, att)
  <2>1. call.name \in {"update_request", "delete_request"} /\ r.id = call.on /\ seerr' = SeerrAfter(call)
    BY <1>3, <1>6 DEF SeerrAfter, Shaped
  <2>2. att.event.type = "Episode" => WholeSeason(shape, att)
    BY <1>4, <2>1 DEF SeerrCall, SeerrScoped
  <2>3. CASE call.name = "delete_request"
    <3>1. r.seasons \subseteq {att.event.season}
      BY <1>4, <1>6, <2>1, <2>3 DEF SeerrCall, SeerrScoped
    <3> QED
      BY <2>2, <3>1
  <2>4. CASE call.name = "update_request"
    <3> DEFINE q == [r EXCEPT !.seasons = r.seasons \ {att.event.season}]
    <3>1. q \in seerr'.requests
      BY <2>1, <2>4 DEF SeerrAfter, Shaped
    <3>2. q.id = r.id /\ q.seasons = r.seasons \ {att.event.season}
      <4>1. DOMAIN r = {"id", "media", "seasons"}
        BY <1>6 DEF Bounded, RequestsKnown
      <4> QED
        BY <4>1
    <3> HIDE DEF q
    <3> QED
      BY <2>2, <3>1, <3>2
  <2> QED
    BY <2>1, <2>3, <2>4
<1> QED
  BY <1>5, <1>6

\* A torrent is removed only with all that is on record for it.
LEMMA RemoveKeepsScope ==
  ASSUME Shaped, Evident, Bounded, Remove,
         NEW h \in torrents \ torrents'
  PROVE  /\ Recorded(h) # {}
         /\ \A g \in Recorded(h) :
              /\ g.title = att.title
              /\ g.episode = None \/ \E e \in shape.episodes : e.id = g.episode /\ InScope(e)
<1>1. h \in att.hashes /\ Owned(shape, att)
  BY DEF Remove, Bounded
<1>2. PICK t \in shape.titles : t.id = att.title /\ t.kind = Kind(att.event)
  BY DEF Remove, Evident, Titled
<1>3. Recorded(h) # {}
  <2>1. PICK x \in GrabsOf(shape, att.title) : x.hash = h
    BY <1>1 DEF Remove, Bounded
  <2>2. x \in shape.grabs /\ x.title = att.title
    BY <2>1 DEF GrabsOf
  <2>3. att.event.type = "Movie" => att.title \in Films
    BY <1>2 DEF Films, Kind
  <2>4. x \in Recorded(h)
    BY <2>1, <2>2, <2>3 DEF Recorded
  <2> QED
    BY <2>4
<1>4. ASSUME NEW g \in Recorded(h), g.episode # None
      PROVE  \E e \in shape.episodes : e.id = g.episode /\ e.title = g.title
  <2>1. g \in shape.grabs
    BY DEF Recorded
  <2>2. \E e \in shape.episodes : e.id = g.episode
    BY <1>4, <2>1, RecordsAssumption DEF Shaped
  <2> QED
    BY <2>1, <2>2, ShapesAssumption DEF Shaped
<1>5. ASSUME att.event.type = "Movie", NEW g \in Recorded(h)
      PROVE  g.title = att.title /\ g.episode = None
  <2>1. g.title = att.title
    BY <1>1, <1>5 DEF Owned, Recorded, Films, FilmsOf
  <2>2. g.episode = None
    <3> SUFFICES ASSUME g.episode # None PROVE FALSE
      OBVIOUS
    <3>1. PICK e \in shape.episodes : e.title = att.title
      BY <1>4, <2>1
    <3>2. t.kind = "movie"
      BY <1>2, <1>5 DEF Kind
    <3> QED
      BY <1>2, <3>1, <3>2, ShapesAssumption DEF Shaped
  <2> QED
    BY <2>1, <2>2
<1>6. ASSUME att.event.type # "Movie", NEW g \in Recorded(h)
      PROVE  /\ g.title = att.title
             /\ g.episode = None \/ \E e \in shape.episodes : e.id = g.episode /\ InScope(e)
  <2> DEFINE G == GrabsOf(shape, att.title)
             T == Named(shape, att.event, att.title)
  <2>1. Within(GrabbedFor(h, G), T)
    BY <1>1, <1>6 DEF Owned
  <2>2. g \in shape.grabs /\ g.hash = h /\ g.title = att.title
    BY <1>6 DEF Recorded
  <2>3. CASE g.episode # None
    <3>1. g.episode \in GrabbedFor(h, G)
      BY <2>2, <2>3 DEF GrabbedFor, GrabsOf
    <3>2. g.episode \in T
      BY <2>1, <3>1 DEF Within
    <3>3. PICK e \in shape.episodes : e.id = g.episode /\ e.title = att.title
      BY <1>4, <2>2, <2>3
    <3>4. InScope(e)
      BY <3>2, <3>3, NamedIsInScope
    <3> QED
      BY <2>2, <3>3, <3>4
  <2> QED
    BY <2>2, <2>3
<1> QED
  BY <1>3, <1>5, <1>6

\* The strategies, the resolver and the safety analysis together keep what a
\* deletion does within what its event names, in Arr and in Seerr, and of the
\* torrents take only those that were grabbed for nothing else that is on
\* record with the films or with the one series, whatever fails or changes on
\* the way.
THEOREM ScopeIsKept == Spec => ScopeKept
<1> DEFINE P ==
      /\ \A t \in shape.titles : t.id \in lib.titles \ lib'.titles => Means(att.event.ids, t)
      /\ \A m \in shape.media : m.id \in seerr.media \ seerr'.media => Means(att.event.ids, m)
      /\ \A e \in shape.episodes : e.file \in lib.files \ lib'.files => InScope(e)
      /\ \A e \in shape.episodes : e.id \in lib.monitored \ lib'.monitored => InScope(e)
      /\ pc # pc' => \A h \in torrents \ torrents' :
           /\ Recorded(h) # {}
           /\ \A g \in Recorded(h) :
                /\ g.title = att.title
                /\ g.episode = None \/ \E e \in shape.episodes : e.id = g.episode /\ InScope(e)
      /\ att.event.type \in {"Season", "Episode"} =>
           \A r \in seerr.requests \ seerr'.requests :
             /\ \A x \in r.seasons \ {att.event.season} : \E q \in seerr'.requests : q.id = r.id /\ x \in q.seasons
             /\ att.event.type = "Episode" =>
                  \A e \in Episodes(att.title) : e.season = att.event.season => e.number \in att.event.numbers
<1>1. ASSUME Shaped, Planned, Evident, Together, Bounded, [Next]_vars
      PROVE  P
  <2>1. CASE UNCHANGED <<lib, seerr>> /\ (pc # pc' => UNCHANGED torrents)
    BY <2>1
  <2>2. CASE Remove
    <3>1. UNCHANGED <<lib, seerr>>
      BY <2>2 DEF Remove
    <3>2. \A h \in torrents \ torrents' :
            /\ Recorded(h) # {}
            /\ \A g \in Recorded(h) :
                 /\ g.title = att.title
                 /\ g.episode = None \/ \E e \in shape.episodes : e.id = g.episode /\ InScope(e)
      BY <1>1, <2>2, RemoveKeepsScope
    <3> QED
      BY <3>1, <3>2
  <2>3. CASE Mutations
    <3>1. pc' = pc
      BY <2>3 DEF Mutations
    <3>2. WholeSeason(shape, att) =>
            \A e \in Episodes(att.title) : e.season = att.event.season => e.number \in att.event.numbers
      <4> SUFFICES ASSUME WholeSeason(shape, att), NEW y \in Episodes(att.title), y.season = att.event.season
                   PROVE  y.number \in att.event.numbers
        OBVIOUS
      <4>1. PICK e \in shape.episodes : /\ e.title = att.title /\ e.listed
                                        /\ y = [e EXCEPT !.file = IF e.file \in lib.files THEN e.file ELSE None]
        BY DEF Episodes
      <4>2. y.season = e.season /\ y.number = e.number
        BY <4>1, ShapesAssumption DEF Shaped
      <4> QED
        BY <4>1, <4>2 DEF WholeSeason
    <3>3. /\ \A t \in shape.titles : t.id \in lib.titles \ lib'.titles => Means(att.event.ids, t)
          /\ \A e \in shape.episodes : e.file \in lib.files \ lib'.files => InScope(e)
          /\ \A e \in shape.episodes : e.id \in lib.monitored \ lib'.monitored => InScope(e)
      BY <1>1, <2>3, ArrKeepsScope
    <3>4. /\ \A m \in shape.media : m.id \in seerr.media \ seerr'.media => Means(att.event.ids, m)
          /\ att.event.type \in {"Season", "Episode"} =>
               \A r \in seerr.requests \ seerr'.requests :
                 /\ \A x \in r.seasons \ {att.event.season} : \E q \in seerr'.requests : q.id = r.id /\ x \in q.seasons
                 /\ att.event.type = "Episode" => WholeSeason(shape, att)
      BY <1>1, <2>3, SeerrKeepsScope
    <3> QED
      BY <3>1, <3>2, <3>3, <3>4
  <2> QED
    BY <1>1, <2>1, <2>2, <2>3, OtherSteps DEF Account, TorrentVanishes
<1> HIDE DEF P
<1>2. Spec => [](Shaped /\ Planned /\ Evident /\ Together /\ Bounded)
  BY ShapedInit, PlannedInit, EvidentInit, TogetherInit, BoundedInit, ShapedStep, PlannedStep, EvidentStep,
     TogetherStep, BoundedStep, PTL DEF Spec
<1>3. Spec => [][P]_vars
  BY <1>1, <1>2, PTL DEF Spec
<1> QED
  BY <1>3 DEF ScopeKept, P

-----------------------------------------------------------------------------
(* The source item leaves last.                                            *)

\* Seerr holds no two media of a kind that an event means.  A media that lacks
\* the identifier by which another one was found would otherwise stay.
OwnMedia ==
  \A s \in Shapes : \A event \in s.events, m, x \in s.media :
    m.kind = x.kind /\ Means(event.ids, m) /\ Means(event.ids, x) => m = x

\* A media is deleted, or still to be.
Going(m) == m.id \in seerr.media => pc = "tidy" /\ \E i \in DOMAIN att.todo : Call("delete_media", m.id) \in att.todo[i]

\* Without a failure, the media of a whole title that was found goes.
Tidied ==
  pc \in {"tidy", "built"} /\ ~att.dry /\ Fine(att.acts) /\ att.event.type \in {"Movie", "Series"} =>
    \E m \in shape.media : m.kind = Kind(att.event) /\ Means(att.event.ids, m) /\ Going(m)

LEMMA TidiedInit == Init => Tidied
  BY DEF Init, Tidied

\* Media only go.
LEMMA MediaShrink ==
  ASSUME [Next]_vars
  PROVE  seerr'.media \subseteq seerr.media
<1>1. CASE Mutations
  <2>1. seerr' = seerr \/ \E call : seerr' = SeerrAfter(call)
    BY <1>1 DEF Mutations, Mutate, Effect
  <2>2. \A call : SeerrAfter(call).media \subseteq seerr.media
    BY DEF SeerrAfter
  <2> QED
    BY <2>1, <2>2
<1> QED
  BY <1>1, OtherSteps DEF Remove, Account, TorrentVanishes

\* A step of tidying up that keeps what there is to delete.
LEMMA TidiedKept ==
  ASSUME Tidied, [Next]_vars, pc \in {"tidy", "built"},
         att'.event = att.event, att'.dry = att.dry, att.acts \subseteq att'.acts,
         ~att.dry /\ Fine(att'.acts) => \A m \in shape.media : Going(m) => Going(m)'
  PROVE  Tidied'
<1>1. shape' = shape
  BY ShapeStays
<1> SUFFICES ASSUME pc' \in {"tidy", "built"}, ~att.dry, Fine(att'.acts), att.event.type \in {"Movie", "Series"}
             PROVE  \E m \in shape.media : m.kind = Kind(att.event) /\ Means(att.event.ids, m) /\ Going(m)'
  BY <1>1 DEF Tidied, Kind
<1>2. Fine(att.acts)
  BY FineBefore
<1>3. PICK m \in shape.media : m.kind = Kind(att.event) /\ Means(att.event.ids, m) /\ Going(m)
  BY <1>2 DEF Tidied
<1> QED
  BY <1>3

\* A call to delete a media that did not fail has deleted it.
LEMMA MediaGone ==
  ASSUME Shaped, NEW id, Mutate(Call("delete_media", id)), ~att.dry, Fine(att'.acts)
  PROVE  id \notin seerr'.media
<1> DEFINE call == Call("delete_media", id)
<1>0. call.name = "delete_media" /\ call.on = id
  BY DEF Call
<1> HIDE DEF call
<1>1. CASE ~Present(call) /\ UNCHANGED seerr
  BY <1>0, <1>1 DEF Present
<1>2. CASE seerr' = SeerrAfter(call)
  BY <1>0, <1>2 DEF SeerrAfter, Shaped
<1>3. CASE \E reason, touched : Called(call, Failure(call.name, reason), touched)
  <2>1. PICK reason, touched : Called(call, Failure(call.name, reason), touched)
    BY <1>3
  <2>2. att'.acts = att.acts \cup {Failure(call.name, reason)}
    BY <2>1, CalledFrame
  <2> QED
    BY <2>2, NotFine
<1> QED
  BY <1>1, <1>2, <1>3 DEF Mutate, Effect, call

LEMMA TidiedStep ==
  ASSUME Shaped, Planned, Tidied, [Next]_vars
  PROVE  Tidied'
<1>0. shape' = shape /\ seerr'.media \subseteq seerr.media
  BY ShapeStays, MediaShrink
<1>1. ASSUME NEW event \in shape.events, Begin(event) PROVE Tidied'
  <2>1. pc' \in {"by_id", "catalogue", "unlinked"}
    BY <1>1, EventFacts DEF Begin, Goto
  <2> QED
    BY <2>1 DEF Tidied
<1>2. CASE Guard
  BY <1>2 DEF Guard, FindById, FindByProvider, FindFails, Refuse, Goto, Tidied
<1>3. CASE Evidence
  <2>1. CASE Catalogue
    <3>1. pc' \in {"history", "media", "built"}
      BY <2>1 DEF Catalogue, Goto
    <3> QED
      BY <2>1, <3>1, StoppedShort DEF Tidied
  <2>2. CASE EvidenceFails
    BY <2>2, StoppedShort DEF Tidied
  <2>3. CASE History \/ Owners
    BY <2>3 DEF History, Owners, Goto, Tidied
  <2> QED
    BY <1>3, <2>1, <2>2, <2>3 DEF Evidence
<1>4. CASE NothingToRemove \/ Remove \/ RemoveRaises \/ AccountsEnd
  BY <1>4 DEF NothingToRemove, Remove, RemoveRaises, AccountsEnd, Goto, Tidied
<1>5. ASSUME NEW h \in att.hashes, Account(h) PROVE Tidied'
  BY <1>5 DEF Account, Tidied
<1>6. CASE Blocked
  BY <1>6, StoppedShort DEF Tidied
<1>7. CASE Ready
  BY <1>7 DEF Ready, Goto, Tidied
<1>8. CASE FindMedia
  <2>1. CASE pc' = "built"
    <3> DEFINE match == Resolve(att.event.ids, att.event.origin = "manual", Media(Kind(att.event)),
                                IF Kind(att.event) = "movie" THEN SeerrMovies ELSE SeerrSeries)
    <3>1. match.item = None /\ Note({Skip("resolve_media", match.reason)})
      BY <1>8, <2>1 DEF FindMedia, Goto
    <3>2. match.reason \notin Kept
      BY <3>1, ResolveReasons
    <3> HIDE DEF match
    <3>3. att'.acts = att.acts \cup {Skip("resolve_media", match.reason)}
      BY <3>1 DEF Note, Shaped, Fields
    <3>4. ~Fine(att'.acts)
      BY <3>2, <3>3, NotFine
    <3> QED
      BY <3>4 DEF Tidied
  <2>2. CASE pc' # "built"
    <3>1. PICK m \in shape.media :
           /\ m.kind = Kind(att.event) /\ Means(att.event.ids, m) /\ pc' = "tidy" /\ seerr' = seerr
           /\ att' = [att EXCEPT !.todo = SeerrCalls(m),
                !.acts = IF att.event.type = "Episode" /\ ~CoversSeason /\ Asking(m) # {}
                           THEN @ \cup {Skip("retain_request", "partial_request_retained")} ELSE @]
      BY <1>8, <2>2, MediaMeant
    <3>2. att'.todo = SeerrCalls(m) /\ att'.event = att.event
      BY <3>1 DEF Shaped, Fields
    <3>3. ASSUME att.event.type \in {"Movie", "Series"}
          PROVE  \E i \in DOMAIN SeerrCalls(m) : Call("delete_media", m.id) \in SeerrCalls(m)[i]
      <4>1. SeerrCalls(m) = SeerrTitle(m)
        BY <3>3 DEF SeerrCalls
      <4>2. 3 \in DOMAIN SeerrTitle(m) /\ SeerrTitle(m)[3] = {Call("delete_media", m.id)}
        BY ShortLists DEF SeerrTitle
      <4> QED
        BY <4>1, <4>2
    <3> QED
      BY <1>0, <3>1, <3>2, <3>3 DEF Tidied, Going, Kind
  <2> QED
    BY <2>1, <2>2
<1>9. CASE MediaFails
  <2>1. PICK name, reason : Note({Failure(name, reason)})
    BY <1>9 DEF MediaFails
  <2>2. att'.acts = att.acts \cup {Failure(name, reason)}
    BY <2>1 DEF Note, Shaped, Fields
  <2> QED
    BY <2>2, NotFine DEF Tidied
<1>10. CASE StageEnds \/ CallsEnd
  <2>1. CASE pc = "arr"
    BY <1>10, <2>1 DEF StageEnds, CallsEnd, Goto, Tidied
  <2>2. CASE pc # "arr"
    <3>1. pc = "tidy"
      BY <1>10, <2>2 DEF StageEnds, CallsEnd
    <3>2. att'.event = att.event /\ att'.acts = att.acts
      BY <1>10 DEF StageEnds, CallsEnd, Shaped, Fields
    <3>3. att'.dry = att.dry
      BY <1>10 DEF StageEnds, CallsEnd, Shaped, Fields
    <3>4. ASSUME NEW m, Going(m) PROVE Going(m)'
      <4>1. CASE m.id \notin seerr.media
        BY <1>0, <4>1 DEF Going
      <4>2. CASE m.id \in seerr.media
        <5>1. PICK i \in DOMAIN att.todo : Call("delete_media", m.id) \in att.todo[i]
          BY <3>4, <4>2 DEF Going
        <5>2. StageEnds
          BY <1>10, <5>1, ShortLists DEF CallsEnd
        <5>3. /\ pc' = "tidy" /\ att'.todo = Tail(att.todo) /\ att.todo # <<>> /\ Head(att.todo) = {}
          BY <3>1, <5>2 DEF StageEnds, Shaped, Fields
        <5>4. i # 1
          BY <5>1, <5>3, ListHead DEF Planned
        <5>5. i - 1 \in DOMAIN Tail(att.todo) /\ Tail(att.todo)[i - 1] = att.todo[i]
          BY <5>3, <5>4, ListTail DEF Planned
        <5> QED
          BY <5>1, <5>3, <5>5 DEF Going
      <4> QED
        BY <4>1, <4>2
    <3> QED
      BY <3>1, <3>2, <3>3, <3>4, TidiedKept
  <2> QED
    BY <2>1, <2>2
<1>11. CASE Mutations
  <2>1. /\ pc \in {"arr", "tidy"} /\ pc' = pc /\ att.todo # <<>>
    BY <1>11 DEF Mutations
  <2>2. PICK call \in Head(att.todo) : Mutate(call)
    BY <1>11 DEF Mutations
  <2>3. att'.event = att.event /\ att'.dry = att.dry /\ att'.todo = [att.todo EXCEPT ![1] = @ \ {call}]
    BY <2>2, MutateFrame
  <2>4. PICK act, touched : Called(call, act, touched)
    BY <2>2 DEF Mutate
  <2>5. att.acts \subseteq att'.acts
    BY <2>4, CalledFrame
  <2>6. ASSUME ~att.dry, Fine(att'.acts), pc = "tidy", NEW m, Going(m) PROVE Going(m)'
    <3>1. CASE m.id \notin seerr.media
      BY <1>0, <3>1 DEF Going
    <3>2. CASE m.id \in seerr.media /\ call = Call("delete_media", m.id)
      BY <2>2, <2>6, <3>2, MediaGone DEF Going
    <3>3. CASE m.id \in seerr.media /\ call # Call("delete_media", m.id)
      <4>1. PICK i \in DOMAIN att.todo : Call("delete_media", m.id) \in att.todo[i]
        BY <2>6, <3>3 DEF Going
      <4>2. i \in DOMAIN att'.todo /\ Call("delete_media", m.id) \in att'.todo[i]
        BY <2>1, <2>3, <3>3, <4>1, ListExcept DEF Planned
      <4> QED
        BY <2>1, <2>6, <4>2 DEF Going
    <3> QED
      BY <3>1, <3>2, <3>3
  <2>7. CASE pc = "tidy"
    BY <2>3, <2>5, <2>6, <2>7, TidiedKept
  <2>8. CASE pc = "arr"
    BY <2>1, <2>8 DEF Tidied
  <2> QED
    BY <2>1, <2>7, <2>8
<1>12. CASE Ending
  <2>1. pc' \in {"catalogue", "done", "alone"}
    BY <1>12 DEF Ending, PreviewEnds, CascadeEnds, DeleteSource, DecideSource, Unlinked, UnlinkedFails,
         DeleteAlone, Goto
  <2> QED
    BY <2>1 DEF Tidied
<1>13. CASE (\E h \in torrents : TorrentVanishes(h)) \/ ItemMoves \/ SwitchMode \/ OldClientsClose \/ UNCHANGED vars
  <2>1. pc' = pc
    BY <1>13 DEF TorrentVanishes, ItemMoves, SwitchMode, OldClientsClose, vars
  <2>2. att'.event = att.event /\ att'.acts = att.acts /\ att'.todo = att.todo
    BY <1>13 DEF TorrentVanishes, ItemMoves, SwitchMode, OldClientsClose, vars, Shaped, Fields
  <2>3. att'.dry = att.dry
    BY <1>13 DEF TorrentVanishes, ItemMoves, SwitchMode, OldClientsClose, vars, Shaped, Fields
  <2>4. \A m : Going(m) => Going(m)'
    BY <1>0, <2>1, <2>2 DEF Going
  <2>5. CASE pc \in {"tidy", "built"}
    BY <2>2, <2>3, <2>4, <2>5, TidiedKept
  <2>6. CASE pc \notin {"tidy", "built"}
    BY <2>1, <2>6 DEF Tidied
  <2> QED
    BY <2>5, <2>6
<1>14. CASE Crash
  BY <1>14 DEF Crash, Goto, Tidied
<1> QED
  BY <1>1, <1>2, <1>3, <1>4, <1>5, <1>6, <1>7, <1>8, <1>9, <1>10, <1>11, <1>12, <1>13, <1>14 DEF Next, Cleanup, Dependent

\* The manual runner removes the Jellyfin item only when Arr keeps nothing of
\* its scope, no Seerr media is left for a whole title, and every torrent of
\* the evidence is settled; provided that Seerr holds no two media of a kind
\* that an event means.
THEOREM SourceLeavesLast == ASSUME OwnMedia PROVE Spec => SourceLast
<1> DEFINE P ==
      pc = "built" /\ pc' = "done" /\ jelly' # jelly /\ ~att.dry =>
        /\ ~Remains /\ Leftovers = {}
        /\ \A h \in {g.hash : g \in Grabs(att.title)} \cap att.hashes : Settled(h)
        /\ att.event.type \in {"Movie", "Series"} => ~\E m \in Media(Kind(att.event)) : Means(att.event.ids, m)
<1>1. ASSUME CascadeInv, Tidied, [Next]_vars
      PROVE  P
  <2> SUFFICES ASSUME pc = "built", pc' = "done", jelly' # jelly, ~att.dry
               PROVE  /\ ~Remains /\ Leftovers = {}
                      /\ \A h \in {g.hash : g \in Grabs(att.title)} \cap att.hashes : Settled(h)
                      /\ att.event.type \in {"Movie", "Series"} =>
                           ~\E m \in Media(Kind(att.event)) : Means(att.event.ids, m)
    OBVIOUS
  <2>1. Fine(att.acts) /\ ~Remains /\ Leftovers = {} /\ \A h \in Backing \cup att.hashes : Settled(h)
    BY <1>1, SourceStep
  <2>2. ASSUME att.event.type \in {"Movie", "Series"}, NEW m \in Media(Kind(att.event)), Means(att.event.ids, m)
        PROVE  FALSE
    <3>1. PICK x \in shape.media : x.kind = Kind(att.event) /\ Means(att.event.ids, x) /\ x.id \notin seerr.media
      BY <1>1, <2>1, <2>2 DEF Tidied, Going
    <3>2. m \in shape.media /\ m.kind = Kind(att.event) /\ m.id \in seerr.media
      BY <2>2 DEF Media
    <3>3. shape \in Shapes /\ att.event \in shape.events
      BY <1>1 DEF CascadeInv, Shaped, Planned
    <3>4. m = x
      BY <2>2, <3>1, <3>2, <3>3 DEF OwnMedia
    <3> QED
      BY <3>1, <3>2, <3>4
  <2> QED
    BY <2>1, <2>2
<1> HIDE DEF P
<1>2. CascadeInv /\ Tidied /\ [Next]_vars => Tidied'
  BY TidiedStep DEF CascadeInv
<1>3. Spec => []Tidied
  BY <1>2, TidiedInit, CascadeInvariant, PTL DEF Spec
<1>4. Spec => [][P]_vars
  BY <1>1, <1>3, CascadeInvariant, PTL DEF Spec
<1> QED
  BY <1>4, PTL DEF SourceLast, P

=============================================================================
