-------------------------- MODULE MCTorrentRemoval --------------------------
(* Two clients of every mix of adapters, two torrents. *)
EXTENDS TorrentRemoval

CONSTANTS c1, c2, h1, h2

FleetOrder == <<c1, c2>>
\* a file, a file in a directory of the same name's sibling, and one elsewhere
PathX == <<"d", "x">>
PathY == <<"d", "x", "y">>
PathZ == <<"e", "z">>
DataPlaces == {PathX, PathY, PathZ}

At1(p, s) == [at |-> p, state |-> s]
Empty == [h \in {} |-> At1(PathX, "open")]
One(h, t) == [k \in {h} |-> t]
Both(t, u) == [k \in {h1, h2} |-> IF k = h1 THEN t ELSE u]

\* kinds with the fleets that can occur in them
StartFleets ==
    {[c \in Clients |-> IF c = c1 THEN f ELSE g] :
        f \in {One(h1, At1(PathX, "open")), Both(At1(PathX, "open"), At1(PathZ, "open"))},
        g \in {Empty} \union {One(h2, At1(p, "open")) : p \in {PathY, PathZ}}}
      \union {[c \in Clients |-> IF c = c1 THEN One(h1, At1(PathX, "open"))
                                 ELSE One(h2, At1(PathY, s))] : s \in {"bare", "empty"}}

Mixes ==
    {[c \in Clients |-> IF c = c1 THEN k ELSE m] :
        k \in {"qbittorrent", "transmission", "rtorrent"}, m \in {"deluge", "rtorrent"}}
RemovalPolicies ==
    {[c \in Clients |-> IF c = c1 THEN "immediate" ELSE p] : p \in {"immediate", "keep", "defer"}}
Asked == {{h1}, {h1, h2}}
=============================================================================
