---------------------------- MODULE ContentSafety ----------------------------
(***************************************************************************)
(* The evidence that decides whether torrent data may be removed           *)
(* (application/data_safety.py): every download client reports an          *)
(* inventory of content scopes, and the paths they claim are compared.     *)
(*                                                                         *)
(* A path is the sequence of its parts.  An inventory is a set of scopes   *)
(* and a flag for entries the client could not describe; a scope is what   *)
(* one torrent claims on disk.  The second hash of a hybrid torrent, which *)
(* only qBittorrent reports, is left out: a torrent is its hash.           *)
(***************************************************************************)
EXTENDS FiniteSets, Sequences, Naturals

CONSTANTS Unread,       \* an inventory not read yet
          Unreadable,   \* an inventory that failed or timed out
          None,         \* the absent reason
          MaxScopes     \* MAX_CONTENT_INVENTORY_SCOPES

SafetyReasons == {"ownership_unverifiable", "torrent_closed",
                  "sibling_scope_unknown", "shared_path"}

\* path equals directory d or lies below it
Within(path, d) == Len(d) <= Len(path) /\ SubSeq(path, 1, Len(d)) = d

Scope(h, paths, uncertain, closed) ==
    [hash |-> h, paths |-> paths, uncertain |-> uncertain, closed |-> closed]

(***************************************************************************)
(* An inventory counts only when the client described every torrent, once, *)
(* within the bound.  Paths and identities are well formed by then: the    *)
(* adapters report what they cannot validate as a failure.                 *)
(***************************************************************************)
Usable(inv) ==
    /\ inv \notin {Unread, Unreadable}
    /\ ~inv.failed
    /\ Cardinality(inv.scopes) <= MaxScopes
    /\ \A s, t \in inv.scopes : s.hash = t.hash => s = t

Incomplete ==
    [complete |-> FALSE, conflicts |-> {}, missing |-> {}, observed |-> {},
     uncertain |-> {}, closed |-> {}, siblings |-> {}, scopes |-> {},
     invs |-> <<>>]

\* every scope with its client: <<client, scope>>
Owned(invs) == UNION {{<<c, s>> : s \in invs[c].scopes} : c \in DOMAIN invs}

\* a mutant: only torrents that claim the very path own it
OwnersExact(owned, path) == {o \in owned : path \in o[2].paths}
\* the owners of a path are those that claim it or a directory above it
Owners(owned, path) ==
    {o \in owned : \E d \in o[2].paths : Within(path, d)}

\* the groups of owners that share a path
Groups(owned) ==
    {g \in {Owners(owned, p) : p \in UNION {o[2].paths : o \in owned}} :
        Cardinality(g) > 1}

Id(o) == <<o[1], o[2].hash>>

(***************************************************************************)
(* Within a group an owner of uncertain extent makes every other one       *)
(* unknown; a group of certain owners is a conflict.  Only requested       *)
(* torrents are marked, and hashes known to exist must be described.       *)
(***************************************************************************)
Assess(invs, requested, known) ==
    IF \E c \in DOMAIN invs : ~Usable(invs[c]) THEN Incomplete
    ELSE LET owned     == Owned(invs)
             wanted(g) == {o \in g : o[2].hash \in requested}
             vague(g)  == \E o \in g : o[2].uncertain
             groups    == Groups(owned)
         IN [complete  |-> TRUE,
             conflicts |-> UNION {{Id(o) : o \in wanted(g)} :
                                  g \in {x \in groups : ~vague(x)}},
             missing   |-> known \ {Id(o) : o \in owned},
             observed  |-> {Id(o) : o \in owned},
             uncertain |-> {Id(o) : o \in {x \in owned : x[2].uncertain}},
             closed    |-> {Id(o) : o \in {x \in owned : x[2].closed}},
             siblings  |-> UNION {{Id(o) : o \in {x \in wanted(g) : ~x[2].uncertain}} :
                                  g \in {x \in groups : vague(x)}},
             scopes    |-> {<<Id(o), o[2].paths>> : o \in owned},
             invs      |-> invs]

(***************************************************************************)
(* Replace one client's inventory and keep every objection raised before.  *)
(***************************************************************************)
Refresh(a, client, inv, requested) ==
    LET known == a.missing \union {x \in a.observed : x[2] \in requested}
        again == Assess([a.invs EXCEPT ![client] = inv], requested, known)
    IN IF ~a.complete \/ ~again.complete THEN Incomplete
       ELSE [again EXCEPT !.conflicts = @ \union a.conflicts,
                          !.missing   = @ \union a.missing,
                          !.uncertain = @ \union a.uncertain,
                          !.closed    = @ \union a.closed,
                          !.siblings  = @ \union a.siblings]

\* why the torrent x = <<client, hash>> must be kept, None when it may go
SafetyReason(a, x) ==
    IF ~a.complete \/ x \in a.missing \/ x \notin a.observed
       THEN "ownership_unverifiable"
    ELSE IF x \in a.closed THEN "torrent_closed"
    ELSE IF x \in a.siblings THEN "sibling_scope_unknown"
    ELSE IF x \in a.uncertain THEN "ownership_unverifiable"
    ELSE IF x \in a.conflicts THEN "shared_path"
    ELSE None

\* the path read just before removal still covers the recorded scope
ScopeMatches(a, x, path, exact) ==
    /\ a.complete
    /\ x \in a.observed \ a.uncertain
    /\ \E s \in a.scopes :
        /\ s[1] = x
        /\ IF exact THEN s[2] = {path}
           ELSE s[2] # {} /\ \A p \in s[2] : Within(p, path)
=============================================================================
