------------------------------ MODULE Resolver ------------------------------
(***************************************************************************)
(* The strict resolvers: which Radarr movie, Sonarr series or Seerr media  *)
(* a deletion event means.  An identity is a record of the identifiers a   *)
(* service reports, None where it reports none.                            *)
(***************************************************************************)
EXTENDS Naturals, FiniteSets, Sequences

CONSTANT None \* an identifier that is not known, or no match

Identifiers == {"tmdb", "tvdb", "imdb", "path"}

\* The identifiers each resolver tries, strongest first.
Movies == <<"tmdb", "imdb", "path">>
Series == <<"tvdb", "tmdb", "imdb", "path">>
SeerrMovies == <<"tmdb", "imdb">>
SeerrSeries == <<"tvdb", "tmdb", "imdb">>

Failed(reason) == [item |-> None, reason |-> reason]

\* One identifier's candidates; an unknown identifier has none.
Having(ids, items, f) == {i \in items : ids[f] # None /\ i.ids[f] = ids[f]}

\* _consistent: an identifier both sides know and disagree on.  A path
\* counts only when it names a folder of the Arr service.
Contradicts(ids, ofArr, item) ==
  \E f \in Identifiers :
    /\ f = "path" => ofArr
    /\ ids[f] # None /\ item.ids[f] # None /\ ids[f] # item.ids[f]

\* Mutant of Resolve: what contradicts the match is not looked at.
ResolveLoosely(ids, ofArr, items, order) ==
  LET hits == {k \in DOMAIN order : Having(ids, items, order[k]) # {}}
      found == Having(ids, items, order[CHOOSE k \in hits : \A j \in hits : k <= j])
  IN CASE hits = {} -> Failed("no_match")
       [] hits # {} /\ Cardinality(found) > 1 -> Failed("ambiguous_match")
       [] OTHER -> [item |-> CHOOSE i \in found : TRUE, reason |-> None]

\* The first identifier that anything matches decides, for good or bad.
Resolve(ids, ofArr, items, order) ==
  LET hits == {k \in DOMAIN order : Having(ids, items, order[k]) # {}}
      found == Having(ids, items, order[CHOOSE k \in hits : \A j \in hits : k <= j])
  IN CASE hits = {} -> Failed("no_match")
       [] hits # {} /\ Cardinality(found) > 1 -> Failed("ambiguous_match")
       [] hits # {} /\ Cardinality(found) = 1 /\ \E i \in found : Contradicts(ids, ofArr, i) -> Failed("conflicting_identifiers")
       [] OTHER -> [item |-> CHOOSE i \in found : TRUE, reason |-> None]

=============================================================================
