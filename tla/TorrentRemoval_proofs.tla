----------------------- MODULE TorrentRemoval_proofs -----------------------
(***************************************************************************)
(* Proofs about TorrentRemoval, for any number of clients, hashes, places, *)
(* removals, user actions and failed RPCs, and every mixture of adapters   *)
(* and removal policies.  The parts:                                       *)
(*   - paths, and what the assessments of ContentSafety guarantee of the   *)
(*     hashes they let go (SafeAlone, AssessJudges, RefreshJudges);        *)
(*   - types, and where a removal and each client's adapter can be;        *)
(*   - Sighted: each inventory still describes what its client holds,      *)
(*     except what its user moved and what this removal touched;           *)
(*   - Evident and Permitted: the evidence judges those very inventories,  *)
(*     and an adapter is about to remove only what it lets go;             *)
(*   - Untouched and Listed: what an adapter has still to handle or will   *)
(*     retain is untouched, and it has listed all that was asked for;      *)
(*   - Reported and Accounted: what the results say of what was done.      *)
(***************************************************************************)
EXTENDS TorrentRemoval, FiniteSetTheorems, SequenceTheorems, TLAPS

-----------------------------------------------------------------------------
(* Paths.                                                                  *)

\* A path lies within a directory whose parts it begins with.
LEMMA WithinIsPrefix ==
  ASSUME NEW S, NEW p \in Seq(S), NEW d \in Seq(S)
  PROVE  Within(p, d) <=> Len(d) <= Len(p) /\ \A i \in 1..Len(d) : p[i] = d[i]
<1>1. /\ Len(p) \in Nat /\ Len(d) \in Nat
      /\ \A i \in 1..Len(p) : p[i] \in S
      /\ \A i \in 1..Len(d) : d[i] \in S
  BY LenProperties, ElementOfSeq
<1>2. CASE Len(d) <= Len(p)
  <2>1. \A i \in 1..Len(d) : p[i] \in S
    BY <1>1, <1>2
  <2>2. /\ SubSeq(p, 1, Len(d)) \in Seq(S)
        /\ Len(SubSeq(p, 1, Len(d))) = IF 1 <= Len(d) THEN Len(d) - 1 + 1 ELSE 0
        /\ \A i \in 1..Len(d) - 1 + 1 : SubSeq(p, 1, Len(d))[i] = p[1 + i - 1]
    BY <1>1, <2>1, SubSeqProperties
  <2>3. /\ Len(SubSeq(p, 1, Len(d))) = Len(d)
        /\ \A i \in 1..Len(d) : SubSeq(p, 1, Len(d))[i] = p[i]
    BY <1>1, <2>2
  <2>4. SubSeq(p, 1, Len(d)) = d <=> \A i \in 1..Len(d) : SubSeq(p, 1, Len(d))[i] = d[i]
    BY <2>2, <2>3, SeqEqual
  <2> QED
    BY <1>2, <2>3, <2>4 DEF Within
<1>3. CASE ~(Len(d) <= Len(p))
  BY <1>3 DEF Within
<1> QED
  BY <1>2, <1>3

LEMMA WithinItself ==
  ASSUME NEW S, NEW p \in Seq(S)
  PROVE  Within(p, p)
BY WithinIsPrefix, LenProperties

LEMMA WithinTransitive ==
  ASSUME NEW S, NEW p \in Seq(S), NEW q \in Seq(S), NEW r \in Seq(S), Within(p, q), Within(q, r)
  PROVE  Within(p, r)
<1>1. Len(p) \in Nat /\ Len(q) \in Nat /\ Len(r) \in Nat
  BY LenProperties
<1> QED
  BY <1>1, WithinIsPrefix

\* The directory above a path, and what lies strictly below another path.
LEMMA ParentIsPrefix ==
  ASSUME NEW S, NEW p \in Seq(S)
  PROVE  /\ Parent(p) \in Seq(S)
         /\ Len(Parent(p)) = IF p = <<>> THEN 0 ELSE Len(p) - 1
         /\ \A i \in 1..Len(Parent(p)) : Parent(p)[i] = p[i]
<1>1. Len(p) \in Nat /\ \A i \in 1..Len(p) : p[i] \in S
  BY LenProperties, ElementOfSeq
<1>2. p = <<>> <=> Len(p) = 0
  BY EmptySeq
<1>3. \A i \in 1..Len(p) - 1 : p[i] \in S
  BY <1>1
<1>4. Len(p) - 1 \in Int
  BY <1>1
<1>5. /\ SubSeq(p, 1, Len(p) - 1) \in Seq(S)
      /\ Len(SubSeq(p, 1, Len(p) - 1)) = IF 1 <= Len(p) - 1 THEN Len(p) - 1 - 1 + 1 ELSE 0
      /\ \A i \in 1..Len(p) - 1 - 1 + 1 : SubSeq(p, 1, Len(p) - 1)[i] = p[1 + i - 1]
  BY <1>3, <1>4, SubSeqProperties
<1>6. Len(Parent(p)) = IF p = <<>> THEN 0 ELSE Len(p) - 1
  BY <1>1, <1>2, <1>5 DEF Parent
<1>7. ASSUME NEW i \in 1..Len(Parent(p)) PROVE Parent(p)[i] = p[i]
  BY <1>1, <1>2, <1>5, <1>6 DEF Parent
<1> QED
  BY <1>5, <1>6, <1>7 DEF Parent

LEMMA OverlapOfParent ==
  ASSUME NEW S, NEW p \in Seq(S), NEW q \in Seq(S)
  PROVE  /\ Within(p, q) => Within(p, Parent(q))
         /\ Within(q, p) => p = q \/ Within(Parent(q), p)
<1>1. /\ Len(p) \in Nat /\ Len(q) \in Nat
      /\ q = <<>> <=> Len(q) = 0
  BY LenProperties, EmptySeq
<1>2. /\ Parent(q) \in Seq(S) /\ Len(Parent(q)) \in Nat /\ Len(Parent(q)) <= Len(q)
      /\ Len(q) <= Len(Parent(q)) + 1
      /\ \A i \in 1..Len(Parent(q)) : Parent(q)[i] = q[i]
  BY <1>1, ParentIsPrefix
<1>3. Within(q, Parent(q))
  BY <1>1, <1>2, WithinIsPrefix
<1>4. ASSUME Within(q, p), p # q PROVE Within(Parent(q), p)
  <2>1. Len(p) <= Len(q) /\ \A i \in 1..Len(p) : q[i] = p[i]
    BY <1>4, WithinIsPrefix
  <2>2. Len(p) # Len(q)
    BY <1>4, <2>1, SeqEqual
  <2> QED
    BY <1>1, <1>2, <2>1, <2>2, WithinIsPrefix
<1> QED
  BY <1>2, <1>3, <1>4, WithinTransitive

-----------------------------------------------------------------------------
(* Assessments.                                                            *)

\* What an assessment of inventories says, whatever else it objects to.
Judged(a, invs, hs) ==
  /\ a.complete
  /\ \A c \in DOMAIN invs : Usable(invs[c])
  /\ a.invs = invs
  /\ a.observed = {Id(o) : o \in Owned(invs)}
  /\ a.scopes = {<<Id(o), o[2].paths>> : o \in Owned(invs)}
  /\ \A o \in Owned(invs) : /\ o[2].uncertain => Id(o) \in a.uncertain
                            /\ o[2].closed => Id(o) \in a.closed
  /\ \A g \in Groups(Owned(invs)) : \A o \in g :
       o[2].hash \in hs /\ ~o[2].uncertain => Id(o) \in a.conflicts \union a.siblings

LEMMA AssessJudges ==
  ASSUME NEW invs, NEW hs, NEW known, Assess(invs, hs, known).complete
  PROVE  Judged(Assess(invs, hs, known), invs, hs)
<1> DEFINE a == Assess(invs, hs, known)
           owned == Owned(invs)
           wanted(g) == {o \in g : o[2].hash \in hs}
           vague(g) == \E o \in g : o[2].uncertain
           groups == Groups(owned)
<1>1. \A c \in DOMAIN invs : Usable(invs[c])
  <2>1. ~Incomplete.complete
    BY DEF Incomplete
  <2> QED
    BY <2>1 DEF Assess
<1>2. /\ a.observed = {Id(o) : o \in owned}
      /\ a.scopes = {<<Id(o), o[2].paths>> : o \in owned}
      /\ a.invs = invs
  BY <1>1 DEF Assess
<1>3. /\ a.uncertain = {Id(o) : o \in {x \in owned : x[2].uncertain}}
      /\ a.closed = {Id(o) : o \in {x \in owned : x[2].closed}}
  BY <1>1 DEF Assess
<1>4. a.conflicts = UNION {{Id(o) : o \in wanted(g)} : g \in {x \in groups : ~vague(x)}}
  BY <1>1 DEF Assess
<1>5. a.siblings = UNION {{Id(o) : o \in {x \in wanted(g) : ~x[2].uncertain}} : g \in {x \in groups : vague(x)}}
  BY <1>1 DEF Assess
<1>6. ASSUME NEW g \in groups, NEW o \in g, o[2].hash \in hs, ~o[2].uncertain
      PROVE  Id(o) \in a.conflicts \union a.siblings
  <2>1. o \in wanted(g)
    BY <1>6
  <2> HIDE DEF wanted, groups, a
  <2>2. CASE vague(g)
    BY <1>5, <1>6, <2>1, <2>2
  <2>3. CASE ~vague(g)
    BY <1>4, <1>6, <2>1, <2>3
  <2> QED
    BY <2>2, <2>3
<1>7. \A o \in owned : /\ o[2].uncertain => Id(o) \in a.uncertain
                       /\ o[2].closed => Id(o) \in a.closed
  BY <1>3
<1> HIDE DEF wanted, vague
<1> QED
  BY <1>1, <1>2, <1>6, <1>7 DEF Judged

LEMMA RefreshJudges ==
  ASSUME NEW a, NEW client, NEW v, NEW hs, Refresh(a, client, v, hs).complete
  PROVE  Judged(Refresh(a, client, v, hs), [a.invs EXCEPT ![client] = v], hs)
<1> DEFINE fresh == Refresh(a, client, v, hs)
           invs == [a.invs EXCEPT ![client] = v]
           known == a.missing \union {x \in a.observed : x[2] \in hs}
           again == Assess(invs, hs, known)
<1>1. a.complete /\ again.complete
  <2>1. ~Incomplete.complete
    BY DEF Incomplete
  <2> QED
    BY <2>1 DEF Refresh
<1>2. Judged(again, invs, hs)
  BY <1>1, AssessJudges
<1>3. again = [complete |-> again.complete, conflicts |-> again.conflicts, missing |-> again.missing,
               observed |-> again.observed, uncertain |-> again.uncertain, closed |-> again.closed,
               siblings |-> again.siblings, scopes |-> again.scopes, invs |-> again.invs]
  BY DEF Assess, Incomplete
<1> HIDE DEF again, invs
<1>4. fresh = [again EXCEPT !.conflicts = @ \union a.conflicts, !.missing = @ \union a.missing,
                            !.uncertain = @ \union a.uncertain, !.closed = @ \union a.closed,
                            !.siblings = @ \union a.siblings]
  BY <1>1 DEF Refresh, again, invs
<1>5. fresh.complete = again.complete
  BY <1>3, <1>4
<1>6. fresh.invs = again.invs /\ fresh.observed = again.observed /\ fresh.scopes = again.scopes
  BY <1>3, <1>4
<1>7. /\ again.conflicts \subseteq fresh.conflicts /\ again.siblings \subseteq fresh.siblings
      /\ again.uncertain \subseteq fresh.uncertain /\ again.closed \subseteq fresh.closed
  BY <1>3, <1>4
<1> HIDE DEF fresh
<1>8. fresh.complete
  BY <1>1, <1>5
<1> QED
  BY <1>2, <1>6, <1>7, <1>8 DEF Judged, fresh, invs

\* The values of a function on a finite set are finitely many.
LEMMA FiniteImage ==
  ASSUME NEW S, IsFiniteSet(S), NEW f, f = [x \in S |-> f[x]]
  PROVE  IsFiniteSet({f[x] : x \in S})
<1> DEFINE T == {f[x] : x \in S}
<1>1. f \in Surjection(S, T)
  <2>1. f \in [S -> T]
    OBVIOUS
  <2>2. \A t \in T : \E s \in S : f[s] = t
    OBVIOUS
  <2> QED
    BY <2>1, <2>2 DEF Surjection
<1> QED
  BY <1>1, FS_Surjection

LEMMA OwnedIsFinite ==
  ASSUME NEW invs, IsFiniteSet(DOMAIN invs), \A c \in DOMAIN invs : IsFiniteSet(invs[c].scopes)
  PROVE  IsFiniteSet(Owned(invs))
<1> DEFINE of == [c \in DOMAIN invs |-> {<<c, s>> : s \in invs[c].scopes}]
<1>1. ASSUME NEW c \in DOMAIN invs PROVE IsFiniteSet(of[c])
  <2> DEFINE f == [s \in invs[c].scopes |-> <<c, s>>]
  <2>1. IsFiniteSet({f[s] : s \in invs[c].scopes})
    BY FiniteImage
  <2>2. {f[s] : s \in invs[c].scopes} = of[c]
    OBVIOUS
  <2> QED
    BY <2>1, <2>2
<1>2. IsFiniteSet({of[c] : c \in DOMAIN invs})
  BY FiniteImage
<1>3. IsFiniteSet(UNION {of[c] : c \in DOMAIN invs})
  BY <1>1, <1>2, FS_UNION
<1>4. Owned(invs) = UNION {of[c] : c \in DOMAIN invs}
  BY DEF Owned
<1> QED
  BY <1>3, <1>4

\* Nothing overlaps the one path of a torrent that may go.
LEMMA SafeAlone ==
  ASSUME NEW S, NEW a, NEW invs, NEW hs, Judged(a, invs, hs), IsFiniteSet(Owned(invs)),
         NEW o \in Owned(invs), NEW v \in Owned(invs), Id(o) # Id(v), o[2].hash \in hs,
         SafetyReason(a, Id(o)) = None, None \notin SafetyReasons,
         NEW p \in Seq(S), o[2].paths = {p},
         NEW q \in Seq(S), v[2].paths = {q} \/ v[2].paths = {Parent(q)}
  PROVE  ~Within(p, q) /\ ~Within(q, p)
<1> DEFINE owned == Owned(invs)
<1>1. ~o[2].uncertain /\ Id(o) \notin a.conflicts /\ Id(o) \notin a.siblings
  BY DEF Judged, SafetyReason, SafetyReasons
<1>2. ASSUME NEW d \in UNION {x[2].paths : x \in owned}, o \in Owners(owned, d), v \in Owners(owned, d)
      PROVE  FALSE
  <2> DEFINE g == Owners(owned, d)
  <2>1. IsFiniteSet(g)
    <3>1. g \subseteq owned
      BY DEF Owners
    <3> QED
      BY <3>1, FS_Subset
  <2>2. Cardinality(g) > 1
    <3>1. Cardinality(g) # 0
      BY <1>2, <2>1, FS_EmptySet
    <3>2. Cardinality(g) # 1
      <4>1. ~\E x : g = {x}
        BY <1>2
      <4> QED
        BY <2>1, <4>1, FS_Singleton
    <3>3. Cardinality(g) \in Nat
      BY <2>1, FS_CardinalityType
    <3> QED
      BY <3>1, <3>2, <3>3
  <2>3. g \in Groups(owned)
    BY <2>2 DEF Groups
  <2> QED
    BY <1>1, <1>2, <2>3 DEF Judged
<1>3. \A d \in Seq(S), x \in owned, e \in Seq(S) : e \in x[2].paths /\ Within(d, e) => x \in Owners(owned, d)
  BY DEF Owners
<1>4. Within(p, p) /\ Within(q, q) /\ Within(Parent(q), Parent(q)) /\ Parent(q) \in Seq(S)
  BY WithinItself, ParentIsPrefix
<1>5. /\ Within(p, q) => Within(p, Parent(q))
      /\ Within(q, p) => p = q \/ Within(Parent(q), p)
  BY OverlapOfParent
<1>6. p \in UNION {x[2].paths : x \in owned}
  OBVIOUS
<1>7. ~Within(p, q)
  BY <1>2, <1>3, <1>4, <1>5, <1>6
<1>8. ~Within(q, p)
  <2>1. CASE v[2].paths = {q}
    <3>1. q \in UNION {x[2].paths : x \in owned}
      BY <2>1
    <3> QED
      BY <1>2, <1>3, <1>4, <2>1, <3>1
  <2>2. CASE v[2].paths = {Parent(q)}
    <3>1. Parent(q) \in UNION {x[2].paths : x \in owned}
      BY <2>2
    <3> QED
      BY <1>2, <1>3, <1>4, <1>5, <1>7, <2>2, <3>1
  <2> QED
    BY <2>1, <2>2
<1> QED
  BY <1>7, <1>8

-----------------------------------------------------------------------------
(* Types and control.                                                      *)

USE DEF config, call, reading, recheck, removing, budgets, history

Stages == {"look", "status", "remove", "decide", "locate", "close", "rm", "erase", "done"}
OneByOne == {"decide", "locate", "close", "rm", "erase"}

\* What a client may report of its torrents.
States(c) == IF kind[c] = "rtorrent" THEN {"open", "closed", "bare"} ELSE {"open", "bare", "empty"}

Reporting ==
  /\ DOMAIN inv = Clients
  /\ \A c \in Clients : \A h \in Held(c) : fleet[c][h].state \in States(c)

\* Where a client can be in its removal, with what.
Staged(c) ==
  /\ step[c] \in OneByOne => kind[c] = "rtorrent"
  /\ step[c] \in {"status", "remove"} => kind[c] # "rtorrent"
  /\ step[c] \in {"locate", "close", "rm", "erase"} => left[c] # {}
  /\ step[c] \in {"close", "rm", "erase"} => ~dry
  /\ step[c] \in {"look", "status"} => found[c] = {}
  /\ left[c] \subseteq request /\ FoundHashes(c) \subseteq request

Control ==
  /\ pc # "removing" => \A c \in Clients : step[c] = "done"
  /\ pc \in {"idle", "reading", "rechecking"} =>
       /\ results = {} /\ touched = {} /\ hit = {}
       /\ \A c \in Clients : left[c] = {} /\ found[c] = {}
  /\ pc = "idle" => seen = {} /\ \A c \in Clients : inv[c] = Unread
  /\ pc = "removing" => evidence.complete
  /\ turn \in Nat \ {0}
  /\ stage # "list" => pc = "rechecking" /\ turn <= Len(Order) /\ evidence.complete
  /\ \A c \in Clients : Staged(c)

LEMMA OrderType == Len(Order) \in Nat /\ \A i \in 1..Len(Order) : Order[i] \in Clients
BY RemovalAssumption, LenProperties, ElementOfSeq

LEMMA ReasonType ==
  /\ \A a, x : SafetyReason(a, x) \in Skips
  /\ \A c, ready : SeedingReason(c, ready) \in Skips
  /\ \A c, h, ready : QbittorrentReason(c, h, ready) \in Skips
  /\ \A c, h, ready : TransmissionReason(c, h, ready) \in Skips
  /\ \A c, h, ready, read : DelugeReason(c, h, ready, read) \in Skips
BY DEF SafetyReason, SeedingReason, QbittorrentReason, TransmissionReason, DelugeReason, Skips, SafetyReasons

LEMMA WithoutIs ==
  ASSUME DOMAIN fleet = Clients, NEW c \in Clients, NEW hs
  PROVE  /\ DOMAIN Without(c, hs) = Clients
         /\ DOMAIN Without(c, hs)[c] = Held(c) \ hs
         /\ Without(c, hs)[c] = [h \in Held(c) \ hs |-> fleet[c][h]]
         /\ \A d \in Clients \ {c} : Without(c, hs)[d] = fleet[d]
BY DEF Without, Held

LEMMA ResultType ==
  ASSUME NEW c \in Clients \union {None}, NEW h \in Hashes, NEW e \in Existences, NEW s \in Skips, NEW b \in BOOLEAN
  PROVE  Result(c, h, e, s, b) \in [client : Clients \union {None}, hash : Hashes,
                                    existed : Existences, skip : Skips, error : BOOLEAN]
BY DEF Result

FleetOK ==
  /\ DOMAIN fleet = Clients
  /\ \A c \in Clients : Held(c) \subseteq Hashes /\ fleet[c] \in [Held(c) -> Torrent]

LEMMA FleetTypeStep ==
  ASSUME TypeOK, Reporting, Control, [Next]_vars
  PROVE  /\ FleetOK'
         /\ \A c \in Clients : \A h \in Held(c)' : (fleet[c][h].state)' \in States(c)'
<1> DEFINE Good == FleetOK' /\ \A c \in Clients : \A h \in Held(c)' : (fleet[c][h].state)' \in States(c)'
<1>0. FleetOK /\ kind \in [Clients -> Kinds] /\ \A c \in Clients : \A h \in Held(c) : fleet[c][h].state \in States(c)
  BY DEF TypeOK, FleetOK, Reporting
<1>1. ASSUME UNCHANGED <<fleet, kind>> PROVE Good
  BY <1>0, <1>1 DEF FleetOK, Held, States
<1>7. ASSUME NEW c \in Clients, UNCHANGED kind, DOMAIN fleet' = Clients,
             \A d \in Clients \ {c} : fleet'[d] = fleet[d],
             DOMAIN fleet'[c] \subseteq Hashes, fleet'[c] \in [DOMAIN fleet'[c] -> Torrent],
             \A k \in DOMAIN fleet'[c] : fleet'[c][k].state \in States(c)
      PROVE  Good
  <2>1. FleetOK'
    <3>1. ASSUME NEW d \in Clients PROVE Held(d)' \subseteq Hashes /\ fleet'[d] \in [Held(d)' -> Torrent]
      <4>1. CASE d = c
        BY <1>7, <4>1 DEF Held
      <4>2. CASE d # c
        BY <1>0, <1>7, <4>2 DEF Held, FleetOK
      <4> QED
        BY <4>1, <4>2
    <3> QED
      BY <1>7, <3>1 DEF FleetOK
  <2>2. ASSUME NEW d \in Clients, NEW h \in Held(d)' PROVE (fleet[d][h].state)' \in States(d)'
    <3>1. States(d)' = States(d)
      BY <1>7 DEF States
    <3>2. CASE d = c
      BY <1>7, <2>2, <3>1, <3>2 DEF Held
    <3>3. CASE d # c
      BY <1>0, <1>7, <2>2, <3>1, <3>3 DEF Held
    <3> QED
      BY <3>2, <3>3
  <2> QED
    BY <2>1, <2>2
<1>2. ASSUME NEW c \in Clients, NEW hs, fleet' = Without(c, hs), UNCHANGED kind PROVE Good
  <2>1. /\ DOMAIN fleet' = Clients
        /\ \A d \in Clients \ {c} : fleet'[d] = fleet[d]
        /\ fleet'[c] = [h \in Held(c) \ hs |-> fleet[c][h]]
    BY <1>0, <1>2 DEF FleetOK, Without
  <2>2. \A h \in Held(c) : fleet[c][h] \in Torrent /\ h \in Hashes
    BY <1>0 DEF FleetOK
  <2>3. DOMAIN fleet'[c] = Held(c) \ hs /\ fleet'[c] \in [Held(c) \ hs -> Torrent]
    BY <2>1, <2>2
  <2> QED
    BY <1>0, <1>2, <1>7, <2>1, <2>2, <2>3
<1>3. CASE Fleet
  BY <1>1, <1>3 DEF Fleet, Start, AssessFleet, RecheckSkip, RecheckList, RecheckInventory, RecheckFinal, Authorize, Gather, Return
<1>4. ASSUME NEW c \in Clients, Adapter(c) PROVE Good
  <2>1. CASE RTorrentClose(c)
    <3> DEFINE h == Current(c)
    <3>1. CASE UNCHANGED fleet
      BY <1>1, <2>1, <3>1 DEF RTorrentClose
    <3>2. CASE h \in Held(c) /\ fleet' = [fleet EXCEPT ![c][h].state = "closed"]
      <4>1. kind[c] = "rtorrent" /\ UNCHANGED kind
        BY <2>1 DEF RTorrentClose, Control, Staged, OneByOne
      <4>2. \A t \in Torrent : [t EXCEPT !.state = "closed"] \in Torrent /\ [t EXCEPT !.state = "closed"].state = "closed"
        BY DEF Torrent
      <4> HIDE DEF h
      <4>3. /\ DOMAIN fleet' = Clients
            /\ \A d \in Clients \ {c} : fleet'[d] = fleet[d]
            /\ fleet'[c] = [fleet[c] EXCEPT ![h].state = "closed"]
        BY <1>0, <3>2 DEF FleetOK
      <4>4. /\ DOMAIN fleet'[c] = Held(c)
            /\ \A k \in Held(c) : fleet'[c][k] = IF k = h THEN [fleet[c][h] EXCEPT !.state = "closed"] ELSE fleet[c][k]
            /\ fleet'[c] = [k \in Held(c) |-> fleet'[c][k]]
        BY <1>0, <3>2, <4>3 DEF FleetOK, Held
      <4>5. fleet'[c] \in [Held(c) -> Torrent]
        <5>1. \A k \in Held(c) : fleet[c][k] \in Torrent
          BY <1>0 DEF FleetOK
        <5>2. \A k \in Held(c) : fleet'[c][k] \in Torrent
          BY <3>2, <4>2, <4>4, <5>1
        <5> QED
          BY <4>4, <5>2
      <4>6. \A k \in Held(c) : fleet'[c][k].state \in States(c)
        BY <1>0, <3>2, <4>1, <4>2, <4>4 DEF FleetOK, States
      <4> QED
        BY <1>0, <1>7, <4>1, <4>3, <4>4, <4>5, <4>6 DEF FleetOK
    <3> QED
      BY <2>1, <3>1, <3>2 DEF RTorrentClose, Has
  <2>2. CASE RemoveCall(c)
    BY <1>1, <1>2, <2>2 DEF RemoveCall, CarryOut
  <2>3. CASE RTorrentErase(c)
    BY <1>1, <1>2, <2>3 DEF RTorrentErase
  <2>4. CASE ReadInventory(c) \/ QbittorrentLook(c) \/ TransmissionLook(c) \/ DelugeLook(c) \/ DelugeStatus(c)
    BY <1>1, <2>4 DEF ReadInventory, QbittorrentLook, TransmissionLook, DelugeLook, DelugeStatus
  <2>5. CASE RTorrentLook(c) \/ RTorrentDecide(c) \/ RTorrentLocate(c) \/ RTorrentRemoveData(c) \/ RTorrentDone(c)
    BY <1>1, <2>5 DEF RTorrentLook, RTorrentDecide, RTorrentLocate, RTorrentRemoveData, RTorrentDone
  <2> QED
    BY <1>4, <2>1, <2>2, <2>3, <2>4, <2>5 DEF Adapter
<1>5. ASSUME NEW c \in Clients, NEW h \in Hashes, User(c, h) PROVE Good
  <2>1. CASE UserAdds(c, h)
    <3>1. PICK p \in Places : fleet' = [fleet EXCEPT ![c] = [k \in Held(c) \union {h} |->
                                          IF k = h THEN [at |-> p, state |-> "open"] ELSE fleet[c][k]]]
      BY <2>1 DEF UserAdds
    <3>2. UNCHANGED kind
      BY <2>1 DEF UserAdds
    <3>3. [at |-> p, state |-> "open"] \in Torrent
      BY DEF Torrent
    <3>4. /\ DOMAIN fleet' = Clients
          /\ \A d \in Clients \ {c} : fleet'[d] = fleet[d]
          /\ fleet'[c] = [k \in Held(c) \union {h} |-> IF k = h THEN [at |-> p, state |-> "open"] ELSE fleet[c][k]]
      BY <1>0, <3>1 DEF FleetOK
    <3> QED
      BY <1>0, <3>2, <3>3, <3>4 DEF FleetOK, Held, States
  <2>2. CASE UserMoves(c, h)
    <3>1. PICK p \in Places : fleet' = [fleet EXCEPT ![c][h].at = p]
      BY <2>2 DEF UserMoves
    <3>2. h \in Held(c) /\ UNCHANGED kind
      BY <2>2 DEF UserMoves
    <3>3. \A t \in Torrent : [t EXCEPT !.at = p] \in Torrent /\ [t EXCEPT !.at = p].state = t.state
      BY DEF Torrent
    <3>4. /\ DOMAIN fleet' = Clients
          /\ \A d \in Clients \ {c} : fleet'[d] = fleet[d]
          /\ DOMAIN fleet'[c] = Held(c)
          /\ \A k \in Held(c) : fleet'[c][k] = IF k = h THEN [fleet[c][h] EXCEPT !.at = p] ELSE fleet[c][k]
          /\ fleet'[c] = [k \in Held(c) |-> fleet'[c][k]]
      BY <1>0, <3>1, <3>2 DEF FleetOK, Held
    <3>5. fleet'[c] \in [Held(c) -> Torrent]
      BY <1>0, <3>3, <3>4 DEF FleetOK, Held
    <3> QED
      <4>1. \A k \in Held(c) : fleet'[c][k].state \in States(c)
        BY <1>0, <3>2, <3>3, <3>4 DEF FleetOK
      <4> QED
        BY <1>0, <1>7, <3>2, <3>4, <3>5, <4>1 DEF FleetOK
  <2>3. CASE UserRemoves(c, h)
    BY <1>2, <2>3 DEF UserRemoves
  <2> QED
    BY <1>5, <2>1, <2>2, <2>3 DEF User
<1>6. CASE UNCHANGED vars
  BY <1>1, <1>6 DEF vars
<1> QED
  BY <1>3, <1>4, <1>5, <1>6 DEF Next

Records == [client : Clients \union {None}, hash : Hashes, existed : Existences, skip : Skips, error : BOOLEAN]

LEMMA AnswerTypes ==
  ASSUME TypeOK, NEW c \in Clients
  PROVE  /\ {Result(c, h, "unknown", None, TRUE) : h \in request} \subseteq Records
         /\ Unverifiable(c) \subseteq Records /\ Unverifiable(None) \subseteq Records
         /\ Answers(c) \subseteq Records
         /\ \A e \in Existences : {Result(c, h, e, "ownership_unverifiable", FALSE) : h \in request} \subseteq Records
<1>1. /\ request \subseteq Hashes /\ found[c] \subseteq Hashes \X Skips
      /\ {"yes", "no", "unknown"} = Existences /\ {None, "ownership_unverifiable"} \subseteq Skips
  BY DEF TypeOK, Existences, Skips, SafetyReasons
<1>2. \A f \in found[c] : Result(c, f[1], "yes", f[2], FALSE) \in Records
  BY <1>1, ResultType DEF Records
<1>3. \A h \in request : \A e \in Existences : /\ Result(c, h, e, None, FALSE) \in Records
                                               /\ Result(c, h, e, None, TRUE) \in Records
                                               /\ Result(c, h, e, "ownership_unverifiable", FALSE) \in Records
                                               /\ Result(None, h, e, "ownership_unverifiable", FALSE) \in Records
  BY <1>1, ResultType DEF Records
<1>4. Unverifiable(c) \subseteq Records /\ Unverifiable(None) \subseteq Records
  BY <1>1, <1>3 DEF Unverifiable
<1>5. Answers(c) \subseteq Records
  BY <1>1, <1>2, <1>3 DEF Answers
<1> QED
  BY <1>1, <1>3, <1>4, <1>5

LEMMA RaisedType ==
  ASSUME TypeOK, NEW c \in Clients, Raised(c)
  PROVE  step' \in [Clients -> Stages] /\ results' \subseteq Records
BY AnswerTypes DEF Raised, Goto, Answer, TypeOK, Stages, Records

LEMMA GotoType ==
  ASSUME TypeOK, NEW c \in Clients, NEW s \in Stages, Goto(c, s)
  PROVE  step' \in [Clients -> Stages]
BY DEF Goto, TypeOK, Stages

LEMMA SettleType ==
  ASSUME TypeOK, NEW c \in Clients, left[c] # {}, NEW reason \in Skips, Settle(c, reason)
  PROVE  /\ step' \in [Clients -> Stages] /\ left' \in [Clients -> SUBSET Hashes]
         /\ found' \in [Clients -> SUBSET (Hashes \X Skips)]
<1>1. Current(c) \in left[c] /\ left[c] \subseteq Hashes
  BY DEF Current, TypeOK
<1> QED
  BY <1>1 DEF Settle, Goto, TypeOK, Stages

\* What an adapter's own variables become.
LEMMA AdapterType ==
  ASSUME TypeOK, Control, NEW c \in Clients, Adapter(c)
  PROVE  /\ step' \in [Clients -> Stages] /\ left' \in [Clients -> SUBSET Hashes]
         /\ found' \in [Clients -> SUBSET (Hashes \X Skips)]
         /\ results' \subseteq Records
<1>0. /\ step \in [Clients -> Stages] /\ left \in [Clients -> SUBSET Hashes]
      /\ found \in [Clients -> SUBSET (Hashes \X Skips)] /\ results \subseteq Records
      /\ request \subseteq Hashes /\ Held(c) \subseteq Hashes
  BY DEF TypeOK, Stages, Records
<1>1. CASE ReadInventory(c)
  BY <1>0, <1>1 DEF ReadInventory
<1>2. CASE QbittorrentLook(c)
  <2>1. CASE Raised(c) /\ UNCHANGED <<found, left>>
    BY <1>0, <2>1, RaisedType
  <2>2. CASE Goto(c, "remove") /\ UNCHANGED results
             /\ \E ready \in BOOLEAN :
                  /\ found' = [found EXCEPT ![c] = {<<h, QbittorrentReason(c, h, ready)>> : h \in request \cap Held(c)}]
                  /\ left' = [left EXCEPT ![c] = {h \in request \cap Held(c) : QbittorrentReason(c, h, ready) = None}]
    BY <1>0, <2>2, ReasonType, GotoType DEF Stages
  <2> QED
    BY <1>2, <2>1, <2>2 DEF QbittorrentLook
<1>3. CASE TransmissionLook(c)
  <2>1. CASE Raised(c) /\ UNCHANGED <<found, left>>
    BY <1>0, <2>1, RaisedType
  <2>2. CASE Goto(c, "remove") /\ UNCHANGED results
             /\ \E ready \in BOOLEAN :
                  /\ found' = [found EXCEPT ![c] = {<<h, TransmissionReason(c, h, ready)>> : h \in request \cap Held(c)}]
                  /\ left' = [left EXCEPT ![c] = {h \in request \cap Held(c) : TransmissionReason(c, h, ready) = None}]
    BY <1>0, <2>2, ReasonType, GotoType DEF Stages
  <2> QED
    BY <1>3, <2>1, <2>2 DEF TransmissionLook
<1>4. CASE DelugeLook(c)
  <2>1. CASE Raised(c) /\ UNCHANGED left
    BY <1>0, <1>4, <2>1, RaisedType DEF DelugeLook
  <2>2. CASE left' = [left EXCEPT ![c] = request \cap Held(c)] /\ Goto(c, "status") /\ UNCHANGED results
    BY <1>0, <1>4, <2>2, GotoType DEF DelugeLook, Stages
  <2> QED
    BY <1>4, <2>1, <2>2 DEF DelugeLook
<1>5. CASE DelugeStatus(c)
  <2>1. CASE Raised(c) /\ UNCHANGED <<found, left>>
    BY <1>0, <2>1, RaisedType
  <2>2. CASE Goto(c, "remove") /\ UNCHANGED results
             /\ \E ready, read \in BOOLEAN :
                  /\ found' = [found EXCEPT ![c] = {<<h, DelugeReason(c, h, ready /\ read, read)>> : h \in left[c]}]
                  /\ left' = [left EXCEPT ![c] = {h \in @ : DelugeReason(c, h, ready /\ read, read) = None}]
    BY <1>0, <2>2, ReasonType, GotoType DEF Stages
  <2> QED
    BY <1>5, <2>1, <2>2 DEF DelugeStatus
<1>6. CASE RemoveCall(c)
  <2>1. CASE Raised(c)
    BY <1>0, <1>6, <2>1, RaisedType DEF RemoveCall
  <2>2. CASE Goto(c, "done") /\ Answer(c, Answers(c))
    BY <1>0, <1>6, <2>2, AnswerTypes, GotoType DEF RemoveCall, Answer, Stages
  <2> QED
    BY <1>6, <2>1, <2>2 DEF RemoveCall
<1>7. CASE RTorrentLook(c)
  <2>1. CASE Raised(c) /\ UNCHANGED left
    BY <1>0, <1>7, <2>1, RaisedType DEF RTorrentLook
  <2>2. CASE left' = [left EXCEPT ![c] = request \cap Held(c)] /\ Goto(c, "decide") /\ UNCHANGED results
    BY <1>0, <1>7, <2>2, GotoType DEF RTorrentLook, Stages
  <2>3. CASE Goto(c, "done") /\ UNCHANGED left
             /\ Answer(c, {Result(c, h, IF h \in Held(c) THEN "yes" ELSE "unknown",
                                   "ownership_unverifiable", FALSE) : h \in request})
    <3>1. \A h \in request : Result(c, h, IF h \in Held(c) THEN "yes" ELSE "unknown", "ownership_unverifiable", FALSE) \in Records
      BY <1>0, ResultType DEF Records, Existences, Skips, SafetyReasons
    <3> QED
      BY <1>0, <1>7, <2>3, <3>1, GotoType DEF RTorrentLook, Answer, Stages
  <2> QED
    BY <1>7, <2>1, <2>2, <2>3 DEF RTorrentLook
<1>8. CASE RTorrentDecide(c)
  <2>1. CASE Raised(c) /\ UNCHANGED <<left, found>>
    BY <1>0, <2>1, RaisedType
  <2>2. CASE \E reason \in Skips : Settle(c, reason) /\ UNCHANGED results
    BY <1>0, <1>8, <2>2, SettleType DEF RTorrentDecide
  <2>3. CASE Goto(c, "locate") /\ UNCHANGED <<left, found, results>>
    BY <1>0, <2>3, GotoType DEF Stages
  <2> QED
    BY <1>8, <2>1, <2>2, <2>3, ReasonType DEF RTorrentDecide
<1>9. CASE RTorrentLocate(c)
  <2>1. left[c] # {}
    BY <1>9 DEF RTorrentLocate, Control, Staged
  <2>2. CASE \E reason \in {None, "ownership_unverifiable"} : Settle(c, reason)
    BY <1>0, <1>9, <2>1, <2>2, SettleType DEF RTorrentLocate, Skips, SafetyReasons
  <2>3. CASE Goto(c, "close") /\ UNCHANGED <<left, found>>
    BY <1>0, <1>9, <2>3, GotoType DEF RTorrentLocate, Stages
  <2> QED
    BY <1>9, <2>2, <2>3 DEF RTorrentLocate
<1>10. CASE RTorrentClose(c)
  <2>1. CASE Raised(c)
    BY <1>0, <1>10, <2>1, RaisedType DEF RTorrentClose
  <2>2. CASE Goto(c, "rm") /\ UNCHANGED results
    BY <1>0, <1>10, <2>2, GotoType DEF RTorrentClose, Stages
  <2> QED
    BY <1>10, <2>1, <2>2 DEF RTorrentClose
<1>11. CASE RTorrentRemoveData(c)
  <2>1. CASE Raised(c)
    BY <1>0, <1>11, <2>1, RaisedType DEF RTorrentRemoveData
  <2>2. CASE Goto(c, "erase") /\ UNCHANGED results
    BY <1>0, <1>11, <2>2, GotoType DEF RTorrentRemoveData, Stages
  <2> QED
    BY <1>11, <2>1, <2>2 DEF RTorrentRemoveData
<1>12. CASE RTorrentErase(c)
  <2>1. CASE Raised(c) /\ UNCHANGED <<left, found>>
    BY <1>0, <2>1, RaisedType
  <2>2. CASE Settle(c, None) /\ UNCHANGED results
    <3>1. left[c] # {}
      BY <1>12 DEF RTorrentErase, Control, Staged
    <3> QED
      BY <1>0, <2>2, <3>1, SettleType DEF Skips
  <2> QED
    BY <1>12, <2>1, <2>2 DEF RTorrentErase
<1>13. CASE RTorrentDone(c)
  BY <1>0, <1>13, AnswerTypes, GotoType DEF RTorrentDone, Answer, Stages
<1> QED
  BY <1>1, <1>2, <1>3, <1>4, <1>5, <1>6, <1>7, <1>8, <1>9, <1>10, <1>11, <1>12, <1>13 DEF Adapter

\* What no step of an adapter touches.
LEMMA AdapterFrame ==
  ASSUME TypeOK, NEW c \in Clients, Adapter(c)
  PROVE  /\ UNCHANGED <<kind, policy, pc, request, dry, evidence, turn, stage, listed, moved>>
         /\ ~ReadInventory(c) => pc = "removing" /\ UNCHANGED <<inv, seen>>
         /\ \A d \in Clients \ {c} : step'[d] = step[d] /\ left'[d] = left[d] /\ found'[d] = found[d]
         /\ results \subseteq results' /\ touched \subseteq touched' /\ hit \subseteq hit'
         /\ \A d \in Clients \ {c} : \A h : <<d, h>> \in touched' => <<d, h>> \in touched
<1>0. /\ step \in [Clients -> Stages] /\ left \in [Clients -> SUBSET Hashes]
      /\ found \in [Clients -> SUBSET (Hashes \X Skips)]
  BY DEF TypeOK, Stages
<1>1. CASE ReadInventory(c)
  BY <1>0, <1>1 DEF ReadInventory
<1>2. CASE QbittorrentLook(c) \/ TransmissionLook(c)
  BY <1>0, <1>2 DEF QbittorrentLook, TransmissionLook, Raised, Goto, Answer
<1>3. CASE DelugeLook(c) \/ DelugeStatus(c)
  BY <1>0, <1>3 DEF DelugeLook, DelugeStatus, Raised, Goto, Answer
<1>4. CASE RemoveCall(c)
  <2>1. /\ touched \subseteq touched' /\ hit \subseteq hit'
        /\ \A d \in Clients \ {c} : \A h : <<d, h>> \in touched' => <<d, h>> \in touched
    <3>1. CASE UNCHANGED <<touched, hit>>
      BY <3>1
    <3>2. CASE \E hs : CarryOut(c, hs)
      BY <3>2 DEF CarryOut
    <3> QED
      BY <1>4, <3>1, <3>2 DEF RemoveCall
  <2>2. /\ results \subseteq results' /\ UNCHANGED <<left, found>>
        /\ \A d \in Clients \ {c} : step'[d] = step[d]
    <3>1. CASE Raised(c)
      BY <1>0, <1>4, <3>1 DEF RemoveCall, Raised, Goto, Answer
    <3>2. CASE Goto(c, "done") /\ Answer(c, Answers(c))
      BY <1>0, <1>4, <3>2 DEF RemoveCall, Goto, Answer
    <3> QED
      BY <1>4, <3>1, <3>2 DEF RemoveCall
  <2>3. /\ UNCHANGED <<kind, policy, pc, request, dry, evidence, turn, stage, listed, moved>>
        /\ pc = "removing" /\ UNCHANGED <<inv, seen>>
    BY <1>4 DEF RemoveCall
  <2> QED
    BY <2>1, <2>2, <2>3
<1>5. CASE RTorrentLook(c) \/ RTorrentDecide(c) \/ RTorrentLocate(c)
  BY <1>0, <1>5 DEF RTorrentLook, RTorrentDecide, RTorrentLocate, Raised, Goto, Answer, Settle
<1>6. CASE RTorrentClose(c)
  BY <1>0, <1>6 DEF RTorrentClose, Raised, Goto, Answer
<1>7. CASE RTorrentRemoveData(c)
  BY <1>0, <1>7 DEF RTorrentRemoveData, Raised, Goto, Answer
<1>8. CASE RTorrentErase(c) \/ RTorrentDone(c)
  BY <1>0, <1>8 DEF RTorrentErase, RTorrentDone, Raised, Goto, Answer, Settle
<1> QED
  BY <1>1, <1>2, <1>3, <1>4, <1>5, <1>6, <1>7, <1>8 DEF Adapter

LEMMA UserFrame ==
  ASSUME NEW c \in Clients, NEW h \in Hashes, User(c, h)
  PROVE  /\ UNCHANGED <<kind, policy, pc, request, dry, inv, evidence, turn, stage, listed, step, left, found,
                        results, seen, touched, hit>>
         /\ moved' = moved \union {<<c, h>>}
BY DEF User, UserAdds, UserMoves, UserRemoves

LEMMA TouchedType ==
  ASSUME TypeOK, Control, NEW c \in Clients, Adapter(c)
  PROVE  touched' \subseteq Pairs
<1>0. touched \subseteq Pairs /\ left[c] \subseteq Hashes
  BY DEF TypeOK
<1>1. CASE RemoveCall(c)
  BY <1>0, <1>1 DEF RemoveCall, CarryOut, Pairs
<1>2. CASE RTorrentClose(c)
  <2>1. Current(c) \in Hashes
    BY <1>0, <1>2 DEF RTorrentClose, Control, Staged, Current
  <2> QED
    BY <1>0, <1>2, <2>1 DEF RTorrentClose, Pairs
<1>3. CASE ReadInventory(c) \/ QbittorrentLook(c) \/ TransmissionLook(c) \/ DelugeLook(c) \/ DelugeStatus(c)
  BY <1>0, <1>3 DEF ReadInventory, QbittorrentLook, TransmissionLook, DelugeLook, DelugeStatus
<1>4. CASE RTorrentLook(c) \/ RTorrentDecide(c) \/ RTorrentLocate(c) \/ RTorrentRemoveData(c) \/ RTorrentErase(c) \/ RTorrentDone(c)
  BY <1>0, <1>4 DEF RTorrentLook, RTorrentDecide, RTorrentLocate, RTorrentRemoveData, RTorrentErase, RTorrentDone
<1> QED
  BY <1>1, <1>2, <1>3, <1>4 DEF Adapter

LEMMA TypeInit == Init => TypeOK /\ Reporting
<1> SUFFICES ASSUME Init PROVE TypeOK /\ Reporting
  OBVIOUS
<1>1. fleet = [c \in Clients |-> fleet[c]] /\ \A c \in Clients : Held(c) \subseteq Hashes /\ fleet[c] \in [Held(c) -> Torrent]
  BY RemovalAssumption DEF Init, Held
<1>2. kind \in [Clients -> Kinds] /\ policy \in [Clients -> Policies]
  BY RemovalAssumption DEF Init
<1>3. TypeOK
  BY <1>1, <1>2 DEF Init, TypeOK
<1>4. \A c \in Clients : \A h \in Held(c) : fleet[c][h].state \in States(c)
  <2>1. \A c \in Clients : \A h \in Held(c) : fleet[c][h].state \in {"open", "closed", "bare", "empty"}
    BY <1>1 DEF Torrent
  <2> QED
    BY <2>1 DEF Init, States
<1> QED
  BY <1>3, <1>4 DEF Init, Reporting

LEMMA TypeStep ==
  ASSUME TypeOK, Reporting, Control, [Next]_vars
  PROVE  TypeOK' /\ Reporting'
<1>0. /\ step \in [Clients -> Stages] /\ left \in [Clients -> SUBSET Hashes]
      /\ found \in [Clients -> SUBSET (Hashes \X Skips)] /\ results \subseteq Records
      /\ kind \in [Clients -> Kinds] /\ policy \in [Clients -> Policies]
      /\ pc \in {"idle", "reading", "rechecking", "removing", "done"}
      /\ request \subseteq Hashes /\ dry \in BOOLEAN /\ DOMAIN inv = Clients
      /\ touched \subseteq Pairs /\ moved \subseteq Pairs
  BY DEF TypeOK, Stages, Records, Reporting
<1> DEFINE Rest == /\ step' \in [Clients -> Stages] /\ left' \in [Clients -> SUBSET Hashes]
                   /\ found' \in [Clients -> SUBSET (Hashes \X Skips)] /\ results' \subseteq Records
                   /\ kind' \in [Clients -> Kinds] /\ policy' \in [Clients -> Policies]
                   /\ pc' \in {"idle", "reading", "rechecking", "removing", "done"}
                   /\ request' \subseteq Hashes /\ dry' \in BOOLEAN /\ DOMAIN inv' = Clients
                   /\ touched' \subseteq Pairs /\ moved' \subseteq Pairs
<1>1. ASSUME Start PROVE Rest
  BY <1>0, <1>1, RemovalAssumption DEF Start
<1>2. ASSUME AssessFleet \/ RecheckSkip \/ RecheckList \/ RecheckInventory \/ RecheckFinal \/ Gather PROVE Rest
  BY <1>0, <1>2 DEF AssessFleet, RecheckSkip, RecheckList, RecheckInventory, RecheckFinal, Gather
<1>3. ASSUME Authorize PROVE Rest
  <2>1. CASE evidence.complete
    BY <1>0, <1>3, <2>1 DEF Authorize, Stages
  <2>2. CASE ~evidence.complete
    <3>1. Unverifiable(None) \subseteq Records
      <4>1. \A h \in request : Result(None, h, "unknown", "ownership_unverifiable", FALSE) \in Records
        BY <1>0, ResultType DEF Records, Existences, Skips, SafetyReasons
      <4> QED
        BY <4>1 DEF Unverifiable
    <3> QED
      BY <1>0, <1>3, <2>2, <3>1 DEF Authorize
  <2> QED
    BY <2>1, <2>2
<1>4. ASSUME Return PROVE Rest
  BY <1>0, <1>4 DEF Return
<1>5. ASSUME NEW c \in Clients, Adapter(c) PROVE Rest
  <2>1. DOMAIN inv' = Clients
    BY <1>0, <1>5, AdapterFrame DEF ReadInventory
  <2> QED
    BY <1>0, <1>5, <2>1, AdapterFrame, AdapterType, TouchedType
<1>6. ASSUME NEW c \in Clients, NEW h \in Hashes, User(c, h) PROVE Rest
  BY <1>0, <1>6, UserFrame DEF Pairs
<1>7. ASSUME UNCHANGED vars PROVE Rest
  BY <1>0, <1>7 DEF vars
<1>8. Rest
  BY <1>1, <1>2, <1>3, <1>4, <1>5, <1>6, <1>7 DEF Next, Fleet
<1> QED
  BY <1>8, FleetTypeStep DEF TypeOK, Reporting, FleetOK, Stages, Records

LEMMA ControlInit == Init => Control
BY DEF Init, Control, Staged, OneByOne, FoundHashes

\* A client that ends, or goes on from hashes it was asked for, stays staged.
LEMMA StagedDone ==
  ASSUME TypeOK, NEW c \in Clients, Staged(c), Goto(c, "done"), UNCHANGED <<left, found, request, kind, dry>>
  PROVE  Staged(c)'
<1>1. step'[c] = "done"
  BY DEF TypeOK, Goto
<1> QED
  BY <1>1 DEF Staged, OneByOne, FoundHashes

LEMMA StagedRemove ==
  ASSUME TypeOK, NEW c \in Clients, Goto(c, "remove"), UNCHANGED <<request, kind, dry>>, kind[c] # "rtorrent",
         FoundHashes(c)' \subseteq request, left'[c] \subseteq request
  PROVE  Staged(c)'
<1>1. step'[c] = "remove"
  BY DEF TypeOK, Goto
<1> QED
  BY <1>1 DEF Staged, OneByOne

LEMMA StagedSettle ==
  ASSUME TypeOK, NEW c \in Clients, Staged(c), left[c] # {}, kind[c] = "rtorrent",
         NEW reason, Settle(c, reason), UNCHANGED <<request, kind, dry>>
  PROVE  Staged(c)'
<1>1. step'[c] = "decide" /\ left'[c] = left[c] \ {Current(c)} /\ found'[c] = found[c] \union {<<Current(c), reason>>}
  BY DEF TypeOK, Goto, Settle
<1>2. Current(c) \in left[c]
  BY DEF Current
<1>3. FoundHashes(c)' \subseteq FoundHashes(c) \union {Current(c)}
  <2>1. \A f \in found'[c] : f[1] \in FoundHashes(c) \union {Current(c)}
    BY <1>1 DEF FoundHashes
  <2> QED
    BY <2>1 DEF FoundHashes
<1> QED
  BY <1>1, <1>2, <1>3 DEF Staged, OneByOne

LEMMA AdapterStaged ==
  ASSUME TypeOK, NEW c \in Clients, Staged(c), Adapter(c)
  PROVE  Staged(c)'
<1>0. UNCHANGED <<request, kind, dry>>
  BY AdapterFrame
<1>1. CASE ReadInventory(c)
  BY <1>1 DEF ReadInventory, Staged, FoundHashes
<1>2. CASE QbittorrentLook(c)
  <2>1. CASE Raised(c) /\ UNCHANGED <<found, left>>
    BY <1>0, <2>1, StagedDone DEF Raised
  <2>2. ASSUME NEW ready \in BOOLEAN, Goto(c, "remove"), kind[c] = "qbittorrent",
                  found' = [found EXCEPT ![c] = {<<h, QbittorrentReason(c, h, ready)>> : h \in request \cap Held(c)}],
                  left' = [left EXCEPT ![c] = {h \in request \cap Held(c) : QbittorrentReason(c, h, ready) = None}]
        PROVE  Staged(c)'
    <3>1. left'[c] \subseteq request \cap Held(c)
      BY <2>2 DEF TypeOK
    <3>2. found'[c] = {<<h, QbittorrentReason(c, h, ready)>> : h \in request \cap Held(c)}
      BY <2>2 DEF TypeOK
    <3>3. FoundHashes(c)' \subseteq request \cap Held(c)
      BY <3>2 DEF FoundHashes
    <3>4. request \cap Held(c) \subseteq request /\ kind[c] # "rtorrent"
      BY <2>2
    <3> QED
      BY <1>0, <2>2, <3>1, <3>3, <3>4, StagedRemove
  <2> QED
    BY <1>2, <2>1, <2>2 DEF QbittorrentLook
<1>3. CASE TransmissionLook(c)
  <2>1. CASE Raised(c) /\ UNCHANGED <<found, left>>
    BY <1>0, <2>1, StagedDone DEF Raised
  <2>2. ASSUME NEW ready \in BOOLEAN, Goto(c, "remove"), kind[c] = "transmission",
                  found' = [found EXCEPT ![c] = {<<h, TransmissionReason(c, h, ready)>> : h \in request \cap Held(c)}],
                  left' = [left EXCEPT ![c] = {h \in request \cap Held(c) : TransmissionReason(c, h, ready) = None}]
        PROVE  Staged(c)'
    <3>1. left'[c] \subseteq request \cap Held(c)
      BY <2>2 DEF TypeOK
    <3>2. found'[c] = {<<h, TransmissionReason(c, h, ready)>> : h \in request \cap Held(c)}
      BY <2>2 DEF TypeOK
    <3>3. FoundHashes(c)' \subseteq request \cap Held(c)
      BY <3>2 DEF FoundHashes
    <3>4. request \cap Held(c) \subseteq request /\ kind[c] # "rtorrent"
      BY <2>2
    <3> QED
      BY <1>0, <2>2, <3>1, <3>3, <3>4, StagedRemove
  <2> QED
    BY <1>3, <2>1, <2>2 DEF TransmissionLook
<1>4. CASE DelugeLook(c)
  <2>1. CASE Raised(c) /\ UNCHANGED left
    BY <1>0, <1>4, <2>1, StagedDone DEF Raised, DelugeLook
  <2>2. CASE left' = [left EXCEPT ![c] = request \cap Held(c)] /\ Goto(c, "status")
    BY <1>4, <2>2 DEF DelugeLook, Goto, TypeOK, Staged, FoundHashes, OneByOne
  <2> QED
    BY <1>4, <2>1, <2>2 DEF DelugeLook
<1>5. CASE DelugeStatus(c)
  <2>1. CASE Raised(c) /\ UNCHANGED <<found, left>>
    BY <1>0, <2>1, StagedDone DEF Raised
  <2>2. ASSUME NEW ready \in BOOLEAN, NEW read \in BOOLEAN, Goto(c, "remove"),
                  found' = [found EXCEPT ![c] = {<<h, DelugeReason(c, h, ready /\ read, read)>> : h \in left[c]}],
                  left' = [left EXCEPT ![c] = {h \in @ : DelugeReason(c, h, ready /\ read, read) = None}]
        PROVE  Staged(c)'
    <3>1. left'[c] \subseteq left[c]
      BY <2>2 DEF TypeOK
    <3>2. found'[c] = {<<h, DelugeReason(c, h, ready /\ read, read)>> : h \in left[c]}
      BY <2>2 DEF TypeOK
    <3>3. FoundHashes(c)' \subseteq left[c]
      BY <3>2 DEF FoundHashes
    <3>4. left[c] \subseteq request /\ kind[c] # "rtorrent"
      BY <1>5 DEF DelugeStatus, Staged
    <3> QED
      BY <1>0, <2>2, <3>1, <3>3, <3>4, StagedRemove
  <2> QED
    BY <1>5, <2>1, <2>2 DEF DelugeStatus
<1>6. CASE RemoveCall(c)
  <2>1. Goto(c, "done") /\ UNCHANGED <<left, found>>
    BY <1>6 DEF RemoveCall, Raised
  <2> QED
    BY <1>0, <2>1, StagedDone
<1>7. CASE RTorrentLook(c)
  <2>1. CASE Goto(c, "done") /\ UNCHANGED <<left, found>>
    BY <1>0, <2>1, StagedDone
  <2>2. CASE left' = [left EXCEPT ![c] = request \cap Held(c)] /\ Goto(c, "decide")
    BY <1>7, <2>2 DEF RTorrentLook, Goto, TypeOK, Staged, FoundHashes, OneByOne
  <2> QED
    BY <1>7, <2>1, <2>2 DEF RTorrentLook, Raised
<1>8. CASE RTorrentDecide(c)
  <2>1. kind[c] = "rtorrent" /\ left[c] # {}
    BY <1>8 DEF RTorrentDecide, Staged, OneByOne
  <2>2. CASE Raised(c) /\ UNCHANGED <<left, found>>
    BY <1>0, <2>2, StagedDone DEF Raised
  <2>3. CASE \E reason : Settle(c, reason)
    BY <1>0, <2>1, <2>3, StagedSettle
  <2>4. CASE Goto(c, "locate") /\ UNCHANGED <<left, found>>
    BY <1>0, <2>1, <2>4 DEF Goto, TypeOK, Staged, FoundHashes, OneByOne
  <2> QED
    BY <1>8, <2>2, <2>3, <2>4 DEF RTorrentDecide
<1>9. CASE RTorrentLocate(c)
  <2>1. kind[c] = "rtorrent" /\ left[c] # {}
    BY <1>9 DEF RTorrentLocate, Staged, OneByOne
  <2>2. CASE \E reason : Settle(c, reason)
    BY <1>0, <2>1, <2>2, StagedSettle
  <2>3. CASE ~dry /\ Goto(c, "close") /\ UNCHANGED <<left, found>>
    BY <1>0, <2>1, <2>3 DEF Goto, TypeOK, Staged, FoundHashes, OneByOne
  <2> QED
    BY <1>9, <2>2, <2>3 DEF RTorrentLocate
<1>10. CASE RTorrentClose(c) \/ RTorrentRemoveData(c)
  <2>1. kind[c] = "rtorrent" /\ left[c] # {} /\ ~dry /\ UNCHANGED <<left, found>>
    BY <1>10 DEF RTorrentClose, RTorrentRemoveData, Staged, OneByOne
  <2>2. CASE Goto(c, "done")
    BY <1>0, <2>1, <2>2, StagedDone
  <2>3. CASE Goto(c, "rm") \/ Goto(c, "erase")
    BY <1>0, <2>1, <2>3 DEF Goto, TypeOK, Staged, FoundHashes, OneByOne
  <2> QED
    BY <1>10, <2>2, <2>3 DEF RTorrentClose, RTorrentRemoveData, Raised
<1>11. CASE RTorrentErase(c)
  <2>1. kind[c] = "rtorrent" /\ left[c] # {}
    BY <1>11 DEF RTorrentErase, Staged, OneByOne
  <2>2. CASE Raised(c) /\ UNCHANGED <<left, found>>
    BY <1>0, <2>2, StagedDone DEF Raised
  <2>3. CASE Settle(c, None)
    BY <1>0, <2>1, <2>3, StagedSettle
  <2> QED
    BY <1>11, <2>2, <2>3 DEF RTorrentErase
<1>12. CASE RTorrentDone(c)
  BY <1>0, <1>12, StagedDone DEF RTorrentDone
<1> QED
  BY <1>1, <1>2, <1>3, <1>4, <1>5, <1>6, <1>7, <1>8, <1>9, <1>10, <1>11, <1>12 DEF Adapter

LEMMA ControlStep ==
  ASSUME TypeOK, Reporting, Control, [Next]_vars
  PROVE  Control'
<1>0. Len(Order) \in Nat
  BY OrderType
<1>9. \A c \in Clients : Staged(c)
  BY DEF Control
<1>1. ASSUME Start PROVE Control'
  <2>1. pc = "idle" /\ pc' = "reading"
        /\ UNCHANGED <<fleet, kind, inv, evidence, turn, stage, listed, step, left, found, results, touched, hit>>
    BY <1>1 DEF Start
  <2>2. ASSUME NEW c \in Clients PROVE Staged(c)'
    <3>1. step[c] = "done" /\ left[c] = {} /\ found[c] = {}
      BY <2>1 DEF Control
    <3> QED
      BY <2>1, <3>1 DEF Staged, FoundHashes, OneByOne
  <2> QED
    BY <2>1, <2>2 DEF Control
<1>2. ASSUME \/ AssessFleet \/ RecheckSkip \/ RecheckList \/ RecheckInventory \/ RecheckFinal
      PROVE  Control'
  <2>1. /\ UNCHANGED <<kind, request, dry, step, left, found, results, touched, hit>>
        /\ pc \in {"reading", "rechecking"} /\ pc' = "rechecking"
    BY <1>2 DEF AssessFleet, RecheckSkip, RecheckList, RecheckInventory, RecheckFinal
  <2>2. \A c \in Clients : Staged(c)'
    BY <1>9, <2>1 DEF Staged, FoundHashes
  <2>3. turn' \in Nat \ {0}
    BY <1>2 DEF AssessFleet, RecheckSkip, RecheckList, RecheckInventory, RecheckFinal, NextTarget, Control
  <2>4. stage' # "list" => turn' <= Len(Order) /\ evidence'.complete
    BY <1>2 DEF AssessFleet, RecheckSkip, RecheckList, RecheckInventory, RecheckFinal, NextTarget, Control
  <2> QED
    BY <2>1, <2>2, <2>3, <2>4 DEF Control
<1>3. ASSUME Authorize PROVE Control'
  <2>1. /\ UNCHANGED <<kind, request, dry, left, found, evidence, turn, stage>>
        /\ pc = "rechecking" /\ turn > Len(Order)
    BY <1>3 DEF Authorize
  <2>2. stage = "list"
    BY <1>0, <2>1 DEF Control
  <2>3. ASSUME NEW c \in Clients PROVE Staged(c)'
    <3>1. left[c] = {} /\ found[c] = {} /\ step'[c] \in {"look", "done"}
      BY <1>3, <2>1 DEF Control, Authorize
    <3> QED
      BY <2>1, <3>1 DEF Staged, FoundHashes, OneByOne
  <2>4. CASE evidence.complete
    <3>1. pc' = "removing"
      BY <1>3, <2>4 DEF Authorize
    <3> QED
      BY <2>1, <2>2, <2>3, <2>4, <3>1 DEF Control
  <2>5. CASE ~evidence.complete
    <3>1. pc' = "done" /\ UNCHANGED step
      BY <1>3, <2>5 DEF Authorize
    <3> QED
      BY <2>1, <2>2, <2>3, <3>1 DEF Control
  <2> QED
    BY <2>4, <2>5
<1>4. ASSUME Gather PROVE Control'
  <2>1. /\ UNCHANGED <<kind, request, dry, step, left, found, results, touched, hit, evidence, turn, stage>>
        /\ pc = "removing" /\ pc' = "done" /\ \A c \in Clients : step[c] = "done"
    BY <1>4 DEF Gather
  <2>2. \A c \in Clients : Staged(c)'
    BY <1>9, <2>1 DEF Staged, FoundHashes
  <2> QED
    BY <2>1, <2>2 DEF Control
<1>5. ASSUME Return PROVE Control'
  <2>1. \A c \in Clients : step'[c] = "done" /\ left'[c] = {} /\ found'[c] = {} /\ inv'[c] = Unread
    BY <1>5 DEF Return, Control
  <2>2. \A c \in Clients : Staged(c)'
    BY <2>1 DEF Staged, FoundHashes, OneByOne
  <2> QED
    BY <1>5, <2>1, <2>2 DEF Control, Return
<1>6. ASSUME NEW c \in Clients, Adapter(c) PROVE Control'
  <2>1. /\ UNCHANGED <<kind, policy, pc, request, dry, evidence, turn, stage, listed, moved>>
        /\ ~ReadInventory(c) => pc = "removing"
        /\ \A d \in Clients \ {c} : step'[d] = step[d] /\ left'[d] = left[d] /\ found'[d] = found[d]
    BY <1>6, AdapterFrame
  <2>2. ASSUME NEW d \in Clients PROVE Staged(d)'
    <3>1. CASE d = c
      BY <1>6, <1>9, <3>1, AdapterStaged
    <3>2. CASE d # c
      <4>1. step'[d] = step[d] /\ left'[d] = left[d] /\ found'[d] = found[d]
        BY <2>1, <3>2
      <4> QED
        BY <1>9, <2>1, <4>1 DEF Staged, FoundHashes
    <3> QED
      BY <3>1, <3>2
  <2>3. CASE ReadInventory(c)
    <3>1. pc = "reading" /\ UNCHANGED <<step, left, found, results, touched, hit>>
      BY <2>3 DEF ReadInventory
    <3> QED
      BY <2>1, <2>2, <3>1 DEF Control
  <2>4. CASE pc = "removing"
    BY <2>1, <2>2, <2>4 DEF Control
  <2> QED
    BY <2>1, <2>3, <2>4
<1>7. ASSUME NEW c \in Clients, NEW h \in Hashes, User(c, h) PROVE Control'
  <2>1. UNCHANGED <<kind, policy, pc, request, dry, inv, evidence, turn, stage, listed, step, left, found,
                        results, seen, touched, hit>>
    BY <1>7, UserFrame
  <2> QED
    BY <2>1 DEF Control, Staged, FoundHashes
<1>8. ASSUME UNCHANGED vars PROVE Control'
  BY <1>8 DEF vars, Control, Staged, FoundHashes
<1> QED
  BY <1>1, <1>2, <1>3, <1>4, <1>5, <1>6, <1>7, <1>8 DEF Next, Fleet

Shape == TypeOK /\ Reporting /\ Control

\* Throughout a removal every variable has its type: a client holds known hashes
\* at known places, and a result names a known client and reason.
THEOREM TypeCorrect == Spec => []TypeOK
<1>1. Init => Shape
  BY TypeInit, ControlInit DEF Shape
<1>2. Shape /\ [Next]_vars => Shape'
  BY TypeStep, ControlStep DEF Shape
<1>3. Shape => TypeOK
  BY DEF Shape
<1> QED
  BY <1>1, <1>2, <1>3, PTL DEF Spec

-----------------------------------------------------------------------------
(* The fleet, and what the inventories saw of it.                          *)

\* A torrent no user added or moved stays where it was, and only this removal closes it.
FleetKept ==
  \A c \in Clients : \A h \in Held(c)' :
    \/ <<c, h>> \in moved'
    \/ /\ h \in Held(c) /\ fleet'[c][h].at = fleet[c][h].at
       /\ fleet'[c][h].state = fleet[c][h].state \/ <<c, h>> \in touched'

LEMMA FleetStep ==
  ASSUME Shape, [Next]_vars
  PROVE  FleetKept
<1>0. DOMAIN fleet = Clients /\ \A c \in Clients : fleet[c] = [h \in Held(c) |-> fleet[c][h]]
  BY DEF Shape, TypeOK, Held
<1>1. ASSUME UNCHANGED fleet PROVE FleetKept
  BY <1>1 DEF FleetKept, Held
<1>2. ASSUME NEW c \in Clients, NEW hs, fleet' = Without(c, hs) PROVE FleetKept
  <2>1. /\ \A d \in Clients \ {c} : fleet'[d] = fleet[d]
        /\ fleet'[c] = [h \in Held(c) \ hs |-> fleet[c][h]]
    BY <1>0, <1>2 DEF Without
  <2>2. ASSUME NEW d \in Clients, NEW h \in Held(d)' PROVE h \in Held(d) /\ fleet'[d][h] = fleet[d][h]
    <3>1. CASE d = c
      BY <2>1, <2>2, <3>1 DEF Held
    <3>2. CASE d # c
      BY <2>1, <2>2, <3>2 DEF Held
    <3> QED
      BY <3>1, <3>2
  <2> QED
    BY <2>2 DEF FleetKept
<1>3. ASSUME NEW c \in Clients, NEW h, <<c, h>> \in moved', \A d \in Clients \ {c} : fleet'[d] = fleet[d],
             DOMAIN fleet'[c] \subseteq Held(c) \union {h}, \A k \in Held(c) \ {h} : fleet'[c][k] = fleet[c][k]
      PROVE  FleetKept
  BY <1>3 DEF FleetKept, Held
<1>4. CASE Fleet
  BY <1>1, <1>4 DEF Fleet, Start, AssessFleet, RecheckSkip, RecheckList, RecheckInventory, RecheckFinal, Authorize, Gather, Return
<1>5. ASSUME NEW c \in Clients, Adapter(c) PROVE FleetKept
  <2>1. CASE RTorrentClose(c)
    <3> DEFINE h == Current(c)
    <3>1. CASE UNCHANGED fleet
      BY <1>1, <3>1
    <3>2. CASE h \in Held(c) /\ fleet' = [fleet EXCEPT ![c][h].state = "closed"] /\ <<c, h>> \in touched'
      <4>1. /\ \A d \in Clients \ {c} : fleet'[d] = fleet[d]
            /\ DOMAIN fleet'[c] = Held(c)
            /\ \A k \in Held(c) \ {h} : fleet'[c][k] = fleet[c][k]
            /\ fleet'[c][h] = [fleet[c][h] EXCEPT !.state = "closed"]
        BY <1>0, <3>2 DEF Held
      <4>2. fleet'[c][h].at = fleet[c][h].at
        <5>1. fleet[c][h] \in Torrent
          BY <3>2 DEF Shape, TypeOK
        <5> QED
          BY <4>1, <5>1 DEF Torrent
      <4> HIDE DEF h
      <4>3. ASSUME NEW d \in Clients, NEW k \in Held(d)'
            PROVE  /\ k \in Held(d) /\ fleet'[d][k].at = fleet[d][k].at
                   /\ fleet'[d][k].state = fleet[d][k].state \/ <<d, k>> \in touched'
        <5>1. CASE d = c /\ k = h
          BY <3>2, <4>2, <5>1
        <5>2. CASE d = c /\ k # h
          BY <4>1, <4>3, <5>2 DEF Held
        <5>3. CASE d # c
          BY <4>1, <4>3, <5>3 DEF Held
        <5> QED
          BY <5>1, <5>2, <5>3
      <4> QED
        BY <4>3 DEF FleetKept
    <3> QED
      BY <2>1, <3>1, <3>2 DEF RTorrentClose, Has
  <2>2. CASE RemoveCall(c)
    BY <1>1, <1>2, <2>2 DEF RemoveCall, CarryOut
  <2>3. CASE RTorrentErase(c)
    BY <1>1, <1>2, <2>3 DEF RTorrentErase
  <2>4. CASE ReadInventory(c) \/ QbittorrentLook(c) \/ TransmissionLook(c) \/ DelugeLook(c) \/ DelugeStatus(c)
    BY <1>1, <2>4 DEF ReadInventory, QbittorrentLook, TransmissionLook, DelugeLook, DelugeStatus
  <2>5. CASE RTorrentLook(c) \/ RTorrentDecide(c) \/ RTorrentLocate(c) \/ RTorrentRemoveData(c) \/ RTorrentDone(c)
    BY <1>1, <2>5 DEF RTorrentLook, RTorrentDecide, RTorrentLocate, RTorrentRemoveData, RTorrentDone
  <2> QED
    BY <1>5, <2>1, <2>2, <2>3, <2>4, <2>5 DEF Adapter
<1>6. ASSUME NEW c \in Clients, NEW h \in Hashes, User(c, h) PROVE FleetKept
  <2>0. <<c, h>> \in moved'
    BY <1>6 DEF User, UserAdds, UserMoves, UserRemoves
  <2>1. CASE UserAdds(c, h)
    <3>1. PICK t : fleet' = [fleet EXCEPT ![c] = [k \in Held(c) \union {h} |-> IF k = h THEN t ELSE fleet[c][k]]]
      BY <2>1 DEF UserAdds
    <3>2. /\ \A d \in Clients \ {c} : fleet'[d] = fleet[d]
          /\ fleet'[c] = [k \in Held(c) \union {h} |-> IF k = h THEN t ELSE fleet[c][k]]
      BY <1>0, <3>1
    <3> QED
      BY <1>3, <2>0, <3>2
  <2>2. CASE UserMoves(c, h)
    <3>1. PICK p : fleet' = [fleet EXCEPT ![c][h].at = p]
      BY <2>2 DEF UserMoves
    <3>2. /\ \A d \in Clients \ {c} : fleet'[d] = fleet[d]
          /\ DOMAIN fleet'[c] = Held(c)
          /\ \A k \in Held(c) \ {h} : fleet'[c][k] = fleet[c][k]
      BY <1>0, <3>1 DEF Held
    <3> QED
      BY <1>3, <2>0, <3>2
  <2>3. CASE UserRemoves(c, h)
    BY <1>2, <2>3 DEF UserRemoves
  <2> QED
    BY <1>6, <2>1, <2>2, <2>3 DEF User
<1>7. CASE UNCHANGED vars
  BY <1>1, <1>7 DEF vars
<1> QED
  BY <1>4, <1>5, <1>6, <1>7 DEF Next

\* What a removal remembers of the users' and its own acts.
LEMMA Remembered ==
  ASSUME Shape, [Next]_vars
  PROVE  /\ ~Start => moved \subseteq moved'
         /\ ~Return => touched \subseteq touched'
         /\ kind' = kind
         /\ pc # "idle" => (dry' = dry /\ request' = request) \/ Return
<1>1. CASE Fleet
  BY <1>1 DEF Fleet, Start, AssessFleet, RecheckSkip, RecheckList, RecheckInventory, RecheckFinal, Authorize, Gather, Return
<1>2. ASSUME NEW c \in Clients, Adapter(c)
      PROVE  moved \subseteq moved' /\ touched \subseteq touched' /\ UNCHANGED <<kind, dry, request>>
  BY <1>2, AdapterFrame DEF Shape
<1>3. ASSUME NEW c \in Clients, NEW h \in Hashes, User(c, h)
      PROVE  moved \subseteq moved' /\ touched \subseteq touched' /\ UNCHANGED <<kind, dry, request>>
  BY <1>3, UserFrame
<1>4. CASE UNCHANGED vars
  BY <1>4 DEF vars
<1> QED
  BY <1>1, <1>2, <1>3, <1>4 DEF Next

Readable(c) == inv[c] \notin {Unread, Unreadable}

\* What a readable inventory says of the torrents seen by it, and of those held since.
Explained(c) ==
  \A s \in seen : s[1] = c => \E t \in inv[c].scopes : t.hash = s[2] /\ (t.paths = {s[3]} \/ t.paths = {Parent(s[3])})
Described(c) ==
  \A h \in Held(c) : <<c, h>> \notin moved =>
    \E s \in inv[c].scopes :
      /\ s.hash = h
      /\ s.paths # {} /\ ~s.uncertain => s.paths = {At(<<c, h>>)}
      /\ <<c, h>> \notin touched /\ fleet[c][h].state = "closed" => s.closed

Sighted ==
  /\ seen \subseteq Clients \X Hashes \X Places
  /\ \A c \in Clients :
       /\ inv[c] = Unread => \A s \in seen : s[1] # c
       /\ Readable(c) => IsFiniteSet(inv[c].scopes) /\ Explained(c) /\ Described(c)

\* A fresh inventory says it of the torrents the client holds now.
LEMMA InventoryIs ==
  ASSUME Shape, NEW c \in Clients
  PROVE  /\ SeenNow(c) \subseteq {c} \X Hashes \X Places
         /\ InventoryOf(c) \in Inventories /\ IsFiniteSet(InventoryOf(c).scopes)
         /\ \A s \in SeenNow(c) : \E t \in InventoryOf(c).scopes :
              t.hash = s[2] /\ (t.paths = {s[3]} \/ t.paths = {Parent(s[3])})
         /\ \A h \in Held(c) : \E s \in InventoryOf(c).scopes :
              /\ s.hash = h
              /\ s.paths # {} /\ ~s.uncertain => s.paths = {At(<<c, h>>)}
              /\ fleet[c][h].state = "closed" => s.closed
<1>1. /\ Held(c) \subseteq Hashes /\ IsFiniteSet(Held(c))
      /\ \A h \in Held(c) : /\ fleet[c][h].at \in Places
                            /\ fleet[c][h].state \in States(c)
  <2>1. Held(c) \subseteq Hashes /\ fleet[c] \in [Held(c) -> Torrent]
    BY DEF Shape, TypeOK
  <2>2. \A h \in Held(c) : fleet[c][h] \in Torrent
    BY <2>1
  <2> QED
    BY <2>1, <2>2, FS_Subset, RemovalAssumption DEF Shape, Reporting, Torrent
<1>2. ASSUME NEW h \in Held(c)
      PROVE  /\ ScopeOf(c, h) \in [hash : Hashes, paths : SUBSET Seq(STRING), uncertain : BOOLEAN, closed : BOOLEAN]
             /\ ScopeOf(c, h).hash = h
             /\ ScopeOf(c, h).paths # {} /\ ~ScopeOf(c, h).uncertain => ScopeOf(c, h).paths = {fleet[c][h].at}
             /\ fleet[c][h].state = "closed" => ScopeOf(c, h).closed
             /\ fleet[c][h].state # "empty" =>
                  ScopeOf(c, h).paths = {fleet[c][h].at} \/ ScopeOf(c, h).paths = {Parent(fleet[c][h].at)}
  <2> DEFINE t == fleet[c][h]
  <2>1. h \in Hashes /\ t.at \in Seq(STRING) /\ Parent(t.at) \in Seq(STRING)
    BY <1>1, <1>2, ParentIsPrefix, RemovalAssumption
  <2>2. CASE kind[c] = "rtorrent"
    <3>1. t.state \in {"open", "closed", "bare"}
      BY <1>1, <2>2 DEF States
    <3>2. ScopeOf(c, h) = RTorrentScope(h, t)
      BY <2>2 DEF ScopeOf
    <3>3. CASE t.state = "open"
      BY <2>1, <3>2, <3>3 DEF RTorrentScope, Scope
    <3>4. CASE t.state = "closed"
      BY <2>1, <3>2, <3>4 DEF RTorrentScope, Scope
    <3>5. CASE t.state = "bare"
      BY <2>1, <3>2, <3>5 DEF RTorrentScope, Scope
    <3> QED
      BY <3>1, <3>3, <3>4, <3>5
  <2>3. CASE kind[c] # "rtorrent"
    <3>1. t.state \in {"open", "bare", "empty"}
      BY <1>1, <2>3 DEF States
    <3>2. ScopeOf(c, h) = ListedScope(h, t)
      BY <2>3 DEF ScopeOf
    <3>3. CASE t.state = "open"
      BY <2>1, <3>2, <3>3 DEF ListedScope, Scope
    <3>4. CASE t.state = "empty"
      BY <2>1, <3>2, <3>4 DEF ListedScope, Scope
    <3>5. CASE t.state = "bare"
      BY <2>1, <3>2, <3>5 DEF ListedScope, Scope
    <3> QED
      BY <3>1, <3>3, <3>4, <3>5
  <2> QED
    BY <2>2, <2>3
<1>3. InventoryOf(c).scopes = {ScopeOf(c, h) : h \in Held(c)}
  BY DEF InventoryOf
<1>4. IsFiniteSet(InventoryOf(c).scopes)
  <2> DEFINE f == [h \in Held(c) |-> ScopeOf(c, h)]
  <2>1. IsFiniteSet({f[h] : h \in Held(c)})
    BY <1>1, FiniteImage
  <2>2. {f[h] : h \in Held(c)} = InventoryOf(c).scopes
    BY <1>3
  <2> QED
    BY <2>1, <2>2
<1>5. InventoryOf(c) \in Inventories
  <2>1. InventoryOf(c).scopes \subseteq [hash : Hashes, paths : SUBSET Seq(STRING), uncertain : BOOLEAN, closed : BOOLEAN]
    BY <1>2, <1>3
  <2> QED
    BY <1>3, <2>1 DEF InventoryOf, Inventories
<1>6. SeenNow(c) \subseteq {c} \X Hashes \X Places
  BY <1>1 DEF SeenNow
<1>7. ASSUME NEW s \in SeenNow(c)
      PROVE \E t \in InventoryOf(c).scopes : t.hash = s[2] /\ (t.paths = {s[3]} \/ t.paths = {Parent(s[3])})
  <2>1. PICK h \in Held(c) : s = <<c, h, fleet[c][h].at>> /\ fleet[c][h].state # "empty"
    BY <1>7 DEF SeenNow
  <2> QED
    BY <1>2, <1>3, <2>1
<1>8. ASSUME NEW h \in Held(c)
      PROVE  \E s \in InventoryOf(c).scopes :
              /\ s.hash = h
              /\ s.paths # {} /\ ~s.uncertain => s.paths = {At(<<c, h>>)}
              /\ fleet[c][h].state = "closed" => s.closed
  <2>1. At(<<c, h>>) = fleet[c][h].at
    BY DEF At
  <2> QED
    BY <1>2, <1>3, <1>8, <2>1
<1> QED
  BY <1>4, <1>5, <1>6, <1>7, <1>8

LEMMA SightedStep ==
  ASSUME Shape, Sighted, [Next]_vars
  PROVE  Sighted'
<1>0. DOMAIN inv = Clients /\ FleetKept /\ DOMAIN fleet' = Clients
  <2>1. DOMAIN fleet' = Clients
    BY FleetTypeStep DEF Shape, FleetOK
  <2> QED
    BY <2>1, FleetStep DEF Shape, Reporting
<1>1. Start => seen = {} /\ \A c \in Clients : inv[c] = Unread
  BY DEF Shape, Control, Start
<1> DEFINE At1(c) == /\ inv[c] = Unread => \A s \in seen : s[1] # c
                     /\ Readable(c) => IsFiniteSet(inv[c].scopes) /\ Explained(c) /\ Described(c)
\* an inventory that is not read again still describes the fleet
<1>2. ASSUME NEW c \in Clients, inv'[c] = inv[c], \A s \in seen' : s[1] = c => s \in seen,
             ~Return
      PROVE  At1(c)'
  <2>1. CASE inv[c] = Unread
    BY <1>2, <2>1 DEF Readable, Sighted
  <2>2. CASE Readable(c)
    <3>1. IsFiniteSet(inv[c].scopes) /\ Explained(c) /\ Described(c) /\ ~Start
      BY <1>1, <2>2 DEF Sighted, Readable
    <3>2. Explained(c)'
      BY <1>2, <3>1 DEF Explained
    <3>3. moved \subseteq moved' /\ touched \subseteq touched'
      BY <1>2, <3>1, Remembered
    <3>4. ASSUME NEW h \in Held(c)', <<c, h>> \notin moved'
          PROVE  \E s \in inv'[c].scopes :
                   /\ s.hash = h
                   /\ s.paths # {} /\ ~s.uncertain => s.paths = {At(<<c, h>>)'}
                   /\ <<c, h>> \notin touched' /\ fleet'[c][h].state = "closed" => s.closed
      <4>1. /\ h \in Held(c) /\ fleet'[c][h].at = fleet[c][h].at
            /\ fleet'[c][h].state = fleet[c][h].state \/ <<c, h>> \in touched'
        BY <1>0, <3>4 DEF FleetKept
      <4>2. At(<<c, h>>)' = At(<<c, h>>)
        BY <4>1 DEF At
      <4>3. <<c, h>> \notin moved
        BY <3>3, <3>4
      <4>4. PICK s \in inv[c].scopes :
                   /\ s.hash = h
                   /\ s.paths # {} /\ ~s.uncertain => s.paths = {At(<<c, h>>)}
                   /\ <<c, h>> \notin touched /\ fleet[c][h].state = "closed" => s.closed
        BY <3>1, <4>1, <4>3 DEF Described
      <4> QED
        BY <1>2, <3>3, <4>1, <4>2, <4>4
    <3>5. Described(c)'
      BY <3>4 DEF Described
    <3> QED
      BY <1>2, <2>2, <3>1, <3>2, <3>5 DEF Readable
  <2>3. CASE inv[c] # Unread /\ ~Readable(c)
    BY <1>2, <2>3 DEF Readable
  <2> QED
    BY <2>1, <2>2, <2>3
\* one that is read now does too
<1>3. ASSUME NEW c \in Clients, inv'[c] = InventoryOf(c), UNCHANGED fleet,
             \A s \in seen' : s[1] = c => s \in SeenNow(c)
      PROVE  At1(c)'
  <2>1. inv'[c] # Unread /\ IsFiniteSet(inv'[c].scopes)
    BY <1>3, InventoryIs, RemovalAssumption
  <2>2. Explained(c)'
    BY <1>3, InventoryIs DEF Explained
  <2>3. ASSUME NEW h \in Held(c)'
        PROVE  \E s \in inv'[c].scopes :
                   /\ s.hash = h
                   /\ s.paths # {} /\ ~s.uncertain => s.paths = {At(<<c, h>>)'}
                   /\ fleet'[c][h].state = "closed" => s.closed
    <3>1. h \in Held(c) /\ At(<<c, h>>)' = At(<<c, h>>)
      BY <1>3, <2>3 DEF Held, At
    <3> QED
      BY <1>3, <3>1, InventoryIs
  <2>4. Described(c)'
    BY <2>3 DEF Described
  <2> QED
    BY <2>1, <2>2, <2>4
<1>4. ASSUME NEW c \in Clients, inv'[c] = Unreadable PROVE At1(c)'
  BY <1>4, RemovalAssumption DEF Readable
<1>5. ASSUME NEW c \in Clients, ~Return,
             \A d \in Clients \ {c} : inv'[d] = inv[d] /\ \A s \in seen' : s[1] = d => s \in seen,
             seen' \subseteq Clients \X Hashes \X Places, At1(c)'
      PROVE  Sighted'
  <2>1. ASSUME NEW d \in Clients PROVE At1(d)'
    <3>1. CASE d = c
      BY <1>5, <3>1
    <3>2. CASE d # c
      BY <1>2, <1>5, <3>2
    <3> QED
      BY <3>1, <3>2
  <2> QED
    BY <1>5, <2>1 DEF Sighted
<1>6. ASSUME NEW c \in Clients, ReadInventory(c) PROVE Sighted'
  <2>1. /\ inv[c] = Unread /\ UNCHANGED fleet /\ ~Return /\ \A d \in Clients \ {c} : inv'[d] = inv[d]
    BY <1>0, <1>6 DEF ReadInventory, Return
  <2>2. \A s \in seen : s[1] # c
    BY <2>1 DEF Sighted
  <2>3. CASE inv'[c] = InventoryOf(c) /\ seen' = seen \union SeenNow(c)
    <3>1. At1(c)'
      BY <1>3, <2>1, <2>2, <2>3
    <3>2. seen' \subseteq Clients \X Hashes \X Places
      BY <2>3, InventoryIs DEF Sighted
    <3>3. \A d \in Clients \ {c} : \A s \in seen' : s[1] = d => s \in seen
      BY <2>3, InventoryIs
    <3> QED
      BY <1>5, <2>1, <3>1, <3>2, <3>3
  <2>4. CASE inv'[c] = Unreadable /\ UNCHANGED seen
    <3>1. At1(c)'
      BY <1>4, <2>4
    <3> QED
      BY <1>5, <2>1, <2>4, <3>1 DEF Sighted
  <2> QED
    BY <1>0, <1>6, <2>3, <2>4 DEF ReadInventory
<1>7. ASSUME RecheckInventory PROVE Sighted'
  <2>0. stage = "inventory" /\ UNCHANGED fleet /\ ~Return
    BY <1>7 DEF RecheckInventory, Return
  <2>1. PICK c \in Clients : c = Order[turn]
    BY <2>0, OrderType DEF Shape, Control
  <2>2. \A d \in Clients \ {c} : inv'[d] = inv[d]
    BY <1>0, <1>7, <2>1 DEF RecheckInventory
  <2>3. CASE inv'[c] = InventoryOf(c) /\ seen' = Forget(c) \union SeenNow(c)
    <3>0. \A s \in seen' : s \in SeenNow(c) \/ (s \in seen /\ s[1] # c)
      BY <2>3 DEF Forget
    <3>1. At1(c)'
      BY <1>3, <2>0, <2>1, <2>3, <3>0
    <3>2. seen' \subseteq Clients \X Hashes \X Places
      BY <2>1, <3>0, InventoryIs DEF Sighted
    <3>3. \A d \in Clients \ {c} : \A s \in seen' : s[1] = d => s \in seen
      BY <2>1, <3>0, InventoryIs
    <3> QED
      BY <1>5, <2>0, <2>1, <2>2, <3>1, <3>2, <3>3
  <2>4. CASE inv'[c] = Unreadable /\ UNCHANGED seen
    <3>1. At1(c)'
      BY <1>4, <2>1, <2>4
    <3> QED
      BY <1>5, <2>0, <2>1, <2>2, <2>4, <3>1 DEF Sighted
  <2> QED
    BY <1>0, <1>7, <2>1, <2>3, <2>4 DEF RecheckInventory
<1>8. ASSUME Return PROVE Sighted'
  BY <1>8, RemovalAssumption DEF Return, Sighted, Readable
<1>9. ASSUME UNCHANGED <<inv, seen>>, ~Return PROVE Sighted'
  BY <1>2, <1>9 DEF Sighted
<1>10. ASSUME Start \/ AssessFleet \/ RecheckSkip \/ RecheckList \/ RecheckFinal \/ Authorize \/ Gather PROVE Sighted'
  <2>1. UNCHANGED <<inv, seen>> /\ ~Return
    BY <1>10 DEF Start, AssessFleet, RecheckSkip, RecheckList, RecheckFinal, Authorize, Gather, Return
  <2> QED
    BY <1>9, <2>1
<1>11. ASSUME NEW c \in Clients, Adapter(c), ~ReadInventory(c) PROVE Sighted'
  BY <1>9, <1>11, AdapterFrame DEF Return, Shape
<1>12. ASSUME NEW c \in Clients, NEW h \in Hashes, User(c, h) PROVE Sighted'
  BY <1>9, <1>12, UserFrame DEF Return
<1>13. ASSUME UNCHANGED vars PROVE Sighted'
  <2>1. CASE Return
    BY <1>8, <2>1
  <2>2. CASE ~Return
    BY <1>9, <1>13, <2>2 DEF vars
  <2> QED
    BY <2>1, <2>2
<1> QED
  BY <1>6, <1>7, <1>8, <1>10, <1>11, <1>12, <1>13 DEF Next, Fleet

-----------------------------------------------------------------------------
(* The evidence, and what the adapters conclude from it.                   *)

Evident ==
  pc \in {"rechecking", "removing", "done"} /\ evidence.complete =>
    /\ DOMAIN evidence.invs = Clients
    /\ Judged(evidence, evidence.invs, request)
    /\ \A c \in Clients : (stage = "final" /\ c = Order[turn]) \/ evidence.invs[c] = inv[c]

LEMMA EvidentStep ==
  ASSUME Shape, Evident, [Next]_vars
  PROVE  Evident'
<1>0. ~Incomplete.complete /\ DOMAIN inv = Clients
  BY DEF Incomplete, Shape, Reporting
<1>1. ASSUME Start \/ Return PROVE Evident'
  BY <1>1 DEF Start, Return, Evident
<1>2. ASSUME AssessFleet PROVE Evident'
  <2>1. evidence' = Assess(inv, request, {}) /\ UNCHANGED <<inv, request>>
    BY <1>2 DEF AssessFleet
  <2>2. ASSUME evidence'.complete PROVE Judged(evidence', inv, request)
    BY <2>1, <2>2, AssessJudges
  <2>3. ASSUME evidence'.complete PROVE evidence'.invs = inv
    BY <2>2, <2>3 DEF Judged
  <2> QED
    BY <1>0, <2>1, <2>2, <2>3 DEF Evident
<1>3. ASSUME RecheckSkip \/ RecheckList PROVE Evident'
  <2>1. /\ UNCHANGED <<inv, request>> /\ pc = "rechecking" /\ stage = "list" /\ stage' # "final"
        /\ evidence' = evidence \/ evidence' = Incomplete
    BY <1>3 DEF RecheckSkip, RecheckList, NextTarget
  <2>2. CASE evidence' = Incomplete
    BY <1>0, <2>2 DEF Evident
  <2>3. CASE evidence' = evidence
    BY <2>1, <2>3 DEF Evident, Judged
  <2> QED
    BY <2>1, <2>2, <2>3
<1>4. ASSUME RecheckInventory PROVE Evident'
  <2>1. /\ UNCHANGED <<request, evidence, turn>> /\ pc = "rechecking" /\ stage = "inventory" /\ stage' = "final"
    BY <1>4 DEF RecheckInventory
  <2>2. \A d \in Clients : d # Order[turn] => inv'[d] = inv[d]
    BY <1>0, <1>4 DEF RecheckInventory
  <2> QED
    BY <2>1, <2>2 DEF Evident, Judged
<1>5. ASSUME RecheckFinal PROVE Evident'
  <2>1. /\ UNCHANGED <<request, inv>> /\ pc = "rechecking" /\ stage = "final" /\ stage' = "list"
    BY <1>5 DEF RecheckFinal, NextTarget
  <2>2. evidence.complete /\ Order[turn] \in Clients
    BY <2>1, OrderType DEF Shape, Control
  <2>3. PICK c \in Clients : c = Order[turn]
    BY <2>2
  <2> DEFINE fresh == Refresh(evidence, c, inv[c], request)
             invs == [evidence.invs EXCEPT ![c] = inv[c]]
  <2>4. CASE evidence' = Incomplete
    BY <1>0, <2>4 DEF Evident
  <2>5. CASE evidence' = fresh /\ fresh.complete
    <3>1. Judged(fresh, invs, request)
      BY <2>5, RefreshJudges
    <3>2. DOMAIN invs = Clients /\ \A d \in Clients : invs[d] = inv[d]
      BY <2>1, <2>2, <2>3 DEF Evident
    <3>3. fresh.invs = invs
      BY <3>1 DEF Judged
    <3> HIDE DEF fresh, invs
    <3>4. Judged(evidence', evidence'.invs, request')
      BY <2>1, <2>5, <3>1, <3>3
    <3> QED
      BY <2>1, <2>5, <3>2, <3>3, <3>4 DEF Evident
  <2> QED
    BY <1>5, <2>3, <2>4, <2>5 DEF RecheckFinal
<1>6. ASSUME Authorize \/ Gather PROVE Evident'
  <2>1. UNCHANGED <<evidence, inv, request, stage, turn>> /\ pc \in {"rechecking", "removing"}
    BY <1>6 DEF Authorize, Gather
  <2> QED
    BY <2>1 DEF Evident, Judged
<1>7. ASSUME NEW c \in Clients, Adapter(c) PROVE Evident'
  <2>1. CASE ReadInventory(c)
    BY <2>1 DEF ReadInventory, Evident
  <2>2. CASE ~ReadInventory(c)
    <3>1. UNCHANGED <<pc, evidence, inv, request, stage, turn>>
      BY <1>7, <2>2, AdapterFrame DEF Shape
    <3> QED
      BY <3>1 DEF Evident, Judged
  <2> QED
    BY <2>1, <2>2
<1>8. ASSUME NEW c \in Clients, NEW h \in Hashes, User(c, h) PROVE Evident'
  <2>1. UNCHANGED <<pc, evidence, inv, request, stage, turn>>
    BY <1>8, UserFrame
  <2> QED
    BY <2>1 DEF Evident, Judged
<1>9. ASSUME UNCHANGED vars PROVE Evident'
  <2>1. UNCHANGED <<pc, evidence, inv, request, stage, turn>>
    BY <1>9 DEF vars
  <2> QED
    BY <2>1 DEF Evident, Judged
<1> QED
  BY <1>1, <1>2, <1>3, <1>4, <1>5, <1>6, <1>7, <1>8, <1>9 DEF Next, Fleet

\* While the clients remove, the evidence is that of the inventories read.
LEMMA EvidenceHolds ==
  ASSUME Shape, Evident, Sighted, pc \in {"removing", "done"}, evidence.complete
  PROVE  /\ Judged(evidence, evidence.invs, request) /\ IsFiniteSet(Owned(evidence.invs))
         /\ \A c \in Clients : Readable(c) /\ evidence.invs[c] = inv[c]
         /\ \A c \in Clients : \A s \in inv[c].scopes : <<c, s>> \in Owned(evidence.invs)
<1>1. stage = "list" /\ DOMAIN inv = Clients
  BY DEF Shape, Control, Reporting
<1>2. ASSUME NEW c \in Clients PROVE evidence.invs[c] = inv[c] /\ Readable(c) /\ IsFiniteSet(evidence.invs[c].scopes)
  <2>1. evidence.invs[c] = inv[c] /\ Usable(evidence.invs[c])
    BY <1>1 DEF Evident, Judged
  <2> QED
    BY <2>1 DEF Usable, Readable, Sighted
<1>3. DOMAIN evidence.invs = Clients /\ Judged(evidence, evidence.invs, request)
  BY DEF Evident
<1>4. IsFiniteSet(Owned(evidence.invs))
  BY <1>2, <1>3, OwnedIsFinite, RemovalAssumption
<1>5. \A c \in Clients : \A s \in inv[c].scopes : <<c, s>> \in Owned(evidence.invs)
  BY <1>2, <1>3 DEF Owned
<1> QED
  BY <1>2, <1>3, <1>4, <1>5

\* What a client is about to remove may go, and its place is recorded.
Allowed(c) ==
  /\ step[c] = "remove" =>
       \A h \in left[c] : /\ SafetyReason(evidence, <<c, h>>) = None
                          /\ \E e \in evidence.scopes : e[1] = <<c, h>> /\ e[2] # {}
  /\ step[c] \in {"locate", "close", "rm", "erase"} => SafetyReason(evidence, <<c, Current(c)>>) = None
  /\ step[c] \in {"close", "rm", "erase"} => \E p \in Places : ScopeMatches(evidence, <<c, Current(c)>>, p, TRUE)
  /\ \A f \in found[c] : f[2] = "seeding_policy" => SafetyReason(evidence, <<c, f[1]>>) = None

Permitted == \A c \in Clients : Allowed(c)

\* A client that is done or has found nothing has nothing to justify.
LEMMA AllowedAtRest ==
  ASSUME NEW c \in Clients, step[c] = "done", found[c] = {}
  PROVE  Allowed(c)
BY DEF Allowed

\* A torrent is kept for its seeding policy only when it may go otherwise.
LEMMA ReasonOrder ==
  ASSUME NEW c, NEW h, NEW ready, NEW read
  PROVE  /\ QbittorrentReason(c, h, ready) \in {None, "seeding_policy"} => SafetyReason(evidence, <<c, h>>) = None
         /\ TransmissionReason(c, h, ready) \in {None, "seeding_policy"} => SafetyReason(evidence, <<c, h>>) = None
         /\ DelugeReason(c, h, ready, read) \in {None, "seeding_policy"} => SafetyReason(evidence, <<c, h>>) = None
<1>1. SafetyReason(evidence, <<c, h>>) \in SafetyReasons \union {None}
  BY DEF SafetyReason, SafetyReasons
<1>2. None \notin SafetyReasons /\ "seeding_policy" \notin SafetyReasons
  BY RemovalAssumption DEF SafetyReasons
<1> QED
  BY <1>1, <1>2 DEF QbittorrentReason, TransmissionReason, DelugeReason

\* One that is removed is where its recorded scope says.
LEMMA MatchLast ==
  ASSUME NEW c, NEW h, NEW ready, NEW read
  PROVE  /\ QbittorrentReason(c, h, ready) = None => ScopeMatches(evidence, <<c, h>>, At(<<c, h>>), TRUE)
         /\ TransmissionReason(c, h, ready) = None => ScopeMatches(evidence, <<c, h>>, Parent(At(<<c, h>>)), FALSE)
         /\ DelugeReason(c, h, ready, read) = None => ScopeMatches(evidence, <<c, h>>, Parent(At(<<c, h>>)), FALSE)
<1>1. None # "ownership_unverifiable"
  BY RemovalAssumption DEF SafetyReasons
<1> QED
  BY <1>1 DEF QbittorrentReason, TransmissionReason, DelugeReason

\* A recorded scope that matches a path is not empty.
LEMMA MatchedScope ==
  ASSUME NEW x, NEW p, NEW exact \in BOOLEAN, ScopeMatches(evidence, x, p, exact)
  PROVE  \E e \in evidence.scopes : e[1] = x /\ e[2] # {} /\ (exact => e[2] = {p})
BY DEF ScopeMatches

\* The next steps of one client.
LEMMA AllowedDone ==
  ASSUME TypeOK, NEW c \in Clients, Allowed(c), Goto(c, "done"), UNCHANGED <<found, evidence>>
  PROVE  Allowed(c)'
<1>1. step'[c] = "done"
  BY DEF TypeOK, Goto
<1> QED
  BY <1>1 DEF Allowed

LEMMA AllowedRemove ==
  ASSUME TypeOK, NEW c \in Clients, Goto(c, "remove"), UNCHANGED evidence,
         \A f \in found'[c] : f[2] \in {None, "seeding_policy"} => SafetyReason(evidence, <<c, f[1]>>) = None,
         \A h \in left'[c] : <<h, None>> \in found'[c] /\ \E e \in evidence.scopes : e[1] = <<c, h>> /\ e[2] # {}
  PROVE  Allowed(c)'
<1>1. step'[c] = "remove"
  BY DEF TypeOK, Goto
<1>2. ASSUME NEW h \in left'[c]
      PROVE  /\ SafetyReason(evidence, <<c, h>>) = None
             /\ \E e \in evidence.scopes : e[1] = <<c, h>> /\ e[2] # {}
  <2>1. <<h, None>>[2] = None /\ <<h, None>>[1] = h
    OBVIOUS
  <2>2. SafetyReason(evidence, <<c, h>>) = None
    BY <1>2, <2>1
  <2> QED
    BY <1>2, <2>2
<1> QED
  BY <1>1, <1>2 DEF Allowed

LEMMA AllowedSettle ==
  ASSUME TypeOK, NEW c \in Clients, Allowed(c), UNCHANGED evidence, NEW reason, Settle(c, reason),
         reason = "seeding_policy" => SafetyReason(evidence, <<c, Current(c)>>) = None
  PROVE  Allowed(c)'
<1>1. step'[c] = "decide" /\ found'[c] = found[c] \union {<<Current(c), reason>>}
  BY DEF TypeOK, Goto, Settle
<1> QED
  BY <1>1 DEF Allowed

LEMMA AdapterAllowed ==
  ASSUME Shape, NEW c \in Clients, Allowed(c), Adapter(c)
  PROVE  Allowed(c)'
<1>0. TypeOK /\ Staged(c) /\ UNCHANGED evidence
  BY AdapterFrame DEF Shape, Control
<1>1. CASE ReadInventory(c)
  BY <1>0, <1>1 DEF ReadInventory, Allowed, Current
<1>2. CASE QbittorrentLook(c)
  <2>1. CASE Raised(c) /\ UNCHANGED <<found, left>>
    BY <1>0, <2>1, AllowedDone DEF Raised
  <2>2. ASSUME NEW ready \in BOOLEAN, Goto(c, "remove"),
                  found' = [found EXCEPT ![c] = {<<h, QbittorrentReason(c, h, ready)>> : h \in request \cap Held(c)}],
                  left' = [left EXCEPT ![c] = {h \in request \cap Held(c) : QbittorrentReason(c, h, ready) = None}]
        PROVE  Allowed(c)'
    <3>1. left'[c] = {h \in request \cap Held(c) : QbittorrentReason(c, h, ready) = None}
      BY <1>0, <2>2 DEF TypeOK
    <3>2. found'[c] = {<<h, QbittorrentReason(c, h, ready)>> : h \in request \cap Held(c)}
      BY <1>0, <2>2 DEF TypeOK
    <3>3. ASSUME NEW f \in found'[c], f[2] \in {None, "seeding_policy"} PROVE SafetyReason(evidence, <<c, f[1]>>) = None
      <4>1. PICK h \in request \cap Held(c) : f = <<h, QbittorrentReason(c, h, ready)>>
        BY <3>2, <3>3
      <4>2. f[1] = h /\ QbittorrentReason(c, h, ready) \in {None, "seeding_policy"}
        BY <3>3, <4>1
      <4>3. SafetyReason(evidence, <<c, h>>) = None
        BY <4>2, ReasonOrder
      <4> QED
        BY <4>2, <4>3
    <3>4. ASSUME NEW h \in left'[c]
          PROVE  <<h, None>> \in found'[c] /\ \E e \in evidence.scopes : e[1] = <<c, h>> /\ e[2] # {}
      <4>1. <<h, None>> \in found'[c] /\ ScopeMatches(evidence, <<c, h>>, At(<<c, h>>), TRUE)
        BY <1>0, <3>1, <3>2, MatchLast
      <4> QED
        BY <4>1, MatchedScope
    <3> QED
      BY <1>0, <2>2, <3>3, <3>4, AllowedRemove
  <2> QED
    BY <1>2, <2>1, <2>2 DEF QbittorrentLook
<1>3. CASE TransmissionLook(c)
  <2>1. CASE Raised(c) /\ UNCHANGED <<found, left>>
    BY <1>0, <2>1, AllowedDone DEF Raised
  <2>2. ASSUME NEW ready \in BOOLEAN, Goto(c, "remove"),
                  found' = [found EXCEPT ![c] = {<<h, TransmissionReason(c, h, ready)>> : h \in request \cap Held(c)}],
                  left' = [left EXCEPT ![c] = {h \in request \cap Held(c) : TransmissionReason(c, h, ready) = None}]
        PROVE  Allowed(c)'
    <3>1. left'[c] = {h \in request \cap Held(c) : TransmissionReason(c, h, ready) = None}
      BY <1>0, <2>2 DEF TypeOK
    <3>2. found'[c] = {<<h, TransmissionReason(c, h, ready)>> : h \in request \cap Held(c)}
      BY <1>0, <2>2 DEF TypeOK
    <3>3. ASSUME NEW f \in found'[c], f[2] \in {None, "seeding_policy"} PROVE SafetyReason(evidence, <<c, f[1]>>) = None
      <4>1. PICK h \in request \cap Held(c) : f = <<h, TransmissionReason(c, h, ready)>>
        BY <3>2, <3>3
      <4>2. f[1] = h /\ TransmissionReason(c, h, ready) \in {None, "seeding_policy"}
        BY <3>3, <4>1
      <4>3. SafetyReason(evidence, <<c, h>>) = None
        BY <4>2, ReasonOrder
      <4> QED
        BY <4>2, <4>3
    <3>4. ASSUME NEW h \in left'[c]
          PROVE  <<h, None>> \in found'[c] /\ \E e \in evidence.scopes : e[1] = <<c, h>> /\ e[2] # {}
      <4>1. <<h, None>> \in found'[c] /\ ScopeMatches(evidence, <<c, h>>, Parent(At(<<c, h>>)), FALSE)
        BY <1>0, <3>1, <3>2, MatchLast
      <4> QED
        BY <4>1, MatchedScope
    <3> QED
      BY <1>0, <2>2, <3>3, <3>4, AllowedRemove
  <2> QED
    BY <1>3, <2>1, <2>2 DEF TransmissionLook
<1>4. CASE DelugeLook(c)
  <2>1. CASE Raised(c) /\ UNCHANGED left
    BY <1>0, <1>4, <2>1, AllowedDone DEF Raised, DelugeLook
  <2>2. CASE left' = [left EXCEPT ![c] = request \cap Held(c)] /\ Goto(c, "status")
    BY <1>0, <1>4, <2>2 DEF DelugeLook, Goto, TypeOK, Allowed
  <2> QED
    BY <1>4, <2>1, <2>2 DEF DelugeLook
<1>5. CASE DelugeStatus(c)
  <2>1. CASE Raised(c) /\ UNCHANGED <<found, left>>
    BY <1>0, <2>1, AllowedDone DEF Raised
  <2>2. ASSUME NEW ready \in BOOLEAN, NEW read \in BOOLEAN, Goto(c, "remove"),
                  found' = [found EXCEPT ![c] = {<<h, DelugeReason(c, h, ready /\ read, read)>> : h \in left[c]}],
                  left' = [left EXCEPT ![c] = {h \in @ : DelugeReason(c, h, ready /\ read, read) = None}]
        PROVE  Allowed(c)'
    <3>1. left'[c] = {h \in left[c] : DelugeReason(c, h, ready /\ read, read) = None}
      BY <1>0, <2>2 DEF TypeOK
    <3>2. found'[c] = {<<h, DelugeReason(c, h, ready /\ read, read)>> : h \in left[c]}
      BY <1>0, <2>2 DEF TypeOK
    <3>3. ASSUME NEW f \in found'[c], f[2] \in {None, "seeding_policy"} PROVE SafetyReason(evidence, <<c, f[1]>>) = None
      <4>1. PICK h \in left[c] : f = <<h, DelugeReason(c, h, ready /\ read, read)>>
        BY <3>2, <3>3
      <4>2. f[1] = h /\ DelugeReason(c, h, ready /\ read, read) \in {None, "seeding_policy"}
        BY <3>3, <4>1
      <4>3. SafetyReason(evidence, <<c, h>>) = None
        BY <4>2, ReasonOrder
      <4> QED
        BY <4>2, <4>3
    <3>4. ASSUME NEW h \in left'[c]
          PROVE  <<h, None>> \in found'[c] /\ \E e \in evidence.scopes : e[1] = <<c, h>> /\ e[2] # {}
      <4>1. <<h, None>> \in found'[c] /\ ScopeMatches(evidence, <<c, h>>, Parent(At(<<c, h>>)), FALSE)
        BY <1>0, <3>1, <3>2, MatchLast
      <4> QED
        BY <4>1, MatchedScope
    <3> QED
      BY <1>0, <2>2, <3>3, <3>4, AllowedRemove
  <2> QED
    BY <1>5, <2>1, <2>2 DEF DelugeStatus
<1>6. CASE RemoveCall(c) \/ RTorrentDone(c)
  <2>1. Goto(c, "done") /\ UNCHANGED <<left, found>>
    BY <1>6 DEF RemoveCall, RTorrentDone, Raised
  <2> QED
    BY <1>0, <2>1, AllowedDone
<1>7. CASE RTorrentLook(c)
  <2>1. CASE Goto(c, "done") /\ UNCHANGED <<left, found>>
    BY <1>0, <2>1, AllowedDone
  <2>2. CASE left' = [left EXCEPT ![c] = request \cap Held(c)] /\ Goto(c, "decide") /\ UNCHANGED found
    BY <1>0, <1>7, <2>2 DEF RTorrentLook, Goto, TypeOK, Allowed
  <2> QED
    BY <1>7, <2>1, <2>2 DEF RTorrentLook, Raised
<1>8. CASE RTorrentDecide(c)
  <2>2. CASE Raised(c) /\ UNCHANGED <<left, found>>
    BY <1>0, <2>2, AllowedDone DEF Raised
  <2>3. ASSUME NEW ready \in BOOLEAN,
               LET reason == IF SafetyReason(evidence, <<c, Current(c)>>) # None THEN SafetyReason(evidence, <<c, Current(c)>>)
                             ELSE SeedingReason(c, ready)
               IN IF reason # None THEN Settle(c, reason)
                  ELSE Goto(c, "locate") /\ UNCHANGED <<left, found>>
        PROVE  Allowed(c)'
    <3>1. CASE SafetyReason(evidence, <<c, Current(c)>>) # None
      <4>1. Settle(c, SafetyReason(evidence, <<c, Current(c)>>))
        BY <2>3, <3>1
      <4>2. SafetyReason(evidence, <<c, Current(c)>>) # "seeding_policy"
        BY <3>1 DEF SafetyReason
      <4> QED
        BY <1>0, <4>1, <4>2, AllowedSettle
    <3>2. CASE SafetyReason(evidence, <<c, Current(c)>>) = None /\ SeedingReason(c, ready) # None
      BY <1>0, <2>3, <3>2, AllowedSettle
    <3>3. CASE SafetyReason(evidence, <<c, Current(c)>>) = None /\ SeedingReason(c, ready) = None
      <4>1. Goto(c, "locate") /\ UNCHANGED <<left, found>>
        BY <2>3, <3>3
      <4> QED
        BY <1>0, <3>3, <4>1 DEF Goto, TypeOK, Allowed, Current
    <3> QED
      BY <3>1, <3>2, <3>3
  <2> QED
    BY <1>8, <2>2, <2>3 DEF RTorrentDecide
<1>9. CASE RTorrentLocate(c)
  <2>2. CASE \E reason \in {None, "ownership_unverifiable"} : Settle(c, reason)
    <3>1. PICK reason \in {None, "ownership_unverifiable"} : Settle(c, reason)
      BY <2>2
    <3>2. reason # "seeding_policy"
      BY RemovalAssumption
    <3> QED
      BY <1>0, <3>1, <3>2, AllowedSettle
  <2>3. CASE /\ Goto(c, "close") /\ UNCHANGED <<left, found>> /\ Has(<<c, Current(c)>>)
             /\ ScopeMatches(evidence, <<c, Current(c)>>, At(<<c, Current(c)>>), TRUE)
    <3>1. At(<<c, Current(c)>>) \in Places
      <4>1. Current(c) \in Held(c)
        BY <2>3 DEF Has
      <4>2. fleet[c][Current(c)] \in Torrent
        BY <1>0, <4>1 DEF TypeOK
      <4> QED
        BY <4>2 DEF At, Torrent
    <3> QED
      BY <1>0, <1>9, <2>3, <3>1 DEF RTorrentLocate, Goto, TypeOK, Allowed, Current
  <2> QED
    BY <1>9, <2>2, <2>3 DEF RTorrentLocate
<1>10. CASE RTorrentClose(c) \/ RTorrentRemoveData(c)
  <2>1. UNCHANGED <<left, found>> /\ step[c] \in {"close", "rm"}
    BY <1>10 DEF RTorrentClose, RTorrentRemoveData
  <2>2. CASE Goto(c, "done")
    BY <1>0, <2>1, <2>2, AllowedDone
  <2>3. CASE Goto(c, "rm") \/ Goto(c, "erase")
    BY <1>0, <2>1, <2>3 DEF Goto, TypeOK, Allowed, Current
  <2> QED
    BY <1>10, <2>2, <2>3 DEF RTorrentClose, RTorrentRemoveData, Raised
<1>11. CASE RTorrentErase(c)
  <2>2. CASE Raised(c) /\ UNCHANGED <<left, found>>
    BY <1>0, <2>2, AllowedDone DEF Raised
  <2>3. CASE Settle(c, None)
    BY <1>0, <2>3, AllowedSettle, RemovalAssumption
  <2> QED
    BY <1>11, <2>2, <2>3 DEF RTorrentErase
<1> QED
  BY <1>1, <1>2, <1>3, <1>4, <1>5, <1>6, <1>7, <1>8, <1>9, <1>10, <1>11 DEF Adapter

LEMMA PermittedStep ==
  ASSUME Shape, Permitted, [Next]_vars
  PROVE  Permitted'
<1>1. ASSUME UNCHANGED <<step, left, found, evidence>> PROVE Permitted'
  BY <1>1 DEF Permitted, Allowed, Current
<1>2. ASSUME pc \in {"idle", "reading", "rechecking"}, UNCHANGED <<step, left, found>> PROVE Permitted'
  <2>1. \A c \in Clients : step[c] = "done" /\ found[c] = {}
    BY <1>2 DEF Shape, Control
  <2> QED
    BY <1>2, <2>1 DEF Permitted, Allowed
<1>3. CASE Start \/ AssessFleet \/ RecheckSkip \/ RecheckList \/ RecheckInventory \/ RecheckFinal
  <2>1. pc \in {"idle", "reading", "rechecking"} /\ UNCHANGED <<step, left, found>>
    BY <1>3 DEF Start, AssessFleet, RecheckSkip, RecheckList, RecheckInventory, RecheckFinal
  <2> QED
    BY <1>2, <2>1
<1>4. CASE Authorize
  <2>1. \A c \in Clients : step'[c] \in {"look", "done"} /\ found'[c] = {}
    BY <1>4 DEF Authorize, Shape, Control
  <2> QED
    BY <2>1 DEF Permitted, Allowed
<1>5. CASE Gather
  BY <1>1, <1>5 DEF Gather
<1>6. CASE Return
  <2>1. \A c \in Clients : step'[c] = "done" /\ found'[c] = {}
    BY <1>6 DEF Return, Shape, Control
  <2> QED
    BY <2>1 DEF Permitted, Allowed
<1>7. ASSUME NEW c \in Clients, Adapter(c) PROVE Permitted'
  <2>1. ASSUME NEW d \in Clients PROVE Allowed(d)'
    <3>1. CASE d = c
      BY <1>7, <3>1, AdapterAllowed DEF Permitted
    <3>2. CASE d # c
      <4>1. step'[d] = step[d] /\ left'[d] = left[d] /\ found'[d] = found[d] /\ UNCHANGED evidence
        BY <1>7, <3>2, AdapterFrame DEF Shape
      <4> QED
        BY <4>1 DEF Permitted, Allowed, Current
    <3> QED
      BY <3>1, <3>2
  <2> QED
    BY <2>1 DEF Permitted
<1>8. ASSUME NEW c \in Clients, NEW h \in Hashes, User(c, h) PROVE Permitted'
  BY <1>1, <1>8, UserFrame
<1>9. CASE UNCHANGED vars
  BY <1>1, <1>9 DEF vars
<1> QED
  BY <1>3, <1>4, <1>5, <1>6, <1>7, <1>8, <1>9 DEF Next, Fleet

-----------------------------------------------------------------------------
(* What the adapters did to the torrents, and what they answer.            *)

\* Hashes a client has not handled yet or decided to keep are untouched.
Unhandled(c) ==
  /\ step[c] \in {"look", "status"} => \A h \in Hashes : <<c, h>> \notin touched
  /\ step[c] \in {"remove", "decide", "locate", "close"} => \A h \in left[c] : <<c, h>> \notin touched
  /\ step[c] \in {"rm", "erase"} => \A h \in left[c] \ {Current(c)} : <<c, h>> \notin touched
  /\ step[c] # "done" =>
       \A f \in found[c] : f[2] # None => f[1] \notin left[c] /\ <<c, f[1]>> \notin touched

Untouched == \A c \in Clients : Unhandled(c)

LEMMA UnhandledDone ==
  ASSUME TypeOK, NEW c \in Clients, Goto(c, "done")
  PROVE  Unhandled(c)'
<1>1. step'[c] = "done"
  BY DEF TypeOK, Goto
<1> QED
  BY <1>1 DEF Unhandled

LEMMA UnhandledRemove ==
  ASSUME TypeOK, NEW c \in Clients, Goto(c, "remove"), UNCHANGED touched,
         \A h \in left'[c] : <<c, h>> \notin touched,
         \A f \in found'[c] : f[2] # None => f[1] \notin left'[c] /\ <<c, f[1]>> \notin touched
  PROVE  Unhandled(c)'
<1>1. step'[c] = "remove"
  BY DEF TypeOK, Goto
<1> QED
  BY <1>1 DEF Unhandled

LEMMA UnhandledSettle ==
  ASSUME TypeOK, NEW c \in Clients, Unhandled(c), step[c] \in OneByOne, left[c] # {}, UNCHANGED touched,
         NEW reason, Settle(c, reason), reason # None => <<c, Current(c)>> \notin touched
  PROVE  Unhandled(c)'
<1>1. /\ step'[c] = "decide" /\ left'[c] = left[c] \ {Current(c)}
      /\ found'[c] = found[c] \union {<<Current(c), reason>>}
  BY DEF TypeOK, Goto, Settle
<1>2. \A h \in left'[c] : <<c, h>> \notin touched
  BY <1>1 DEF Unhandled, OneByOne
<1>3. \A f \in found'[c] : f[2] # None => f[1] \notin left'[c] /\ <<c, f[1]>> \notin touched
  BY <1>1 DEF Unhandled, OneByOne
<1> QED
  BY <1>1, <1>2, <1>3 DEF Unhandled

LEMMA AdapterUnhandled ==
  ASSUME Shape, NEW c \in Clients, Unhandled(c), Adapter(c)
  PROVE  Unhandled(c)'
<1>0. TypeOK /\ Staged(c) /\ left[c] \subseteq Hashes /\ request \subseteq Hashes
  BY DEF Shape, Control, TypeOK
<1>1. CASE ReadInventory(c)
  BY <1>1 DEF ReadInventory, Unhandled, Current
<1>2. CASE QbittorrentLook(c)
  <2>1. CASE Raised(c)
    BY <1>0, <2>1, UnhandledDone DEF Raised
  <2>2. ASSUME NEW ready \in BOOLEAN, Goto(c, "remove"),
                  found' = [found EXCEPT ![c] = {<<h, QbittorrentReason(c, h, ready)>> : h \in request \cap Held(c)}],
                  left' = [left EXCEPT ![c] = {h \in request \cap Held(c) : QbittorrentReason(c, h, ready) = None}]
        PROVE  Unhandled(c)'
    <3>1. left'[c] = {h \in request \cap Held(c) : QbittorrentReason(c, h, ready) = None}
      BY <1>0, <2>2 DEF TypeOK
    <3>2. found'[c] = {<<h, QbittorrentReason(c, h, ready)>> : h \in request \cap Held(c)}
      BY <1>0, <2>2 DEF TypeOK
    <3>3. UNCHANGED touched /\ \A h \in Hashes : <<c, h>> \notin touched
      BY <1>2 DEF QbittorrentLook, Unhandled
    <3> QED
      BY <1>0, <2>2, <3>1, <3>2, <3>3, UnhandledRemove
  <2> QED
    BY <1>2, <2>1, <2>2 DEF QbittorrentLook
<1>3. CASE TransmissionLook(c)
  <2>1. CASE Raised(c)
    BY <1>0, <2>1, UnhandledDone DEF Raised
  <2>2. ASSUME NEW ready \in BOOLEAN, Goto(c, "remove"),
                  found' = [found EXCEPT ![c] = {<<h, TransmissionReason(c, h, ready)>> : h \in request \cap Held(c)}],
                  left' = [left EXCEPT ![c] = {h \in request \cap Held(c) : TransmissionReason(c, h, ready) = None}]
        PROVE  Unhandled(c)'
    <3>1. left'[c] = {h \in request \cap Held(c) : TransmissionReason(c, h, ready) = None}
      BY <1>0, <2>2 DEF TypeOK
    <3>2. found'[c] = {<<h, TransmissionReason(c, h, ready)>> : h \in request \cap Held(c)}
      BY <1>0, <2>2 DEF TypeOK
    <3>3. UNCHANGED touched /\ \A h \in Hashes : <<c, h>> \notin touched
      BY <1>3 DEF TransmissionLook, Unhandled
    <3> QED
      BY <1>0, <2>2, <3>1, <3>2, <3>3, UnhandledRemove
  <2> QED
    BY <1>3, <2>1, <2>2 DEF TransmissionLook
<1>4. CASE DelugeLook(c)
  <2>1. CASE Raised(c)
    BY <1>0, <2>1, UnhandledDone DEF Raised
  <2>2. CASE Goto(c, "status")
    BY <1>0, <1>4, <2>2 DEF DelugeLook, Goto, TypeOK, Unhandled, Staged
  <2> QED
    BY <1>4, <2>1, <2>2 DEF DelugeLook
<1>5. CASE DelugeStatus(c)
  <2>1. CASE Raised(c)
    BY <1>0, <2>1, UnhandledDone DEF Raised
  <2>2. ASSUME NEW ready \in BOOLEAN, NEW read \in BOOLEAN, Goto(c, "remove"),
                  found' = [found EXCEPT ![c] = {<<h, DelugeReason(c, h, ready /\ read, read)>> : h \in left[c]}],
                  left' = [left EXCEPT ![c] = {h \in @ : DelugeReason(c, h, ready /\ read, read) = None}]
        PROVE  Unhandled(c)'
    <3>1. left'[c] = {h \in left[c] : DelugeReason(c, h, ready /\ read, read) = None}
      BY <1>0, <2>2 DEF TypeOK
    <3>2. found'[c] = {<<h, DelugeReason(c, h, ready /\ read, read)>> : h \in left[c]}
      BY <1>0, <2>2 DEF TypeOK
    <3>3. UNCHANGED touched /\ \A h \in Hashes : <<c, h>> \notin touched
      BY <1>5 DEF DelugeStatus, Unhandled
    <3> QED
      BY <1>0, <2>2, <3>1, <3>2, <3>3, UnhandledRemove
  <2> QED
    BY <1>5, <2>1, <2>2 DEF DelugeStatus
<1>6. CASE RemoveCall(c) \/ RTorrentDone(c)
  <2>1. Goto(c, "done")
    BY <1>6 DEF RemoveCall, RTorrentDone, Raised
  <2> QED
    BY <1>0, <2>1, UnhandledDone
<1>7. CASE RTorrentLook(c)
  <2>1. CASE Goto(c, "done")
    BY <1>0, <2>1, UnhandledDone
  <2>2. CASE left' = [left EXCEPT ![c] = request \cap Held(c)] /\ Goto(c, "decide") /\ UNCHANGED found
    BY <1>0, <1>7, <2>2 DEF RTorrentLook, Goto, TypeOK, Unhandled, Staged
  <2> QED
    BY <1>7, <2>1, <2>2 DEF RTorrentLook, Raised
<1>8. CASE RTorrentDecide(c)
  <2>1. left[c] # {} /\ step[c] = "decide" /\ UNCHANGED touched /\ Current(c) \in left[c]
    BY <1>8 DEF RTorrentDecide, Current
  <2>2. CASE Raised(c)
    BY <1>0, <2>2, UnhandledDone DEF Raised
  <2>3. CASE \E reason : Settle(c, reason)
    <3>1. <<c, Current(c)>> \notin touched
      BY <2>1 DEF Unhandled
    <3> QED
      BY <1>0, <2>1, <2>3, <3>1, UnhandledSettle DEF OneByOne
  <2>4. CASE Goto(c, "locate") /\ UNCHANGED <<left, found>>
    BY <1>0, <2>1, <2>4 DEF Goto, TypeOK, Unhandled
  <2> QED
    BY <1>8, <2>2, <2>3, <2>4 DEF RTorrentDecide
<1>9. CASE RTorrentLocate(c)
  <2>1. left[c] # {} /\ step[c] = "locate" /\ UNCHANGED touched /\ Current(c) \in left[c]
    BY <1>0, <1>9 DEF RTorrentLocate, Current, Staged
  <2>3. CASE \E reason : Settle(c, reason)
    <3>1. <<c, Current(c)>> \notin touched
      BY <2>1 DEF Unhandled
    <3> QED
      BY <1>0, <2>1, <2>3, <3>1, UnhandledSettle DEF OneByOne
  <2>4. CASE Goto(c, "close") /\ UNCHANGED <<left, found>>
    BY <1>0, <2>1, <2>4 DEF Goto, TypeOK, Unhandled
  <2> QED
    BY <1>9, <2>3, <2>4 DEF RTorrentLocate
<1>10. CASE RTorrentClose(c)
  <2>1. UNCHANGED <<left, found>> /\ step[c] = "close" /\ Current(c) \in left[c] /\ Current(c)' = Current(c)
    BY <1>0, <1>10 DEF RTorrentClose, Current, Staged
  <2>2. CASE Goto(c, "done")
    BY <1>0, <2>2, UnhandledDone
  <2>3. CASE Goto(c, "rm") /\ touched' = touched \union {<<c, Current(c)>>}
    <3>1. step'[c] = "rm"
      BY <1>0, <2>3 DEF Goto, TypeOK
    <3>2. \A h \in left[c] \ {Current(c)} : <<c, h>> \notin touched'
      BY <2>1, <2>3 DEF Unhandled
    <3>3. \A f \in found[c] : f[2] # None => f[1] \notin left[c] /\ <<c, f[1]>> \notin touched'
      BY <2>1, <2>3 DEF Unhandled
    <3> QED
      BY <2>1, <3>1, <3>2, <3>3 DEF Unhandled
  <2> QED
    BY <1>10, <2>2, <2>3 DEF RTorrentClose, Raised
<1>11. CASE RTorrentRemoveData(c)
  <2>1. UNCHANGED <<left, found, touched>> /\ step[c] = "rm" /\ Current(c)' = Current(c)
    BY <1>11 DEF RTorrentRemoveData, Current
  <2>2. CASE Goto(c, "done")
    BY <1>0, <2>2, UnhandledDone
  <2>3. CASE Goto(c, "erase")
    BY <1>0, <2>1, <2>3 DEF Goto, TypeOK, Unhandled
  <2> QED
    BY <1>11, <2>2, <2>3 DEF RTorrentRemoveData, Raised
<1>12. CASE RTorrentErase(c)
  <2>1. UNCHANGED touched /\ step[c] = "erase" /\ left[c] # {}
    BY <1>0, <1>12 DEF RTorrentErase, Staged
  <2>2. CASE Raised(c)
    BY <1>0, <2>2, UnhandledDone DEF Raised
  <2>3. CASE Settle(c, None)
    BY <1>0, <2>1, <2>3, UnhandledSettle DEF OneByOne
  <2> QED
    BY <1>12, <2>2, <2>3 DEF RTorrentErase
<1> QED
  BY <1>1, <1>2, <1>3, <1>4, <1>5, <1>6, <1>7, <1>8, <1>9, <1>10, <1>11, <1>12 DEF Adapter

LEMMA UntouchedStep ==
  ASSUME Shape, Untouched, [Next]_vars
  PROVE  Untouched'
<1>1. ASSUME UNCHANGED <<step, left, found, touched>> PROVE Untouched'
  BY <1>1 DEF Untouched, Unhandled, Current
<1>2. CASE Start \/ AssessFleet \/ RecheckSkip \/ RecheckList \/ RecheckInventory \/ RecheckFinal \/ Gather
  <2>1. UNCHANGED <<step, left, found, touched>>
    BY <1>2 DEF Start, AssessFleet, RecheckSkip, RecheckList, RecheckInventory, RecheckFinal, Gather
  <2> QED
    BY <1>1, <2>1
<1>3. CASE Authorize
  <2>1. \A c \in Clients : step'[c] \in {"look", "done"} /\ found'[c] = {}
    BY <1>3 DEF Authorize, Shape, Control
  <2>2. touched' = {}
    BY <1>3 DEF Authorize, Shape, Control
  <2> QED
    BY <2>1, <2>2 DEF Untouched, Unhandled
<1>4. CASE Return
  <2>1. \A c \in Clients : step'[c] = "done"
    BY <1>4 DEF Return, Shape, Control
  <2> QED
    BY <2>1 DEF Untouched, Unhandled
<1>5. ASSUME NEW c \in Clients, Adapter(c) PROVE Untouched'
  <2>1. ASSUME NEW d \in Clients PROVE Unhandled(d)'
    <3>1. CASE d = c
      BY <1>5, <3>1, AdapterUnhandled DEF Untouched
    <3>2. CASE d # c
      <4>1. /\ step'[d] = step[d] /\ left'[d] = left[d] /\ found'[d] = found[d]
            /\ \A h : <<d, h>> \in touched' => <<d, h>> \in touched
        BY <1>5, <3>2, AdapterFrame DEF Shape
      <4> QED
        BY <4>1 DEF Untouched, Unhandled, Current
    <3> QED
      BY <3>1, <3>2
  <2> QED
    BY <2>1 DEF Untouched
<1>6. ASSUME NEW c \in Clients, NEW h \in Hashes, User(c, h) PROVE Untouched'
  BY <1>1, <1>6, UserFrame
<1>7. CASE UNCHANGED vars
  BY <1>1, <1>7 DEF vars
<1> QED
  BY <1>2, <1>3, <1>4, <1>5, <1>6, <1>7 DEF Next, Fleet

\* Every requested torrent the client holds was listed, and those it settled are gone.
Covered(c) ==
  /\ step[c] \notin {"look", "done"} =>
       \A h \in request : <<c, h>> \in moved \/ h \notin Held(c) \/ h \in left[c] \union FoundHashes(c)
  /\ step[c] = "remove" => left[c] \subseteq FoundHashes(c) /\ \A f \in found[c] : f[2] = None => f[1] \in left[c]
  /\ step[c] \in OneByOne =>
       \A f \in found[c] : f[2] = None => dry \/ <<c, f[1]>> \in moved \/ f[1] \notin Held(c)

Listed == \A c \in Clients : Covered(c)

LEMMA CoveredDone ==
  ASSUME TypeOK, NEW c \in Clients, Goto(c, "done")
  PROVE  Covered(c)'
<1>1. step'[c] = "done"
  BY DEF TypeOK, Goto
<1> QED
  BY <1>1 DEF Covered, OneByOne

LEMMA CoveredRemove ==
  ASSUME TypeOK, NEW c \in Clients, Goto(c, "remove"), UNCHANGED <<fleet, moved, request>>,
         \A h \in request : <<c, h>> \in moved \/ h \notin Held(c) \/ h \in FoundHashes(c)',
         \A h \in left'[c] : h \in FoundHashes(c)', \A f \in found'[c] : f[2] = None => f[1] \in left'[c]
  PROVE  Covered(c)'
<1>1. step'[c] = "remove"
  BY DEF TypeOK, Goto
<1>2. Held(c)' = Held(c)
  BY DEF Held
<1> QED
  BY <1>1, <1>2 DEF Covered, OneByOne

LEMMA CoveredSettle ==
  ASSUME TypeOK, NEW c \in Clients, Covered(c), step[c] \in OneByOne, left[c] # {}, UNCHANGED <<moved, request, dry>>,
         Held(c)' \subseteq Held(c), NEW reason, Settle(c, reason),
         reason = None => dry \/ Current(c) \notin Held(c)'
  PROVE  Covered(c)'
<1>1. /\ step'[c] = "decide" /\ left'[c] = left[c] \ {Current(c)}
      /\ found'[c] = found[c] \union {<<Current(c), reason>>}
  BY DEF TypeOK, Goto, Settle
<1>2. FoundHashes(c)' = FoundHashes(c) \union {Current(c)}
  <2>1. \A f \in found'[c] : f[1] \in FoundHashes(c) \union {Current(c)}
    BY <1>1 DEF FoundHashes
  <2>2. \A f \in found[c] : f[1] \in FoundHashes(c)'
    BY <1>1 DEF FoundHashes
  <2>3. Current(c) \in FoundHashes(c)'
    <3>1. <<Current(c), reason>> \in found'[c] /\ <<Current(c), reason>>[1] = Current(c)
      BY <1>1
    <3> QED
      BY <3>1 DEF FoundHashes
  <2>4. \A h \in FoundHashes(c) : h \in FoundHashes(c)'
    BY <2>2 DEF FoundHashes
  <2>5. \A h \in FoundHashes(c)' : h \in FoundHashes(c) \union {Current(c)}
    BY <2>1 DEF FoundHashes
  <2> QED
    BY <2>3, <2>4, <2>5
<1>3. \A h \in request : <<c, h>> \in moved \/ h \notin Held(c)' \/ h \in left'[c] \union FoundHashes(c)'
  BY <1>1, <1>2 DEF Covered, OneByOne
<1>4. \A f \in found'[c] : f[2] = None => dry \/ <<c, f[1]>> \in moved \/ f[1] \notin Held(c)'
  BY <1>1 DEF Covered
<1> QED
  BY <1>1, <1>3, <1>4 DEF Covered

\* Steps that keep what the client has found and has still to do.
LEMMA CoveredGoesOn ==
  ASSUME TypeOK, NEW c \in Clients, Covered(c), step[c] \in OneByOne, NEW s \in OneByOne, Goto(c, s),
         Held(c)' = Held(c), UNCHANGED <<moved, request, dry, left, found>>
  PROVE  Covered(c)'
<1>1. step'[c] = s
  BY DEF TypeOK, Goto, OneByOne
<1> QED
  BY <1>1 DEF Covered, OneByOne, FoundHashes

LEMMA AdapterCovered ==
  ASSUME Shape, NEW c \in Clients, Covered(c), Adapter(c)
  PROVE  Covered(c)'
<1>0. TypeOK /\ Staged(c) /\ UNCHANGED <<moved, request, dry>>
  BY AdapterFrame DEF Shape, Control
<1>1. CASE ReadInventory(c)
  BY <1>0, <1>1 DEF ReadInventory, Covered, FoundHashes, Held
<1>2. CASE QbittorrentLook(c)
  <2>1. CASE Raised(c)
    BY <1>0, <2>1, CoveredDone DEF Raised
  <2>2. ASSUME NEW ready \in BOOLEAN, Goto(c, "remove"),
                  found' = [found EXCEPT ![c] = {<<h, QbittorrentReason(c, h, ready)>> : h \in request \cap Held(c)}],
                  left' = [left EXCEPT ![c] = {h \in request \cap Held(c) : QbittorrentReason(c, h, ready) = None}]
        PROVE  Covered(c)'
    <3>1. left'[c] = {h \in request \cap Held(c) : QbittorrentReason(c, h, ready) = None}
      BY <1>0, <2>2 DEF TypeOK
    <3>2. found'[c] = {<<h, QbittorrentReason(c, h, ready)>> : h \in request \cap Held(c)}
      BY <1>0, <2>2 DEF TypeOK
    <3>3. FoundHashes(c)' = request \cap Held(c)
      <4>1. \A f \in found'[c] : f[1] \in request \cap Held(c)
        BY <3>2
      <4>2. ASSUME NEW h \in request \cap Held(c) PROVE h \in FoundHashes(c)'
        <5>1. <<h, QbittorrentReason(c, h, ready)>> \in found'[c]
          BY <3>2
        <5>2. <<h, QbittorrentReason(c, h, ready)>>[1] = h
          OBVIOUS
        <5> QED
          BY <5>1, <5>2 DEF FoundHashes
      <4>3. \A h \in FoundHashes(c)' : h \in request \cap Held(c)
        BY <4>1 DEF FoundHashes
      <4> QED
        BY <4>2, <4>3
    <3>4. \A f \in found'[c] : f[2] = None => f[1] \in left'[c]
      BY <3>1, <3>2
    <3>5. UNCHANGED fleet
      BY <1>2 DEF QbittorrentLook
    <3> QED
      BY <1>0, <2>2, <3>1, <3>3, <3>4, <3>5, CoveredRemove
  <2> QED
    BY <1>2, <2>1, <2>2 DEF QbittorrentLook
<1>3. CASE TransmissionLook(c)
  <2>1. CASE Raised(c)
    BY <1>0, <2>1, CoveredDone DEF Raised
  <2>2. ASSUME NEW ready \in BOOLEAN, Goto(c, "remove"),
                  found' = [found EXCEPT ![c] = {<<h, TransmissionReason(c, h, ready)>> : h \in request \cap Held(c)}],
                  left' = [left EXCEPT ![c] = {h \in request \cap Held(c) : TransmissionReason(c, h, ready) = None}]
        PROVE  Covered(c)'
    <3>1. left'[c] = {h \in request \cap Held(c) : TransmissionReason(c, h, ready) = None}
      BY <1>0, <2>2 DEF TypeOK
    <3>2. found'[c] = {<<h, TransmissionReason(c, h, ready)>> : h \in request \cap Held(c)}
      BY <1>0, <2>2 DEF TypeOK
    <3>3. FoundHashes(c)' = request \cap Held(c)
      <4>1. \A f \in found'[c] : f[1] \in request \cap Held(c)
        BY <3>2
      <4>2. ASSUME NEW h \in request \cap Held(c) PROVE h \in FoundHashes(c)'
        <5>1. <<h, TransmissionReason(c, h, ready)>> \in found'[c]
          BY <3>2
        <5>2. <<h, TransmissionReason(c, h, ready)>>[1] = h
          OBVIOUS
        <5> QED
          BY <5>1, <5>2 DEF FoundHashes
      <4>3. \A h \in FoundHashes(c)' : h \in request \cap Held(c)
        BY <4>1 DEF FoundHashes
      <4> QED
        BY <4>2, <4>3
    <3>4. \A f \in found'[c] : f[2] = None => f[1] \in left'[c]
      BY <3>1, <3>2
    <3>5. UNCHANGED fleet
      BY <1>3 DEF TransmissionLook
    <3> QED
      BY <1>0, <2>2, <3>1, <3>3, <3>4, <3>5, CoveredRemove
  <2> QED
    BY <1>3, <2>1, <2>2 DEF TransmissionLook
<1>4. CASE DelugeLook(c)
  <2>1. CASE Raised(c)
    BY <1>0, <2>1, CoveredDone DEF Raised
  <2>2. CASE left' = [left EXCEPT ![c] = request \cap Held(c)] /\ Goto(c, "status")
    <3>1. step'[c] = "status" /\ left'[c] = request \cap Held(c)
      BY <1>0, <2>2 DEF Goto, TypeOK
    <3>2. Held(c)' = Held(c)
      BY <1>4 DEF DelugeLook, Held
    <3> QED
      BY <1>0, <3>1, <3>2 DEF Covered, OneByOne
  <2> QED
    BY <1>4, <2>1, <2>2 DEF DelugeLook
<1>5. CASE DelugeStatus(c)
  <2>1. CASE Raised(c)
    BY <1>0, <2>1, CoveredDone DEF Raised
  <2>2. ASSUME NEW ready \in BOOLEAN, NEW read \in BOOLEAN, Goto(c, "remove"),
                  found' = [found EXCEPT ![c] = {<<h, DelugeReason(c, h, ready /\ read, read)>> : h \in left[c]}],
                  left' = [left EXCEPT ![c] = {h \in @ : DelugeReason(c, h, ready /\ read, read) = None}]
        PROVE  Covered(c)'
    <3>1. left'[c] = {h \in left[c] : DelugeReason(c, h, ready /\ read, read) = None}
      BY <1>0, <2>2 DEF TypeOK
    <3>2. found'[c] = {<<h, DelugeReason(c, h, ready /\ read, read)>> : h \in left[c]}
      BY <1>0, <2>2 DEF TypeOK
    <3>3. FoundHashes(c)' = left[c]
      <4>1. \A f \in found'[c] : f[1] \in left[c]
        BY <3>2
      <4>2. ASSUME NEW h \in left[c] PROVE h \in FoundHashes(c)'
        <5>1. <<h, DelugeReason(c, h, ready /\ read, read)>> \in found'[c]
          BY <3>2
        <5>2. <<h, DelugeReason(c, h, ready /\ read, read)>>[1] = h
          OBVIOUS
        <5> QED
          BY <5>1, <5>2 DEF FoundHashes
      <4>3. \A h \in FoundHashes(c)' : h \in left[c]
        BY <4>1 DEF FoundHashes
      <4> QED
        BY <4>2, <4>3
    <3>4. \A f \in found'[c] : f[2] = None => f[1] \in left'[c]
      BY <3>1, <3>2
    <3>5. UNCHANGED fleet /\ FoundHashes(c) = {} /\ step[c] = "status"
      BY <1>0, <1>5 DEF DelugeStatus, Staged, FoundHashes
    <3>6. \A h \in request : <<c, h>> \in moved \/ h \notin Held(c) \/ h \in FoundHashes(c)'
      BY <3>3, <3>5 DEF Covered
    <3> QED
      BY <1>0, <2>2, <3>1, <3>3, <3>4, <3>5, <3>6, CoveredRemove
  <2> QED
    BY <1>5, <2>1, <2>2 DEF DelugeStatus
<1>6. CASE RemoveCall(c) \/ RTorrentDone(c)
  <2>1. Goto(c, "done")
    BY <1>6 DEF RemoveCall, RTorrentDone, Raised
  <2> QED
    BY <1>0, <2>1, CoveredDone
<1>7. CASE RTorrentLook(c)
  <2>1. CASE Goto(c, "done")
    BY <1>0, <2>1, CoveredDone
  <2>2. CASE left' = [left EXCEPT ![c] = request \cap Held(c)] /\ Goto(c, "decide") /\ UNCHANGED found
    <3>1. step'[c] = "decide" /\ left'[c] = request \cap Held(c) /\ found'[c] = {}
      BY <1>0, <1>7, <2>2 DEF RTorrentLook, Goto, TypeOK, Staged
    <3>2. Held(c)' = Held(c)
      BY <1>7 DEF RTorrentLook, Held
    <3> QED
      BY <1>0, <3>1, <3>2 DEF Covered, OneByOne
  <2> QED
    BY <1>7, <2>1, <2>2 DEF RTorrentLook, Raised
<1>8. CASE RTorrentDecide(c)
  <2>1. left[c] # {} /\ step[c] \in OneByOne /\ Held(c)' = Held(c)
    BY <1>8 DEF RTorrentDecide, OneByOne, Held
  <2>2. CASE Raised(c)
    BY <1>0, <2>2, CoveredDone DEF Raised
  <2>3. CASE \E reason : reason # None /\ Settle(c, reason)
    BY <1>0, <2>1, <2>3, CoveredSettle
  <2>4. CASE Goto(c, "locate") /\ UNCHANGED <<left, found>>
    BY <1>0, <2>1, <2>4, CoveredGoesOn DEF OneByOne
  <2> QED
    BY <1>8, <2>2, <2>3, <2>4 DEF RTorrentDecide
<1>9. CASE RTorrentLocate(c)
  <2>1. left[c] # {} /\ step[c] \in OneByOne /\ Held(c)' = Held(c)
    BY <1>0, <1>9 DEF RTorrentLocate, OneByOne, Held, Staged
  <2>2. None # "ownership_unverifiable"
    BY RemovalAssumption DEF SafetyReasons
  <2>3. CASE \E reason : (reason = None => dry) /\ Settle(c, reason)
    BY <1>0, <2>1, <2>3, CoveredSettle
  <2>4. CASE Goto(c, "close") /\ UNCHANGED <<left, found>>
    BY <1>0, <2>1, <2>4, CoveredGoesOn DEF OneByOne
  <2> QED
    BY <1>9, <2>2, <2>3, <2>4 DEF RTorrentLocate
<1>10. CASE RTorrentClose(c)
  <2>1. UNCHANGED <<left, found>> /\ step[c] \in OneByOne
    BY <1>10 DEF RTorrentClose, OneByOne
  <2>2. CASE Goto(c, "done")
    BY <1>0, <2>2, CoveredDone
  <2>3. CASE Goto(c, "rm") /\ fleet' = [fleet EXCEPT ![c][Current(c)].state = "closed"]
    <3>1. Held(c)' = Held(c)
      BY <1>0, <2>3 DEF Held, TypeOK
    <3> QED
      BY <1>0, <2>1, <2>3, <3>1, CoveredGoesOn DEF OneByOne
  <2> QED
    BY <1>10, <2>2, <2>3 DEF RTorrentClose, Raised
<1>11. CASE RTorrentRemoveData(c)
  <2>1. UNCHANGED <<left, found>> /\ step[c] \in OneByOne /\ Held(c)' = Held(c)
    BY <1>11 DEF RTorrentRemoveData, OneByOne, Held
  <2>2. CASE Goto(c, "done")
    BY <1>0, <2>2, CoveredDone
  <2>3. CASE Goto(c, "erase")
    BY <1>0, <2>1, <2>3, CoveredGoesOn DEF OneByOne
  <2> QED
    BY <1>11, <2>2, <2>3 DEF RTorrentRemoveData, Raised
<1>12. CASE RTorrentErase(c)
  <2>1. step[c] \in OneByOne /\ left[c] # {}
    BY <1>0, <1>12 DEF RTorrentErase, Staged, OneByOne
  <2>2. CASE Raised(c)
    BY <1>0, <2>2, CoveredDone DEF Raised
  <2>3. CASE Settle(c, None) /\ fleet' = Without(c, {Current(c)})
    <3>1. Held(c)' = Held(c) \ {Current(c)}
      BY <1>0, <2>3 DEF Held, TypeOK, Without
    <3> QED
      BY <1>0, <2>1, <2>3, <3>1, CoveredSettle
  <2> QED
    BY <1>12, <2>2, <2>3 DEF RTorrentErase
<1> QED
  BY <1>1, <1>2, <1>3, <1>4, <1>5, <1>6, <1>7, <1>8, <1>9, <1>10, <1>11, <1>12 DEF Adapter

LEMMA ListedStep ==
  ASSUME Shape, Listed, [Next]_vars
  PROVE  Listed'
<1>0. FleetKept
  BY FleetStep
<1>1. ASSUME NEW c \in Clients, moved \subseteq moved', UNCHANGED <<request, dry>>,
             step'[c] = step[c], left'[c] = left[c], found'[c] = found[c]
      PROVE  Covered(c)'
  <2>1. FoundHashes(c)' = FoundHashes(c)
    BY <1>1 DEF FoundHashes
  <2>2. \A h : <<c, h>> \in moved' \/ h \notin Held(c)' \/ h \in Held(c)
    BY <1>0 DEF FleetKept
  <2>3. Covered(c)
    BY DEF Listed
  <2>4. step'[c] \notin {"look", "done"} =>
          \A h \in request : <<c, h>> \in moved' \/ h \notin Held(c)' \/ h \in left'[c] \union FoundHashes(c)'
    BY <1>1, <2>1, <2>2, <2>3 DEF Covered
  <2>5. step'[c] \in OneByOne =>
          \A f \in found'[c] : f[2] = None => dry \/ <<c, f[1]>> \in moved' \/ f[1] \notin Held(c)'
    BY <1>1, <2>2, <2>3 DEF Covered
  <2> QED
    BY <1>1, <2>1, <2>3, <2>4, <2>5 DEF Covered
<1>2. ASSUME \A c \in Clients : step'[c] \in {"look", "done"} PROVE Listed'
  BY <1>2 DEF Listed, Covered, OneByOne
<1>3. CASE Start \/ AssessFleet \/ RecheckSkip \/ RecheckList \/ RecheckInventory \/ RecheckFinal \/ Authorize \/ Gather \/ Return
  <2>1. \A c \in Clients : step'[c] \in {"look", "done"}
    BY <1>3 DEF Start, AssessFleet, RecheckSkip, RecheckList, RecheckInventory, RecheckFinal, Authorize, Gather, Return,
                Shape, Control
  <2> QED
    BY <1>2, <2>1
<1>4. ASSUME NEW c \in Clients, Adapter(c) PROVE Listed'
  <2>1. ASSUME NEW d \in Clients PROVE Covered(d)'
    <3>1. CASE d = c
      BY <1>4, <3>1, AdapterCovered DEF Listed
    <3>2. CASE d # c
      <4>1. /\ step'[d] = step[d] /\ left'[d] = left[d] /\ found'[d] = found[d]
            /\ UNCHANGED <<moved, request, dry>>
        BY <1>4, <3>2, AdapterFrame DEF Shape
      <4> QED
        BY <1>1, <4>1
    <3> QED
      BY <3>1, <3>2
  <2> QED
    BY <2>1 DEF Listed
<1>5. ASSUME NEW c \in Clients, NEW h \in Hashes, User(c, h) PROVE Listed'
  <2>1. moved \subseteq moved' /\ UNCHANGED <<request, dry, step, left, found>>
    BY <1>5, UserFrame
  <2> QED
    BY <1>1, <2>1 DEF Listed
<1>6. CASE UNCHANGED vars
  <2>1. UNCHANGED <<moved, request, dry, step, left, found>>
    BY <1>6 DEF vars
  <2> QED
    BY <1>1, <2>1 DEF Listed
<1> QED
  BY <1>3, <1>4, <1>5, <1>6 DEF Next, Fleet

\* The results of adapters that are done; only clients call a torrent absent.
Reported ==
  \A r \in results :
    /\ pc = "done" \/ (r.client \in Clients /\ step[r.client] = "done")
    /\ r.existed = "no" => r.client \in Clients

Bad(r) == r.error \/ r.existed = "unknown" \/ r.skip \notin {None, "seeding_policy"}

\* What a client that is done has made of a requested torrent.
Settled(c, h) ==
  \/ dry \/ <<c, h>> \in moved \/ h \notin Held(c)
  \/ \E r \in results : Bad(r)
  \/ /\ <<c, h>> \notin touched
     /\ Result(c, h, "yes", "seeding_policy", FALSE) \in results
     /\ SafetyReason(evidence, <<c, h>>) = None

Accounted ==
  pc \in {"removing", "done"} => \A c \in Clients : step[c] = "done" => \A h \in request : Settled(c, h)

\* What an adapter that ends adds to the results.
Concluded(c) ==
  /\ \A r \in results' \ results :
       /\ r.client = c
       /\ r.skip # None => <<c, r.hash>> \notin touched'
       /\ r.existed = "no" => <<c, r.hash>> \in moved' \/ r.hash \notin Held(c)'
  /\ \A h \in request' : Settled(c, h)'

LEMMA RaisedConcludes ==
  ASSUME NEW c \in Clients, Raised(c), UNCHANGED request
  PROVE  Concluded(c)
<1>1. results' = results \union {Result(c, h, "unknown", None, TRUE) : h \in request}
  BY DEF Raised, Answer
<1>2. \A h : /\ Result(c, h, "unknown", None, TRUE).client = c
             /\ Result(c, h, "unknown", None, TRUE).skip = None
             /\ Result(c, h, "unknown", None, TRUE).existed = "unknown"
             /\ Bad(Result(c, h, "unknown", None, TRUE))
  BY DEF Result, Bad
<1>3. \A h \in request' : Settled(c, h)'
  BY <1>1, <1>2 DEF Settled, Bad
<1> QED
  BY <1>1, <1>2, <1>3 DEF Concluded

LEMMA AnswersConclude ==
  ASSUME NEW c \in Clients, Answer(c, Answers(c)), UNCHANGED <<request, evidence, found, dry>>,
         \A f \in found[c] : f[2] # None => <<c, f[1]>> \notin touched',
         \A f \in found[c] : f[2] = None => dry \/ <<c, f[1]>> \in moved' \/ f[1] \notin Held(c)',
         \A f \in found[c] : f[2] = "seeding_policy" => SafetyReason(evidence, <<c, f[1]>>) = None,
         \A h \in request : <<c, h>> \in moved' \/ h \notin Held(c)' \/ h \in FoundHashes(c)
  PROVE  Concluded(c)
<1>1. results' = results \union Answers(c)
  BY DEF Answer
<1>2. \A f : /\ Result(c, f[1], "yes", f[2], FALSE).client = c
             /\ Result(c, f[1], "yes", f[2], FALSE).hash = f[1]
             /\ Result(c, f[1], "yes", f[2], FALSE).skip = f[2]
             /\ Result(c, f[1], "yes", f[2], FALSE).existed = "yes"
             /\ f[2] \notin {None, "seeding_policy"} => Bad(Result(c, f[1], "yes", f[2], FALSE))
  BY DEF Result, Bad
<1>3. \A h : /\ Result(c, h, "no", None, FALSE).client = c
             /\ Result(c, h, "no", None, FALSE).hash = h
             /\ Result(c, h, "no", None, FALSE).skip = None
  BY DEF Result
<1>4. ASSUME NEW r \in Answers(c)
      PROVE  /\ r.client = c
             /\ r.skip # None => <<c, r.hash>> \notin touched'
             /\ r.existed = "no" => <<c, r.hash>> \in moved' \/ r.hash \notin Held(c)'
  <2>1. CASE \E f \in found[c] : r = Result(c, f[1], "yes", f[2], FALSE)
    BY <1>2, <2>1
  <2>2. CASE \E h \in request \ FoundHashes(c) : r = Result(c, h, "no", None, FALSE)
    BY <1>3, <2>2
  <2> QED
    BY <1>4, <2>1, <2>2 DEF Answers
<1>5. ASSUME NEW h \in request PROVE Settled(c, h)'
  <2>1. CASE h \notin FoundHashes(c)
    BY <2>1 DEF Settled
  <2>2. CASE h \in FoundHashes(c)
    <3>1. PICK f \in found[c] : h = f[1]
      BY <2>2 DEF FoundHashes
    <3>2. Result(c, f[1], "yes", f[2], FALSE) \in results'
      BY <1>1 DEF Answers
    <3>3. CASE f[2] = None
      BY <3>1, <3>3 DEF Settled
    <3>4. CASE f[2] = "seeding_policy" /\ f[2] # None
      BY <3>1, <3>2, <3>4 DEF Settled
    <3>5. CASE f[2] \notin {None, "seeding_policy"}
      BY <1>2, <3>2, <3>5 DEF Settled, Bad
    <3> QED
      BY <3>3, <3>4, <3>5
  <2> QED
    BY <2>1, <2>2
<1> QED
  BY <1>1, <1>4, <1>5 DEF Concluded

LEMMA AdapterConcludes ==
  ASSUME Shape, NEW c \in Clients, Unhandled(c), Covered(c), Allowed(c), Adapter(c)
  PROVE  \/ results' = results /\ (step'[c] = "done" => step[c] = "done")
         \/ step'[c] = "done" /\ Concluded(c)
<1>0. TypeOK /\ Staged(c) /\ UNCHANGED <<moved, request, dry, evidence>>
  BY AdapterFrame DEF Shape, Control
<1>1. ASSUME Raised(c) PROVE step'[c] = "done" /\ Concluded(c)
  BY <1>0, <1>1, RaisedConcludes DEF Raised, Goto, TypeOK
<1>2. ASSUME UNCHANGED results, NEW s \in Stages \ {"done"}, Goto(c, s)
      PROVE  results' = results /\ step'[c] # "done"
  BY <1>0, <1>2 DEF Goto, TypeOK
<1>3. CASE ReadInventory(c)
  BY <1>3 DEF ReadInventory
<1>4. CASE QbittorrentLook(c) \/ TransmissionLook(c)
  <2>1. \/ Raised(c)
        \/ UNCHANGED results /\ Goto(c, "remove")
    BY <1>4 DEF QbittorrentLook, TransmissionLook
  <2> QED
    BY <1>1, <1>2, <2>1 DEF Stages
<1>5. CASE DelugeLook(c) \/ DelugeStatus(c)
  <2>1. \/ Raised(c)
        \/ UNCHANGED results /\ (Goto(c, "status") \/ Goto(c, "remove"))
    BY <1>5 DEF DelugeLook, DelugeStatus
  <2> QED
    BY <1>1, <1>2, <2>1 DEF Stages
<1>6. CASE RTorrentDecide(c) \/ RTorrentLocate(c) \/ RTorrentClose(c) \/ RTorrentRemoveData(c) \/ RTorrentErase(c)
  <2>1. \/ Raised(c)
        \/ UNCHANGED results /\ \E s \in {"decide", "locate", "close", "rm", "erase"} : Goto(c, s)
    BY <1>6 DEF RTorrentDecide, RTorrentLocate, RTorrentClose, RTorrentRemoveData, RTorrentErase, Settle
  <2> QED
    BY <1>1, <1>2, <2>1 DEF Stages
<1>7. CASE RTorrentLook(c)
  <2>1. CASE Raised(c)
    BY <1>1, <2>1
  <2>2. CASE Goto(c, "decide") /\ UNCHANGED results
    BY <1>2, <2>2 DEF Stages
  <2>3. CASE /\ Goto(c, "done")
             /\ Answer(c, {Result(c, h, IF h \in Held(c) THEN "yes" ELSE "unknown",
                                   "ownership_unverifiable", FALSE) : h \in request})
    <3> DEFINE R(h) == Result(c, h, IF h \in Held(c) THEN "yes" ELSE "unknown", "ownership_unverifiable", FALSE)
    <3>1. \A h : /\ R(h).client = c /\ R(h).hash = h /\ R(h).existed # "no" /\ Bad(R(h))
      BY RemovalAssumption DEF Result, Bad, SafetyReasons
    <3>2. results' = results \union {R(h) : h \in request}
      BY <2>3 DEF Answer
    <3>3. UNCHANGED touched /\ \A h \in request : <<c, h>> \notin touched
      BY <1>0, <1>7 DEF RTorrentLook, Unhandled, TypeOK
    <3> HIDE DEF R
    <3>4. \A r \in results' \ results : /\ r.client = c
                                        /\ <<c, r.hash>> \notin touched'
                                        /\ r.existed # "no"
      BY <3>1, <3>2, <3>3
    <3>5. ASSUME NEW h \in request PROVE Settled(c, h)'
      <4>1. R(h) \in results' /\ Bad(R(h))
        BY <3>1, <3>2
      <4>2. \E r \in results' : Bad(r)
        BY <4>1
      <4> QED
        BY <4>2 DEF Settled, Bad
    <3>6. step'[c] = "done"
      BY <1>0, <2>3 DEF Goto, TypeOK
    <3> QED
      BY <1>0, <3>4, <3>5, <3>6 DEF Concluded
  <2> QED
    BY <1>7, <2>1, <2>2, <2>3 DEF RTorrentLook
<1>8. CASE RemoveCall(c)
  <2>1. CASE Raised(c)
    BY <1>1, <2>1
  <2>2. CASE /\ Goto(c, "done") /\ Answer(c, Answers(c))
             /\ \/ (dry \/ left[c] = {}) /\ UNCHANGED <<fleet, touched>>
                \/ CarryOut(c, left[c])
    <3>1. step[c] = "remove" /\ UNCHANGED found
      BY <1>8 DEF RemoveCall
    <3>2. /\ Held(c)' \subseteq Held(c)
          /\ dry \/ \A h \in left[c] : h \notin Held(c)'
          /\ \A h : <<c, h>> \in touched' => <<c, h>> \in touched \/ h \in left[c]
      <4>1. CASE (dry \/ left[c] = {}) /\ UNCHANGED <<fleet, touched>>
        BY <4>1 DEF Held
      <4>2. CASE CarryOut(c, left[c])
        BY <1>0, <4>2 DEF CarryOut, Without, Held, TypeOK
      <4> QED
        BY <2>2, <4>1, <4>2
    <3>3. \A f \in found[c] : f[2] # None => <<c, f[1]>> \notin touched'
      BY <3>1, <3>2 DEF Unhandled
    <3>4. \A f \in found[c] : f[2] = None => dry \/ f[1] \notin Held(c)'
      BY <3>1, <3>2 DEF Covered
    <3>5. \A h \in request : <<c, h>> \in moved' \/ h \notin Held(c)' \/ h \in FoundHashes(c)
      <4>1. left[c] \subseteq FoundHashes(c)
        BY <3>1 DEF Covered
      <4>2. \A h \in request : <<c, h>> \in moved \/ h \notin Held(c) \/ h \in left[c] \union FoundHashes(c)
        BY <3>1 DEF Covered
      <4> QED
        BY <1>0, <3>2, <4>1, <4>2
    <3>6. \A f \in found[c] : f[2] = "seeding_policy" => SafetyReason(evidence, <<c, f[1]>>) = None
      BY DEF Allowed
    <3>7. step'[c] = "done"
      BY <1>0, <2>2 DEF Goto, TypeOK
    <3> QED
      BY <1>0, <2>2, <3>1, <3>3, <3>4, <3>5, <3>6, <3>7, AnswersConclude
  <2> QED
    BY <1>8, <2>1, <2>2 DEF RemoveCall
<1>9. CASE RTorrentDone(c)
  <2>1. /\ Goto(c, "done") /\ Answer(c, Answers(c)) /\ step[c] = "decide" /\ left[c] = {}
        /\ UNCHANGED <<found, touched>> /\ Held(c)' = Held(c)
    BY <1>9 DEF RTorrentDone, Held
  <2>2. \A f \in found[c] : f[2] # None => <<c, f[1]>> \notin touched'
    BY <2>1 DEF Unhandled
  <2>3. \A f \in found[c] : f[2] = None => dry \/ <<c, f[1]>> \in moved' \/ f[1] \notin Held(c)'
    BY <1>0, <2>1 DEF Covered, OneByOne
  <2>4. \A h \in request : <<c, h>> \in moved' \/ h \notin Held(c)' \/ h \in FoundHashes(c)
    BY <1>0, <2>1 DEF Covered
  <2>5. \A f \in found[c] : f[2] = "seeding_policy" => SafetyReason(evidence, <<c, f[1]>>) = None
    BY DEF Allowed
  <2>6. step'[c] = "done"
    BY <1>0, <2>1 DEF Goto, TypeOK
  <2> QED
    BY <1>0, <2>1, <2>2, <2>3, <2>4, <2>5, <2>6, AnswersConclude
<1> QED
  BY <1>3, <1>4, <1>5, <1>6, <1>7, <1>8, <1>9 DEF Adapter

LEMMA Working ==
  ASSUME Shape, NEW c \in Clients, Adapter(c), ~ReadInventory(c)
  PROVE  step[c] # "done" /\ pc = "removing" /\ pc' = "removing"
<1>1. pc = "removing" /\ pc' = "removing"
  BY AdapterFrame DEF Shape
<1>2. step[c] # "done"
  BY DEF Adapter, QbittorrentLook, TransmissionLook, DelugeLook, DelugeStatus, RemoveCall, RTorrentLook, RTorrentDecide,
         RTorrentLocate, RTorrentClose, RTorrentRemoveData, RTorrentErase, RTorrentDone
<1> QED
  BY <1>1, <1>2

\* Results are kept until the removal returns; only its end adds some.
LEMMA ReportedStep ==
  ASSUME Shape, Untouched, Listed, Permitted, Reported, [Next]_vars
  PROVE  Reported'
<1>1. ASSUME NEW c \in Clients, Adapter(c) PROVE Reported'
  <2>1. CASE ReadInventory(c)
    BY <2>1 DEF ReadInventory, Reported
  <2>2. CASE ~ReadInventory(c)
    <3>1. /\ step[c] # "done" /\ pc = "removing" /\ pc' = "removing"
          /\ \A d \in Clients \ {c} : step'[d] = step[d]
      BY <1>1, <2>2, Working, AdapterFrame DEF Shape
    <3>2. \A r \in results : /\ r.client \in Clients /\ step'[r.client] = "done"
                             /\ r.existed = "no" => r.client \in Clients
      BY <3>1 DEF Reported
    <3>3. \A r \in results' \ results : r.client = c /\ step'[c] = "done"
      <4>1. Unhandled(c) /\ Covered(c) /\ Allowed(c)
        BY DEF Untouched, Listed, Permitted
      <4>2. \/ results' = results
            \/ step'[c] = "done" /\ Concluded(c)
        BY <1>1, <4>1, AdapterConcludes
      <4> QED
        BY <4>2 DEF Concluded
    <3> QED
      BY <3>2, <3>3 DEF Reported
  <2> QED
    BY <2>1, <2>2
<1>2. ASSUME NEW c \in Clients, NEW h \in Hashes, User(c, h) PROVE Reported'
  BY <1>2, UserFrame DEF Reported
<1>3. CASE Start \/ AssessFleet \/ RecheckSkip \/ RecheckList \/ RecheckInventory \/ RecheckFinal
  <2>1. results' = {}
    BY <1>3 DEF Start, AssessFleet, RecheckSkip, RecheckList, RecheckInventory, RecheckFinal, Shape, Control
  <2> QED
    BY <2>1 DEF Reported
<1>4. CASE Authorize
  <2>1. results = {}
    BY <1>4 DEF Authorize, Shape, Control
  <2>2. \A h : Result(None, h, "unknown", "ownership_unverifiable", FALSE).existed # "no"
    BY DEF Result
  <2>3. \A r \in results' : pc' = "done" /\ r.existed # "no"
    BY <1>4, <2>1, <2>2 DEF Authorize, Unverifiable
  <2> QED
    BY <2>3 DEF Reported
<1>5. CASE Gather \/ Return
  BY <1>5 DEF Gather, Return, Reported
<1>6. CASE UNCHANGED vars
  BY <1>6 DEF vars, Reported
<1> QED
  BY <1>1, <1>2, <1>3, <1>4, <1>5, <1>6 DEF Next, Fleet

\* Later steps keep true what the results say.
LEMMA ResultsStep ==
  ASSUME Shape, Untouched, Listed, Permitted, Reported, ResultsAreTrue, [Next]_vars
  PROVE  ResultsAreTrue'
<1>0. FleetKept
  BY FleetStep
<1>1. ASSUME NEW r \in results, moved \subseteq moved', <<r.client, r.hash>> \in touched' => <<r.client, r.hash>> \in touched
      PROVE  /\ r.skip # None => <<r.client, r.hash>> \notin touched'
             /\ r.existed = "no" /\ <<r.client, r.hash>> \notin moved' => r.hash \notin Held(r.client)'
  <2>1. /\ r.skip # None => <<r.client, r.hash>> \notin touched
        /\ r.existed = "no" /\ <<r.client, r.hash>> \notin moved => r.hash \notin Held(r.client)
    BY DEF ResultsAreTrue
  <2>2. r.existed = "no" => r.client \in Clients
    BY DEF Reported
  <2>3. r.client \in Clients /\ <<r.client, r.hash>> \notin moved' /\ r.hash \in Held(r.client)' => r.hash \in Held(r.client)
    BY <1>0 DEF FleetKept
  <2> QED
    BY <1>1, <2>1, <2>2, <2>3
<1>2. ASSUME moved \subseteq moved', UNCHANGED <<results, touched>> PROVE ResultsAreTrue'
  BY <1>1, <1>2 DEF ResultsAreTrue
<1>3. ASSUME NEW c \in Clients, Adapter(c) PROVE ResultsAreTrue'
  <2>1. CASE ReadInventory(c)
    BY <1>2, <2>1 DEF ReadInventory
  <2>2. CASE ~ReadInventory(c)
    <3>1. /\ step[c] # "done" /\ pc = "removing" /\ pc' = "removing" /\ moved' = moved
          /\ \A d \in Clients \ {c} : \A h : <<d, h>> \in touched' => <<d, h>> \in touched
      BY <1>3, <2>2, Working, AdapterFrame DEF Shape
    <3>2. \A r \in results : <<r.client, r.hash>> \in touched' => <<r.client, r.hash>> \in touched
      BY <3>1 DEF Reported
    <3>3. Unhandled(c) /\ Covered(c) /\ Allowed(c)
      BY DEF Untouched, Listed, Permitted
    <3>4. \/ results' = results
          \/ step'[c] = "done" /\ Concluded(c)
      BY <1>3, <3>3, AdapterConcludes
    <3>5. \A r \in results' \ results :
            /\ r.skip # None => <<r.client, r.hash>> \notin touched'
            /\ r.existed = "no" /\ <<r.client, r.hash>> \notin moved' => r.hash \notin Held(r.client)'
      BY <3>4 DEF Concluded
    <3>6. \A r \in results :
            /\ r.skip # None => <<r.client, r.hash>> \notin touched'
            /\ r.existed = "no" /\ <<r.client, r.hash>> \notin moved' => r.hash \notin Held(r.client)'
      BY <1>1, <3>1, <3>2
    <3> QED
      BY <3>5, <3>6 DEF ResultsAreTrue
  <2> QED
    BY <2>1, <2>2
<1>4. ASSUME NEW c \in Clients, NEW h \in Hashes, User(c, h) PROVE ResultsAreTrue'
  <2>1. moved \subseteq moved' /\ UNCHANGED <<results, touched>>
    BY <1>4, UserFrame
  <2> QED
    BY <1>2, <2>1
<1>5. CASE Start \/ AssessFleet \/ RecheckSkip \/ RecheckList \/ RecheckInventory \/ RecheckFinal \/ Return
  <2>1. results' = {}
    BY <1>5 DEF Start, AssessFleet, RecheckSkip, RecheckList, RecheckInventory, RecheckFinal, Return, Shape, Control
  <2> QED
    BY <2>1 DEF ResultsAreTrue
<1>6. CASE Authorize
  <2>1. results = {} /\ touched' = {}
    BY <1>6 DEF Authorize, Shape, Control
  <2>2. \A h : Result(None, h, "unknown", "ownership_unverifiable", FALSE).existed # "no"
    BY DEF Result
  <2>3. \A r \in results' : r.existed # "no"
    BY <1>6, <2>1, <2>2 DEF Authorize, Unverifiable
  <2> QED
    BY <2>1, <2>3 DEF ResultsAreTrue
<1>7. CASE Gather
  BY <1>2, <1>7 DEF Gather
<1>8. CASE UNCHANGED vars
  BY <1>2, <1>8 DEF vars
<1> QED
  BY <1>3, <1>4, <1>5, <1>6, <1>7, <1>8 DEF Next, Fleet

LEMMA AccountedStep ==
  ASSUME Shape, Untouched, Listed, Permitted, Reported, Accounted, [Next]_vars
  PROVE  Accounted'
<1>0. FleetKept
  BY FleetStep
<1>1. ASSUME NEW c \in Clients, NEW h, Settled(c, h), moved \subseteq moved', results \subseteq results', UNCHANGED <<dry, evidence>>,
             <<c, h>> \in touched' => <<c, h>> \in touched
      PROVE  Settled(c, h)'
  <2>1. <<c, h>> \in moved' \/ h \notin Held(c)' \/ h \in Held(c)
    BY <1>0 DEF FleetKept
  <2>2. (\E r \in results : Bad(r)) => (\E r \in results' : Bad(r))
    BY <1>1
  <2> QED
    BY <1>1, <2>1, <2>2 DEF Settled, Bad
<1>2. ASSUME pc \in {"removing", "done"}, UNCHANGED <<request, dry, evidence, step, touched, results>>, moved \subseteq moved'
      PROVE  Accounted'
  BY <1>1, <1>2 DEF Accounted
<1>3. ASSUME NEW c \in Clients, Adapter(c) PROVE Accounted'
  <2>1. CASE ReadInventory(c)
    BY <2>1 DEF ReadInventory, Accounted
  <2>2. CASE ~ReadInventory(c)
    <3>1. /\ step[c] # "done" /\ pc = "removing" /\ UNCHANGED <<moved, request, dry, evidence>>
          /\ \A d \in Clients \ {c} : step'[d] = step[d]
          /\ \A d \in Clients \ {c} : \A h : <<d, h>> \in touched' => <<d, h>> \in touched
          /\ results \subseteq results'
      BY <1>3, <2>2, Working, AdapterFrame DEF Shape
    <3>2. ASSUME NEW d \in Clients \ {c}, step'[d] = "done", NEW h \in request PROVE Settled(d, h)'
      <4>1. Settled(d, h)
        BY <3>1, <3>2 DEF Accounted
      <4> QED
        BY <1>1, <3>1, <4>1
    <3>3. ASSUME step'[c] = "done", NEW h \in request PROVE Settled(c, h)'
      <4>1. Unhandled(c) /\ Covered(c) /\ Allowed(c)
        BY DEF Untouched, Listed, Permitted
      <4>2. Concluded(c)
        BY <1>3, <3>1, <3>3, <4>1, AdapterConcludes
      <4> QED
        BY <3>1, <4>2 DEF Concluded
    <3> QED
      BY <3>1, <3>2, <3>3 DEF Accounted
  <2> QED
    BY <2>1, <2>2
<1>4. ASSUME NEW c \in Clients, NEW h \in Hashes, User(c, h) PROVE Accounted'
  <2>1. UNCHANGED <<pc, request, dry, evidence, step, touched, results>> /\ moved \subseteq moved'
    BY <1>4, UserFrame
  <2>2. CASE pc \in {"removing", "done"}
    BY <1>2, <2>1, <2>2
  <2> QED
    BY <2>1, <2>2 DEF Accounted
<1>5. CASE Start \/ AssessFleet \/ RecheckSkip \/ RecheckList \/ RecheckInventory \/ RecheckFinal \/ Return
  <2>1. pc' \notin {"removing", "done"}
    BY <1>5 DEF Start, AssessFleet, RecheckSkip, RecheckList, RecheckInventory, RecheckFinal, Return
  <2> QED
    BY <2>1 DEF Accounted
<1>6. CASE Authorize
  <2>1. CASE evidence.complete
    BY <1>6, <2>1 DEF Authorize, Accounted
  <2>2. CASE ~evidence.complete
    <3>1. results' = {Result(None, h, "unknown", "ownership_unverifiable", FALSE) : h \in request} /\ request' = request
      BY <1>6, <2>2 DEF Authorize, Unverifiable
    <3>2. ASSUME NEW c \in Clients, NEW h \in request PROVE Settled(c, h)'
      <4>1. Result(None, h, "unknown", "ownership_unverifiable", FALSE).existed = "unknown"
        BY DEF Result
      <4>2. \E r \in results' : r.existed = "unknown"
        BY <3>1, <4>1
      <4> QED
        BY <4>2 DEF Settled, Bad
    <3> QED
      BY <3>1, <3>2 DEF Accounted
  <2> QED
    BY <2>1, <2>2
<1>7. CASE Gather
  BY <1>2, <1>7 DEF Gather
<1>8. CASE UNCHANGED vars
  <2>1. UNCHANGED <<pc, request, dry, evidence, step, touched, results, moved>>
    BY <1>8 DEF vars
  <2>2. CASE pc \in {"removing", "done"}
    BY <1>2, <2>1, <2>2
  <2> QED
    BY <2>1, <2>2 DEF Accounted
<1> QED
  BY <1>3, <1>4, <1>5, <1>6, <1>7, <1>8 DEF Next, Fleet

-----------------------------------------------------------------------------
(* No sibling's data is hit, and nothing is left half removed.             *)

\* A torrent that may go has one recorded scope in its client's inventory, and a certain one.
LEMMA RecordedScope ==
  ASSUME Shape, Evident, Sighted, pc = "removing", NEW c \in Clients, NEW h \in Hashes,
         SafetyReason(evidence, <<c, h>>) = None, NEW e \in evidence.scopes, e[1] = <<c, h>>
  PROVE  \E s \in inv[c].scopes :
           /\ s.hash = h /\ s.paths = e[2] /\ ~s.uncertain
           /\ \A t \in inv[c].scopes : t.hash = h => t = s
<1>1. evidence.complete /\ <<c, h>> \notin evidence.uncertain
  BY RemovalAssumption DEF SafetyReason, SafetyReasons
<1>2. /\ Judged(evidence, evidence.invs, request)
      /\ \A d \in Clients : evidence.invs[d] = inv[d]
      /\ DOMAIN evidence.invs = Clients
  BY <1>1, EvidenceHolds DEF Evident
<1>3. PICK o \in Owned(evidence.invs) : e = <<Id(o), o[2].paths>>
  BY <1>2 DEF Judged
<1>4. PICK d \in Clients : \E s \in inv[d].scopes : o = <<d, s>>
  BY <1>2, <1>3 DEF Owned
<1>5. PICK s \in inv[d].scopes : o = <<d, s>>
  BY <1>4
<1>6. Id(o) = <<d, s.hash>> /\ o[2] = s
  BY <1>5 DEF Id
<1>7. d = c /\ s.hash = h /\ s.paths = e[2]
  BY <1>3, <1>6
<1>8. ~s.uncertain
  BY <1>1, <1>2, <1>6, <1>7 DEF Judged
<1>9. Usable(inv[c])
  BY <1>2 DEF Judged
<1> QED
  BY <1>5, <1>7, <1>8, <1>9 DEF Usable

\* Removing the data at the recorded place of such a torrent hits nothing the
\* inventories saw.
LEMMA NothingHit ==
  ASSUME Shape, Evident, Sighted, pc = "removing", NEW c \in Clients, NEW h \in request,
         SafetyReason(evidence, <<c, h>>) = None, NEW s \in inv[c].scopes, s.hash = h,
         NEW p \in Places, s.paths = {p}
  PROVE  HitBy(<<c, h>>, p) = {}
<1> DEFINE x == <<c, h>>
<1>1. evidence.complete
  BY RemovalAssumption DEF SafetyReason, SafetyReasons
<1>2. /\ Judged(evidence, evidence.invs, request) /\ IsFiniteSet(Owned(evidence.invs))
      /\ \A d \in Clients : Readable(d) /\ evidence.invs[d] = inv[d]
      /\ \A d \in Clients : \A t \in inv[d].scopes : <<d, t>> \in Owned(evidence.invs)
  BY <1>1, EvidenceHolds
<1>3. SUFFICES ASSUME NEW v \in Victims(x, p), <<v[1], v[2], At(v)>> \in seen PROVE FALSE
  BY DEF HitBy
<1>4. v = <<v[1], v[2]>> /\ v[1] \in Clients
  BY <1>3 DEF Victims, Pairs
<1>5. v # x /\ (Within(At(v), p) \/ Within(p, At(v)))
  BY <1>3 DEF Victims
<1>6. At(v) \in Places
  BY <1>3 DEF Sighted
<1>7. PICK t \in inv[v[1]].scopes : t.hash = v[2] /\ (t.paths = {At(v)} \/ t.paths = {Parent(At(v))})
  <2>1. Explained(v[1])
    BY <1>2, <1>4 DEF Sighted
  <2> DEFINE sight == <<v[1], v[2], At(v)>>
  <2>2. sight \in seen /\ sight[1] = v[1] /\ sight[2] = v[2] /\ sight[3] = At(v)
    BY <1>3
  <2> HIDE DEF sight
  <2> QED
    BY <2>1, <2>2 DEF Explained
<1>8. p \in Seq(STRING) /\ At(v) \in Seq(STRING)
  BY <1>6, RemovalAssumption
<1> DEFINE o == <<c, s>>
           w == <<v[1], t>>
<1>9. o \in Owned(evidence.invs) /\ w \in Owned(evidence.invs)
  BY <1>2, <1>4
<1>10. Id(o) = x /\ Id(w) = v /\ o[2] = s /\ w[2] = t
  BY <1>4, <1>7 DEF Id
<1>11. SafetyReason(evidence, Id(o)) = None /\ Id(o) # Id(w) /\ o[2].hash \in request /\ o[2].paths = {p}
       /\ (w[2].paths = {At(v)} \/ w[2].paths = {Parent(At(v))})
  BY <1>5, <1>7, <1>10
<1>12. None \notin SafetyReasons
  BY RemovalAssumption
<1> HIDE DEF o, w
<1>13. ~Within(p, At(v)) /\ ~Within(At(v), p)
  BY <1>2, <1>8, <1>9, <1>11, <1>12, SafeAlone
<1> QED
  BY <1>5, <1>13

LEMMA HitStep ==
  ASSUME Shape, Evident, Sighted, Permitted, NoSiblingHit, [Next]_vars
  PROVE  NoSiblingHit'
<1>1. ASSUME moved \subseteq moved', kind' = kind, NEW new, hit' \subseteq hit \union new,
             \A e \in new : e[1] \in moved /\ kind[e[1][1]] # "rtorrent"
      PROVE  NoSiblingHit'
  BY <1>1 DEF NoSiblingHit
<1>2. ASSUME moved \subseteq moved', kind' = kind, hit' \subseteq hit PROVE NoSiblingHit'
  BY <1>2 DEF NoSiblingHit
<1>3. ASSUME NEW c \in Clients, Adapter(c) PROVE NoSiblingHit'
  <2>0. moved' = moved /\ kind' = kind
    BY <1>3, AdapterFrame DEF Shape
  <2>1. CASE UNCHANGED hit
    BY <1>2, <2>0, <2>1
  <2>2. CASE RemoveCall(c) /\ hit' # hit
    <3>1. /\ pc = "removing" /\ step[c] = "remove" /\ kind[c] # "rtorrent"
          /\ left[c] \subseteq request /\ request \subseteq Hashes
      BY <2>2 DEF RemoveCall, Shape, Control, Staged, TypeOK
    <3>2. PICK hs \in SUBSET left[c] : CarryOut(c, hs)
      BY <2>2 DEF RemoveCall
    <3> DEFINE gone == {<<c, h>> : h \in hs \cap Held(c)}
               new == UNION {HitBy(x, At(x)) : x \in gone}
    <3>3. hit' = hit \union new
      BY <3>2 DEF CarryOut
    <3>4. ASSUME NEW h \in hs \cap Held(c), <<c, h>> \notin moved PROVE HitBy(<<c, h>>, At(<<c, h>>)) = {}
      <4>1. SafetyReason(evidence, <<c, h>>) = None
        BY <3>1, <3>4 DEF Permitted, Allowed
      <4>2. PICK e \in evidence.scopes : e[1] = <<c, h>> /\ e[2] # {}
        BY <3>1, <3>4 DEF Permitted, Allowed
      <4>3. h \in Hashes /\ h \in request
        BY <3>1, <3>4
      <4>4. PICK s \in inv[c].scopes : /\ s.hash = h /\ s.paths = e[2] /\ ~s.uncertain
                                       /\ \A t \in inv[c].scopes : t.hash = h => t = s
        BY <3>1, <4>1, <4>2, <4>3, RecordedScope
      <4>5. Described(c)
        <5>1. evidence.complete
          BY <3>1 DEF Shape, Control
        <5> QED
          BY <3>1, <5>1, EvidenceHolds DEF Sighted
      <4>6. PICK t \in inv[c].scopes : t.hash = h /\ (t.paths # {} /\ ~t.uncertain => t.paths = {At(<<c, h>>)})
        BY <3>4, <4>5 DEF Described
      <4>7. s.paths = {At(<<c, h>>)}
        BY <4>2, <4>4, <4>6
      <4>8. At(<<c, h>>) \in Places
        <5>1. fleet[c][h] \in Torrent
          BY <3>4 DEF Shape, TypeOK
        <5> QED
          BY <5>1 DEF At, Torrent
      <4> QED
        BY <3>1, <4>1, <4>3, <4>4, <4>7, <4>8, NothingHit
    <3>5. \A e \in new : e[1] \in moved /\ kind[e[1][1]] # "rtorrent"
      <4>1. SUFFICES ASSUME NEW h \in hs \cap Held(c), NEW e \in HitBy(<<c, h>>, At(<<c, h>>))
                     PROVE  e[1] \in moved /\ kind[e[1][1]] # "rtorrent"
        OBVIOUS
      <4>2. e[1] = <<c, h>>
        <5>1. \E y : e = <<<<c, h>>, y>>
          BY <4>1 DEF HitBy
        <5> QED
          BY <5>1
      <4>3. <<c, h>> \in moved
        BY <3>4, <4>1
      <4> QED
        BY <3>1, <4>2, <4>3
    <3> HIDE DEF new
    <3> QED
      BY <1>1, <2>0, <3>3, <3>5
  <2>3. CASE RTorrentRemoveData(c)
    <3> DEFINE x == <<c, Current(c)>>
               path == CHOOSE p \in Places : ScopeMatches(evidence, x, p, TRUE)
    <3>1. pc = "removing" /\ step[c] = "rm" /\ hit' \subseteq hit \union HitBy(x, path)
      BY <2>3 DEF RTorrentRemoveData
    <3>2. Current(c) \in request /\ Current(c) \in Hashes
      BY <3>1 DEF Shape, Control, Staged, Current, TypeOK
    <3>3. /\ SafetyReason(evidence, <<c, Current(c)>>) = None
          /\ \E p \in Places : ScopeMatches(evidence, <<c, Current(c)>>, p, TRUE)
      BY <3>1 DEF Permitted, Allowed
    <3>4. path \in Places /\ ScopeMatches(evidence, <<c, Current(c)>>, path, TRUE)
      BY <3>3
    <3> HIDE DEF path
    <3>5. PICK e \in evidence.scopes : e[1] = <<c, Current(c)>> /\ e[2] = {path}
      BY <3>4 DEF ScopeMatches
    <3>6. PICK s \in inv[c].scopes : s.hash = Current(c) /\ s.paths = {path}
      BY <3>1, <3>2, <3>3, <3>5, RecordedScope
    <3>7. HitBy(x, path) = {}
      BY <3>1, <3>2, <3>3, <3>4, <3>6, NothingHit
    <3> QED
      BY <1>2, <2>0, <3>1, <3>7
  <2>4. CASE ReadInventory(c) \/ QbittorrentLook(c) \/ TransmissionLook(c) \/ DelugeLook(c) \/ DelugeStatus(c)
    BY <2>1, <2>4 DEF ReadInventory, QbittorrentLook, TransmissionLook, DelugeLook, DelugeStatus
  <2>5. CASE RTorrentLook(c) \/ RTorrentDecide(c) \/ RTorrentLocate(c) \/ RTorrentClose(c) \/ RTorrentErase(c) \/ RTorrentDone(c)
    BY <2>1, <2>5 DEF RTorrentLook, RTorrentDecide, RTorrentLocate, RTorrentClose, RTorrentErase, RTorrentDone
  <2> QED
    BY <1>3, <2>1, <2>2, <2>3, <2>4, <2>5 DEF Adapter
<1>4. ASSUME NEW c \in Clients, NEW h \in Hashes, User(c, h) PROVE NoSiblingHit'
  BY <1>2, <1>4, UserFrame
<1>5. CASE Start \/ Return
  <2>1. hit' = {}
    BY <1>5 DEF Start, Return, Shape, Control
  <2> QED
    BY <2>1 DEF NoSiblingHit
<1>6. CASE AssessFleet \/ RecheckSkip \/ RecheckList \/ RecheckInventory \/ RecheckFinal \/ Authorize \/ Gather
  <2>1. UNCHANGED <<moved, kind, hit>>
    BY <1>6 DEF AssessFleet, RecheckSkip, RecheckList, RecheckInventory, RecheckFinal, Authorize, Gather
  <2> QED
    BY <1>2, <2>1
<1>7. CASE UNCHANGED vars
  BY <1>2, <1>7 DEF vars
<1> QED
  BY <1>3, <1>4, <1>5, <1>6, <1>7 DEF Next, Fleet

\* The inductive invariant of a fleet removal.
RemovalInv == Shape /\ Evident /\ Sighted /\ Permitted /\ Untouched /\ Listed /\ Reported /\ Accounted

LEMMA RemovalInductive ==
  /\ Init => RemovalInv /\ NoSiblingHit /\ ResultsAreTrue
  /\ RemovalInv /\ [Next]_vars => RemovalInv'
<1>1. ASSUME Init PROVE RemovalInv /\ NoSiblingHit /\ ResultsAreTrue
  <2>1. Shape
    BY <1>1, TypeInit, ControlInit DEF Shape
  <2>2. Evident /\ Reported /\ Accounted /\ NoSiblingHit /\ ResultsAreTrue
    BY <1>1 DEF Init, Evident, Reported, Accounted, NoSiblingHit, ResultsAreTrue
  <2>3. Sighted
    BY <1>1 DEF Init, Sighted, Readable
  <2>4. Permitted /\ Untouched /\ Listed
    BY <1>1 DEF Init, Permitted, Allowed, Untouched, Unhandled, Listed, Covered, OneByOne
  <2> QED
    BY <2>1, <2>2, <2>3, <2>4 DEF RemovalInv
<1>2. ASSUME RemovalInv, [Next]_vars PROVE RemovalInv'
  <2>1. Shape'
    BY <1>2, TypeStep, ControlStep DEF Shape, RemovalInv
  <2>2. Evident' /\ Sighted' /\ Permitted'
    BY <1>2, EvidentStep, SightedStep, PermittedStep DEF RemovalInv
  <2>3. Untouched' /\ Listed'
    BY <1>2, UntouchedStep, ListedStep DEF RemovalInv
  <2>4. Reported' /\ Accounted'
    BY <1>2, ReportedStep, AccountedStep DEF RemovalInv
  <2> QED
    BY <2>1, <2>2, <2>3, <2>4 DEF RemovalInv
<1> QED
  BY <1>1, <1>2

(* The removal of a torrent never hits data that another torrent of the    *)
(* fleet held when the evidence was read, in whichever client and however  *)
(* the removals interleave (data_safety.py assess and refresh, the checks  *)
(* of each adapter before its removal call), but for the torrents a user   *)
(* moved in a client that removes by the present place.                    *)
THEOREM SiblingsSafe == Spec => []NoSiblingHit
<1>1. RemovalInv /\ NoSiblingHit /\ [Next]_vars => NoSiblingHit'
  BY HitStep DEF RemovalInv
<1> QED
  BY <1>1, RemovalInductive, PTL DEF Spec

(* A torrent that the results of MultiDownloaderClient.delete_hashes call  *)
(* retained was not touched, and one that they call absent is not there:   *)
(* each DownloaderRemovalResult tells what its adapter did, with adapters  *)
(* that run concurrently and raise at any RPC.                             *)
THEOREM ResultsTrue == Spec => []ResultsAreTrue
<1>1. RemovalInv /\ ResultsAreTrue /\ [Next]_vars => ResultsAreTrue'
  BY ResultsStep DEF RemovalInv
<1> QED
  BY <1>1, RemovalInductive, PTL DEF Spec

(* When the results let the cascade go on (strategies.py _cleanup_hashes), *)
(* every requested torrent is gone from every client or retained untouched *)
(* by a seeding policy: also after attempts that failed half way.          *)
THEOREM ReadySettled == Spec => []ReadyMeansSettled
<1>1. RemovalInv => ReadyMeansSettled
  <2>1. SUFFICES ASSUME RemovalInv, pc = "done", Ready, ~dry, NEW c \in Clients, NEW h \in request
                 PROVE  \/ <<c, h>> \in moved
                        \/ h \notin Held(c)
                        \/ /\ <<c, h>> \notin touched
                           /\ fleet[c][h].state # "closed"
                           /\ Result(c, h, "yes", "seeding_policy", FALSE) \in results
    BY DEF ReadyMeansSettled
  <2>2. Settled(c, h)
    BY <2>1 DEF RemovalInv, Shape, Control, Accounted
  <2>3. ~\E r \in results : Bad(r)
    BY <2>1 DEF Ready, Bad
  <2>4. SUFFICES ASSUME <<c, h>> \notin moved, h \in Held(c), <<c, h>> \notin touched, fleet[c][h].state = "closed",
                        SafetyReason(evidence, <<c, h>>) = None
                 PROVE  FALSE
    BY <2>1, <2>2, <2>3 DEF Settled
  <2>5. evidence.complete /\ <<c, h>> \notin evidence.closed
    BY <2>4, RemovalAssumption DEF SafetyReason, SafetyReasons
  <2>6. /\ Judged(evidence, evidence.invs, request) /\ Readable(c)
        /\ \A s \in inv[c].scopes : <<c, s>> \in Owned(evidence.invs)
    BY <2>1, <2>5, EvidenceHolds DEF RemovalInv
  <2>7. PICK s \in inv[c].scopes : s.hash = h /\ s.closed
    BY <2>1, <2>4, <2>6 DEF RemovalInv, Sighted, Described
  <2>8. Id(<<c, s>>) = <<c, h>> /\ <<c, s>>[2] = s
    BY <2>7 DEF Id
  <2> QED
    BY <2>5, <2>6, <2>7, <2>8 DEF Judged
<1> QED
  BY <1>1, RemovalInductive, PTL DEF Spec

=============================================================================
