--------------------------- MODULE Access_proofs ---------------------------
(***************************************************************************)
(* Proofs about Access and the Configuration beneath it, for every set of  *)
(* users, profiles, policies and older configurations, every number of     *)
(* requests, edits, failed writes and crashes.                             *)
(***************************************************************************)
EXTENDS Access, FiniteSetTheorems, SequenceTheorems, WellFoundedInduction, TLAPS

-----------------------------------------------------------------------------
(* Lists of profiles.                                                      *)

Lists == {ps \in Seq(Profiles) : \A i, j \in DOMAIN ps : ps[i].id = ps[j].id => i = j}

\* The ids a list enables.
On(ps) == {ps[i].id : i \in {j \in DOMAIN ps : ps[j].enabled}}

LEMMA FirstIn ==
  ASSUME NEW S \in SUBSET Nat, S # {}
  PROVE  First(S) \in S
<1> DEFINE R == OpToRel(<, Nat)
<1>1. IsWellFoundedOn(R, Nat)
  BY NatLessThanWellFounded
<1>2. \A x, y \in Nat : y < x => <<y, x>> \in R
  BY DEF OpToRel
<1> HIDE DEF R
<1>3. PICK x \in S : \A y \in S : ~(<<y, x>> \in R)
  BY <1>1, WFMin
<1>4. \A y \in S : ~(y < x)
  BY <1>2, <1>3
<1>5. \A y \in S : x <= y
  BY <1>4
<1> QED
  BY <1>5 DEF First

\* The preferred profile is one of the list.
LEMMA ActiveIn ==
  ASSUME NEW ps \in Lists, ps # <<>>
  PROVE  /\ ActiveId(ps) \in IdsOf(ps)
         /\ LET marked == {i \in DOMAIN ps : ps[i].is_default}
            IN  marked # {} => \E i \in marked : ActiveId(ps) = ps[i].id
<1> DEFINE marked == {i \in DOMAIN ps : ps[i].is_default}
           on == {i \in DOMAIN ps : ps[i].enabled}
           S == IF marked # {} THEN marked ELSE IF on # {} THEN on ELSE DOMAIN ps
<1>1. DOMAIN ps = 1..Len(ps) /\ Len(ps) \in Nat \ {0}
  BY DEF Lists
<1>2. S \in SUBSET Nat /\ S # {} /\ S \subseteq DOMAIN ps
  BY <1>1
<1>3. First(S) \in S
  BY <1>2, FirstIn
<1>4. ActiveId(ps) = ps[First(S)].id
  BY DEF ActiveId
<1> QED
  BY <1>2, <1>3, <1>4 DEF IdsOf

\* A normalised list has the same profiles, exactly one of them preferred, and is
\* left as it is by another normalisation.
LEMMA NormalList ==
  ASSUME NEW ps \in Lists
  PROVE  LET ns == NormalizeDefaults(ps)
         IN  /\ ns \in Lists /\ On(ns) = On(ps) /\ IdsOf(ns) = IdsOf(ps)
             /\ NormalizeDefaults(ns) = ns
             /\ ns # <<>> => Cardinality({i \in DOMAIN ns : ns[i].is_default}) = 1
<1> DEFINE ns == NormalizeDefaults(ps)
<1>1. /\ Len(ps) \in Nat /\ DOMAIN ps = 1..Len(ps) /\ \A i \in DOMAIN ps : ps[i] \in Profiles
  BY DEF Lists
<1>2. /\ DOMAIN ns = DOMAIN ps
      /\ \A i \in DOMAIN ps : /\ ns[i] \in Profiles /\ ns[i].id = ps[i].id
                              /\ ns[i].enabled = ps[i].enabled
                              /\ ns[i].is_default <=> ps[i].id = ActiveId(ps)
  BY <1>1 DEF NormalizeDefaults, Profiles
<1>3. ns \in Seq(Profiles)
  <2>1. ns \in [1..Len(ps) -> Profiles]
    BY <1>1, <1>2 DEF NormalizeDefaults
  <2> QED
    BY <1>1, <2>1
<1>4. ns \in Lists
  BY <1>2, <1>3 DEF Lists
<1>5. On(ns) = On(ps) /\ IdsOf(ns) = IdsOf(ps)
  BY <1>2 DEF On, IdsOf
<1>6. CASE ps = <<>>
  <2>1. ns = <<>>
    BY <1>1, <1>2, <1>3, <1>6
  <2> QED
    BY <1>4, <1>5, <1>6, <2>1
<1>7. CASE ps # <<>>
  <2>1. PICK k \in DOMAIN ps : ps[k].id = ActiveId(ps)
    BY <1>7, ActiveIn DEF IdsOf
  <2>2. {i \in DOMAIN ns : ns[i].is_default} = {k}
    BY <1>2, <2>1 DEF Lists
  <2>3. ns # <<>>
    BY <1>2, <2>1
  <2>4. ActiveId(ns) = ActiveId(ps)
    BY <1>2, <1>4, <2>1, <2>2, <2>3, ActiveIn
  <2>5. NormalizeDefaults(ns) = [i \in DOMAIN ps |-> [ns[i] EXCEPT !.is_default = ns[i].id = ActiveId(ps)]]
    BY <1>2, <2>4 DEF NormalizeDefaults
  <2>6. \A i \in DOMAIN ps : [ns[i] EXCEPT !.is_default = ns[i].id = ActiveId(ps)] = ns[i]
    BY <1>2 DEF Profiles
  <2>7. ns = [i \in DOMAIN ps |-> ns[i]]
    BY DEF NormalizeDefaults
  <2>8. NormalizeDefaults(ns) = ns
    BY <2>5, <2>6, <2>7
  <2> QED
    BY <1>4, <1>5, <2>2, <2>8, FS_Singleton
<1> QED
  BY <1>6, <1>7

LEMMA AddedList ==
  ASSUME NEW ps \in Lists, NEW p \in Profiles, p.id \notin IdsOf(ps)
  PROVE  /\ Added(ps, p) \in Lists
         /\ On(Added(ps, p)) \subseteq IF p.enabled THEN On(ps) \union {p.id} ELSE On(ps)
<1> DEFINE ns == Added(ps, p)
<1>1. /\ Len(ps) \in Nat /\ DOMAIN ps = 1..Len(ps) /\ ps \in Seq(Profiles)
  BY DEF Lists
<1>2. /\ ns \in Seq(Profiles) /\ DOMAIN ns = 1..(Len(ps) + 1)
      /\ \A i \in DOMAIN ps : ns[i] = ps[i]
      /\ ns[Len(ps) + 1] = p
  BY <1>1 DEF Added
<1>3. \A i \in DOMAIN ns : i \in DOMAIN ps \/ i = Len(ps) + 1
  BY <1>1, <1>2
<1>4. \A i \in DOMAIN ps : ps[i].id # p.id
  BY DEF IdsOf
<1> QED
  BY <1>2, <1>3, <1>4 DEF Lists, On

LEMMA ReplacedList ==
  ASSUME NEW ps \in Lists, NEW p \in Profiles
  PROVE  /\ Replaced(ps, p) \in Lists
         /\ On(Replaced(ps, p)) \subseteq
              IF p.enabled THEN On(ps) \union {p.id} ELSE On(ps) \ {p.id}
<1> DEFINE ns == Replaced(ps, p)
<1>1. /\ Len(ps) \in Nat /\ DOMAIN ps = 1..Len(ps) /\ ps \in Seq(Profiles)
      /\ \A i \in DOMAIN ps : ps[i] \in Profiles
  BY DEF Lists
<1>2. /\ ns \in Seq(Profiles) /\ DOMAIN ns = DOMAIN ps
      /\ \A i \in DOMAIN ps : ns[i] = IF ps[i].id = p.id THEN p ELSE ps[i]
  BY <1>1 DEF Replaced
<1> QED
  BY <1>2 DEF Lists, On

\* A sequence without its element at k.
LEMMA RemovedAt ==
  ASSUME NEW S, NEW s \in Seq(S), NEW k \in 1..Len(s)
  PROVE  /\ RemoveAt(s, k) \in Seq(S)
         /\ Len(RemoveAt(s, k)) = Len(s) - 1
         /\ DOMAIN RemoveAt(s, k) = 1..(Len(s) - 1)
         /\ \A i \in 1..(Len(s) - 1) : RemoveAt(s, k)[i] = IF i < k THEN s[i] ELSE s[i + 1]
<1> DEFINE a == SubSeq(s, 1, k - 1)
           b == SubSeq(s, k + 1, Len(s))
<1>1. Len(s) \in Nat /\ k \in Nat /\ \A i \in 1..Len(s) : s[i] \in S
  BY LenProperties, ElementOfSeq
<1>2. \A m, n \in Int : (\A i \in m..n : s[i] \in S) =>
         /\ SubSeq(s, m, n) \in Seq(S)
         /\ Len(SubSeq(s, m, n)) = IF m <= n THEN n - m + 1 ELSE 0
         /\ \A i \in 1..(n - m + 1) : SubSeq(s, m, n)[i] = s[m + i - 1]
  BY SubSeqProperties
<1>3. /\ a \in Seq(S) /\ Len(a) = k - 1
      /\ \A i \in 1..(k - 1) : a[i] = s[i]
  <2>1. 1 \in Int /\ k - 1 \in Int /\ \A i \in 1..(k - 1) : s[i] \in S
    BY <1>1
  <2>2. /\ a \in Seq(S)
        /\ Len(a) = IF 1 <= k - 1 THEN k - 1 - 1 + 1 ELSE 0
        /\ \A i \in 1..(k - 1 - 1 + 1) : a[i] = s[1 + i - 1]
    BY <1>2, <2>1, Zenon
  <2> QED
    BY <1>1, <2>2
<1>4. /\ b \in Seq(S) /\ Len(b) = Len(s) - k
      /\ \A i \in 1..(Len(s) - k) : b[i] = s[i + k]
  <2>1. k + 1 \in Int /\ Len(s) \in Int /\ \A i \in (k + 1)..Len(s) : s[i] \in S
    BY <1>1
  <2>2. /\ b \in Seq(S)
        /\ Len(b) = IF k + 1 <= Len(s) THEN Len(s) - (k + 1) + 1 ELSE 0
        /\ \A i \in 1..(Len(s) - (k + 1) + 1) : b[i] = s[k + 1 + i - 1]
    BY <1>2, <2>1, Zenon
  <2> QED
    BY <1>1, <2>2
<1> HIDE DEF a, b
<1>5. /\ a \o b \in Seq(S) /\ Len(a \o b) = Len(a) + Len(b)
      /\ \A i \in 1..(Len(a) + Len(b)) : (a \o b)[i] = IF i <= Len(a) THEN a[i] ELSE b[i - Len(a)]
  BY <1>3, <1>4, ConcatProperties
<1>6. RemoveAt(s, k) = a \o b
  BY DEF RemoveAt, a, b
<1>7. Len(a) + Len(b) = Len(s) - 1
  BY <1>1, <1>3, <1>4
<1>8. DOMAIN (a \o b) = 1..(Len(s) - 1)
  BY <1>5, <1>7, LenProperties
<1>9. ASSUME NEW i \in 1..(Len(s) - 1)
      PROVE  (a \o b)[i] = IF i < k THEN s[i] ELSE s[i + 1]
  <2>1. CASE i < k
    <3>1. i \in 1..(k - 1) /\ i <= k - 1
      BY <1>1, <2>1
    <3> QED
      BY <1>3, <1>5, <1>7, <2>1, <3>1
  <2>2. CASE ~(i < k)
    <3>1. i - (k - 1) \in 1..(Len(s) - k) /\ ~(i <= k - 1) /\ (i - (k - 1)) + k = i + 1
      BY <1>1, <2>2
    <3> QED
      BY <1>3, <1>4, <1>5, <1>7, <2>2, <3>1
  <2> QED
    BY <2>1, <2>2
<1> QED
  BY <1>5, <1>6, <1>7, <1>8, <1>9

\* Deleting a profile leaves the others, and none with its id.
LEMMA DeletedList ==
  ASSUME NEW ps \in Lists, NEW id \in IdsOf(ps)
  PROVE  /\ Deleted(ps, id) \in Lists
         /\ On(Deleted(ps, id)) \subseteq On(ps) \ {id}
<1> DEFINE k == CHOOSE i \in DOMAIN ps : ps[i].id = id
           ns == Deleted(ps, id)
<1>1. k \in DOMAIN ps /\ ps[k].id = id
  BY DEF IdsOf
<1> HIDE DEF k
<1>2. /\ Len(ps) \in Nat /\ DOMAIN ps = 1..Len(ps) /\ ps \in Seq(Profiles)
  BY DEF Lists
<1>3. ns = RemoveAt(ps, k)
  BY DEF k, Deleted
<1>4. /\ ns \in Seq(Profiles) /\ DOMAIN ns = 1..(Len(ps) - 1)
      /\ \A i \in DOMAIN ns : ns[i] = IF i < k THEN ps[i] ELSE ps[i + 1]
  <2>1. k \in 1..Len(ps)
    BY <1>1, <1>2
  <2>2. /\ RemoveAt(ps, k) \in Seq(Profiles) /\ DOMAIN RemoveAt(ps, k) = 1..(Len(ps) - 1)
        /\ \A i \in 1..(Len(ps) - 1) : RemoveAt(ps, k)[i] = IF i < k THEN ps[i] ELSE ps[i + 1]
    BY <1>2, <2>1, RemovedAt, Zenon
  <2> HIDE DEF ns
  <2> QED
    BY <1>3, <2>2
<1>5. \A i \in DOMAIN ns : \E j \in DOMAIN ps : j # k /\ ns[i] = ps[j] /\ j = IF i < k THEN i ELSE i + 1
  BY <1>1, <1>2, <1>4
<1>6. \A i, j \in DOMAIN ns : ns[i].id = ns[j].id => i = j
  BY <1>1, <1>2, <1>4, <1>5 DEF Lists
<1> QED
  BY <1>1, <1>4, <1>5, <1>6 DEF Lists, On

\* An import enables nothing, and disables what it names.
LEMMA ImportedList ==
  ASSUME NEW ps \in Lists, NEW ids \in SUBSET Ids, NEW ns \in ImportedProfiles(ps, ids)
  PROVE  ns \in Lists /\ On(ns) \subseteq On(ps) \ ids
<1> DEFINE known == [i \in DOMAIN ps |-> IF ps[i].id \in ids THEN DisabledProfile(ps[i].id) ELSE ps[i]]
<1>1. PICK n \in 0..Cardinality(ids) : \E s \in [1..n -> ids] :
         /\ \A i, j \in DOMAIN s : s[i] = s[j] => i = j
         /\ {s[i] : i \in DOMAIN s} = ids \ IdsOf(ps)
         /\ ns = known \o [i \in DOMAIN s |-> DisabledProfile(s[i])]
  BY DEF ImportedProfiles
<1>2. PICK s \in [1..n -> ids] :
         /\ \A i, j \in DOMAIN s : s[i] = s[j] => i = j
         /\ {s[i] : i \in DOMAIN s} = ids \ IdsOf(ps)
         /\ ns = known \o [i \in DOMAIN s |-> DisabledProfile(s[i])]
  BY <1>1
<1> DEFINE new == [i \in DOMAIN s |-> DisabledProfile(s[i])]
<1>3. /\ Len(ps) \in Nat /\ DOMAIN ps = 1..Len(ps) /\ ps \in Seq(Profiles)
      /\ \A i \in DOMAIN ps : ps[i] \in Profiles
  BY DEF Lists
<1>4. \A id \in Ids : DisabledProfile(id) \in Profiles /\ DisabledProfile(id).id = id /\ ~DisabledProfile(id).enabled
  BY DEF DisabledProfile, Profiles
<1>5. /\ known \in Seq(Profiles) /\ DOMAIN known = 1..Len(ps) /\ Len(known) = Len(ps)
      /\ \A i \in DOMAIN ps : /\ known[i].id = ps[i].id
                              /\ known[i].enabled => ps[i].enabled /\ ps[i].id \notin ids
  BY <1>3, <1>4
<1>6. n \in Nat
  OBVIOUS
<1>7. /\ new \in Seq(Profiles) /\ DOMAIN new = 1..n /\ Len(new) = n
      /\ \A i \in 1..n : new[i].id = s[i] /\ ~new[i].enabled
  <2>1. DOMAIN s = 1..n /\ \A i \in 1..n : s[i] \in Ids
    OBVIOUS
  <2>2. new \in [1..n -> Profiles] /\ \A i \in 1..n : new[i].id = s[i] /\ ~new[i].enabled
    BY <1>4, <2>1
  <2> HIDE DEF new
  <2> QED
    BY <1>6, <2>2
<1> HIDE DEF known, new
<1>8. /\ ns \in Seq(Profiles) /\ DOMAIN ns = 1..(Len(ps) + n)
      /\ \A i \in 1..(Len(ps) + n) : ns[i] = IF i <= Len(ps) THEN known[i] ELSE new[i - Len(ps)]
  BY <1>2, <1>3, <1>5, <1>6, <1>7 DEF new
<1>9. \A i \in 1..n : s[i] \notin IdsOf(ps)
  BY <1>2
<1>10. \A i \in DOMAIN ns :
         \/ i \in DOMAIN ps /\ ns[i] = known[i]
         \/ i > Len(ps) /\ i - Len(ps) \in 1..n /\ ns[i] = new[i - Len(ps)]
  BY <1>3, <1>6, <1>8
<1>11. \A i, j \in DOMAIN ns : ns[i].id = ns[j].id => i = j
  <2> SUFFICES ASSUME NEW i \in DOMAIN ns, NEW j \in DOMAIN ns, ns[i].id = ns[j].id
               PROVE  i = j
    OBVIOUS
  <2>1. i \in Nat /\ j \in Nat
    BY <1>3, <1>6, <1>8
  <2>2. CASE i \in DOMAIN ps /\ j \in DOMAIN ps /\ ns[i] = known[i] /\ ns[j] = known[j]
    BY <1>5, <2>2 DEF Lists
  <2>3. CASE /\ i > Len(ps) /\ i - Len(ps) \in 1..n /\ ns[i] = new[i - Len(ps)]
             /\ j > Len(ps) /\ j - Len(ps) \in 1..n /\ ns[j] = new[j - Len(ps)]
    <3>1. s[i - Len(ps)] = s[j - Len(ps)]
      BY <1>7, <2>3
    <3>2. i - Len(ps) = j - Len(ps)
      BY <1>2, <2>3, <3>1
    <3> QED
      BY <1>3, <2>1, <3>2
  <2>4. \A x \in DOMAIN ps : \A y \in 1..n : known[x].id # new[y].id
    BY <1>5, <1>7, <1>9 DEF IdsOf
  <2> QED
    BY <1>10, <2>2, <2>3, <2>4
<1>12. On(ns) \subseteq On(ps) \ ids
  BY <1>5, <1>7, <1>10 DEF On
<1> QED
  BY <1>8, <1>11, <1>12 DEF Lists

-----------------------------------------------------------------------------
(* Configurations.                                                         *)

Sound == {c \in Configs : c.profiles \in Lists}
Normals == {c \in Sound : NormalizeDefaults(c.profiles) = c.profiles}

\* Nothing the configuration c arms goes beyond what was asked for.
Arms(a, c) == (~c.dry => a.live) /\ On(c.profiles) \subseteq a.on

LEMMA NormalizedIsNormal ==
  ASSUME NEW c \in Sound
  PROVE  /\ Normalize(c) \in Normals
         /\ Normalize(c).version = c.version
         /\ Normalize(c).dry = c.dry
         /\ On(Normalize(c).profiles) = On(c.profiles)
<1> DEFINE ns == NormalizeDefaults(c.profiles)
<1>1. /\ ns \in Lists /\ On(ns) = On(c.profiles) /\ NormalizeDefaults(ns) = ns
  BY NormalList DEF Sound
<1>2. Normalize(c) = [c EXCEPT !.profiles = ns]
  BY DEF Normalize
<1> HIDE DEF ns
<1>3. ns \in Seq(Profiles)
  BY <1>1 DEF Lists
<1> QED
  BY <1>1, <1>2, <1>3 DEF Sound, Normals, Configs

\* A normal configuration changes only where it is edited.
LEMMA NormalStays ==
  ASSUME NEW c \in Normals, NEW d \in Sound, d.profiles = c.profiles
  PROVE  Normalize(d) = d
BY DEF Normalize, Normals, Sound, Configs

LEMMA EmptyConfig ==
  /\ <<>> \in Lists /\ NormalizeDefaults(<<>>) = <<>> /\ On(<<>>) = {}
  /\ NoConfig \in Normals
<1>1. <<>> \in Lists
  BY EmptySeq DEF Lists
<1>2. NormalizeDefaults(<<>>) = <<>>
  <2>1. DOMAIN NormalizeDefaults(<<>>) = {} /\ NormalizeDefaults(<<>>) \in Seq(Profiles)
    <3>1. NormalizeDefaults(<<>>) \in Lists
      BY <1>1, NormalList
    <3>2. DOMAIN <<>> = {}
      OBVIOUS
    <3> QED
      BY <3>1, <3>2 DEF NormalizeDefaults, Lists
  <2> QED
    BY <2>1, LenProperties, EmptySeq
<1>3. On(<<>>) = {}
  BY DEF On
<1>4. NoConfig \in Configs /\ NoConfig.profiles = <<>>
  BY EmptySeq DEF NoConfig, Configs, Modes
<1> QED
  BY <1>1, <1>2, <1>3, <1>4 DEF Normals, Sound

LEMMA OlderConfig ==
  ASSUME NEW c \in Older
  PROVE  V3(c) \in Sound /\ V3(c).version = 3
<1>1. c.profiles \in Lists
  BY ConfigurationAssumption DEF Lists, Profiles
<1>2. /\ c.policy \in [mode : Modes, allowed : SUBSET Users] /\ c.dry \in BOOLEAN
      /\ c.admin \in Users \union {NoUser} /\ c.profiles \in Seq(Profiles)
  BY <1>1, ConfigurationAssumption DEF Lists
<1> QED
  BY <1>1, <1>2 DEF V3, NoConfig, Sound, Configs

LEMMA MigratedConfig ==
  ASSUME NEW c \in Sound
  PROVE  /\ Migrated(c) \in Sound /\ Migrated(c).version = 4
         /\ Migrated(c).dry = c.dry /\ Migrated(c).profiles = c.profiles
BY DEF Migrated, Sound, Configs

LEMMA EditedConfig ==
  ASSUME NEW c \in Sound
  PROVE  /\ \A u \in Users \union {NoUser} : [c EXCEPT !.admin = u] \in Sound
         /\ \A ps \in Lists : [c EXCEPT !.profiles = ps] \in Sound
         /\ \A ps \in Lists : [c EXCEPT !.dry = TRUE, !.profiles = ps] \in Sound
         /\ \A q \in Policies, d \in BOOLEAN : [c EXCEPT !.policy = q, !.dry = d] \in Sound
<1>1. \A ps \in Lists : ps \in Seq(Profiles)
  BY DEF Lists
<1> QED
  BY <1>1, ConfigurationAssumption DEF Sound, Configs

LEMMA AskedIsArmed ==
  ASSUME NEW c \in Sound
  PROVE  Arms(AskedBy(c), c) /\ AskedBy(c) \in [live : BOOLEAN, on : SUBSET Ids]
<1>1. AskedBy(c) = [live |-> ~c.dry, on |-> On(c.profiles)]
  BY DEF AskedBy, On
<1>2. On(c.profiles) \subseteq Ids
  <2>1. \A i \in DOMAIN c.profiles : c.profiles[i] \in Profiles
    BY LenProperties, ElementOfSeq DEF Sound, Lists
  <2> QED
    BY <2>1 DEF On, Profiles
<1>3. c.dry \in BOOLEAN
  BY DEF Sound, Configs
<1>4. AskedBy(c).live = ~c.dry /\ AskedBy(c).on = On(c.profiles)
  BY <1>1
<1>5. Arms(AskedBy(c), c)
  BY <1>4 DEF Arms
<1>6. AskedBy(c) \in [live : BOOLEAN, on : SUBSET Ids]
  BY <1>1, <1>2, <1>3
<1> QED
  BY <1>5, <1>6

-----------------------------------------------------------------------------
(* Types.                                                                  *)

Disks == [schema : {"none", "old", "new"}, cfg : Sound, accounts : [Users -> Roles]]

ConfigTypes ==
  /\ disk \in Disks /\ sidecar \in [db : Disks, file : Sound] /\ legacy \in Sound
  /\ mem \in Normals /\ run \in Normals
  /\ boot \in {"down", "refused", "opened", "migrated", "loaded", "saved", "up"}
  /\ asked \in [live : BOOLEAN, on : SUBSET Ids] /\ drift \in BOOLEAN
  /\ edits \in Nat /\ faults \in Nat /\ crashes \in Nat

AccessTypes ==
  /\ issued \in 0..StateBudget /\ states \in Seq(1..issued) /\ Len(states) <= StateCap
  /\ reqs \in [Requests -> SsoRequests] /\ sessions \subseteq Users

\* A session, and a request in progress, needs the live process.
LiveInv == boot # "up" => sessions = {} /\ \A r \in Requests : reqs[r] = Idle

Types == ConfigTypes /\ AccessTypes /\ LiveInv

\* What a change of the configuration does, whichever it is: the new configuration
\* is saved and goes live, or the write fails; it arms nothing that was not asked
\* for, and a request whose write failed withdraws nothing.
Edits(config) ==
  /\ boot = "up" /\ config \in Sound /\ config.version \in {mem.version, run.version}
  /\ asked' \in [live : BOOLEAN, on : SUBSET Ids]
  /\ (Arms(asked, mem) /\ Arms(asked, run)) => Arms(asked', config)
  /\ \/ Applied(config)
     \/ Failed(config) /\ (asked.live => asked'.live) /\ asked.on \subseteq asked'.on
  /\ edits' = edits + 1
  /\ Still

LEMMA EditStep ==
  ASSUME ConfigTypes, Administration
  PROVE  \E config \in Sound : Edits(config)
<1>1. /\ mem \in Sound /\ run \in Sound /\ mem.profiles \in Lists /\ run.profiles \in Lists
      /\ \A p \in Profiles : p.id \in Ids /\ p.enabled \in BOOLEAN
  BY DEF ConfigTypes, Normals, Sound, Profiles
<1>2. asked \in [live : BOOLEAN, on : SUBSET Ids]
  BY DEF ConfigTypes
<1>3. CASE UpdateGeneral
  <2>1. PICK q \in Policies, d \in BOOLEAN :
          LET config == [mem EXCEPT !.policy = q, !.dry = d]
          IN \/ Applied(config) /\ asked' = [asked EXCEPT !.live = ~d]
             \/ Failed(config) /\ asked' = [asked EXCEPT !.live = @ \/ ~d]
    BY <1>3 DEF UpdateGeneral
  <2> DEFINE config == [mem EXCEPT !.policy = q, !.dry = d]
  <2>2. /\ config \in Sound /\ config.version = mem.version /\ config.dry = d
        /\ config.profiles = mem.profiles
    <3>1. config \in Sound
      BY <1>1, EditedConfig
    <3>2. mem \in Configs
      BY <1>1 DEF Sound
    <3>3. config.version = mem.version /\ config.profiles = mem.profiles
      BY <3>2 DEF Configs
    <3>4. config.dry = d
      BY <3>2, Zenon DEF Configs
    <3> QED
      BY <3>1, <3>3, <3>4
  <2> HIDE DEF config
  <2>3. Applied(config) \/ Failed(config)
    BY <2>1 DEF config
  <2>4. /\ asked' \in [live : BOOLEAN, on : SUBSET Ids] /\ asked'.on = asked.on
        /\ (~d => asked'.live)
        /\ \/ Applied(config)
           \/ Failed(config) /\ (asked.live => asked'.live)
    BY <1>2, <2>1 DEF config
  <2>5. Edits(config)
    BY <1>3, <2>2, <2>4 DEF UpdateGeneral, Editing, Edits, Arms
  <2> QED
    BY <2>2, <2>5
<1>4. CASE AddService
  <2>1. PICK p \in Profiles :
          /\ p.id \notin IdsOf(mem.profiles) \union IdsOf(run.profiles)
          /\ LET config == [mem EXCEPT !.profiles = Added(@, p)]
             IN /\ Applied(config) \/ Failed(config)
                /\ asked' = [asked EXCEPT !.on = IF p.enabled THEN @ \union {p.id} ELSE @]
    BY <1>4 DEF AddService
  <2> DEFINE ps == Added(mem.profiles, p)
             config == [mem EXCEPT !.profiles = ps]
  <2>2. ps \in Lists /\ On(ps) \subseteq IF p.enabled THEN On(mem.profiles) \union {p.id} ELSE On(mem.profiles)
    BY <1>1, <2>1, AddedList
  <2> HIDE DEF ps
  <2>3. /\ config \in Sound /\ config.version = mem.version /\ config.dry = mem.dry
        /\ config.profiles = ps
    BY <1>1, <2>2, EditedConfig DEF Sound, Configs
  <2>4. Applied(config) \/ Failed(config)
    BY <2>1 DEF ps
  <2> HIDE DEF config
  <2>5. /\ asked' \in [live : BOOLEAN, on : SUBSET Ids] /\ asked'.live = asked.live
        /\ asked'.on = IF p.enabled THEN asked.on \union {p.id} ELSE asked.on
    BY <1>1, <1>2, <2>1
  <2>6. Edits(config)
    BY <1>4, <2>2, <2>3, <2>4, <2>5 DEF AddService, Editing, Edits, Arms
  <2> QED
    BY <2>3, <2>6
<1>5. CASE UpdateService
  <2>1. PICK p \in Profiles :
          LET config == [mem EXCEPT !.profiles = Replaced(@, p)]
              on == [asked EXCEPT !.on = @ \union {p.id}]
          IN \/ Applied(config) /\ asked' = IF p.enabled THEN on ELSE [asked EXCEPT !.on = @ \ {p.id}]
             \/ Failed(config) /\ asked' = IF p.enabled THEN on ELSE asked
    BY <1>5 DEF UpdateService
  <2> DEFINE ps == Replaced(mem.profiles, p)
             config == [mem EXCEPT !.profiles = ps]
  <2>2. ps \in Lists /\ On(ps) \subseteq IF p.enabled THEN On(mem.profiles) \union {p.id} ELSE On(mem.profiles) \ {p.id}
    BY <1>1, ReplacedList
  <2>3. \/ Applied(config) /\ asked' = IF p.enabled THEN [asked EXCEPT !.on = @ \union {p.id}]
                                       ELSE [asked EXCEPT !.on = @ \ {p.id}]
        \/ Failed(config) /\ asked' = IF p.enabled THEN [asked EXCEPT !.on = @ \union {p.id}] ELSE asked
    BY <2>1
  <2> HIDE DEF ps
  <2>4. /\ config \in Sound /\ config.version = mem.version /\ config.dry = mem.dry
        /\ config.profiles = ps
    BY <1>1, <2>2, EditedConfig DEF Sound, Configs
  <2> HIDE DEF config
  <2>5. /\ asked' \in [live : BOOLEAN, on : SUBSET Ids] /\ asked'.live = asked.live
        /\ \/ /\ Applied(config)
              /\ asked'.on = IF p.enabled THEN asked.on \union {p.id} ELSE asked.on \ {p.id}
           \/ /\ Failed(config)
              /\ asked'.on = IF p.enabled THEN asked.on \union {p.id} ELSE asked.on
    BY <1>1, <1>2, <2>3
  <2>6. Edits(config)
    BY <1>5, <2>2, <2>4, <2>5 DEF UpdateService, Editing, Edits, Arms
  <2> QED
    BY <2>4, <2>6
<1>6. CASE DeleteService
  <2>1. PICK id \in IdsOf(mem.profiles) :
          LET config == [mem EXCEPT !.profiles = Deleted(@, id)]
          IN \/ Applied(config) /\ asked' = [asked EXCEPT !.on = @ \ {id}]
             \/ Failed(config) /\ UNCHANGED asked
    BY <1>6 DEF DeleteService
  <2> DEFINE ps == Deleted(mem.profiles, id)
             config == [mem EXCEPT !.profiles = ps]
  <2>2. ps \in Lists /\ On(ps) \subseteq On(mem.profiles) \ {id}
    BY <1>1, DeletedList
  <2>3. \/ Applied(config) /\ asked' = [asked EXCEPT !.on = @ \ {id}]
        \/ Failed(config) /\ UNCHANGED asked
    BY <2>1
  <2> HIDE DEF ps
  <2>4. /\ config \in Sound /\ config.version = mem.version /\ config.dry = mem.dry
        /\ config.profiles = ps
    BY <1>1, <2>2, EditedConfig DEF Sound, Configs
  <2> HIDE DEF config
  <2>5. /\ asked' \in [live : BOOLEAN, on : SUBSET Ids] /\ asked'.live = asked.live
        /\ \/ Applied(config) /\ asked'.on = asked.on \ {id}
           \/ Failed(config) /\ asked'.on = asked.on
    BY <1>2, <2>3
  <2>6. Edits(config)
    BY <1>6, <2>2, <2>4, <2>5 DEF DeleteService, Editing, Edits, Arms
  <2> QED
    BY <2>4, <2>6
<1>7. CASE ImportConfig
  <2>1. PICK ids \in SUBSET Ids : \E config \in Import(run, ids) :
          \/ Applied(config) /\ asked' = [live |-> FALSE, on |-> asked.on \ ids]
          \/ Failed(config) /\ UNCHANGED asked
    BY <1>7 DEF ImportConfig
  <2>2. PICK ps \in ImportedProfiles(run.profiles, ids) :
          LET config == [run EXCEPT !.dry = TRUE, !.profiles = ps]
          IN \/ Applied(config) /\ asked' = [live |-> FALSE, on |-> asked.on \ ids]
             \/ Failed(config) /\ UNCHANGED asked
    BY <2>1 DEF Import
  <2> DEFINE config == [run EXCEPT !.dry = TRUE, !.profiles = ps]
  <2>3. ps \in Lists /\ On(ps) \subseteq On(run.profiles) \ ids
    BY <1>1, ImportedList
  <2>4. /\ config \in Sound /\ config.version = run.version /\ config.dry = TRUE
        /\ config.profiles = ps
    BY <1>1, <2>3, EditedConfig DEF Sound, Configs
  <2>5. \/ Applied(config) /\ asked' = [live |-> FALSE, on |-> asked.on \ ids]
        \/ Failed(config) /\ UNCHANGED asked
    BY <2>2
  <2> HIDE DEF config
  <2>6. /\ asked' \in [live : BOOLEAN, on : SUBSET Ids] /\ asked.on \ ids \subseteq asked'.on
        /\ \/ Applied(config)
           \/ Failed(config) /\ (asked.live => asked'.live) /\ asked.on \subseteq asked'.on
    <3>1. CASE Applied(config) /\ asked' = [live |-> FALSE, on |-> asked.on \ ids]
      BY <1>2, <3>1
    <3>2. CASE Failed(config) /\ UNCHANGED asked
      BY <1>2, <3>2
    <3> QED
      BY <2>5, <3>1, <3>2
  <2>7. Edits(config)
    BY <1>7, <2>3, <2>4, <2>6 DEF ImportConfig, Editing, Edits, Arms
  <2> QED
    BY <2>4, <2>7
<1> QED
  BY <1>3, <1>4, <1>5, <1>6, <1>7 DEF Administration

\* Somebody administers the accounts once anybody has one.
Known(accounts) == (\E u \in Users : accounts[u] # "none") => Admins(accounts) # {}

LEMMA EnsuredUser ==
  ASSUME NEW accounts \in [Users -> Roles], NEW u, NEW ensured,
         ensured \in {EnsureUser(accounts, u, "admin"), EnsureSsoUser(accounts, u)}
  PROVE  /\ ensured \in [Users -> Roles]
         /\ Known(accounts) => Known(ensured)
         /\ u \in Users => ensured[u] # "none"
         /\ \A v \in Users : accounts[v] # "none" => ensured[v] # "none"
<1>1. PICK role \in {"admin", "viewer"} :
        /\ ensured = EnsureUser(accounts, u, role)
        /\ role = "viewer" => Admins(accounts) # {}
  BY DEF EnsureSsoUser
<1>2. CASE u \in Users /\ accounts[u] = "none"
  <2>1. ensured = [accounts EXCEPT ![u] = role]
    BY <1>1, <1>2 DEF EnsureUser
  <2>2. Admins(ensured) # {}
    BY <1>1, <1>2, <2>1 DEF Admins, Roles
  <2> QED
    BY <1>2, <2>1, <2>2 DEF Known, Roles
<1>3. CASE ~(u \in Users /\ accounts[u] = "none")
  BY <1>1, <1>3 DEF EnsureUser
<1> QED
  BY <1>2, <1>3

LEMMA DiskEdits ==
  ASSUME NEW d \in Disks
  PROVE  /\ [d EXCEPT !.schema = "new"] \in Disks
         /\ \A c \in Sound : [d EXCEPT !.cfg = c] \in Disks
         /\ \A a \in [Users -> Roles] : [d EXCEPT !.accounts = a] \in Disks
         /\ \A c \in Sound, a \in [Users -> Roles] : [d EXCEPT !.cfg = c, !.accounts = a] \in Disks
         /\ d.cfg \in Sound /\ d.accounts \in [Users -> Roles]
BY DEF Disks

LEMMA EmptyDisk ==
  NoDisk \in Disks /\ NoDisk.cfg = NoConfig /\ NoDisk.accounts = Nobody
BY EmptyConfig DEF NoDisk, Nobody, Disks, Roles, Normals

LEMMA TypesInit ==
  ASSUME Init
  PROVE  Types
<1> USE DEF Init, ConfigurationInit
<1>1. disk \in Disks /\ legacy \in Sound /\ disk.cfg \in Sound
  <2>1. PICK c \in Older :
          \/ disk = NoDisk /\ legacy \in {NoConfig, V3(c)}
          \/ disk = [NoDisk EXCEPT !.schema = "old", !.cfg = V3(c)] /\ legacy = NoConfig
    OBVIOUS
  <2>2. [NoDisk EXCEPT !.schema = "old", !.cfg = V3(c)] \in Disks
    BY EmptyDisk, OlderConfig DEF Disks
  <2> QED
    BY <2>1, <2>2, EmptyDisk, EmptyConfig, OlderConfig DEF Normals, Disks
<1>2. asked \in [live : BOOLEAN, on : SUBSET Ids]
  BY <1>1, AskedIsArmed
<1>3. sidecar \in [db : Disks, file : Sound]
  BY EmptyDisk, EmptyConfig DEF Normals
<1>4. ConfigTypes
  BY <1>1, <1>2, <1>3, EmptyConfig DEF ConfigTypes
<1>5. AccessTypes
  BY EmptySeq, AccessAssumption DEF AccessTypes, SsoRequests
<1>6. LiveInv
  BY DEF LiveInv
<1> QED
  BY <1>4, <1>5, <1>6 DEF Types

\* The policy a request has read allows known users only.
LEMMA RequestPolicy ==
  ASSUME AccessTypes, NEW r \in Requests, reqs[r].at = "exchange"
  PROVE  reqs[r].policy.allowed \subseteq Users /\ reqs[r] # Idle
<1>1. reqs[r] \in SsoRequests
  BY DEF AccessTypes
<1>2. reqs[r] # Idle /\ reqs[r] # [Idle EXCEPT !.at = "start"]
  BY DEF Idle
<1> QED
  BY <1>1, <1>2 DEF SsoRequests

LEMMA ConfigTypesStep ==
  ASSUME Types, [Next]_vars
  PROVE  ConfigTypes'
<1> USE DEF Types
<1>1. /\ disk \in Disks /\ disk.cfg \in Sound /\ legacy \in Sound /\ mem \in Sound /\ run \in Sound
      /\ sidecar \in [db : Disks, file : Sound]
  BY DEF ConfigTypes, Disks, Normals
<1>2. CASE OpenStore
  <2>1. sidecar' \in [db : Disks, file : Sound]
    BY <1>1, <1>2 DEF OpenStore, Backup
  <2> QED
    BY <1>2, <2>1 DEF OpenStore, ConfigTypes
<1>3. CASE MigrateDatabase
  BY <1>1, <1>3, DiskEdits DEF MigrateDatabase, ConfigTypes
<1>4. CASE LoadConfig
  <2>1. CASE disk.cfg # NoConfig
    BY <1>1, <1>4, <2>1, MigratedConfig, NormalizedIsNormal DEF LoadConfig, ConfigTypes
  <2>2. CASE disk.cfg = NoConfig /\ legacy # NoConfig
    <3>1. /\ mem' = Normalize(Migrated(legacy)) /\ disk' = [disk EXCEPT !.cfg = Migrated(legacy)]
          /\ asked' = AskedBy(legacy)
      BY <1>4, <2>2 DEF LoadConfig
    <3>2. mem' \in Normals
      BY <1>1, <3>1, MigratedConfig, NormalizedIsNormal
    <3>3. disk' \in Disks
      BY <1>1, <3>1, MigratedConfig, DiskEdits
    <3>4. asked' \in [live : BOOLEAN, on : SUBSET Ids]
      BY <1>1, <3>1, AskedIsArmed
    <3> QED
      BY <1>4, <3>2, <3>3, <3>4 DEF LoadConfig, ConfigTypes
  <2>3. CASE disk.cfg = NoConfig /\ legacy = NoConfig
    <3>1. PICK c \in Older : /\ mem' = [Migrated(V3(c)) EXCEPT !.admin = NoUser, !.profiles = <<>>]
                             /\ asked' = AskedBy(mem') /\ UNCHANGED disk
      BY <1>4, <2>3 DEF LoadConfig
    <3>2. mem' \in Sound /\ mem'.profiles = <<>>
      <4>1. Migrated(V3(c)) \in Sound
        BY OlderConfig, MigratedConfig
      <4>2. <<>> \in Lists /\ <<>> \in Seq(Profiles)
        BY EmptyConfig, EmptySeq
      <4> QED
        BY <3>1, <4>1, <4>2 DEF Sound, Configs
    <3>3. mem' \in Normals /\ asked' \in [live : BOOLEAN, on : SUBSET Ids]
      BY <3>1, <3>2, EmptyConfig, AskedIsArmed DEF Normals
    <3> QED
      BY <1>4, <3>1, <3>3 DEF LoadConfig, ConfigTypes
  <2> QED
    BY <2>1, <2>2, <2>3
<1>5. CASE SaveConfig
  BY <1>1, <1>5, DiskEdits DEF SaveConfig, ConfigTypes
<1>6. CASE BuildRuntime
  <2>1. disk' \in Disks
    BY <1>1, <1>6, DiskEdits, EnsuredUser DEF BuildRuntime
  <2> QED
    BY <1>6, <2>1 DEF BuildRuntime, ConfigTypes
<1>7. CASE Outside
  <2>1. CASE OldReleaseEdits
    <3>1. PICK c \in Older : disk' = [disk EXCEPT !.cfg = V3(c)]
      BY <2>1 DEF OldReleaseEdits
    <3>2. disk' \in Disks /\ disk'.cfg \in Sound
      BY <1>1, <3>1, OlderConfig, DiskEdits DEF Disks
    <3>3. asked' \in [live : BOOLEAN, on : SUBSET Ids]
      BY <2>1, <3>2, AskedIsArmed DEF OldReleaseEdits
    <3> QED
      BY <2>1, <3>2, <3>3 DEF OldReleaseEdits, ConfigTypes
  <2>2. CASE Rollback
    <3>1. disk' \in Disks /\ disk'.cfg \in Sound
      BY <1>1, <2>2, DiskEdits DEF Rollback
    <3>2. asked' \in [live : BOOLEAN, on : SUBSET Ids]
      BY <2>2, <3>1, AskedIsArmed DEF Rollback
    <3> QED
      BY <2>2, <3>1, <3>2 DEF Rollback, ConfigTypes
  <2> QED
    BY <1>7, <2>1, <2>2 DEF Outside
<1>8. CASE Configure
  <2>1. PICK config \in Sound : Edits(config)
    BY <1>8, EditStep DEF Configure
  <2>2. mem' \in Normals /\ disk' \in Disks /\ run' \in Normals /\ drift' \in BOOLEAN
        /\ faults' \in Nat
    <3>1. Normalize(config) \in Normals /\ Normalize(config) \in Sound
      BY NormalizedIsNormal DEF Normals
    <3>2. CASE Applied(config)
      BY <1>1, <3>1, <3>2, DiskEdits DEF Applied, Saved, ConfigTypes
    <3>3. CASE Failed(config)
      BY <1>1, <3>1, <3>3 DEF Failed, NotSaved, ConfigTypes
    <3> QED
      BY <2>1, <3>2, <3>3 DEF Edits
  <2> QED
    BY <2>1, <2>2 DEF Edits, Still, ConfigTypes
<1>9. CASE RegisterAdmin
  <2>1. PICK u \in Users :
          LET config == [mem EXCEPT !.admin = u]
          IN \/ /\ mem' = Normalize(config)
                /\ disk' = [disk EXCEPT !.cfg = Normalize(config),
                                        !.accounts = EnsureUser(@, u, "admin")]
                /\ UNCHANGED <<faults, drift>>
             \/ NotSaved(config) /\ drift' = TRUE
    BY <1>9 DEF RegisterAdmin
  <2>2. Normalize([mem EXCEPT !.admin = u]) \in Normals
    BY <1>1, EditedConfig, NormalizedIsNormal
  <2> DEFINE new == Normalize([mem EXCEPT !.admin = u])
  <2>3. \/ /\ mem' = new /\ UNCHANGED <<faults, drift>>
           /\ disk' = [disk EXCEPT !.cfg = new, !.accounts = EnsureUser(disk.accounts, u, "admin")]
        \/ mem' = new /\ faults' = faults + 1 /\ drift' = TRUE /\ UNCHANGED disk
    BY <1>1, <2>1 DEF NotSaved, Disks
  <2> HIDE DEF new
  <2>4. mem' \in Normals /\ drift' \in BOOLEAN /\ faults' \in Nat
    <3>1. mem' \in Normals
      BY <2>2, <2>3 DEF new
    <3>2. drift' \in BOOLEAN
      BY <2>3, Zenon DEF ConfigTypes
    <3>3. faults' \in Nat
      BY <2>3 DEF ConfigTypes
    <3> QED
      BY <3>1, <3>2, <3>3
  <2>5. EnsureUser(disk.accounts, u, "admin") \in [Users -> Roles]
    BY <1>1, DiskEdits, EnsuredUser
  <2>6. disk' \in Disks
    <3>1. new \in Sound
      BY <2>2 DEF new, Normals
    <3>2. [disk EXCEPT !.cfg = new, !.accounts = EnsureUser(disk.accounts, u, "admin")] \in Disks
      BY <1>1, <2>5, <3>1, DiskEdits
    <3> QED
      BY <1>1, <2>3, <3>2
  <2> QED
    BY <1>9, <2>4, <2>6 DEF RegisterAdmin, ConfigTypes
<1>10. CASE Login
  <2>1. disk' \in Disks
    BY <1>1, <1>10, DiskEdits, EnsuredUser DEF Login
  <2> QED
    BY <1>10, <2>1 DEF Login, ConfigTypes
<1>11. CASE UpdateUserRole
  <2>1. disk' \in Disks
    BY <1>1, <1>11 DEF UpdateUserRole, Disks
  <2> QED
    BY <1>11, <2>1 DEF UpdateUserRole, ConfigTypes
<1>12. CASE \E r \in Requests : SsoFinish(r)
  <2>1. \/ disk' = disk
        \/ \E u : disk' = [disk EXCEPT !.accounts = EnsureSsoUser(disk.accounts, u)]
    BY <1>1, <1>12 DEF SsoFinish, configVars, Disks
  <2>2. \A u : EnsureSsoUser(disk.accounts, u) \in [Users -> Roles]
    BY <1>1, DiskEdits, EnsuredUser
  <2>3. disk' \in Disks
    <3>1. \A a \in [Users -> Roles] : [disk EXCEPT !.accounts = a] \in Disks
      BY <1>1, DiskEdits
    <3>2. \A u : [disk EXCEPT !.accounts = EnsureSsoUser(disk.accounts, u)] \in Disks
      BY <2>2, <3>1
    <3> QED
      BY <1>1, <2>1, <3>2
  <2> QED
    BY <1>12, <2>3 DEF SsoFinish, configVars, ConfigTypes
<1>13. CASE Die
  <2>1. NoConfig \in Normals
    BY EmptyConfig
  <2>2. mem' \in Normals /\ run' \in Normals /\ crashes' \in Nat /\ drift' \in BOOLEAN
    <3>1. mem' \in Normals /\ run' \in Normals
      BY <1>13, <2>1 DEF Die
    <3>2. crashes' \in Nat
      BY <1>13 DEF Die, ConfigTypes
    <3>3. drift' \in BOOLEAN
      BY <1>13, Zenon DEF Die
    <3> QED
      BY <3>1, <3>2, <3>3
  <2> QED
    BY <1>13, <2>2 DEF Die, ConfigTypes
<1>14. CASE UNCHANGED configVars
  BY <1>14 DEF configVars, ConfigTypes
<1> QED
  BY <1>2, <1>3, <1>4, <1>5, <1>6, <1>7, <1>8, <1>9, <1>10, <1>11, <1>12, <1>13, <1>14
  DEF Next, Boot, Booting, OutsideAccess, Local, Sso, Crash, Logout, Expire, SsoStart,
      CreateSsoState, SsoCallback, vars

LEMMA AccessTypesStep ==
  ASSUME Types, [Next]_vars
  PROVE  AccessTypes'
<1> USE DEF Types
<1>1. /\ issued \in 0..StateBudget /\ issued \in Nat /\ states \in Seq(1..issued)
      /\ Len(states) <= StateCap /\ Len(states) \in Nat
      /\ reqs \in [Requests -> SsoRequests] /\ sessions \subseteq Users
      /\ StateCap \in Nat \ {0} /\ StateBudget \in Nat
  BY AccessAssumption, LenProperties DEF AccessTypes
<1>2. Idle \in SsoRequests /\ [Idle EXCEPT !.at = "start"] \in SsoRequests
  BY DEF SsoRequests
<1>3. CASE Configure \/ UpdateUserRole \/ Boot \/ OutsideAccess \/ UNCHANGED vars
  BY <1>3 DEF Configure, UpdateUserRole, Boot, OutsideAccess, vars, accessVars, AccessTypes
<1>4. CASE RegisterAdmin \/ Login \/ Logout
  <2>1. mem.admin \in Users \union {NoUser}
    BY DEF ConfigTypes, Normals, Sound, Configs
  <2>2. sessions' \subseteq Users
    <3>1. CASE RegisterAdmin
      <4>1. (\E u \in Users : sessions' = sessions \union {u}) \/ sessions' = sessions
        BY <3>1 DEF RegisterAdmin
      <4> QED
        BY <1>1, <4>1
    <3>2. CASE Login
      BY <1>1, <2>1, <3>2 DEF Login
    <3>3. CASE Logout
      BY <1>1, <3>3 DEF Logout
    <3> QED
      BY <1>4, <3>1, <3>2, <3>3
  <2> QED
    BY <1>4, <2>2 DEF RegisterAdmin, Login, Logout, AccessTypes
<1>5. CASE Expire
  <2>1. Tail(states) \in Seq(1..issued) /\ Len(Tail(states)) = Len(states) - 1
    BY <1>1, <1>5, HeadTailProperties DEF Expire
  <2> QED
    BY <1>1, <1>5, <2>1 DEF Expire, AccessTypes
<1>6. ASSUME NEW r \in Requests, SsoStart(r)
      PROVE  AccessTypes'
  <2>1. reqs' \in [Requests -> SsoRequests]
    BY <1>1, <1>2, <1>6 DEF SsoStart
  <2> QED
    BY <1>6, <2>1 DEF SsoStart, AccessTypes
<1>7. ASSUME NEW r \in Requests, CreateSsoState(r)
      PROVE  AccessTypes'
  <2>1. reqs' \in [Requests -> SsoRequests]
    BY <1>1, <1>2, <1>7 DEF CreateSsoState
  <2>2. CASE UNCHANGED <<issued, states>>
    BY <1>7, <2>1, <2>2 DEF CreateSsoState, AccessTypes
  <2>3. CASE /\ issued < StateBudget
             /\ issued' = issued + 1
             /\ states' = Append(Evicted(states), issued')
    <3>1. Evicted(states) \in Seq(1..issued) /\ Len(Evicted(states)) < StateCap
      <4>1. CASE Len(states) >= StateCap
        <5>1. states # <<>>
          BY <1>1, <4>1, EmptySeq
        <5>2. Tail(states) \in Seq(1..issued) /\ Len(Tail(states)) = Len(states) - 1
          BY <1>1, <5>1, HeadTailProperties
        <5> QED
          BY <1>1, <4>1, <5>2 DEF Evicted
      <4>2. CASE ~(Len(states) >= StateCap)
        BY <1>1, <4>2 DEF Evicted
      <4> QED
        BY <4>1, <4>2
    <3>2. Evicted(states) \in Seq(1..(issued + 1)) /\ issued + 1 \in 1..(issued + 1)
      <4>1. 1..issued \subseteq 1..(issued + 1)
        BY <1>1
      <4> QED
        BY <1>1, <3>1, <4>1, LenProperties
    <3>3. /\ states' \in Seq(1..issued') /\ Len(states') = Len(Evicted(states)) + 1
      BY <2>3, <3>2, AppendProperties
    <3>4. Len(states') <= StateCap
      BY <1>1, <3>1, <3>3, LenProperties
    <3> QED
      BY <1>1, <1>7, <2>1, <2>3, <3>3, <3>4 DEF CreateSsoState, AccessTypes
  <2> QED
    BY <1>7, <2>2, <2>3 DEF CreateSsoState
<1>8. ASSUME NEW r \in Requests, SsoCallback(r)
      PROVE  AccessTypes'
  <2>1. PICK i \in DOMAIN states :
          /\ states' = Consumed(i)
          /\ \/ UNCHANGED reqs
             \/ reqs' = [reqs EXCEPT ![r] = [at |-> "exchange", state |-> states[i],
                                              policy |-> run.policy]]
    BY <1>8 DEF SsoCallback
  <2>2. i \in 1..Len(states)
    BY <1>1, LenProperties
  <2>3. states' \in Seq(1..issued) /\ Len(states') = Len(states) - 1
    BY <1>1, <2>1, <2>2, RemovedAt DEF Consumed
  <2>4. states[i] \in States
    BY <1>1, <2>2, ElementOfSeq DEF States
  <2>5. run.policy \in [mode : Modes, allowed : SUBSET Users]
    BY DEF ConfigTypes, Normals, Sound, Configs
  <2>6. [at |-> "exchange", state |-> states[i], policy |-> run.policy] \in SsoRequests
    BY <2>4, <2>5 DEF SsoRequests
  <2>7. reqs' \in [Requests -> SsoRequests]
    BY <1>1, <2>1, <2>6
  <2> QED
    BY <1>1, <1>8, <2>3, <2>7 DEF SsoCallback, AccessTypes
<1>9. ASSUME NEW r \in Requests, SsoFinish(r)
      PROVE  AccessTypes'
  <2>1. reqs' \in [Requests -> SsoRequests]
    BY <1>1, <1>2, <1>9 DEF SsoFinish
  <2>2. sessions' \subseteq Users
    BY <1>1, <1>9, RequestPolicy DEF SsoFinish
  <2> QED
    BY <1>9, <2>1, <2>2 DEF SsoFinish, AccessTypes
<1>10. CASE Crash
  <2>1. reqs' \in [Requests -> SsoRequests]
    BY <1>2, <1>10 DEF Crash
  <2>2. states' \in Seq(1..issued) /\ Len(states') = 0
    BY <1>10, EmptySeq DEF Crash
  <2> QED
    BY <1>1, <1>10, <2>1, <2>2 DEF Crash, AccessTypes
<1> QED
  BY <1>3, <1>4, <1>5, <1>6, <1>7, <1>8, <1>9, <1>10 DEF Next, Local, Sso

LEMMA LiveStep ==
  ASSUME Types, [Next]_vars
  PROVE  LiveInv'
<1> USE DEF Types
<1>1. CASE Crash
  BY <1>1 DEF Crash, LiveInv
<1>2. CASE Boot \/ OutsideAccess \/ UNCHANGED vars
  BY <1>2 DEF Boot, Booting, OutsideAccess, Outside, OpenStore, MigrateDatabase, LoadConfig, SaveConfig,
              BuildRuntime, OldReleaseEdits, Rollback, accessVars, configVars, vars, LiveInv
<1>3. CASE Configure \/ UpdateUserRole \/ RegisterAdmin \/ Login
  <2>1. boot' = boot /\ boot = "up"
    BY <1>3 DEF Configure, Administration, UpdateGeneral, AddService, UpdateService, DeleteService,
                ImportConfig, Editing, Still, UpdateUserRole, RegisterAdmin, Login
  <2> QED
    BY <2>1 DEF LiveInv
<1>4. CASE Logout \/ Expire
  BY <1>4 DEF Logout, Expire, configVars, LiveInv
<1>5. ASSUME NEW r \in Requests, SsoStart(r) \/ CreateSsoState(r) \/ SsoCallback(r) \/ SsoFinish(r)
      PROVE  LiveInv'
  <2>1. boot' = boot
    BY <1>5 DEF SsoStart, CreateSsoState, SsoCallback, SsoFinish, configVars
  <2>2. CASE SsoStart(r) \/ SsoCallback(r)
    BY <2>1, <2>2 DEF SsoStart, SsoCallback, LiveInv
  <2>3. CASE CreateSsoState(r) \/ SsoFinish(r)
    <3>1. reqs[r] # Idle
      BY <2>3 DEF CreateSsoState, SsoFinish, Idle
    <3> QED
      BY <2>1, <3>1 DEF LiveInv
  <2> QED
    BY <1>5, <2>2, <2>3
<1> QED
  BY <1>1, <1>2, <1>3, <1>4, <1>5 DEF Next, Local, Sso

\* Every variable keeps its type; ids stay distinct, and the live configurations
\* stay normalised.
LEMMA TypesStep ==
  ASSUME Types, [Next]_vars
  PROVE  Types'
BY ConfigTypesStep, AccessTypesStep, LiveStep DEF Types

LEMMA TypesTyped ==
  ASSUME Types
  PROVE  TypeOK
<1> USE DEF Types
<1>1. \A c \in Sound : c \in Configs /\ Distinct(c)
  BY DEF Sound, Lists, Distinct
<1>2. /\ disk.cfg \in Sound /\ disk \in Databases /\ sidecar \in [db : Databases, file : Configs]
      /\ sidecar.db.cfg \in Sound /\ sidecar.file \in Sound
  BY <1>1 DEF ConfigTypes, Disks, Databases
<1>3. \A c \in {mem, run} : c.profiles # <<>> =>
        Cardinality({i \in DOMAIN c.profiles : c.profiles[i].is_default}) = 1
  BY NormalList DEF ConfigTypes, Normals, Sound
<1>4. {legacy, mem, run} \subseteq Sound
  BY DEF ConfigTypes, Normals
<1> QED
  BY <1>1, <1>2, <1>3, <1>4 DEF ConfigTypes, AccessTypes, TypeOK

-----------------------------------------------------------------------------
(* The upgrade can be taken back.                                          *)

\* What the backups hold at each stage of the start.
BackupInv ==
  /\ legacy = NoConfig \/ legacy.version = 3
  /\ sidecar.db = NoDisk \/ sidecar.db.cfg.version = 3
  /\ boot \in {"opened", "migrated", "loaded"} =>
       /\ disk.cfg.version = 3 => sidecar.db.cfg = disk.cfg
       /\ disk.cfg = NoConfig /\ legacy.version = 3 => sidecar.file = legacy
  /\ boot \in {"loaded", "saved", "up"} => mem.version = 4
  /\ boot \in {"saved", "up"} => disk.cfg.version = 4
  /\ boot = "up" => run.version = 4

LEMMA BackupInit ==
  ASSUME Init
  PROVE  BackupInv
<1>1. PICK c \in Older :
        \/ disk = NoDisk /\ legacy \in {NoConfig, V3(c)}
        \/ disk = [NoDisk EXCEPT !.schema = "old", !.cfg = V3(c)] /\ legacy = NoConfig
  BY DEF Init, ConfigurationInit
<1> QED
  BY <1>1, OlderConfig DEF Init, ConfigurationInit, BackupInv

\* The configuration an edit saves is of the current version.
LEMMA EditVersion ==
  ASSUME Types, BackupInv, NEW config \in Sound, Edits(config)
  PROVE  /\ mem'.version = 4 /\ disk.cfg.version = 4 /\ disk'.cfg.version = 4
         /\ run'.version = 4 /\ boot' = "up"
<1>1. Normalize(config).version = 4 /\ run.version = 4 /\ disk.cfg.version = 4
  BY NormalizedIsNormal DEF Edits, BackupInv
<1>2. disk \in Disks
  BY DEF Types, ConfigTypes
<1>3. CASE Applied(config)
  BY <1>1, <1>2, <1>3 DEF Applied, Saved, Edits, Still, Disks
<1>4. CASE Failed(config)
  BY <1>1, <1>4 DEF Failed, NotSaved, Edits, Still
<1> QED
  BY <1>3, <1>4 DEF Edits

LEMMA RegisterVersion ==
  ASSUME Types, BackupInv, RegisterAdmin
  PROVE  /\ mem'.version = 4 /\ disk.cfg.version = 4 /\ disk'.cfg.version = 4
<1>1. PICK u \in Users :
        \/ /\ mem' = Normalize([mem EXCEPT !.admin = u])
           /\ disk' = [disk EXCEPT !.cfg = Normalize([mem EXCEPT !.admin = u]),
                                   !.accounts = EnsureUser(@, u, "admin")]
        \/ mem' = Normalize([mem EXCEPT !.admin = u]) /\ disk' = disk
  BY DEF RegisterAdmin, NotSaved
<1>2. mem \in Sound /\ mem.version = 4 /\ disk \in Disks /\ disk.cfg.version = 4
  BY DEF Types, ConfigTypes, Normals, BackupInv, RegisterAdmin
<1>3. Normalize([mem EXCEPT !.admin = u]).version = 4
  <2>1. [mem EXCEPT !.admin = u] \in Sound /\ [mem EXCEPT !.admin = u].version = 4
    BY <1>2, EditedConfig DEF Sound, Configs
  <2> QED
    BY <2>1, NormalizedIsNormal
<1> QED
  BY <1>1, <1>2, <1>3 DEF Disks

LEMMA BackupStep ==
  ASSUME Types, BackupInv, [Next]_vars
  PROVE  BackupInv'
<1>1. /\ disk \in Disks /\ legacy \in Sound /\ disk.cfg \in Sound /\ mem \in Sound
      /\ sidecar \in [db : Disks, file : Sound]
  BY DEF Types, ConfigTypes, Disks, Normals
<1>2. NoConfig.version = 0
  BY DEF NoConfig
<1>3. CASE OpenStore
  <2> DEFINE row == disk.cfg.version = 3
             file == disk.cfg = NoConfig /\ legacy.version = 3
  <2>1. CASE boot' = "refused" /\ UNCHANGED sidecar
    BY <1>3, <2>1 DEF OpenStore, BackupInv
  <2>2. CASE boot' = "opened" /\ row
    <3>1. sidecar' \in [db : Backup(sidecar.db, NoDisk, disk), file : {sidecar.file}]
      BY <1>2, <1>3, <2>2 DEF OpenStore
    <3>2. sidecar'.db = disk
      BY <3>1 DEF Backup
    <3> QED
      BY <1>2, <1>3, <2>2, <3>2 DEF OpenStore, BackupInv
  <2>3. CASE boot' = "opened" /\ ~row /\ file
    <3>1. sidecar' \in [db : {sidecar.db}, file : Backup(sidecar.file, NoConfig, legacy)]
      BY <1>3, <2>3 DEF OpenStore
    <3>2. sidecar'.db = sidecar.db /\ sidecar'.file = legacy
      BY <3>1 DEF Backup
    <3> QED
      BY <1>3, <2>3, <3>2 DEF OpenStore, BackupInv
  <2>4. CASE boot' = "opened" /\ ~row /\ ~file
    <3>1. sidecar' = sidecar
      BY <1>3, <2>4 DEF OpenStore
    <3> QED
      BY <1>3, <2>4, <3>1 DEF OpenStore, BackupInv
  <2> QED
    BY <1>3, <2>1, <2>2, <2>3, <2>4 DEF OpenStore
<1>4. CASE MigrateDatabase
  BY <1>1, <1>4 DEF MigrateDatabase, BackupInv, Disks
<1>5. CASE LoadConfig
  <2>1. CASE disk.cfg # NoConfig
    BY <1>1, <1>5, <2>1, MigratedConfig, NormalizedIsNormal DEF LoadConfig, BackupInv
  <2>2. CASE disk.cfg = NoConfig /\ legacy # NoConfig
    <3>1. mem' = Normalize(Migrated(legacy)) /\ disk' = [disk EXCEPT !.cfg = Migrated(legacy)]
      BY <1>5, <2>2 DEF LoadConfig
    <3>2. mem'.version = 4 /\ disk'.cfg.version = 4
      BY <1>1, <3>1, MigratedConfig, NormalizedIsNormal DEF Disks
    <3> QED
      <4>1. UNCHANGED <<legacy, sidecar>> /\ boot' = "loaded"
        BY <1>5 DEF LoadConfig
      <4>2. disk'.cfg # NoConfig
        BY <1>2, <3>2
      <4> QED
        BY <3>2, <4>1, <4>2 DEF BackupInv
  <2>3. CASE disk.cfg = NoConfig /\ legacy = NoConfig
    <3>1. PICK c \in Older : /\ mem' = [Migrated(V3(c)) EXCEPT !.admin = NoUser, !.profiles = <<>>]
                             /\ UNCHANGED disk
      BY <1>5, <2>3 DEF LoadConfig
    <3>2. mem'.version = 4
      BY <3>1, OlderConfig, MigratedConfig DEF Sound, Configs
    <3> QED
      BY <1>2, <1>5, <2>3, <3>1, <3>2 DEF LoadConfig, BackupInv
  <2> QED
    BY <2>1, <2>2, <2>3
<1>6. CASE SaveConfig
  BY <1>1, <1>6 DEF SaveConfig, BackupInv, Disks
<1>7. CASE BuildRuntime
  BY <1>1, <1>7 DEF BuildRuntime, BackupInv, Disks
<1>8. CASE OldReleaseEdits \/ Rollback \/ Die
  BY <1>8 DEF OldReleaseEdits, Rollback, Die, BackupInv
<1>9. CASE Configure
  <2>1. PICK config \in Sound : Edits(config)
    BY <1>9, EditStep DEF Configure, Types
  <2> QED
    BY <2>1, EditVersion DEF Edits, Still, BackupInv
<1>10. CASE RegisterAdmin
  BY <1>10, RegisterVersion DEF RegisterAdmin, BackupInv
<1>11. CASE Login \/ UpdateUserRole
  <2>1. disk'.cfg = disk.cfg
    BY <1>1, <1>11 DEF Login, UpdateUserRole, Disks
  <2> QED
    BY <1>11, <2>1 DEF Login, UpdateUserRole, BackupInv
<1>12. CASE \E r \in Requests : SsoFinish(r)
  <2>1. disk'.cfg = disk.cfg
    BY <1>1, <1>12 DEF SsoFinish, configVars, Disks
  <2>2. UNCHANGED <<legacy, sidecar, boot, mem, run>>
    BY <1>12 DEF SsoFinish, configVars
  <2> QED
    BY <2>1, <2>2 DEF BackupInv
<1>13. CASE UNCHANGED configVars
  BY <1>13 DEF configVars, BackupInv
<1> QED
  BY <1>3, <1>4, <1>5, <1>6, <1>7, <1>8, <1>9, <1>10, <1>11, <1>12, <1>13
  DEF Next, Boot, Booting, OutsideAccess, Outside, Local, Sso, Crash, Logout, Expire, SsoStart,
      CreateSsoState, SsoCallback, vars

\* One step of the property: a replaced configuration of the older release is in its
\* backup, and a backup stays as it is.
Reversible ==
  /\ disk.cfg.version = 3 /\ disk'.cfg.version = 4 => sidecar.db.cfg = disk.cfg
  /\ disk.cfg = NoConfig /\ disk'.cfg.version = 4 /\ legacy.version = 3 => sidecar.file = legacy
  /\ sidecar.db # NoDisk => sidecar'.db = sidecar.db
  /\ sidecar.file # NoConfig => sidecar'.file = sidecar.file

LEMMA ReversibleStep ==
  ASSUME Types, BackupInv, [Next]_vars
  PROVE  Reversible
<1>1. /\ disk \in Disks /\ disk.cfg \in Sound /\ sidecar \in [db : Disks, file : Sound]
  BY DEF Types, ConfigTypes, Disks
<1>2. NoConfig.version = 0
  BY DEF NoConfig
<1>3. CASE OpenStore
  <2>1. disk' = disk
    BY <1>3 DEF OpenStore
  <2>2. \/ sidecar' = sidecar
        \/ sidecar' \in [db : Backup(sidecar.db, NoDisk, disk), file : {sidecar.file}]
        \/ sidecar' \in [db : {sidecar.db}, file : Backup(sidecar.file, NoConfig, legacy)]
    BY <1>3 DEF OpenStore
  <2>3. /\ sidecar.db # NoDisk => sidecar'.db = sidecar.db
        /\ sidecar.file # NoConfig => sidecar'.file = sidecar.file
    BY <2>2 DEF Backup
  <2> QED
    BY <1>2, <2>1, <2>3 DEF Reversible
<1>4. CASE SaveConfig
  BY <1>4 DEF SaveConfig, BackupInv, Reversible
<1>5. CASE LoadConfig
  <2>1. disk.cfg = NoConfig \/ disk' = disk
    BY <1>5 DEF LoadConfig
  <2> QED
    BY <1>2, <1>5, <2>1 DEF LoadConfig, BackupInv, Reversible
<1>6. CASE Rollback
  BY <1>2, <1>6 DEF Rollback, BackupInv, Reversible
<1>7. CASE OldReleaseEdits
  <2>1. disk'.cfg.version = 3
    BY <1>1, <1>7, OlderConfig DEF OldReleaseEdits, Disks
  <2> QED
    BY <1>7, <2>1 DEF OldReleaseEdits, Reversible
<1>8. CASE Configure
  <2>1. PICK config \in Sound : Edits(config)
    BY <1>8, EditStep DEF Configure, Types
  <2> QED
    BY <1>2, <2>1, EditVersion DEF Edits, Still, Reversible
<1>9. CASE RegisterAdmin
  <2>1. sidecar' = sidecar
    BY <1>9 DEF RegisterAdmin
  <2>2. disk.cfg.version = 4
    BY <1>9, RegisterVersion
  <2> QED
    BY <1>2, <2>1, <2>2 DEF Reversible
<1>10. CASE /\ disk'.cfg = disk.cfg
            /\ UNCHANGED sidecar
  BY <1>2, <1>10 DEF Reversible
<1>11. CASE MigrateDatabase \/ BuildRuntime \/ Login \/ UpdateUserRole \/ \E r \in Requests : SsoFinish(r)
  BY <1>1, <1>10, <1>11 DEF MigrateDatabase, BuildRuntime, Login, UpdateUserRole, SsoFinish, configVars, Disks
<1> QED
  BY <1>3, <1>4, <1>5, <1>6, <1>7, <1>8, <1>9, <1>10, <1>11
  DEF Next, Boot, Booting, OutsideAccess, Outside, Local, Sso, Crash, Die, Logout, Expire, SsoStart,
      CreateSsoState, SsoCallback, vars, configVars

-----------------------------------------------------------------------------
(* Nothing arms itself, and the runtime is what was configured.            *)

ArmInv ==
  /\ Arms(asked, disk.cfg)
  /\ boot \in {"loaded", "saved", "up"} => Arms(asked, mem)
  /\ boot = "up" => Arms(asked, run)

SyncInv == (boot = "saved" => disk.cfg = mem) /\ RuntimeIsConfig

LEMMA ArmsMore ==
  ASSUME NEW a, NEW b, NEW c, Arms(a, c), a.live => b.live, a.on \subseteq b.on
  PROVE  Arms(b, c)
BY DEF Arms

LEMMA ArmsSame ==
  ASSUME NEW a, NEW c, NEW d, Arms(a, c), d.dry = c.dry, On(d.profiles) = On(c.profiles)
  PROVE  Arms(a, d)
BY DEF Arms

LEMMA ArmInit ==
  ASSUME Init
  PROVE  ArmInv
<1>1. Types
  BY TypesInit
<1>2. disk.cfg \in Sound
  BY <1>1 DEF Types, ConfigTypes, Disks
<1> QED
  BY <1>2, AskedIsArmed DEF Init, ConfigurationInit, ArmInv

LEMMA ArmStep ==
  ASSUME Types, ArmInv, [Next]_vars
  PROVE  ArmInv'
<1>1. /\ disk \in Disks /\ disk.cfg \in Sound /\ legacy \in Sound /\ mem \in Sound /\ run \in Sound
      /\ sidecar.db.cfg \in Sound
  BY DEF Types, ConfigTypes, Disks, Normals
<1>2. CASE LoadConfig
  <2>1. CASE disk.cfg # NoConfig
    <3>1. mem' = Normalize(Migrated(disk.cfg)) /\ disk' = disk /\ asked' = asked /\ boot' = "loaded"
      BY <1>2, <2>1 DEF LoadConfig
    <3>2. mem'.dry = disk.cfg.dry /\ On(mem'.profiles) = On(disk.cfg.profiles)
      BY <1>1, <3>1, MigratedConfig, NormalizedIsNormal
    <3> QED
      BY <3>1, <3>2, ArmsSame DEF ArmInv
  <2>2. CASE disk.cfg = NoConfig /\ legacy # NoConfig
    <3>1. /\ mem' = Normalize(Migrated(legacy)) /\ disk' = [disk EXCEPT !.cfg = Migrated(legacy)]
          /\ asked' = AskedBy(legacy) /\ boot' = "loaded"
      BY <1>2, <2>2 DEF LoadConfig
    <3>2. mem'.dry = legacy.dry /\ On(mem'.profiles) = On(legacy.profiles)
      BY <1>1, <3>1, MigratedConfig, NormalizedIsNormal
    <3>3. disk'.cfg.dry = legacy.dry /\ On(disk'.cfg.profiles) = On(legacy.profiles)
      BY <1>1, <3>1, MigratedConfig DEF Disks
    <3>4. Arms(asked', legacy)
      BY <1>1, <3>1, AskedIsArmed
    <3> QED
      BY <3>1, <3>2, <3>3, <3>4, ArmsSame DEF ArmInv
  <2>3. CASE disk.cfg = NoConfig /\ legacy = NoConfig
    <3>1. asked' = AskedBy(mem') /\ disk' = disk /\ boot' = "loaded"
      BY <1>2, <2>3 DEF LoadConfig
    <3>2. mem' \in Sound
      BY TypesStep DEF Types, ConfigTypes, Normals
    <3>3. Arms(asked', NoConfig)
      BY EmptyConfig DEF Arms, NoConfig
    <3> QED
      BY <2>3, <3>1, <3>2, <3>3, AskedIsArmed DEF ArmInv
  <2> QED
    BY <2>1, <2>2, <2>3
<1>3. CASE SaveConfig
  <2>1. disk'.cfg = mem
    BY <1>1, <1>3 DEF SaveConfig, Disks
  <2> QED
    BY <1>3, <2>1 DEF SaveConfig, ArmInv
<1>4. CASE BuildRuntime
  <2>1. disk'.cfg = disk.cfg
    BY <1>1, <1>4 DEF BuildRuntime, Disks
  <2> QED
    BY <1>4, <2>1 DEF BuildRuntime, ArmInv
<1>5. CASE OldReleaseEdits \/ Rollback
  <2>1. asked' = AskedBy(disk'.cfg) /\ boot' = boot /\ boot \in {"down", "refused"}
    BY <1>5 DEF OldReleaseEdits, Rollback
  <2>2. disk'.cfg \in Sound
    BY TypesStep DEF Types, ConfigTypes, Disks
  <2> QED
    BY <2>1, <2>2, AskedIsArmed DEF ArmInv
<1>6. CASE OpenStore \/ Die
  BY <1>6 DEF OpenStore, Die, ArmInv
<1>7. CASE MigrateDatabase
  BY <1>1, <1>7 DEF MigrateDatabase, ArmInv, Disks
<1>8. CASE Configure
  <2>1. PICK config \in Sound : Edits(config)
    BY <1>8, EditStep DEF Configure, Types
  <2>2. Arms(asked', config) /\ boot = "up" /\ boot' = "up"
    BY <2>1 DEF Edits, Still, ArmInv
  <2>3. Arms(asked', Normalize(config))
    BY <2>2, NormalizedIsNormal, ArmsSame
  <2>4. CASE Applied(config)
    BY <1>1, <2>2, <2>3, <2>4 DEF Applied, Saved, ArmInv, Disks
  <2>5. CASE Failed(config) /\ (asked.live => asked'.live) /\ asked.on \subseteq asked'.on
    <3>1. mem' = Normalize(config) /\ disk' = disk /\ run' = run
      BY <2>5 DEF Failed, NotSaved
    <3>2. Arms(asked', disk.cfg) /\ Arms(asked', run)
      BY <2>2, <2>5, ArmsMore DEF ArmInv
    <3> QED
      BY <2>2, <2>3, <3>1, <3>2 DEF ArmInv
  <2> QED
    BY <2>1, <2>4, <2>5 DEF Edits
<1>9. CASE RegisterAdmin
  <2>1. PICK u \in Users :
          \/ /\ mem' = Normalize([mem EXCEPT !.admin = u])
             /\ disk' = [disk EXCEPT !.cfg = Normalize([mem EXCEPT !.admin = u]),
                                     !.accounts = EnsureUser(@, u, "admin")]
          \/ mem' = Normalize([mem EXCEPT !.admin = u]) /\ disk' = disk
    BY <1>9 DEF RegisterAdmin, NotSaved
  <2> DEFINE config == [mem EXCEPT !.admin = u]
  <2>2. config \in Sound /\ config.dry = mem.dry /\ config.profiles = mem.profiles
    BY <1>1, EditedConfig DEF Sound, Configs
  <2>3. mem' = Normalize(config) /\ disk'.cfg \in {mem', disk.cfg}
    BY <1>1, <2>1 DEF Disks
  <2> HIDE DEF config
  <2>4. mem'.dry = mem.dry /\ On(mem'.profiles) = On(mem.profiles)
    BY <2>2, <2>3, NormalizedIsNormal
  <2>5. Arms(asked, mem')
    BY <1>9, <2>4, ArmsSame DEF RegisterAdmin, ArmInv
  <2> QED
    BY <1>9, <2>3, <2>5 DEF RegisterAdmin, ArmInv
<1>10. CASE Login \/ UpdateUserRole \/ \E r \in Requests : SsoFinish(r)
  <2>1. disk'.cfg = disk.cfg /\ UNCHANGED <<boot, mem, run, asked>>
    BY <1>1, <1>10 DEF Login, UpdateUserRole, SsoFinish, configVars, Disks
  <2> QED
    BY <2>1 DEF ArmInv
<1>11. CASE UNCHANGED configVars
  BY <1>11 DEF configVars, ArmInv
<1> QED
  BY <1>2, <1>3, <1>4, <1>5, <1>6, <1>7, <1>8, <1>9, <1>10, <1>11
  DEF Next, Boot, Booting, OutsideAccess, Outside, Local, Sso, Crash, Logout, Expire, SsoStart,
      CreateSsoState, SsoCallback, vars

LEMMA SyncStep ==
  ASSUME Types, SyncInv, [Next]_vars
  PROVE  SyncInv'
<1>1. /\ disk \in Disks /\ mem \in Normals /\ mem \in Sound /\ run \in Sound
  BY DEF Types, ConfigTypes, Normals
<1>2. \A c \in Sound : c = [c EXCEPT !.admin = c.admin]
  BY DEF Sound, Configs
<1>3. CASE SaveConfig
  BY <1>1, <1>3 DEF SaveConfig, SyncInv, RuntimeIsConfig, Disks
<1>4. CASE BuildRuntime
  <2>1. disk'.cfg = disk.cfg /\ disk.cfg = mem /\ run' = mem /\ mem' = mem /\ boot' = "up"
    BY <1>1, <1>4 DEF BuildRuntime, SyncInv, Disks
  <2> QED
    BY <1>1, <1>2, <2>1 DEF SyncInv, RuntimeIsConfig
<1>5. CASE OpenStore \/ MigrateDatabase \/ LoadConfig \/ Outside \/ Die
  <2>1. boot' \notin {"saved", "up"}
    BY <1>5 DEF OpenStore, MigrateDatabase, LoadConfig, Outside, OldReleaseEdits, Rollback, Die
  <2> QED
    BY <2>1 DEF SyncInv, RuntimeIsConfig
<1>6. CASE Configure
  <2>1. PICK config \in Sound : Edits(config)
    BY <1>6, EditStep DEF Configure, Types
  <2>2. boot' = "up"
    BY <2>1 DEF Edits, Still
  <2>3. CASE Failed(config)
    BY <2>2, <2>3 DEF Failed, SyncInv, RuntimeIsConfig
  <2>4. CASE Applied(config)
    <3>1. Normalize(config) \in Sound
      BY NormalizedIsNormal DEF Normals
    <3>2. disk'.cfg = mem' /\ run' = mem' /\ mem' \in Sound
      BY <1>1, <2>4, <3>1 DEF Applied, Saved, Disks
    <3> QED
      BY <1>2, <2>2, <3>2 DEF SyncInv, RuntimeIsConfig
  <2> QED
    BY <2>1, <2>3, <2>4 DEF Edits
<1>7. CASE RegisterAdmin
  <2>1. boot = "up" /\ boot' = "up" /\ run' = run
    BY <1>7 DEF RegisterAdmin
  <2>2. CASE drift'
    BY <2>1, <2>2 DEF SyncInv, RuntimeIsConfig
  <2>3. CASE ~drift'
    <3>1. PICK u \in Users :
            /\ mem' = Normalize([mem EXCEPT !.admin = u])
            /\ disk' = [disk EXCEPT !.cfg = Normalize([mem EXCEPT !.admin = u]),
                                    !.accounts = EnsureUser(@, u, "admin")]
            /\ UNCHANGED drift
      BY <1>7, <2>3 DEF RegisterAdmin
    <3>2. Normalize([mem EXCEPT !.admin = u]) = [mem EXCEPT !.admin = u]
      <4>1. [mem EXCEPT !.admin = u] \in Sound /\ [mem EXCEPT !.admin = u].profiles = mem.profiles
        BY <1>1, EditedConfig DEF Sound, Configs
      <4> QED
        BY <1>1, <4>1, NormalStays
    <3>3. run = [mem EXCEPT !.admin = run.admin]
      BY <2>1, <2>3, <3>1 DEF SyncInv, RuntimeIsConfig
    <3>4. disk'.cfg = mem' /\ mem' = [mem EXCEPT !.admin = u]
      BY <1>1, <3>1, <3>2 DEF Disks
    <3>5. [mem' EXCEPT !.admin = run.admin] = [mem EXCEPT !.admin = run.admin]
      BY <1>1, <3>4 DEF Sound, Configs
    <3> QED
      BY <2>1, <3>3, <3>4, <3>5 DEF SyncInv, RuntimeIsConfig
  <2> QED
    BY <2>2, <2>3
<1>8. CASE Login \/ UpdateUserRole \/ \E r \in Requests : SsoFinish(r)
  <2>1. disk'.cfg = disk.cfg /\ UNCHANGED <<boot, mem, run, drift>>
    BY <1>1, <1>8 DEF Login, UpdateUserRole, SsoFinish, configVars, Disks
  <2> QED
    BY <2>1 DEF SyncInv, RuntimeIsConfig
<1>9. CASE UNCHANGED configVars
  BY <1>9 DEF configVars, SyncInv, RuntimeIsConfig
<1> QED
  BY <1>3, <1>4, <1>5, <1>6, <1>7, <1>8, <1>9
  DEF Next, Boot, Booting, OutsideAccess, Local, Sso, Crash, Logout, Expire, SsoStart,
      CreateSsoState, SsoCallback, vars

-----------------------------------------------------------------------------
(* Somebody administers.                                                   *)

RoleInv ==
  /\ Known(disk.accounts) /\ Known(sidecar.db.accounts)
  /\ sessions # {} => \E u \in Users : disk.accounts[u] # "none"

\* A demotion leaves another administrator.
LEMMA DemotionLeavesOne ==
  ASSUME NEW accounts \in [Users -> Roles], NEW u \in Users, NEW role \in Roles \ {"none"},
         MayUpdateRole(accounts, u, role), Known(accounts)
  PROVE  LET updated == [accounts EXCEPT ![u] = role]
         IN  Known(updated) /\ \A v \in Users : accounts[v] # "none" => updated[v] # "none"
<1> DEFINE updated == [accounts EXCEPT ![u] = role]
<1>1. Admins(accounts) # {} /\ Admins(accounts) \subseteq Users
  BY DEF MayUpdateRole, Known, Admins
<1>2. \E v \in Users : updated[v] = "admin"
  <2>1. CASE role = "admin"
    BY <2>1
  <2>2. CASE role # "admin" /\ accounts[u] # "admin"
    BY <1>1, <2>2 DEF Admins
  <2>3. CASE role # "admin" /\ accounts[u] = "admin"
    <3>1. Cardinality(Admins(accounts)) > 1
      BY <2>3 DEF MayUpdateRole
    <3>2. Admins(accounts) # {u}
      <4>1. Cardinality({u}) = 1
        BY FS_Singleton
      <4> QED
        BY <3>1, <4>1
    <3>3. PICK v \in Admins(accounts) : v # u
      BY <1>1, <3>2
    <3> QED
      BY <3>3 DEF Admins
  <2> QED
    BY <2>1, <2>2, <2>3
<1> QED
  BY <1>2 DEF Known, Admins

LEMMA RoleInit ==
  ASSUME Init
  PROVE  RoleInv
<1>1. disk.accounts = Nobody
  <2>1. NoDisk \in Disks /\ NoDisk.accounts = Nobody
    BY EmptyDisk
  <2>2. disk = NoDisk \/ \E c \in Older : disk = [NoDisk EXCEPT !.schema = "old", !.cfg = V3(c)]
    BY DEF Init, ConfigurationInit
  <2> QED
    BY <2>1, <2>2 DEF Disks
<1>2. sidecar.db.accounts = Nobody
  BY EmptyDisk DEF Init, ConfigurationInit
<1>3. Known(Nobody)
  BY DEF Known, Nobody
<1> QED
  BY <1>1, <1>2, <1>3 DEF Init, RoleInv

\* An account that is made for a login, or for nobody.
LEMMA RoleAdds ==
  ASSUME Types, RoleInv, NEW u, sidecar' = sidecar,
         disk'.accounts \in {EnsureUser(disk.accounts, u, "admin"), EnsureSsoUser(disk.accounts, u)},
         \/ sessions' \subseteq sessions
         \/ u \in Users /\ sessions' \subseteq sessions \union {u}
  PROVE  RoleInv'
<1>1. disk.accounts \in [Users -> Roles]
  BY DEF Types, ConfigTypes, Disks
<1>2. /\ Known(disk.accounts) => Known(disk'.accounts)
      /\ u \in Users => disk'.accounts[u] # "none"
      /\ \A v \in Users : disk.accounts[v] # "none" => disk'.accounts[v] # "none"
  BY <1>1, EnsuredUser
<1>3. Known(disk'.accounts) /\ Known(sidecar'.db.accounts)
  BY <1>2 DEF RoleInv
<1>4. sessions' # {} => \E v \in Users : disk'.accounts[v] # "none"
  BY <1>2 DEF RoleInv
<1> QED
  BY <1>3, <1>4 DEF RoleInv, Known, Admins

LEMMA RoleStep ==
  ASSUME Types, RoleInv, [Next]_vars
  PROVE  RoleInv'
<1>1. /\ disk \in Disks /\ disk.accounts \in [Users -> Roles] /\ sidecar \in [db : Disks, file : Sound]
  BY DEF Types, ConfigTypes, Disks
<1>2. CASE OpenStore /\ UNCHANGED accessVars
  <2>1. sidecar'.db \in {sidecar.db, disk} /\ disk' = disk
    BY <1>1, <1>2 DEF OpenStore, Backup
  <2>2. Known(disk'.accounts) /\ Known(sidecar'.db.accounts)
    BY <2>1 DEF RoleInv
  <2> QED
    BY <1>2, <2>1, <2>2 DEF accessVars, RoleInv, Known, Admins
<1>3. CASE disk'.accounts = disk.accounts /\ sidecar' = sidecar /\ sessions' \subseteq sessions
  BY <1>3 DEF RoleInv, Known, Admins
<1>4. CASE (MigrateDatabase \/ LoadConfig \/ SaveConfig \/ OldReleaseEdits) /\ UNCHANGED accessVars
  BY <1>1, <1>3, <1>4 DEF MigrateDatabase, LoadConfig, SaveConfig, OldReleaseEdits, accessVars, Disks
<1>5. CASE BuildRuntime /\ UNCHANGED accessVars
  <2>1. disk'.accounts = EnsureUser(disk.accounts, mem.admin, "admin") /\ sidecar' = sidecar
        /\ sessions' = sessions
    BY <1>1, <1>5 DEF BuildRuntime, accessVars, Disks
  <2> QED
    BY <2>1, RoleAdds
<1>6. CASE Rollback /\ UNCHANGED accessVars
  <2>1. disk' = sidecar.db /\ sidecar' = sidecar /\ sessions' = {}
    BY <1>6 DEF Rollback, accessVars, Types, LiveInv
  <2> QED
    BY <2>1 DEF RoleInv, Known, Admins
<1>7. CASE Configure
  <2>1. PICK config \in Sound : Edits(config)
    BY <1>7, EditStep DEF Configure, Types
  <2>2. disk'.accounts = disk.accounts
    BY <1>1, <2>1 DEF Edits, Applied, Failed, Saved, NotSaved, Disks
  <2> QED
    BY <1>3, <1>7, <2>1, <2>2 DEF Edits, Still, Configure, accessVars
<1>8. CASE UpdateUserRole
  <2>1. PICK u \in Users, role \in Roles \ {"none"} :
          /\ MayUpdateRole(disk.accounts, u, role)
          /\ disk' = [disk EXCEPT !.accounts[u] = role]
    BY <1>8 DEF UpdateUserRole
  <2>2. disk'.accounts = [disk.accounts EXCEPT ![u] = role]
    BY <1>1, <2>1 DEF Disks
  <2>3. Known(disk'.accounts) /\ \A v \in Users : disk.accounts[v] # "none" => disk'.accounts[v] # "none"
    BY <1>1, <2>1, <2>2, DemotionLeavesOne DEF RoleInv
  <2>4. sidecar' = sidecar /\ sessions' = sessions
    BY <1>8 DEF UpdateUserRole, accessVars
  <2> QED
    BY <2>3, <2>4 DEF RoleInv, Known, Admins
<1>9. CASE RegisterAdmin
  <2>1. \/ disk' = disk /\ sessions' = sessions
        \/ \E u \in Users : /\ sessions' = sessions \union {u}
                            /\ disk'.accounts = EnsureUser(disk.accounts, u, "admin")
    BY <1>1, <1>9 DEF RegisterAdmin, NotSaved, Disks
  <2>2. sidecar' = sidecar
    BY <1>9 DEF RegisterAdmin
  <2> QED
    BY <1>3, <2>1, <2>2, RoleAdds
<1>10. CASE Login
  <2>1. mem.admin \in Users
    BY <1>10 DEF Login, Types, ConfigTypes, Normals, Sound, Configs
  <2>2. /\ sessions' = sessions \union {mem.admin} /\ sidecar' = sidecar
        /\ disk'.accounts = EnsureUser(disk.accounts, mem.admin, "admin")
    BY <1>1, <1>10 DEF Login, Disks
  <2> QED
    BY <2>1, <2>2, RoleAdds
<1>11. ASSUME NEW r \in Requests, SsoFinish(r)
       PROVE  RoleInv'
  <2>1. \/ disk' = disk /\ sidecar' = sidecar /\ sessions' = sessions
        \/ \E u \in reqs[r].policy.allowed :
              /\ sessions' = sessions \union {u} /\ sidecar' = sidecar
              /\ disk'.accounts = EnsureSsoUser(disk.accounts, u)
    BY <1>1, <1>11 DEF SsoFinish, configVars, Disks
  <2>2. reqs[r].policy.allowed \subseteq Users
    BY <1>11, RequestPolicy DEF SsoFinish, Types
  <2> QED
    BY <1>3, <2>1, <2>2, RoleAdds
<1>12. CASE Crash
  BY <1>3, <1>12 DEF Crash, Die
<1>13. CASE UNCHANGED configVars /\ sessions' \subseteq sessions
  BY <1>3, <1>13 DEF configVars
<1>14. CASE Logout \/ Expire \/ UNCHANGED vars
            \/ \E r \in Requests : SsoStart(r) \/ CreateSsoState(r) \/ SsoCallback(r)
  BY <1>13, <1>14 DEF Logout, Expire, SsoStart, CreateSsoState, SsoCallback, vars, accessVars
<1> QED
  BY <1>2, <1>4, <1>5, <1>6, <1>7, <1>8, <1>9, <1>10, <1>11, <1>12, <1>14
  DEF Next, Boot, Booting, OutsideAccess, Outside, Local, Sso

-----------------------------------------------------------------------------
(* The theorems.                                                           *)

IInv == Types /\ BackupInv /\ ArmInv /\ SyncInv /\ RoleInv

LEMMA IInvInit ==
  ASSUME Init
  PROVE  IInv
<1>1. SyncInv
  BY DEF Init, ConfigurationInit, SyncInv, RuntimeIsConfig
<1> QED
  BY <1>1, TypesInit, BackupInit, ArmInit, RoleInit DEF IInv

LEMMA IInvStep ==
  ASSUME IInv, [Next]_vars
  PROVE  IInv'
BY TypesStep, BackupStep, ArmStep, SyncStep, RoleStep DEF IInv

LEMMA IInvImplies ==
  ASSUME IInv
  PROVE  TypeOK /\ NothingArmsItself /\ RuntimeIsConfig /\ SomeoneAdministers
<1> USE DEF IInv
<1>1. TypeOK
  BY TypesTyped
<1>2. NothingArmsItself
  BY DEF ArmInv, Arms, On, NothingArmsItself
<1>3. RuntimeIsConfig
  BY DEF SyncInv
<1>4. SomeoneAdministers
  BY DEF RoleInv, Known, SomeoneAdministers
<1> QED
  BY <1>1, <1>2, <1>3, <1>4

LEMMA IInvAlways == Spec => []IInv
BY IInvInit, IInvStep, PTL DEF Spec

\* Whatever is edited, imported, registered, crashed and rolled back, every variable
\* keeps its type, the ids of a list of profiles stay distinct, and the service's and
\* the runtime's configuration prefer exactly one profile.
THEOREM TypeCorrect == Spec => []TypeOK
BY IInvAlways, IInvImplies, PTL

\* The live runtime deletes for real, and routes to a profile, only as last asked.
THEOREM ArmedAsAsked == Spec => []NothingArmsItself
BY IInvAlways, IInvImplies, PTL

\* Without a failed write the disk, the service and the runtime agree.
THEOREM RuntimeAgrees == Spec => []RuntimeIsConfig
BY IInvAlways, IInvImplies, PTL

\* Once anybody has an account or a session, some account administers: the accounts
\* of the database, and those of the backup it may be restored from.
THEOREM AlwaysAdministered == Spec => []SomeoneAdministers
BY IInvAlways, IInvImplies, PTL

\* The configuration of the older release is in its backup when it is replaced, and no
\* step changes a backup, whatever crashes and rollbacks came before.
THEOREM UpgradeCanBeUndone == Spec => UpgradeIsReversible
<1>1. IInv /\ [Next]_vars => [Reversible]_vars
  BY ReversibleStep DEF IInv
<1> QED
  BY <1>1, IInvAlways, PTL DEF Spec, UpgradeIsReversible, Reversible

=============================================================================
