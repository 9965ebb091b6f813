--------------------------- MODULE Configuration ---------------------------
(* The runtime configuration: the store and its upgrade from schema 3         *)
(* (infrastructure/config_store.py), the service that edits it                *)
(* (application/configuration.py), the redacted import (api/operations.py)    *)
(* and the runtime that is rebuilt from it (infrastructure/container.py).     *)
(*                                                                            *)
(* Three copies of one configuration exist: the row on disk, the service's    *)
(* own (mem) and the one the live runtime was built from (run).  Only         *)
(* profiles of one kind are modelled; URLs, credentials and thresholds are    *)
(* left out.                                                                  *)
EXTENDS Integers, SequencesExt, FiniteSets

CONSTANTS Users,       \* identities
          NoUser,      \* no local administrator registered
          Policies,    \* access policies: [mode |-> ..., allowed |-> SUBSET Users]
          Ids,         \* ids of profiles
          Older,       \* configurations of an older release: [policy, dry, admin, profiles]
          EditBudget,  \* bound on changes of the configuration
          WriteFaults, \* bound on writes that fail
          CrashBudget  \* bound on crashes and stops

Modes == {"password_only", "both", "sso_only"}

ASSUME ConfigurationAssumption ==
    /\ NoUser \notin Users
    /\ Policies \subseteq [mode : Modes, allowed : SUBSET Users]
    /\ Policies # {} /\ Older # {}
    /\ \A c \in Older : /\ c.policy \in Policies /\ c.dry \in BOOLEAN /\ c.admin \in Users \union {NoUser}
                         /\ c.profiles \in Seq([id : Ids, enabled : BOOLEAN, is_default : BOOLEAN])
                         /\ \A i, j \in DOMAIN c.profiles : c.profiles[i].id = c.profiles[j].id => i = j
    /\ {EditBudget, WriteFaults, CrashBudget} \subseteq Nat

VARIABLES disk,     \* the database: its schema, the configuration row, the accounts
          legacy,   \* runtime-config.json of an older release
          sidecar,  \* the v3 backups beside the database and beside the file
          boot,     \* how far the process has started
          mem,      \* RuntimeConfigurationService._config
          run,      \* ServiceRuntime.config
          asked,    \* history: what administrators last asked to go live
          drift,    \* history: a write has failed and nothing was refreshed since
          edits, faults, crashes

configVars == <<disk, legacy, sidecar, boot, mem, run, asked, drift, edits, faults, crashes>>

Roles == {"none", "viewer", "admin"}
Nobody == [u \in Users |-> "none"]
NoConfig == [version |-> 0, admin |-> NoUser, dry |-> TRUE, profiles |-> <<>>,
             policy |-> [mode |-> "password_only", allowed |-> {}]]
V3(c) == [NoConfig EXCEPT !.version = 3, !.policy = c.policy, !.dry = c.dry,
                           !.admin = c.admin, !.profiles = c.profiles]
NoDisk == [schema |-> "none", cfg |-> NoConfig, accounts |-> Nobody]
Profiles == [id : Ids, enabled : BOOLEAN, is_default : BOOLEAN]
IdsOf(profiles) == {profiles[i].id : i \in DOMAIN profiles}

-----------------------------------------------------------------------------
(* Pure functions of a configuration. *)

First(S) == CHOOSE i \in S : \A j \in S : i <= j

\* The preferred profile: the first marked one, else the first enabled one,
\* else the first.
ActiveId(profiles) ==
    LET marked == {i \in DOMAIN profiles : profiles[i].is_default}
        on     == {i \in DOMAIN profiles : profiles[i].enabled}
    IN profiles[First(IF marked # {} THEN marked ELSE IF on # {} THEN on ELSE DOMAIN profiles)].id

NormalizeDefaults(profiles) ==
    [i \in DOMAIN profiles |->
        [profiles[i] EXCEPT !.is_default = profiles[i].id = ActiveId(profiles)]]

Normalize(config) == [config EXCEPT !.profiles = NormalizeDefaults(@)]

\* Every migration of the payload, applied when it is read.
Migrated(config) == [config EXCEPT !.version = 4]

Added(profiles, p) == Append(profiles, p)
Replaced(profiles, p) == [i \in DOMAIN profiles |-> IF profiles[i].id = p.id THEN p ELSE profiles[i]]
\* A list has one profile with an id.
Deleted(profiles, id) == RemoveAt(profiles, CHOOSE i \in DOMAIN profiles : profiles[i].id = id)

\* A profile of an imported document is disabled, whether it is new or known.
DisabledProfile(id) == [id |-> id, enabled |-> FALSE, is_default |-> FALSE]

\* The document names at most the profiles ids; profiles it omits stay as they are.
ImportedProfiles(profiles, ids) ==
    LET known == [i \in DOMAIN profiles |->
                    IF profiles[i].id \in ids THEN DisabledProfile(profiles[i].id) ELSE profiles[i]]
        new   == {s \in UNION {[1..n -> ids] : n \in 0..Cardinality(ids)} :
                    \A i, j \in DOMAIN s : s[i] = s[j] => i = j}
    IN {known \o [i \in DOMAIN s |-> DisabledProfile(s[i])] :
          s \in {t \in new : {t[i] : i \in DOMAIN t} = ids \ IdsOf(profiles)}}

\* The document merged into the runtime's configuration, not into the service's.
ImportKeepingMode(config, ids) ==
    {[config EXCEPT !.profiles = ps] : ps \in ImportedProfiles(config.profiles, ids)}

Import(config, ids) ==
    {[config EXCEPT !.dry = TRUE, !.profiles = ps] : ps \in ImportedProfiles(config.profiles, ids)}

-----------------------------------------------------------------------------
(* Starting: RuntimeConfigurationService(SqliteConfigStore(...)), with a      *)
(* crash possible between any two of its writes.                              *)

AskedBy(config) == [live |-> ~config.dry,
                    on |-> {config.profiles[i].id : i \in {j \in DOMAIN config.profiles :
                                                             config.profiles[j].enabled}}]

\* Does the sidecar hold exactly what is being upgraded?  Then it is kept; a
\* missing one is written, another one stops the start.
BackupUncompared(kept, missing, source) ==
    IF kept = missing THEN {source} ELSE {kept}

Backup(kept, missing, source) ==
    IF kept = missing THEN {source} ELSE IF kept = source THEN {kept} ELSE {}

\* SqliteConfigStore.__init__ before it touches the schema: a version 3 row is
\* backed up with the whole database, else a version 3 file with the file.
OpenStore ==
    /\ boot \in {"down", "refused"}
    /\ LET row == disk.cfg.version = 3
           file == disk.cfg = NoConfig /\ legacy.version = 3
           copies == CASE row  -> [db : Backup(sidecar.db, NoDisk, disk), file : {sidecar.file}]
                       [] file -> [db : {sidecar.db}, file : Backup(sidecar.file, NoConfig, legacy)]
                       [] OTHER -> {sidecar}
       IN IF copies = {} THEN boot' = "refused" /\ UNCHANGED sidecar
                         ELSE boot' = "opened" /\ sidecar' \in copies
    /\ UNCHANGED <<disk, legacy, mem, run, asked, drift, edits, faults, crashes>>

\* migrate_database: one transaction; the table of accounts is new in it.
MigrateDatabase ==
    /\ boot = "opened"
    /\ boot' = "migrated"
    /\ disk' = [disk EXCEPT !.schema = "new"]
    /\ UNCHANGED <<legacy, sidecar, mem, run, asked, drift, edits, faults, crashes>>

\* load: the row, or the legacy file (saved at once), or the environment's settings.
LoadConfig ==
    /\ boot = "migrated"
    /\ boot' = "loaded"
    /\ CASE disk.cfg # NoConfig ->
              /\ mem' = Normalize(Migrated(disk.cfg))
              /\ UNCHANGED <<disk, asked>>
         [] disk.cfg = NoConfig /\ legacy # NoConfig ->
              /\ mem' = Normalize(Migrated(legacy))
              /\ disk' = [disk EXCEPT !.cfg = Migrated(legacy)]
              /\ asked' = AskedBy(legacy)
         [] OTHER ->
              /\ \E c \in Older : mem' = [Migrated(V3(c)) EXCEPT !.admin = NoUser, !.profiles = <<>>]
              /\ asked' = AskedBy(mem')
              /\ UNCHANGED disk
    /\ UNCHANGED <<legacy, sidecar, run, drift, edits, faults, crashes>>

\* The normalised configuration is saved in the current schema.
SaveConfig ==
    /\ boot = "loaded"
    /\ boot' = "saved"
    /\ disk' = [disk EXCEPT !.cfg = mem]
    /\ UNCHANGED <<legacy, sidecar, mem, run, asked, drift, edits, faults, crashes>>

\* The registered administrator gets an account if none has the name (its role is
\* kept if one has), and the runtime is built.
EnsureUser(accounts, u, role) ==
    IF u \in Users /\ accounts[u] = "none" THEN [accounts EXCEPT ![u] = role] ELSE accounts

BuildRuntime ==
    /\ boot = "saved"
    /\ boot' = "up"
    /\ disk' = [disk EXCEPT !.accounts = EnsureUser(@, mem.admin, "admin")]
    /\ run' = mem
    /\ drift' = FALSE
    /\ UNCHANGED <<legacy, sidecar, mem, asked, edits, faults, crashes>>

\* The process dies, or is stopped.
Die ==
    /\ boot \notin {"down", "refused"}
    /\ crashes < CrashBudget
    /\ crashes' = crashes + 1
    /\ boot' = "down"
    /\ mem' = NoConfig /\ run' = NoConfig /\ drift' = FALSE
    /\ UNCHANGED <<disk, legacy, sidecar, asked, edits, faults>>

-----------------------------------------------------------------------------
(* Changes of a running service.  The service's copy changes before the write  *)
(* and stays changed if the write fails; the runtime follows the write.  There *)
(* is no await between the three.                                              *)

Saved(config) ==
    /\ mem' = Normalize(config)
    /\ disk' = [disk EXCEPT !.cfg = Normalize(config)]
    /\ UNCHANGED faults

NotSaved(config) ==
    /\ faults < WriteFaults
    /\ faults' = faults + 1
    /\ mem' = Normalize(config)
    /\ UNCHANGED disk

Editing == /\ boot = "up"
           /\ edits < EditBudget
           /\ edits' = edits + 1

\* An operation answered with success: saved, and the runtime rebuilt from it.
AppliedUnrefreshed(config) == Saved(config) /\ UNCHANGED run /\ drift' = FALSE

Applied(config) == Saved(config) /\ run' = mem' /\ drift' = FALSE

Failed(config) == NotSaved(config) /\ drift' = TRUE /\ UNCHANGED run

Still == UNCHANGED <<legacy, sidecar, boot, crashes>>

UpdateGeneral ==
    /\ Editing /\ Still
    /\ \E p \in Policies, d \in BOOLEAN :
          LET config == [mem EXCEPT !.policy = p, !.dry = d]
          IN \/ Applied(config) /\ asked' = [asked EXCEPT !.live = ~d]
             \/ Failed(config) /\ asked' = [asked EXCEPT !.live = @ \/ ~d]

AddService ==
    /\ Editing /\ Still
    /\ \E p \in Profiles :
          /\ p.id \notin IdsOf(mem.profiles) \union IdsOf(run.profiles)
          /\ LET config == [mem EXCEPT !.profiles = Added(@, p)]
             IN /\ Applied(config) \/ Failed(config)
                /\ asked' = [asked EXCEPT !.on = IF p.enabled THEN @ \union {p.id} ELSE @]

UpdateService ==
    /\ Editing /\ Still
    /\ \E p \in Profiles :
          /\ p.id \in IdsOf(mem.profiles)
          /\ LET config == [mem EXCEPT !.profiles = Replaced(@, p)]
                 on == [asked EXCEPT !.on = @ \union {p.id}]
             IN \/ Applied(config) /\ asked' = IF p.enabled THEN on ELSE [asked EXCEPT !.on = @ \ {p.id}]
                \/ Failed(config) /\ asked' = IF p.enabled THEN on ELSE asked

DeleteService ==
    /\ Editing /\ Still
    /\ \E id \in IdsOf(mem.profiles) :
          LET config == [mem EXCEPT !.profiles = Deleted(@, id)]
          IN \/ Applied(config) /\ asked' = [asked EXCEPT !.on = @ \ {id}]
             \/ Failed(config) /\ UNCHANGED asked

ImportConfig ==
    /\ Editing /\ Still
    /\ \E ids \in SUBSET Ids : \E config \in Import(run, ids) :
          \/ Applied(config) /\ asked' = [live |-> FALSE, on |-> asked.on \ ids]
          \/ Failed(config) /\ UNCHANGED asked

-----------------------------------------------------------------------------
(* Outside the service, while it is down. *)

\* An older release runs on the old schema and its configuration is edited.
OldReleaseEdits ==
    /\ boot \in {"down", "refused"} /\ disk.schema = "old"
    /\ edits < EditBudget
    /\ edits' = edits + 1
    /\ \E c \in Older : disk' = [disk EXCEPT !.cfg = V3(c)]
    /\ asked' = AskedBy(disk'.cfg)
    /\ UNCHANGED <<legacy, sidecar, boot, mem, run, drift, faults, crashes>>

\* docs/OPERATIONS.md: the sidecar is copied back over the database.
Rollback ==
    /\ boot \in {"down", "refused"} /\ sidecar.db # NoDisk
    /\ disk' = sidecar.db
    /\ asked' = AskedBy(disk'.cfg)
    /\ UNCHANGED <<legacy, sidecar, boot, mem, run, drift, edits, faults, crashes>>

\* A new installation, a legacy file, or the database of the older release.
ConfigurationInit ==
    /\ \E c \in Older :
          \/ disk = NoDisk /\ legacy \in {NoConfig, V3(c)}
          \/ disk = [NoDisk EXCEPT !.schema = "old", !.cfg = V3(c)] /\ legacy = NoConfig
    /\ sidecar = [db |-> NoDisk, file |-> NoConfig]
    /\ boot = "down"
    /\ mem = NoConfig /\ run = NoConfig
    /\ asked = AskedBy(disk.cfg)
    /\ drift = FALSE
    /\ edits = 0 /\ faults = 0 /\ crashes = 0

Booting == OpenStore \/ MigrateDatabase \/ LoadConfig \/ SaveConfig \/ BuildRuntime
Administration == UpdateGeneral \/ AddService \/ UpdateService \/ DeleteService \/ ImportConfig
Outside == OldReleaseEdits \/ Rollback

=============================================================================
