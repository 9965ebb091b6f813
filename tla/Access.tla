------------------------------- MODULE Access -------------------------------
(***************************************************************************)
(* Authentication over the configuration: registration of the local        *)
(* administrator, login, the OpenID Connect flow, sessions, and the roles  *)
(* of the accounts (application/authentication.py, infrastructure/users.py,*)
(* infrastructure/auth.py and their routes in api/app.py).  Handlers run   *)
(* on one event loop: they interleave where they await the provider.       *)
(***************************************************************************)
EXTENDS Configuration

CONSTANTS Requests,    \* HTTP requests of the single-sign-on flow in progress
          NoState,     \* a request that holds no state
          StateCap,    \* outstanding authorization states kept (256 in the code)
          StateBudget, \* bound on authorization states created
          AdminToken   \* is the static admin token set?

ASSUME AccessAssumption ==
    /\ StateCap \in Nat \ {0} /\ StateBudget \in Nat
    /\ AdminToken \in BOOLEAN
    /\ NoState \notin 1..StateBudget

States == 1..StateBudget

VARIABLES states,   \* outstanding authorization states, oldest first
          issued,   \* number of states created
          reqs,     \* requests: [at, policy, state]
          sessions  \* users with a live session (a user's sessions are one)

accessVars == <<states, issued, reqs, sessions>>
vars == <<configVars, accessVars>>

Idle == [at |-> "idle", state |-> NoState]

Init ==
    /\ ConfigurationInit
    /\ states = <<>> /\ issued = 0
    /\ reqs = [r \in Requests |-> Idle]
    /\ sessions = {}

-----------------------------------------------------------------------------
(* infrastructure/users.py: each operation is one transaction. *)

Admins(accounts) == {u \in Users : accounts[u] = "admin"}

\* A new identity is a viewer as soon as there is an administrator.
EnsureSsoUser(accounts, u) ==
    EnsureUser(accounts, u, IF Admins(accounts) = {} THEN "admin" ELSE "viewer")

\* The last administrator cannot be demoted.
MayUpdateAnyRole(accounts, u, role) == accounts[u] # "none"

MayUpdateRole(accounts, u, role) ==
    /\ accounts[u] # "none"
    /\ accounts[u] = "admin" /\ role # "admin" => Cardinality(Admins(accounts)) > 1

-----------------------------------------------------------------------------
(* require_admin_token: the role is read from the account at every request. *)

Authorized == AdminToken \/ \E u \in sessions : disk.accounts[u] = "admin"

Configure ==
    /\ Authorized
    /\ Administration
    /\ UNCHANGED accessVars

UpdateUserRole ==
    /\ boot = "up" /\ Authorized
    /\ \E u \in Users, role \in Roles \ {"none"} :
          /\ MayUpdateRole(disk.accounts, u, role)
          /\ disk' = [disk EXCEPT !.accounts[u] = role]
    /\ UNCHANGED <<legacy, sidecar, boot, mem, run, asked, drift, edits, faults, crashes, accessVars>>

LocalAuth(policy) == policy.mode \in {"password_only", "both"}
SsoConfigured(policy) == policy.mode \in {"both", "sso_only"} /\ policy.allowed # {}

\* register_admin: the credentials are saved, the runtime is not rebuilt.
RegisterAdmin ==
    /\ boot = "up"
    /\ LocalAuth(mem.policy) /\ mem.admin = NoUser
    /\ \E u \in Users :
          LET config == [mem EXCEPT !.admin = u]
          IN \/ /\ mem' = Normalize(config)
                /\ disk' = [disk EXCEPT !.cfg = Normalize(config),
                                        !.accounts = EnsureUser(@, u, "admin")]
                /\ sessions' = sessions \union {u}
                /\ UNCHANGED <<faults, drift>>
             \/ NotSaved(config) /\ drift' = TRUE /\ UNCHANGED sessions
    /\ UNCHANGED <<legacy, sidecar, boot, run, asked, edits, crashes, states, issued, reqs>>

\* A login with the administrator's password; others are refused and change nothing.
Login ==
    /\ boot = "up"
    /\ LocalAuth(mem.policy) /\ mem.admin # NoUser
    /\ disk' = [disk EXCEPT !.accounts = EnsureUser(@, mem.admin, "admin")]
    /\ sessions' = sessions \union {mem.admin}
    /\ UNCHANGED <<legacy, sidecar, boot, mem, run, asked, drift, edits, faults, crashes,
                   states, issued, reqs>>

\* A logout, or the end of a session's seven days.
Logout ==
    /\ \E u \in sessions : sessions' = sessions \ {u}
    /\ UNCHANGED <<configVars, states, issued, reqs>>

-----------------------------------------------------------------------------
(* The OpenID Connect flow. *)

\* sso_start reads the runtime's policy, then awaits the provider's metadata.
SsoStart(r) ==
    /\ boot = "up" /\ reqs[r] = Idle
    /\ issued < StateBudget
    /\ SsoConfigured(run.policy)
    /\ reqs' = [reqs EXCEPT ![r] = [Idle EXCEPT !.at = "start"]]
    /\ UNCHANGED <<configVars, states, issued, sessions>>

\* create_sso_state: the oldest outstanding state makes room for the new one.
Evicted(s) == IF Len(s) >= StateCap THEN Tail(s) ELSE s

CreateSsoState(r) ==
    /\ reqs[r].at = "start"
    /\ reqs' = [reqs EXCEPT ![r] = Idle]
    /\ \/ /\ issued < StateBudget
          /\ issued' = issued + 1
          /\ states' = Append(Evicted(states), issued')
       \/ UNCHANGED <<issued, states>>          \* the discovery failed
    /\ UNCHANGED <<configVars, sessions>>

\* Five minutes have passed since the oldest state was created: the next call purges it.
Expire ==
    /\ states # <<>>
    /\ states' = Tail(states)
    /\ UNCHANGED <<configVars, issued, reqs, sessions>>

\* consume_sso_state: at most one callback gets the state.
Consumed(i) == RemoveAt(states, i)

\* sso_callback consumes the state of the browser's cookie, then refuses a denied
\* or unconfigured login, then awaits the provider with the policy it has read.
SsoCallback(r) ==
    /\ boot = "up" /\ reqs[r] = Idle
    /\ \E i \in DOMAIN states :
          /\ states' = Consumed(i)
          /\ \/ UNCHANGED reqs
             \/ /\ SsoConfigured(run.policy)
                /\ reqs' = [reqs EXCEPT ![r] = [at |-> "exchange", state |-> states[i],
                                                 policy |-> run.policy]]
    /\ UNCHANGED <<configVars, issued, sessions>>

\* discover, exchange, fetch_jwks, validate_id_token and authorize_sso_identity;
\* then create_session_for_user.
SsoFinish(r) ==
    /\ reqs[r].at = "exchange"
    /\ reqs' = [reqs EXCEPT ![r] = Idle]
    /\ \/ UNCHANGED <<configVars, sessions>>
       \/ \E u \in reqs[r].policy.allowed :
             /\ disk' = [disk EXCEPT !.accounts = EnsureSsoUser(@, u)]
             /\ sessions' = sessions \union {u}
             /\ UNCHANGED <<legacy, sidecar, boot, mem, run, asked, drift, edits, faults, crashes>>
    /\ UNCHANGED <<states, issued>>

-----------------------------------------------------------------------------
Boot == Booting /\ UNCHANGED accessVars
OutsideAccess == Outside /\ UNCHANGED accessVars

\* Sessions, outstanding states and requests are lost with the process.
Crash ==
    /\ Die
    /\ states' = <<>> /\ sessions' = {}
    /\ reqs' = [r \in Requests |-> Idle]
    /\ UNCHANGED issued

Local == RegisterAdmin \/ Login \/ Logout \/ UpdateUserRole
Sso == Expire \/ \E r \in Requests : SsoStart(r) \/ CreateSsoState(r) \/ SsoCallback(r) \/ SsoFinish(r)
Next == Boot \/ OutsideAccess \/ Configure \/ Local \/ Sso \/ Crash

Spec == Init /\ [][Next]_vars

-----------------------------------------------------------------------------
(* Properties. *)

Configs == [version : {0, 3, 4}, admin : Users \union {NoUser}, dry : BOOLEAN,
            profiles : Seq(Profiles), policy : [mode : Modes, allowed : SUBSET Users]]
Databases == [schema : {"none", "old", "new"}, cfg : Configs, accounts : [Users -> Roles]]
SsoRequests == {Idle, [Idle EXCEPT !.at = "start"]} \union
    [at : {"exchange"}, state : States, policy : [mode : Modes, allowed : SUBSET Users]]
Distinct(c) == \A i, j \in DOMAIN c.profiles : c.profiles[i].id = c.profiles[j].id => i = j

\* Every variable keeps its type; profiles have distinct ids, and exactly one of a
\* configuration that was normalised is preferred, if it has any.
TypeOK ==
    /\ disk \in Databases /\ sidecar \in [db : Databases, file : Configs]
    /\ {legacy, mem, run} \subseteq Configs
    /\ \A c \in {disk.cfg, legacy, sidecar.db.cfg, sidecar.file, mem, run} : Distinct(c)
    /\ \A c \in {mem, run} : c.profiles # <<>> =>
          Cardinality({i \in DOMAIN c.profiles : c.profiles[i].is_default}) = 1
    /\ boot \in {"down", "refused", "opened", "migrated", "loaded", "saved", "up"}
    /\ asked \in [live : BOOLEAN, on : SUBSET Ids] /\ drift \in BOOLEAN
    /\ {edits, faults, crashes} \subseteq Nat
    /\ issued \in 0..StateBudget /\ states \in Seq(1..issued) /\ Len(states) <= StateCap
    /\ reqs \in [Requests -> SsoRequests] /\ sessions \subseteq Users

\* README.md: the sidecar exists before schema 4 is persisted, and it is immutable.
\* Whatever crashes, rollbacks and edits of the older release came before, the step
\* that replaces a version 3 row finds that very configuration in the sidecar, and
\* no step changes a sidecar once it is written.
UpgradeIsReversible ==
    [][/\ disk.cfg.version = 3 /\ disk'.cfg.version = 4 => sidecar.db.cfg = disk.cfg
       /\ disk.cfg = NoConfig /\ disk'.cfg.version = 4 /\ legacy.version = 3 => sidecar.file = legacy
       /\ sidecar.db # NoDisk => sidecar'.db = sidecar.db
       /\ sidecar.file # NoConfig => sidecar'.file = sidecar.file]_vars

\* The live runtime deletes for real, and routes to a profile, only if that is what
\* an administrator last asked for since the last import, over failed writes and
\* restarts: nothing that was imported or switched off is armed by another change.
NothingArmsItself ==
    boot = "up" =>
        /\ ~run.dry => asked.live
        /\ \A i \in DOMAIN run.profiles : run.profiles[i].enabled => run.profiles[i].id \in asked.on

\* While no write has failed since the last change that was answered, the disk, the
\* service and the runtime hold one configuration, up to a registration the runtime
\* has not seen.
RuntimeIsConfig ==
    boot = "up" /\ ~drift =>
        /\ disk.cfg = mem
        /\ run = [mem EXCEPT !.admin = run.admin]

\* docs/SSO.md: there is always an administrator: once anybody has an account or a
\* session, some account administers.
SomeoneAdministers ==
    (sessions # {} \/ \E u \in Users : disk.accounts[u] # "none") => Admins(disk.accounts) # {}

=============================================================================
