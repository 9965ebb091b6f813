--------------------------- MODULE DownloadPolicy ---------------------------
(***************************************************************************)
(* The decisions about observed torrents that touch nothing: who owns a    *)
(* torrent (application/downloads.py resolve_snapshot_ownership) and        *)
(* whether the seeding-stop policy may pause it                            *)
(* (application/download_policy.py).  Names are compared after case        *)
(* folding in the code; here a name stands for its folded form.            *)
(***************************************************************************)
EXTENDS Integers, FiniteSets

CONSTANT None   \* an absent threshold, metric, category, tag list or row

States == {"downloading", "seeding", "stopped", "queued", "checking", "error", "unknown"}
Owners == {"managed", "unmanaged", "conflict", "unknown"}

\* a mutant: twins are not looked for
OwnershipAlone(target, listed, history, arrFailed, fleetComplete) ==
    IF arrFailed \/ ~fleetComplete THEN "unknown"
    ELSE IF target[2] \in history THEN "managed" ELSE "unmanaged"
(***************************************************************************)
(* Ownership of the torrent <<client, hash>> among those listed: two       *)
(* clients with one hash conflict, and only complete Arr evidence over a   *)
(* complete fleet makes a torrent managed.                                 *)
(***************************************************************************)
Ownership(target, listed, history, arrFailed, fleetComplete) ==
    LET twins == {t \in listed : t[2] = target[2]}
    IN IF Cardinality(twins) > 1 THEN "conflict"
       ELSE IF arrFailed THEN "unknown"
       ELSE IF target[2] \notin history THEN "unmanaged"
       ELSE IF fleetComplete THEN "managed" ELSE "unknown"

(***************************************************************************)
(* _scope_decision: the reason a torrent is out of the policy's scope, or  *)
(* None.  A name the client did not report blocks every list that needs it.*)
(***************************************************************************)
OutOfScope(policy, s) ==
    LET unknown(categories, tags) == \/ categories # {} /\ s.category = None
                                     \/ tags # {} /\ s.tags = None
        tagged(tags) == s.tags # None /\ s.tags \cap tags # {}
        inclusive == policy.inCategories # {} \/ policy.inTags # {}
    IN IF unknown(policy.exCategories, policy.exTags) THEN "scope_metadata_unknown"
       ELSE IF s.category \in policy.exCategories THEN "excluded_category"
       ELSE IF tagged(policy.exTags) THEN "excluded_tag"
       ELSE IF ~inclusive THEN None
       ELSE IF unknown(policy.inCategories, policy.inTags) THEN "scope_metadata_unknown"
       ELSE IF s.category \in policy.inCategories \/ tagged(policy.inTags) THEN None
       ELSE "outside_include_scope"

\* the configured thresholds: <<limit, metric>>, limits that are set
Thresholds(policy, s) ==
    {c \in {<<policy.minRatio, s.ratio>>, <<policy.minMinutes, s.minutes>>} : c[1] # None}

(***************************************************************************)
(* evaluate_seeding_stop_policy: its reason code.                          *)
(***************************************************************************)
Evaluate(policy, s) ==
    LET checks == Thresholds(policy, s)
        passed == {c \in checks : c[2] >= c[1]}
    IN IF ~policy.enabled THEN "policy_disabled"
       ELSE IF s.freshness # "fresh" THEN "stale_or_unknown_observation"
       ELSE IF s.owner # "managed" THEN "ownership_not_managed"
       ELSE IF s.state # "seeding" THEN "not_seeding"
       ELSE IF OutOfScope(policy, s) # None THEN OutOfScope(policy, s)
       ELSE IF checks = {} THEN "no_configured_threshold"
       ELSE IF \E c \in checks : c[2] = None THEN "required_metric_unknown"
       ELSE IF IF policy.mode = "all" THEN passed = checks ELSE passed # {}
            THEN "thresholds_met" ELSE "thresholds_not_met"

Eligible(policy, s) == Evaluate(policy, s) = "thresholds_met"
=============================================================================
