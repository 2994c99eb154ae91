----------------------------- MODULE NativeRelease -----------------------------
(* Activation and rollback of releases on the native host (scripts/deploy-native-release.sh,
   scripts/rollback-native-release.sh): a script prepares for minutes, changes the `current`
   link, the unit's drop-in and the running services step by step, passes a health gate and
   reports; a failing step undoes the work with the same steps. Any step can fail, a script
   can be killed, and systemd restarts the API on its own.

   A release is a revision with the analytics companion it was built for. No script takes a
   lock: several may prepare at once, and several may change the host at once. *)
EXTENDS FiniteSets
CONSTANTS
    Deploys, Rollbacks,     \* runs of the two scripts
    Revisions, First        \* revisions, the one installed before

VARIABLES
    script,             \* [Scripts -> a run of a script]
    current, previous,  \* the two links
    dropIn, loaded,     \* the runtime drop-in, and the one systemd has read
    key,                \* whether api.env has the companion's key
    api,                \* the release that runs, or Down
    replaced, served,   \* history: per script, the release its first link replaced; the
                        \* releases that ran since a link was last put
    crossed             \* history: the scripts during whose activation another one put
                        \* `current`, which no line of either script looks for
links == <<current, previous>>
host == <<dropIn, loaded, key, api>>
history == <<replaced, served, crossed>>
releaseVars == <<script, links, host, history>>

Scripts == Deploys \cup Rollbacks
Mode(companion) == IF companion THEN "enabled" ELSE "disabled"
Releases == Revisions \X {"enabled", "disabled"}
NoRelease == <<"none", "none">>
Down == <<"down", "down">>
NewScript == [at |-> "idle", target |-> NoRelease, back |-> NoRelease, restoring |-> FALSE,
              said |-> "nothing"]

ReleaseInit == LET installed == <<First, "disabled">> IN
    /\ script = [s \in Scripts |-> NewScript]
    /\ current = installed /\ previous = NoRelease
    /\ dropIn = "disabled" /\ loaded = "disabled" /\ key = FALSE
    /\ api = installed
    /\ replaced = [s \in Scripts |-> NoRelease] /\ served = {} /\ crossed = {}

-----------------------------------------------------------------------------
\* ExecStartPre refuses a companion key that the release was not built for; the drop-in
\* blanks the key.
Starts(r) == (key /\ loaded = "enabled") = (r[2] = "enabled")

\* A start of the API with the release behind the link; it may come up or not.
StartApi == \E up \in BOOLEAN :
    LET comesUp == up /\ Starts(current) IN
    /\ api' = IF comesUp THEN current ELSE Down
    /\ served' = IF comesUp THEN served \cup {current} ELSE served

Activating == {"link", "unit", "reload", "restart", "nginx", "gate", "last"}
Aim(s) == IF script[s].restoring THEN script[s].back ELSE script[s].target
MoveTo(s, at) == script' = [script EXCEPT ![s].at = at]
Report(s, said) == script' = [script EXCEPT ![s].at = "done", ![s].said = said]

\* The candidate is built for the key in api.env, in minutes; `back` is what current names at
\* the start.
PrepareDeploy(s, v) ==
    /\ script[s].at = "idle"
    /\ script' = [script EXCEPT ![s].at = "ready", ![s].target = <<v, Mode(key)>>,
                                ![s].back = current]
    /\ UNCHANGED <<links, host, history>>

PrepareRollback(s) ==
    /\ script[s].at = "idle"
    /\ previous \notin {NoRelease, current}
    /\ script' = [script EXCEPT ![s].at = "ready", ![s].target = previous, ![s].back = current]
    /\ UNCHANGED <<links, host, history>>

\* Mutant: `current` is not read again after the preparation.
UnmovedAssumed(s) == s \in Rollbacks => previous = script[s].target

\* The links are read again, once, before the first change; a deployment ignores `previous`.
Unmoved(s) ==
    /\ current = script[s].back
    /\ s \in Rollbacks => previous = script[s].target

\* "Current release changed while the candidate was prepared", a target that no longer
\* verifies, a failing nginx -t: the script ends without a change.
Begin(s) ==
    /\ script[s].at = "ready"
    /\ \/ Unmoved(s) /\ MoveTo(s, "link")
       \/ Report(s, "refused")
    /\ UNCHANGED <<links, host, history>>

\* atomic_link of `current`.
Link(s) ==
    /\ script[s].at = "link"
    /\ current' = Aim(s)
    /\ replaced' = IF script[s].restoring THEN replaced ELSE [replaced EXCEPT ![s] = current]
    /\ served' = {}
    /\ crossed' = crossed \cup {o \in Scripts \ {s} : script[o].at \in Activating}
    /\ MoveTo(s, "unit")
    /\ UNCHANGED <<previous, host>>

\* configure_runtime_compatibility, then systemctl daemon-reload.
Unit(s) ==
    /\ script[s].at = "unit"
    /\ dropIn' = Aim(s)[2]
    /\ MoveTo(s, "reload")
    /\ UNCHANGED <<links, loaded, key, api, history>>
Reload(s) ==
    /\ script[s].at = "reload"
    /\ loaded' = dropIn
    /\ MoveTo(s, "restart")
    /\ UNCHANGED <<links, dropIn, key, api, history>>

\* systemctl restart succeeds also when the process dies soon after.
Restart(s) ==
    /\ script[s].at = "restart"
    /\ StartApi
    /\ MoveTo(s, "nginx")
    /\ UNCHANGED <<links, dropIn, loaded, key, replaced, crossed>>
Nginx(s) ==
    /\ script[s].at = "nginx"
    /\ MoveTo(s, "gate")
    /\ UNCHANGED <<links, host, history>>

\* verify_release_health: the API answers as exactly the release aimed at.
Gate(s) ==
    /\ script[s].at = "gate"
    /\ api = Aim(s)
    /\ MoveTo(s, "last")
    /\ UNCHANGED <<links, host, history>>

\* The last step keeps the replaced release as `previous`; of a restoration, it reads
\* `current` once more.
Keep(s) ==
    /\ script[s].at = "last" /\ ~script[s].restoring
    /\ previous' = IF script[s].back # script[s].target THEN script[s].back ELSE previous
    /\ Report(s, "activated")
    /\ UNCHANGED <<current, host, history>>
Restored(s) ==
    /\ script[s].at = "last" /\ script[s].restoring
    /\ current = script[s].back
    /\ Report(s, "restored")
    /\ UNCHANGED <<links, host, history>>

\* Any step fails, before or after its effect on the host: fail_activation and fail_rollback
\* start over with the release to restore; a failing restoration is left to the operator.
Fail(s) ==
    /\ script[s].at \in Activating
    /\ IF script[s].restoring THEN Report(s, "recovery")
       ELSE script' = [script EXCEPT ![s].restoring = TRUE, ![s].at = "link"]
    /\ \/ UNCHANGED <<host, served>>
       \/ /\ script[s].at = "unit" /\ dropIn' = Aim(s)[2]
          /\ UNCHANGED <<loaded, key, api, served>>
       \/ /\ script[s].at = "reload" /\ loaded' = dropIn
          /\ UNCHANGED <<dropIn, key, api, served>>
       \/ /\ script[s].at = "restart" /\ StartApi
          /\ UNCHANGED <<dropIn, loaded, key>>
    /\ UNCHANGED <<links, replaced, crossed>>

Kill(s) ==
    /\ script[s].at \in Activating
    /\ MoveTo(s, "killed")
    /\ UNCHANGED <<links, host, history>>

-----------------------------------------------------------------------------
\* Restart=on-failure: the API starts again from whatever the link names then.
ApiRestarts ==
    /\ StartApi
    /\ UNCHANGED <<script, links, dropIn, loaded, key, replaced, crossed>>

\* The operator adds the companion's key to api.env, which alone activates nothing.
AddKey ==
    /\ ~key /\ key' = TRUE
    /\ UNCHANGED <<script, links, dropIn, loaded, api, history>>

ScriptStep(s) ==
    \/ Begin(s) \/ Link(s) \/ Unit(s) \/ Reload(s) \/ Restart(s) \/ Nginx(s) \/ Gate(s)
    \/ Keep(s) \/ Restored(s) \/ Fail(s) \/ Kill(s)

ReleaseNext ==
    \/ \E s \in Scripts : ScriptStep(s)
    \/ \E s \in Deploys, v \in Revisions : PrepareDeploy(s, v)
    \/ \E s \in Rollbacks : PrepareRollback(s)
    \/ ApiRestarts \/ AddKey
ReleaseSpec == ReleaseInit /\ [][ReleaseNext]_releaseVars

-----------------------------------------------------------------------------
\* What a script reports is so: "activated" when current names its target, the API has come
\* up as that release since the link was put, and the release it replaced is kept for a
\* rollback; "restored" when current names the very release the script replaced and the API
\* has come up as that one. Other scripts during the long preparation, other activations that
\* have put their link before this one began or put it after this one reported, failing steps,
\* killed scripts and restarts of the API change nothing about it. A script during whose own
\* activation another put `current` reports without having noticed: nothing is said of it.
ReportIsTrue(s) ==
    /\ script'[s].said = "activated" =>
          /\ current' = script[s].target /\ current' \in served'
          /\ api' \in {Down, current'}
          /\ replaced[s] # current' => previous' = replaced[s]
    /\ script'[s].said = "restored" =>
          /\ current' = script[s].back /\ current' \in served'
          /\ api' \in {Down, current'}
          /\ replaced[s] \in {NoRelease, current'}
ReportsAreTrue ==
    [][\A s \in Scripts \ crossed :
         script'[s].said # script[s].said => ReportIsTrue(s)]_releaseVars
=============================================================================
