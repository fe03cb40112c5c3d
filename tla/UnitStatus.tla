----------------------------- MODULE UnitStatus -----------------------------
(***************************************************************************)
(* The status that one unit of the charm shows in Juju (src/src/charm.py). *)
(*                                                                         *)
(* Every handler decides on a status from what it looks at, and leaves the *)
(* status of earlier hooks alone where it does not look.  The status is    *)
(* sent to Juju at once and survives the hook, also one that raises; the   *)
(* stored state of a hook that raises is lost.                             *)
(*                                                                         *)
(* One action is one hook.  The other units appear through what a hook     *)
(* reads of them: whether they are ready, and whether a rolling restart is *)
(* under way.  How that restart advances is the subject of RollingRestart, *)
(* and how a delivery of rules succeeds that of RuleReconciler; here a     *)
(* hook may meet any outcome that the state of the workload allows.        *)
(***************************************************************************)
EXTENDS Naturals

CONSTANTS
  Configs,    \* what the charm can be asked to render
  NoConfig,   \* last_good_config is ""
  OtherText,  \* a text on the disk that the charm has not rendered
  Refused,    \* configs that cannot be rendered, or fail verification
  Legacy,     \* config-overrides without the ruler contract
  MaxEvents,  \* how many changes the environment makes
  MaxErrors   \* how many hooks raise

ASSUME ConfigAssumption ==
  /\ Refused \subseteq Configs
  /\ Legacy \subseteq Configs
  /\ NoConfig \notin Configs
  /\ OtherText \notin Configs
ASSUME BudgetAssumption == MaxEvents \in Nat /\ MaxErrors \in Nat

VARIABLES
  unit,       \* what the hooks of the unit read and write, see UnitState
  wanted,     \* the config that the charm would render now
  s3,         \* the s3 relation and its data
  clustered,  \* more than one unit is planned
  peersReady, \* every other unit answers /ready
  moved,      \* the peer addresses differ from the stored ones
  rules,      \* what the loki_push_api relations publish
  ruler,      \* the ruler carries out all that is asked of it
  leader,     \* the unit is the leader
  due,        \* the events for which a hook is still to run
  events,     \* changes that the environment has left
  errors      \* hooks that may still raise

world == <<wanted, s3, clustered, peersReady, rules, ruler, leader>>
vars == <<unit, world, moved, due, events, errors>>

-----------------------------------------------------------------------------
\* Statuses by class; the names stand for the messages.  "Installed" is what
\* Juju itself shows while a charm is being installed.
Waiting == {"StorageWaiting", "InvalidConfig", "RulesIncomplete", "RulesDisabled"}
Blocked == {"StorageBlocked"}
Maintenance == {"Installed", "Starting", "Configuring", "WaitingReady",
                "ServiceDown", "Drift", "DriftCleared", "Rolling", "Degraded"}
Statuses == Waiting \cup Blocked \cup Maintenance \cup {"Active"}

\* delivery is the result of the current hook's rule reconciliation.
UnitState ==
  [status : Statuses,
   loki : {"down", "starting", "ready"},
   disk : Configs \cup {OtherText},
   good : Configs \cup {NoConfig},
   drifted : BOOLEAN,
   rollout : BOOLEAN,
   cached : BOOLEAN,
   delivery : {"none", "committed", "incomplete", "disabled"}]

Hooks == {"start", "config", "replicas", "rules"}

TypeOK ==
  /\ unit \in UnitState
  /\ wanted \in Configs
  /\ s3 \in {"absent", "incomplete", "invalid", "complete"}
  /\ clustered \in BOOLEAN
  /\ peersReady \in BOOLEAN
  /\ moved \in BOOLEAN
  /\ rules \in {"none", "good", "malformed"}
  /\ ruler \in BOOLEAN
  /\ leader \in BOOLEAN
  /\ due \subseteq Hooks
  /\ events \in 0..MaxEvents
  /\ errors \in 0..MaxErrors

\* After the install hook; the package has started Loki with its own config.
Init ==
  /\ unit = [status |-> "Installed", loki |-> "ready", disk |-> OtherText,
             good |-> NoConfig, drifted |-> FALSE, rollout |-> FALSE,
             cached |-> FALSE, delivery |-> "none"]
  /\ wanted \in Configs
  /\ s3 = "absent"
  /\ clustered \in BOOLEAN
  /\ peersReady = TRUE
  /\ moved = FALSE
  /\ rules = "none"
  /\ ruler = TRUE
  /\ leader \in BOOLEAN
  /\ due = {"start", "config"}
  /\ events = MaxEvents
  /\ errors = MaxErrors

-----------------------------------------------------------------------------
(***************************************************************************)
(* What a handler looks at.                                                *)
(***************************************************************************)
Say(m, status) == [m EXCEPT !.status = status]

\* _storage_backend_state().status; "" is None.
StorageStatus ==
  IF s3 = "invalid" THEN "StorageBlocked"
  ELSE IF s3 = "incomplete" \/ (s3 = "absent" /\ clustered) THEN "StorageWaiting"
  ELSE ""

StorageFine == StorageStatus = ""

\* _has_config_drift.
Drifts(m) == m.good # NoConfig /\ m.disk # m.good

\* _rolling_restart_status has something to show: the rollout has a target, or
\* units that are queued.
RolloutShown(m) == clustered /\ m.rollout

\* _runtime_health_status.
HealthStatus(m) ==
  IF RolloutShown(m) THEN "Rolling"
  ELSE IF m.loki = "ready" /\ peersReady THEN "Active"
  ELSE "Degraded"

(***************************************************************************)
(* The parts of a handler.  Each takes the unit as it is at that point of  *)
(* the hook; those with several outcomes return the set of them.           *)
(***************************************************************************)

\* What a rule reconciliation may find: it commits if no source is rejected
\* and the ruler did all of its work.
Attempts(m) ==
  {[m EXCEPT !.cached = o.cached, !.delivery = o.delivery] :
     o \in [cached : BOOLEAN, delivery : {"committed", "incomplete"}]}

Possible(m, n) ==
  /\ m.cached => n.cached
  /\ n.cached # m.cached => ruler /\ m.loki # "down"
  /\ n.delivery = "committed" =>
       n.cached /\ rules # "malformed" /\ ruler /\ m.loki # "down"
  /\ n.delivery = "incomplete" =>
       rules = "malformed" \/ ~ruler \/ m.loki # "ready"

\* The statuses that an incomplete delivery may replace.
RuleStatusOwned == Waiting \cup {"Active", "Starting"}

\* Mutant of Reported: only a waiting status gives way to the incompletion.
ReportedQuietly(n) ==
  IF n.delivery = "incomplete" /\ n.status \in Waiting
  THEN Say(n, "RulesIncomplete")
  ELSE IF n.delivery = "committed" /\ n.status = "RulesIncomplete"
  THEN Say(n, HealthStatus(n))
  ELSE n

\* What _reconcile_rules makes of the result.
Reported(n) ==
  IF n.delivery = "incomplete" /\ n.status \in RuleStatusOwned
  THEN Say(n, "RulesIncomplete")
  ELSE IF n.delivery = "committed" /\ n.status = "RulesIncomplete"
  THEN Say(n, HealthStatus(n))
  ELSE n

\* An override without the ruler contract: relation rules are not delivered.
Skipped(m) ==
  IF rules # "none" \/ m.cached
  THEN [m EXCEPT !.status = "RulesDisabled", !.delivery = "disabled"]
  ELSE m

\* _reconcile_rules.
Delivered(m) ==
  IF ~leader THEN {m}
  ELSE IF wanted \in Legacy THEN {Skipped(m)}
  ELSE {Reported(n) : n \in {a \in Attempts(m) : Possible(m, a)}}

ConfigChanged(m) == m.good # wanted \/ m.disk # wanted \/ m.drifted

\* Mutant of Configured: what is on the disk becomes the last good config.
ConfiguredFromDisk(m) ==
  [m EXCEPT !.disk = wanted, !.good = m.disk, !.drifted = FALSE]

\* _configure, for a config that is not refused.
Configured(m) == [m EXCEPT !.disk = wanted, !.good = wanted, !.drifted = FALSE]

\* A Loki that is started or restarted may come up or not.
Started(m) == {[m EXCEPT !.loki = l] : l \in {"down", "starting", "ready"}}

\* _reconcile_rolling_restart: a rollout may go on, end, or restart this unit,
\* which then waits for itself and for the cluster.
Rolled(m) ==
  IF ~RolloutShown(m) THEN {m}
  ELSE {m, [m EXCEPT !.rollout = FALSE]} \cup
       {[m EXCEPT !.loki = "ready", !.rollout = r] :
          r \in {more \in BOOLEAN : peersReady}}

\* The end of a handler: health, and then the rules.
Settled(m) == UNION {Delivered(Say(n, HealthStatus(n))) : n \in Rolled(m)}

\* What a changed config does to the process.
Restarted(m) ==
  IF ~ConfigChanged(m) THEN {m}
  ELSE IF clustered THEN {[Configured(m) EXCEPT !.rollout = TRUE]}
  ELSE Started(Configured(m))

(***************************************************************************)
(* The handlers: the outcomes of a hook that finds the unit as m.          *)
(***************************************************************************)

\* _reconcile_runtime.
Runtime(m) ==
  IF ~StorageFine THEN {Say(m, StorageStatus)}
  ELSE IF wanted \in Refused THEN {Say(m, "InvalidConfig")}
  ELSE UNION {IF ConfigChanged(m) /\ ~clustered /\ n.loki # "ready"
              THEN {Say(n, "WaitingReady")}
              ELSE Settled(n) : n \in Restarted(m)}

\* _on_start, which does not look at whether the config changed.
Start(m) ==
  IF ~StorageFine THEN {Say(m, StorageStatus)}
  ELSE IF wanted \in Refused THEN {Say(m, "InvalidConfig")}
  ELSE UNION {IF n.loki # "ready"
              THEN {Say(n, "WaitingReady")}
              ELSE {IF d.delivery \in {"incomplete", "disabled"} THEN d
                    ELSE Say(d, HealthStatus(d)) : d \in Delivered(n)} :
              n \in Started(Configured(m))}

\* Mutant of DriftSeen: an active unit keeps its status.
DriftSeenWhileActive(m) ==
  IF Drifts(m) /\ m.status \in Maintenance
  THEN [m EXCEPT !.drifted = TRUE, !.status = "Drift"]
  ELSE [m EXCEPT !.drifted = Drifts(m)]

\* _reconcile_config_drift_status.
DriftSeen(m) ==
  IF Drifts(m) /\ m.status \in Maintenance \cup {"Active"}
  THEN [m EXCEPT !.drifted = TRUE, !.status = "Drift"]
  ELSE IF ~Drifts(m) /\ m.status = "Drift"
  THEN [m EXCEPT !.drifted = FALSE, !.status = "DriftCleared"]
  ELSE [m EXCEPT !.drifted = Drifts(m)]

\* Mutant of UpdateStatus: health is decided after the rules.
UpdateStatusHealthLast(m) ==
  IF ~StorageFine THEN {Say(m, StorageStatus)}
  ELSE IF m.loki = "down" THEN {Say(m, "ServiceDown")}
  ELSE IF Drifts(m) THEN {DriftSeen(m)}
  ELSE UNION {{Say(d, HealthStatus(d)) : d \in Delivered(n)} :
              n \in Rolled(DriftSeen(m))}

\* _on_update_status.
UpdateStatus(m) ==
  IF ~StorageFine THEN {Say(m, StorageStatus)}
  ELSE IF m.loki = "down" THEN {Say(m, "ServiceDown")}
  ELSE IF Drifts(m) THEN {DriftSeen(m)}
  ELSE Settled(DriftSeen(m))

\* _fast_reconcile_rolling_restart.
FastPath(m) ==
  IF ~StorageFine THEN {Say(m, StorageStatus)}
  ELSE IF m.loki = "down" THEN {Say(m, "ServiceDown")}
  ELSE IF m.drifted THEN {m}
  ELSE {Say(n, HealthStatus(n)) : n \in Rolled(m)}

-----------------------------------------------------------------------------
(***************************************************************************)
(* The hooks.                                                              *)
(***************************************************************************)

\* The unit as a hook finds it.
Found == [unit EXCEPT !.delivery = "none"]

Done(hook) ==
  /\ due' = due \ {hook}
  /\ UNCHANGED <<world, events, errors>>

\* config-changed, upgrade-charm, and the s3 and alertmanager relations.
ConfigHook ==
  /\ "config" \in due
  /\ unit' \in Runtime(Say(Found, "Configuring"))
  /\ UNCHANGED moved
  /\ Done("config")

StartHook ==
  /\ "start" \in due
  /\ unit' \in Start(Say(Found, "Starting"))
  /\ UNCHANGED moved
  /\ Done("start")

\* _on_replicas_changed: only new addresses render the config again.
ReplicasHook ==
  /\ "replicas" \in due /\ "start" \notin due
  /\ unit' \in IF moved THEN Runtime(Say(Found, "Configuring")) ELSE FastPath(Found)
  /\ moved' = FALSE
  /\ Done("replicas")

\* leader-elected, and the events of a loki_push_api relation.
RulesHook ==
  /\ "rules" \in due
  /\ unit' \in Delivered(Found)
  /\ UNCHANGED moved
  /\ Done("rules")

\* Juju runs update-status on units that have started.
UpdateStatusHook ==
  /\ "start" \notin due
  /\ unit' \in UpdateStatus(Found)
  /\ UNCHANGED <<world, moved, due, events, errors>>

\* A hook raises.  What it did to the disk and to Loki stays; its stored state
\* and its part in the rollout are lost, and Juju runs the hook again.

\* loki.start() finds Loki down and does not get it up.
StartRaises ==
  /\ "start" \in due
  /\ wanted \notin Refused
  /\ unit.loki = "down"
  /\ unit' = [Found EXCEPT !.status = "Starting", !.disk = wanted]

\* _reconcile_runtime: loki.restart() does not get Loki up, or a wait of the
\* rolling restart ends without a healthy cluster.
ConfigRaises ==
  /\ "config" \in due \/ (moved /\ "replicas" \in due)
  /\ wanted \notin Refused
  /\ ConfigChanged(unit) \/ RolloutShown(unit)
  /\ \E l \in IF clustered THEN {"down", "starting", "ready"} ELSE {"down"} :
       unit' = [Found EXCEPT !.status = "Configuring", !.disk = wanted, !.loki = l]

\* The same wait in update-status or on the fast path.
RollRaises ==
  /\ "start" \notin due
  /\ RolloutShown(unit) /\ unit.loki # "down"
  /\ \E l \in {"down", "starting", "ready"} :
       \/ /\ ~Drifts(unit)
          /\ unit' = [Found EXCEPT !.status = DriftSeen(unit).status, !.loki = l]
       \/ /\ "replicas" \in due /\ ~moved /\ ~unit.drifted
          /\ unit' = [Found EXCEPT !.loki = l]

HookRaises ==
  /\ errors > 0
  /\ errors' = errors - 1
  /\ StorageFine
  /\ StartRaises \/ ConfigRaises \/ RollRaises
  /\ UNCHANGED <<world, moved, due, events>>

-----------------------------------------------------------------------------
(***************************************************************************)
(* The environment.  A change that Juju announces leaves a hook to run.    *)
(***************************************************************************)
Announced(hooks) ==
  /\ events > 0
  /\ events' = events - 1
  /\ due' = due \cup hooks
  /\ UNCHANGED errors

Reconfigure ==
  /\ \E c \in Configs \ {wanted} : wanted' = c
  /\ Announced({"config"})
  /\ UNCHANGED <<unit, s3, clustered, peersReady, moved, rules, ruler, leader>>

StorageChanges ==
  /\ \E s \in {"absent", "incomplete", "invalid", "complete"} \ {s3} : s3' = s
  /\ Announced({"config"})
  /\ UNCHANGED <<unit, wanted, clustered, peersReady, moved, rules, ruler, leader>>

\* The application is scaled from one unit, or back to one.
Scale ==
  /\ clustered' = ~clustered
  /\ peersReady' \in {ready \in BOOLEAN : clustered => ready}
  /\ moved' = TRUE
  /\ Announced({"replicas"})
  /\ UNCHANGED <<unit, wanted, s3, rules, ruler, leader>>

PeersChange ==
  /\ clustered
  /\ peersReady' = ~peersReady
  /\ Announced({})
  /\ UNCHANGED <<unit, wanted, s3, clustered, moved, rules, ruler, leader>>

\* Another unit queues a restart, or the leader ends the rollout.
PeersRoll ==
  /\ clustered
  /\ unit' = [unit EXCEPT !.rollout = ~unit.rollout]
  /\ Announced({"replicas"})
  /\ UNCHANGED <<world, moved>>

\* Loki dies, is started again by systemd, becomes ready or stops to be.
LokiChanges ==
  /\ \E l \in {"down", "starting", "ready"} \ {unit.loki} :
       unit' = [unit EXCEPT !.loki = l]
  /\ Announced({})
  /\ UNCHANGED <<world, moved>>

Reboot ==
  /\ \E l \in {"down", "starting", "ready"} : unit' = [unit EXCEPT !.loki = l]
  /\ Announced({"start", "config"})
  /\ UNCHANGED <<world, moved>>

ManualEdit ==
  /\ unit.disk # OtherText
  /\ unit' = [unit EXCEPT !.disk = OtherText]
  /\ Announced({})
  /\ UNCHANGED <<world, moved>>

SourcesChange ==
  /\ \E r \in {"none", "good", "malformed"} \ {rules} : rules' = r
  /\ Announced({"rules"})
  /\ UNCHANGED <<unit, wanted, s3, clustered, peersReady, moved, ruler, leader>>

RulerChanges ==
  /\ ruler' = ~ruler
  /\ Announced({})
  /\ UNCHANGED <<unit, wanted, s3, clustered, peersReady, moved, rules, leader>>

\* The unit becomes leader, and finds what another leader may have cached, or
\* loses the leadership.
Elect ==
  /\ leader' = ~leader
  /\ \E c \in {kept \in BOOLEAN : unit.cached => kept} :
       unit' = [unit EXCEPT !.cached = c]
  /\ Announced(IF leader THEN {} ELSE {"rules"})
  /\ UNCHANGED <<wanted, s3, clustered, peersReady, moved, rules, ruler>>

HookRuns ==
  \/ ConfigHook \/ StartHook \/ ReplicasHook \/ RulesHook \/ UpdateStatusHook

Environment ==
  \/ Reconfigure \/ StorageChanges \/ Scale \/ PeersChange \/ PeersRoll
  \/ LokiChanges \/ Reboot \/ ManualEdit \/ SourcesChange \/ RulerChanges \/ Elect

Next == HookRuns \/ HookRaises \/ Environment

Spec == Init /\ [][Next]_vars

\* Juju runs the hook of every event, and update-status periodically.
FairSpec ==
  /\ Spec
  /\ WF_vars(ConfigHook)
  /\ WF_vars(StartHook)
  /\ WF_vars(ReplicasHook)
  /\ WF_vars(RulesHook)
  /\ WF_vars(UpdateStatusHook)

-----------------------------------------------------------------------------
(***************************************************************************)
(* Properties.                                                             *)
(***************************************************************************)

\* A hook that met a delivery of rules that is incomplete or disabled does not
\* leave the unit active, whatever the status was before and in whatever order
\* the handler decides on health and rules (_reconcile_rules and its callers).
NoHiddenIncompletion ==
  unit.delivery \in {"incomplete", "disabled"} => unit.status # "Active"

\* The statuses that tell the truth about the state of the unit: the first
\* cause in the order in which update-status looks at them.  Drift is shown
\* unless the unit waits for something else already.
Truthful ==
  IF ~StorageFine THEN {StorageStatus}
  ELSE IF unit.loki = "down" THEN {"ServiceDown"}
  ELSE IF Drifts(unit) THEN {"Drift"} \cup Waiting \cup Blocked
  ELSE IF leader /\ wanted \in Legacy /\ (rules # "none" \/ unit.cached)
  THEN {"RulesDisabled"}
  ELSE IF HealthStatus(unit) = "Active" /\ leader /\ wanted \notin Legacy
          /\ (rules = "malformed" \/ ~ruler)
  THEN {"RulesIncomplete"}
  ELSE {HealthStatus(unit)}

\* update-status repairs: whatever the other handlers left behind, the status
\* is truthful when it ends.
UpdateStatusTells == [][UpdateStatusHook => unit'.status \in Truthful']_vars

\* Once the environment is quiet, the status tells the truth and stays so,
\* whatever the hooks left behind on the way: no status is forgotten, and none
\* of two handlers keep replacing each other's.
Settles == <>[](unit.status \in Truthful)

\* README.md on a config that the charm refuses to render: the unit "is
\* reported as waiting until the operator upgrades Loki or supplies a
\* compatible config-override".  A refusal that is shown is not replaced by a
\* healthy status while the same config is refused.
RefusalIsShown ==
  [][unit.status = "InvalidConfig" /\ wanted \in Refused /\ wanted' = wanted
       => unit'.status # "Active"]_vars
=============================================================================
