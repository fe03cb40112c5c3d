--------------------------- MODULE RollingRestart ---------------------------
(***************************************************************************)
(* Configuration apply and the clustered rolling restart of the charm      *)
(* (src/src/charm.py), one Juju unit agent per element of Units.           *)
(*                                                                         *)
(* A unit runs one hook at a time; hooks of different units interleave.    *)
(* Inside a hook, relation data is read once and cached, and writes to the *)
(* databags are buffered until the hook ends: ops first commits            *)
(* StoredState, then Juju flushes the databags.  A hook that raises loses  *)
(* both and is run again.  Files and systemd are changed at once.          *)
(***************************************************************************)
EXTENDS Integers, FiniteSets, FiniteSetsExt

CONSTANTS
  Units,       \* unit numbers; the order of the numbers is that of the names
  NoUnit,      \* restart-target is "" or absent
  FirstLeader, \* the leader when the behaviour starts
  Overrides,   \* config versions rendered from config-override, verbatim
  Invalid,     \* config versions that `loki -verify-config` rejects
  Broken,      \* config versions that verify, but never become ready
  Budget       \* how often each kind of environment event may happen

Events == {"change", "edit", "fault", "reboot", "election", "depart",
           "outage", "timeout", "error"}

ASSUME UnitsAssumption == Units \subseteq Nat /\ IsFiniteSet(Units)
ASSUME NoUnitAssumption == NoUnit \notin Units
ASSUME LeaderAssumption == FirstLeader \in Units
\* A settled cluster runs version 0.
ASSUME BrokenAssumption == Broken \subseteq Nat \ {0}
ASSUME BudgetAssumption == Budget \in [Events -> Nat]

VARIABLES
  leader,    \* the unit Juju holds to be leader
  members,   \* the units of the application
  wanted,    \* version of everything the rendered config depends on
  storageOk, \* _storage_backend_state().status is None
  target,    \* app databag: restart-target
  pending,   \* unit databag: restart-pending, as flushed
  lastGood,  \* StoredState: last_good_config
  drifted,   \* StoredState: config_drifted
  peersSeen, \* StoredState: peer_addresses_json, as the set of peers in it
  disk,      \* /etc/loki/config.yml
  running,   \* the config text the Loki process has loaded
  active,    \* systemctl is-active loki
  ready,     \* GET /ready answers 200
  rebooted,  \* the machine rebooted and the start hook has not run since
  hook,      \* what the unit's current or failed hook holds in memory
  lapsed,    \* history: units whose due restart was dropped without a trace
  budget     \* events the environment has left

config == <<lastGood, drifted, peersSeen>>
process == <<running, active, ready, lapsed>>
databag == <<target, pending>>
world == <<leader, members, wanted, storageOk>>
vars == <<world, databag, config, disk, process, rebooted, hook, budget>>

-----------------------------------------------------------------------------
\* Configuration texts.  Memberlist peers are part of a generated config and
\* not of an override; an operator's manual edit equals no rendered text.
Manual == [ver |-> -1, peers |-> {}]

Text == [ver : Nat, peers : SUBSET Units]

Rendered(u) ==
  [ver |-> wanted, peers |-> IF wanted \in Overrides THEN {} ELSE members \ {u}]

Clustered == Cardinality(members) > 1

\* _cluster_health().healthy: every unit of the relation answers /ready.
Healthy(peers) == \A v \in peers : ready[v]

Kinds == {"none", "runtime", "replicas", "status", "start"}
Steps == {"idle", "restart-self", "wait-ready", "wait-cluster", "done", "failed"}

\* No hook: the fields other than pc mean nothing.
Idle == [pc |-> "idle", kind |-> "none", good |-> [ver |-> 0, peers |-> {}],
         drift |-> FALSE, seen |-> {}, pend |-> FALSE, tgt |-> NoUnit,
         wrote |-> FALSE, peers |-> {}]

Failed(u) == [Idle EXCEPT !.pc = "failed", !.kind = hook[u].kind]

HookState ==
  [pc : Steps, kind : Kinds, good : Text, drift : BOOLEAN, seen : SUBSET Units,
   pend : BOOLEAN, tgt : Units \cup {NoUnit},
   wrote : BOOLEAN, peers : SUBSET Units]

\* Mutant of Opened: the unit's own restart-pending flag is not read back.
OpenedFlagUnread(u, kind) ==
  [pc |-> "done", kind |-> kind, good |-> lastGood[u], drift |-> drifted[u],
   seen |-> peersSeen[u], pend |-> FALSE, tgt |-> target,
   wrote |-> FALSE, peers |-> members]

\* The databags and StoredState as a hook of unit u finds them.
Opened(u, kind) ==
  [pc |-> "done", kind |-> kind, good |-> lastGood[u], drift |-> drifted[u],
   seen |-> peersSeen[u], pend |-> pending[u], tgt |-> target,
   wrote |-> FALSE, peers |-> members]

TypeOK ==
  /\ leader \in Units
  /\ members \subseteq Units
  /\ wanted \in Nat
  /\ storageOk \in BOOLEAN
  /\ target \in Units \cup {NoUnit}
  /\ pending \in [Units -> BOOLEAN]
  /\ lastGood \in [Units -> Text]
  /\ drifted \in [Units -> BOOLEAN]
  /\ peersSeen \in [Units -> SUBSET Units]
  /\ disk \in [Units -> Text \cup {Manual}]
  /\ running \in [Units -> Text \cup {Manual}]
  /\ active \in [Units -> BOOLEAN]
  /\ ready \in [Units -> BOOLEAN]
  /\ rebooted \in [Units -> BOOLEAN]
  /\ hook \in [Units -> HookState]
  /\ lapsed \subseteq Units
  /\ budget \in [Events -> Nat]

\* A deployed, settled cluster.
Init ==
  /\ leader = FirstLeader
  /\ members = Units
  /\ wanted = 0
  /\ storageOk = TRUE
  /\ target = NoUnit
  /\ pending = [u \in Units |-> FALSE]
  /\ lastGood = [u \in Units |-> Rendered(u)]
  /\ drifted = [u \in Units |-> FALSE]
  /\ peersSeen = [u \in Units |-> members]
  /\ disk = lastGood
  /\ running = lastGood
  /\ active = [u \in Units |-> TRUE]
  /\ ready = [u \in Units |-> TRUE]
  /\ rebooted = [u \in Units |-> FALSE]
  /\ hook = [u \in Units |-> Idle]
  /\ lapsed = {}
  /\ budget = Budget

-----------------------------------------------------------------------------
(***************************************************************************)
(* The decisions of a hook.                                                *)
(***************************************************************************)

\* _pending_restart_units as unit u sees it: its own flag includes the write
\* buffered in this hook (pend), the others are the flushed ones.
PendingUnits(u, pend) ==
  {v \in members : IF v = u THEN pend ELSE pending[v]}

\* Sorted by (is this unit, name): the leader comes last.
FirstPending(u, queue) == IF queue \ {u} = {} THEN u ELSE Min(queue \ {u})

\* Mutant of Advanced: the target need not have restarted.
AdvancedEagerly(u, pend) ==
  LET queue == PendingUnits(u, pend)
  IN  IF ~Healthy(members) THEN target
      ELSE IF queue = {} THEN NoUnit
      ELSE FirstPending(u, queue)

\* Mutant of Advanced: a target that is done is never cleared.
AdvancedNeverClears(u, pend) ==
  LET queue == PendingUnits(u, pend)
  IN  IF target # NoUnit \/ ~Healthy(members) \/ queue = {} THEN target
      ELSE FirstPending(u, queue)

\* _advance_rolling_restart: the target the leader leaves behind.
Advanced(u, pend) ==
  LET queue == PendingUnits(u, pend)
  IN  IF target \in queue \/ ~Healthy(members) THEN target
      ELSE IF queue = {} THEN NoUnit
      ELSE FirstPending(u, queue)

\* _reconcile_rolling_restart, up to the decision to restart this unit.
Rolled(u, h) ==
  LET t == IF u = leader THEN Advanced(u, h.pend) ELSE target
  IN  IF Clustered
        THEN [h EXCEPT !.tgt = t, !.wrote = (t # target),
                       !.pc = IF t = u /\ h.pend THEN "restart-self" ELSE "done"]
        ELSE h

\* The Loki process of u (re)loads text.
Load(u, text) ==
  /\ running' = [running EXCEPT ![u] = text]
  /\ active' = [active EXCEPT ![u] = TRUE]
  /\ ready' = [ready EXCEPT ![u] = FALSE]
  /\ lapsed' = lapsed \ {u}

\* A hook begins: the unit is free, or retries the hook that failed.  After a
\* reboot the start hook comes before any other.
CanRun(u, kind) ==
  /\ u \in members
  /\ \/ hook[u].pc = "idle" /\ (kind = "start" <=> rebooted[u])
     \/ hook[u].pc = "failed" /\ hook[u].kind = kind

ConfigRejected == ~storageOk \/ wanted \in Invalid

\* _configure: is there anything to apply?
ConfigChanged(u) ==
  \/ lastGood[u] # Rendered(u)
  \/ disk[u] # Rendered(u)
  \/ drifted[u]

\* Mutant of Applied: what was on the disk is recorded as the last good config.
AppliedFromDisk(u, h) == [h EXCEPT !.good = disk[u], !.drift = FALSE]

\* The buffered state after _configure wrote the rendered text.
Applied(u, h) == [h EXCEPT !.good = Rendered(u), !.drift = FALSE]

WriteConfig(u) == disk' = [disk EXCEPT ![u] = Rendered(u)]

\* _reconcile_runtime, for a hook that has buffered h so far.
ReconcileRuntime(u, h) ==
  \/ /\ ConfigRejected
     /\ hook' = [hook EXCEPT ![u] = h]
     /\ UNCHANGED <<disk, process>>
  \/ /\ ~ConfigRejected
     /\ ~ConfigChanged(u)
     /\ hook' = [hook EXCEPT ![u] = Rolled(u, h)]
     /\ UNCHANGED <<disk, process>>
  \/ /\ ~ConfigRejected
     /\ ConfigChanged(u)
     /\ Clustered
     /\ WriteConfig(u)
     /\ hook' = [hook EXCEPT
                   ![u] = Rolled(u, [Applied(u, h) EXCEPT !.pend = TRUE])]
     /\ UNCHANGED process
  \/ /\ ~ConfigRejected
     /\ ConfigChanged(u)
     /\ ~Clustered
     /\ WriteConfig(u)
     /\ Load(u, Rendered(u))
     /\ hook' = [hook EXCEPT ![u] = Applied(u, h)]

\* The guarded restart step shared by update-status and the fast path.
RollUnlessDrifted(u, h) ==
  /\ hook' = [hook EXCEPT
                ![u] = IF storageOk /\ active[u] /\ ~h.drift THEN Rolled(u, h)
                       ELSE h]
  /\ UNCHANGED <<disk, process>>

-----------------------------------------------------------------------------
(***************************************************************************)
(* Hooks: the part of a handler up to its first wait, or to its end.       *)
(***************************************************************************)

\* config-changed, upgrade-charm, and the s3 and alertmanager handlers.
RuntimeHook(u) ==
  /\ CanRun(u, "runtime")
  /\ ReconcileRuntime(u, Opened(u, "runtime"))
  /\ UNCHANGED <<world, databag, config, rebooted, budget>>

\* _on_replicas_changed: new peer addresses re-render the config, anything
\* else takes the fast path, which trusts the stored drift flag.
ReplicasHook(u) ==
  /\ CanRun(u, "replicas")
  /\ LET h == Opened(u, "replicas")
     IN  \/ /\ peersSeen[u] # members
            /\ ReconcileRuntime(u, [h EXCEPT !.seen = members])
         \/ /\ peersSeen[u] = members
            /\ RollUnlessDrifted(u, h)
  /\ UNCHANGED <<world, databag, config, rebooted, budget>>

\* _on_update_status: drift is computed afresh.
UpdateStatusHook(u) ==
  /\ CanRun(u, "status")
  /\ LET h == Opened(u, "status")
     IN  RollUnlessDrifted(u,
           IF storageOk /\ active[u]
             THEN [h EXCEPT !.drift = (disk[u] # lastGood[u])]
             ELSE h)
  /\ UNCHANGED <<world, databag, config, rebooted, budget>>

\* _on_start: config_changed is ignored, and `systemctl enable --now` leaves
\* a service that is already active alone.
StartHook(u) ==
  /\ CanRun(u, "start")
  /\ LET h == Opened(u, "start")
         text == IF ConfigChanged(u) THEN Rendered(u) ELSE disk[u]
     IN  \/ /\ ConfigRejected
            /\ hook' = [hook EXCEPT ![u] = h]
            /\ UNCHANGED <<disk, process>>
         \/ /\ ~ConfigRejected
            /\ disk' = [disk EXCEPT ![u] = text]
            /\ hook' = [hook EXCEPT
                          ![u] = IF ConfigChanged(u) THEN Applied(u, h) ELSE h]
            /\ \/ /\ ~active[u]
                  /\ Load(u, text)
               \/ /\ active[u]
                  /\ lapsed' = IF ConfigChanged(u) THEN lapsed \cup {u}
                               ELSE lapsed
                  /\ UNCHANGED <<running, active, ready>>
  /\ rebooted' = [rebooted EXCEPT ![u] = FALSE]
  /\ UNCHANGED <<world, databag, config, budget>>

(***************************************************************************)
(* _perform_target_restart, wait by wait.                                  *)
(***************************************************************************)

\* Mutant of Restart: the service is reloaded, which does not re-read the file.
RestartReloads(u) ==
  /\ hook[u].pc = "restart-self"
  /\ hook' = [hook EXCEPT ![u].pc = "wait-ready"]
  /\ UNCHANGED <<world, databag, config, disk, process, rebooted, budget>>

Restart(u) ==
  /\ hook[u].pc = "restart-self"
  /\ Load(u, disk[u])
  /\ hook' = [hook EXCEPT ![u].pc = "wait-ready"]
  /\ UNCHANGED <<world, databag, config, disk, rebooted, budget>>

LocalReady(u) ==
  /\ hook[u].pc = "wait-ready"
  /\ ready[u]
  /\ hook' = [hook EXCEPT ![u].pc = "wait-cluster"]
  /\ UNCHANGED <<world, databag, config, disk, process, rebooted, budget>>

\* The set of peers probed is the one cached when the hook began.
ClusterHealthy(u) ==
  /\ hook[u].pc = "wait-cluster"
  /\ Healthy(hook[u].peers)
  /\ hook' = [hook EXCEPT ![u].pc = "done", ![u].pend = FALSE]
  /\ UNCHANGED <<world, databag, config, disk, process, rebooted, budget>>

(***************************************************************************)
(* The end of a hook, and the ways it can fail to end.                     *)
(***************************************************************************)
Spend(event) ==
  /\ budget[event] > 0
  /\ budget' = [budget EXCEPT ![event] = @ - 1]

\* ops commits StoredState after the handlers returned...
SaveStored(u) ==
  /\ lastGood' = [lastGood EXCEPT ![u] = hook[u].good]
  /\ drifted' = [drifted EXCEPT ![u] = hook[u].drift]
  /\ peersSeen' = [peersSeen EXCEPT ![u] = hook[u].seen]

\* ... and Juju then makes the databag writes visible to the peers.
Commit(u) ==
  /\ hook[u].pc = "done"
  /\ hook[u].wrote => u = leader
  /\ SaveStored(u)
  /\ pending' = [pending EXCEPT ![u] = hook[u].pend]
  /\ target' = IF hook[u].wrote THEN hook[u].tgt ELSE target
  /\ hook' = [hook EXCEPT ![u] = Idle]
  /\ UNCHANGED <<world, disk, process, rebooted, budget>>

\* The hook is reported as failed: its databag writes are lost.  `lapsed`
\* notes a unit whose restart had been queued in that hook alone while its
\* stored state (the one left by this step) no longer shows a change.
Discard(u) ==
  /\ hook' = [hook EXCEPT ![u] = Failed(u)]
  /\ lapsed' = IF hook[u].pend /\ ~pending[u] /\ hook[u].good = lastGood'[u]
                 THEN lapsed \cup {u}
                 ELSE lapsed
  /\ UNCHANGED <<world, databag, disk, running, active, ready, rebooted>>

\* StoredState is committed and the databags are not: Juju refuses the app
\* databag write of a unit that is no longer leader, or the agent dies.
FlushRefused(u) ==
  /\ hook[u].pc = "done"
  /\ hook[u].wrote /\ u # leader
  /\ SaveStored(u)
  /\ Discard(u)
  /\ UNCHANGED budget

AgentDies(u) ==
  /\ hook[u].pc = "done"
  /\ Spend("error")
  /\ SaveStored(u)
  /\ Discard(u)

\* _wait_for_local_ready or _wait_for_cluster_healthy raises RuntimeError.
TimeOut(u) ==
  /\ \/ hook[u].pc = "wait-ready" /\ ~ready[u]
     \/ hook[u].pc = "wait-cluster" /\ ~Healthy(hook[u].peers)
  /\ hook' = [hook EXCEPT ![u] = Failed(u)]
  /\ UNCHANGED <<world, databag, config, disk, process, rebooted>>

\* A wait that cannot succeed: a peer known to the hook is gone, or runs a
\* config with which it never becomes ready.
Hopeless(u) ==
  \E v \in hook[u].peers : v \notin members \/ running[v].ver \in Broken

WaitFails(u) == Hopeless(u) /\ TimeOut(u) /\ UNCHANGED budget

\* Any other wait times out only so often: processes are seldom that slow.
WaitTimeout(u) == ~Hopeless(u) /\ TimeOut(u) /\ Spend("timeout")

\* An uncaught exception anywhere else in the hook.
HookError(u) ==
  /\ hook[u].pc \in {"restart-self", "done"}
  /\ Spend("error")
  /\ UNCHANGED config
  /\ Discard(u)

(***************************************************************************)
(* The environment: operator, machines, systemd, S3 and Juju.              *)
(***************************************************************************)
Reconfigure ==
  /\ Spend("change")
  /\ wanted' = wanted + 1
  /\ UNCHANGED <<leader, members, storageOk, databag, config, disk, process,
                 rebooted, hook>>

ManualEdit(u) ==
  /\ u \in members
  /\ Spend("edit")
  /\ disk' = [disk EXCEPT ![u] = Manual]
  /\ UNCHANGED <<world, databag, config, process, rebooted, hook>>

BecomesReady(u) ==
  /\ active[u] /\ ~ready[u]
  /\ running[u].ver \notin Broken
  /\ ready' = [ready EXCEPT ![u] = TRUE]
  /\ UNCHANGED <<world, databag, config, disk, running, active, lapsed,
                 rebooted, hook, budget>>

LosesReady(u) ==
  /\ ready[u]
  /\ Spend("fault")
  /\ ready' = [ready EXCEPT ![u] = FALSE]
  /\ UNCHANGED <<world, databag, config, disk, running, active, lapsed,
                 rebooted, hook>>

Crash(u) ==
  /\ u \in members
  /\ active[u]
  /\ Spend("fault")
  /\ active' = [active EXCEPT ![u] = FALSE]
  /\ ready' = [ready EXCEPT ![u] = FALSE]
  /\ UNCHANGED <<world, databag, config, disk, running, lapsed, rebooted, hook>>

\* systemd (or the operator) starts the service again.
ServiceRecovers(u) ==
  /\ u \in members
  /\ ~active[u]
  /\ Load(u, disk[u])
  /\ UNCHANGED <<world, databag, config, disk, rebooted, hook, budget>>

\* The machine comes back with Loki started by systemd; a hook that was
\* running has failed.
Reboot(u) ==
  /\ u \in members
  /\ Spend("reboot")
  /\ Load(u, disk[u])
  /\ rebooted' = [rebooted EXCEPT ![u] = TRUE]
  /\ hook' = [hook EXCEPT ![u] = IF hook[u].pc = "idle" THEN Idle ELSE Failed(u)]
  /\ UNCHANGED <<world, databag, config, disk>>

Elect(u) ==
  /\ u \in members \ {leader}
  /\ Spend("election")
  /\ leader' = u
  /\ UNCHANGED <<members, wanted, storageOk, databag, config, disk, process,
                 rebooted, hook>>

\* A unit is removed, and with it its databag; a successor leads if it led.
Depart(u) ==
  /\ u \in members /\ members # {u}
  /\ hook[u].pc = "idle"
  /\ Spend("depart")
  /\ members' = members \ {u}
  /\ leader' \in IF leader = u THEN members' ELSE {leader}
  /\ pending' = [pending EXCEPT ![u] = FALSE]
  /\ active' = [active EXCEPT ![u] = FALSE]
  /\ ready' = [ready EXCEPT ![u] = FALSE]
  /\ UNCHANGED <<wanted, storageOk, target, config, disk, running, lapsed,
                 rebooted, hook>>

StorageOutage ==
  /\ storageOk
  /\ Spend("outage")
  /\ storageOk' = FALSE
  /\ UNCHANGED <<leader, members, wanted, databag, config, disk, process,
                 rebooted, hook>>

StorageRestored ==
  /\ ~storageOk
  /\ storageOk' = TRUE
  /\ UNCHANGED <<leader, members, wanted, databag, config, disk, process,
                 rebooted, hook, budget>>

-----------------------------------------------------------------------------
Hook(u) == RuntimeHook(u) \/ ReplicasHook(u) \/ UpdateStatusHook(u) \/ StartHook(u)

\* What the agent of u does on its own once a hook is under way.
Progress(u) ==
  Restart(u) \/ LocalReady(u) \/ ClusterHealthy(u) \/ Commit(u)
    \/ FlushRefused(u) \/ WaitFails(u)

Environment ==
  \/ Reconfigure \/ StorageOutage \/ StorageRestored
  \/ \E u \in Units :
       \/ ManualEdit(u) \/ LosesReady(u) \/ Crash(u) \/ Reboot(u) \/ Elect(u)
       \/ Depart(u) \/ BecomesReady(u) \/ ServiceRecovers(u)

Next ==
  \/ \E u \in Units : \/ Hook(u) \/ Progress(u)
                    \/ AgentDies(u) \/ WaitTimeout(u) \/ HookError(u)
  \/ Environment

Spec == Init /\ [][Next]_vars

\* Juju dispatches update-status periodically and retries failed hooks; it
\* delivers a hook for a change the unit has not applied yet even when other
\* hooks keep getting in between.  Processes that can become ready do.
Fairness ==
  /\ WF_vars(StorageRestored)
  /\ \A u \in Units :
       /\ WF_vars(Hook(u))
       /\ WF_vars(Progress(u))
       /\ WF_vars(BecomesReady(u))
       /\ WF_vars(ServiceRecovers(u))
       /\ SF_vars(RuntimeHook(u) /\ lastGood[u] # Rendered(u))
       /\ SF_vars(ReplicasHook(u) /\ peersSeen[u] # members)

FairSpec == Spec /\ Fairness

-----------------------------------------------------------------------------
(***************************************************************************)
(* Properties.                                                             *)
(***************************************************************************)

\* A unit between systemctl restart and the recovery of the whole cluster.
Restarting(u) == hook[u].pc \in {"wait-ready", "wait-cluster"}

\* docs/charm-architecture.md: "rolling restarts rather than concurrent
\* restarts across units".  No two units are in the middle of a coordinated
\* restart (_perform_target_restart).
RestartExclusive ==
  \A u, v \in Units : Restarting(u) /\ Restarting(v) => u = v

\* A unit without a hook under way either runs the config it last accepted, or
\* has its restart queued, or shows drift on disk (which the next _configure
\* turns into a restart), or went through one of the two lossy events that
\* `lapsed` records.  The config-change flag is decided in _configure, queued
\* in a databag, and consumed hooks later by another part of the charm.
NoLostRestart ==
  \A u \in members :
    hook[u].pc = "idle" /\ active[u] /\ running[u] # lastGood[u] =>
      pending[u] \/ disk[u] # lastGood[u] \/ u \in lapsed

\* The inductive form of NoLostRestart.  `good` and `due` are the accepted
\* config and the queued restart as seen by whoever looks: the stored ones for
\* a unit between hooks, the buffered ones for the end of a hook under way.
Accounted(u, good, due) ==
  active[u] /\ running[u] # good => due \/ disk[u] # good \/ u \in lapsed

Between(u) == hook[u].pc \in {"idle", "failed"}

AccountedBetweenHooks(u) == Between(u) => Accounted(u, lastGood[u], pending[u])

\* Both the state the hook will leave and the one its failure falls back to;
\* the latter may miss a restart only if the next step of the failure is one
\* that `lapsed` records (see Discard).
AccountedInHook(u) ==
  ~Between(u) =>
    /\ Accounted(u, hook[u].good, hook[u].pend)
    /\ Accounted(u, lastGood[u],
                 pending[u] \/ (hook[u].pend /\ hook[u].good = lastGood[u]))

\* During both waits the process runs what it was restarted with.
RestartedFromDisk(u) ==
  Restarting(u) => running[u] = disk[u] \/ disk[u] = Manual

UnitAccounted(u) ==
  /\ AccountedBetweenHooks(u)
  /\ AccountedInHook(u)
  /\ RestartedFromDisk(u)

RestartAccounted == \A u \in Units : UnitAccounted(u)

\* The same without the exception: every accepted change of the config gets
\* its restart (README.md, "changes the generated config and restarts Loki").
ChangeRestartsLoki ==
  \A u \in members :
    hook[u].pc = "idle" /\ active[u] /\ running[u] # lastGood[u] =>
      pending[u] \/ disk[u] # lastGood[u]

\* A config that passes verification but never becomes ready stops the rollout
\* at its first unit: every other unit keeps serving with its old config
\* (_perform_target_restart clears the pending flag only after both waits, and
\* _advance_rolling_restart holds the target while it is pending).
BrokenContained ==
  \A u, v \in members :
    running[u].ver \in Broken /\ running[v].ver \in Broken => u = v

\* The pending flag a unit has published is taken back only by that unit, and
\* only when its process runs what is on its disk.
PendingClearedByRestart ==
  [][\A u \in members \cap members' : pending[u] /\ ~pending'[u] =>
       running[u] = disk[u] \/ disk[u] = Manual]_vars

\* The two ways in which a unit keeps running a config that never becomes ready.
\* Its hook in error is one that does not render the config again, so that the
\* retry restarts the old one for ever; or it is not the target any more, because
\* the hook that elected and restarted it has failed and its election is lost, and
\* the leader elects nobody while a unit is unready (_advance_rolling_restart).
RetriesBlindly(u) ==
  /\ hook[u].pc # "idle"
  /\ hook[u].kind = "status" \/ (hook[u].kind = "replicas" /\ peersSeen[u] = members)

HeldBack(u) == running[u].ver \in Broken /\ (target # u \/ RetriesBlindly(u))

\* Once the environment is quiet, a sound config is running on every unit that
\* did not lapse and nothing is left queued: no rollout stalls on a timeout, a
\* departed target, a change of leader or a rejected config in between, nor on a
\* config that never became ready and that this one corrects while a hook is in
\* error (_perform_target_restart), unless a unit is held back.
RolloutCompletes ==
  <>[](\/ wanted \in Invalid \cup Broken
       \/ \E u \in members : HeldBack(u)
       \/ \A u \in members :
            \/ u \in lapsed
            \/ running[u] = Rendered(u) /\ (Clustered => ~pending[u]))
=============================================================================
