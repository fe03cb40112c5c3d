-------------------------- MODULE UnitStatusProofs --------------------------
(***************************************************************************)
(* Theorems about UnitStatus: the status of a unit after any sequence of   *)
(* hooks, failures and changes, for any configs and any number of them.    *)
(***************************************************************************)
EXTENDS UnitStatus, TLAPS

-----------------------------------------------------------------------------
(***************************************************************************)
(* The parts of a handler keep the type of the unit.                       *)
(***************************************************************************)

LEMMA SayType ==
  ASSUME NEW m \in UnitState, NEW s \in Statuses
  PROVE  Say(m, s) \in UnitState
BY DEF Say, UnitState

LEMMA StorageStatusType ==
  ASSUME ~StorageFine
  PROVE  StorageStatus \in Statuses \ {"Active"}
BY DEF StorageFine, StorageStatus, Statuses, Waiting, Blocked, Maintenance

LEMMA HealthStatusType ==
  ASSUME NEW m
  PROVE  HealthStatus(m) \in Statuses
BY DEF HealthStatus, RolloutShown, Statuses, Maintenance

LEMMA AttemptsFacts ==
  ASSUME NEW m \in UnitState, NEW a \in Attempts(m)
  PROVE  /\ a \in UnitState
         /\ a.status = m.status /\ a.loki = m.loki /\ a.rollout = m.rollout
         /\ a.disk = m.disk /\ a.good = m.good
         /\ a.delivery \in {"committed", "incomplete"}
<1>1. PICK o \in [cached : BOOLEAN, delivery : {"committed", "incomplete"}] :
        a = [m EXCEPT !.cached = o.cached, !.delivery = o.delivery]
  BY DEF Attempts
<1> QED
  BY <1>1 DEF UnitState

\* A reconciliation returns a unit, and none that is active without having
\* delivered all rules.
LEMMA DeliveredFacts ==
  ASSUME NEW m \in UnitState, m.delivery = "none", NEW n \in Delivered(m)
  PROVE  /\ n \in UnitState
         /\ n.delivery \in {"incomplete", "disabled"} => n.status # "Active"
<1>1. CASE ~leader
  BY <1>1 DEF Delivered
<1>2. CASE leader /\ wanted \in Legacy
  BY <1>2 DEF Delivered, Skipped, UnitState, Statuses, Waiting
<1>3. CASE leader /\ wanted \notin Legacy
  <2>1. PICK a \in Attempts(m) : n = Reported(a)
    BY <1>3 DEF Delivered
  <2>2. /\ a \in UnitState
        /\ a.delivery \in {"committed", "incomplete"}
    BY <2>1, AttemptsFacts
  <2>3. HealthStatus(a) \in Statuses
    BY HealthStatusType
  <2>4. n \in UnitState /\ n.delivery = a.delivery
    BY <2>1, <2>2, <2>3 DEF Reported, Say, UnitState, Statuses, Waiting
  <2>5. a.delivery = "incomplete" => n.status # "Active"
    BY <2>1, <2>2 DEF Reported, Say, RuleStatusOwned, Waiting, UnitState
  <2> QED
    BY <2>2, <2>4, <2>5
<1> QED
  BY <1>1, <1>2, <1>3

LEMMA RolledFacts ==
  ASSUME NEW m \in UnitState, NEW n \in Rolled(m)
  PROVE  /\ n \in UnitState
         /\ n.delivery = m.delivery
         /\ m.loki # "down" => n.loki # "down"
         /\ n.disk = m.disk /\ n.good = m.good
<1>1. CASE n = m
  BY <1>1
<1>2. CASE n = [m EXCEPT !.rollout = FALSE]
  BY <1>2 DEF UnitState
<1>3. CASE \E r \in BOOLEAN : n = [m EXCEPT !.loki = "ready", !.rollout = r]
  BY <1>3 DEF UnitState
<1> QED
  BY <1>1, <1>2, <1>3 DEF Rolled

\* What a handler may leave behind.
Sound(n) ==
  /\ n \in UnitState
  /\ n.delivery \in {"incomplete", "disabled"} => n.status # "Active"

LEMMA SettledFacts ==
  ASSUME NEW m \in UnitState, m.delivery = "none", NEW n \in Settled(m)
  PROVE  Sound(n)
<1>1. PICK r \in Rolled(m) : n \in Delivered(Say(r, HealthStatus(r)))
  BY DEF Settled
<1>2. r \in UnitState /\ r.delivery = "none"
  BY <1>1, RolledFacts
<1>3. /\ Say(r, HealthStatus(r)) \in UnitState
      /\ Say(r, HealthStatus(r)).delivery = "none"
  BY <1>2, HealthStatusType, SayType DEF Say, UnitState
<1> QED
  BY <1>1, <1>3, DeliveredFacts DEF Sound

LEMMA ConfiguredFacts ==
  ASSUME NEW m \in UnitState, wanted \in Configs
  PROVE  Configured(m) \in UnitState /\ Configured(m).delivery = m.delivery
BY DEF Configured, UnitState

LEMMA StartedFacts ==
  ASSUME NEW m \in UnitState, NEW n \in Started(m)
  PROVE  n \in UnitState /\ n.delivery = m.delivery
BY DEF Started, UnitState

\* A status that no delivery has a say in.
LEMMA SaidIsSound ==
  ASSUME NEW m \in UnitState, m.delivery = "none", NEW s \in Statuses
  PROVE  Sound(Say(m, s))
BY DEF Say, Sound, UnitState

-----------------------------------------------------------------------------
(***************************************************************************)
(* The handlers.                                                           *)
(***************************************************************************)
LEMMA RuntimeSound ==
  ASSUME NEW m \in UnitState, m.delivery = "none", wanted \in Configs,
         NEW n \in Runtime(m)
  PROVE  Sound(n)
<1>1. CASE ~StorageFine
  BY <1>1, StorageStatusType, SaidIsSound DEF Runtime
<1>2. CASE StorageFine /\ wanted \in Refused
  BY <1>2, SaidIsSound DEF Runtime, Statuses, Waiting
<1>3. CASE StorageFine /\ wanted \notin Refused
  <2>1. PICK r \in Restarted(m) :
          n \in IF ConfigChanged(m) /\ ~clustered /\ r.loki # "ready"
                THEN {Say(r, "WaitingReady")} ELSE Settled(r)
    BY <1>3 DEF Runtime
  <2>2. r \in UnitState /\ r.delivery = "none"
    <3>1. Configured(m) \in UnitState /\ Configured(m).delivery = "none"
      BY ConfiguredFacts
    <3>2. CASE ~ConfigChanged(m)
      BY <2>1, <3>2 DEF Restarted
    <3>3. CASE ConfigChanged(m) /\ clustered
      BY <2>1, <3>1, <3>3 DEF Restarted, UnitState
    <3>4. CASE ConfigChanged(m) /\ ~clustered
      BY <2>1, <3>1, <3>4, StartedFacts DEF Restarted
    <3> QED
      BY <3>2, <3>3, <3>4
  <2>3. CASE n = Say(r, "WaitingReady")
    BY <2>2, <2>3, SaidIsSound DEF Statuses, Maintenance
  <2>4. CASE n \in Settled(r)
    BY <2>2, <2>4, SettledFacts
  <2> QED
    BY <2>1, <2>3, <2>4
<1> QED
  BY <1>1, <1>2, <1>3

LEMMA StartSound ==
  ASSUME NEW m \in UnitState, m.delivery = "none", wanted \in Configs,
         NEW n \in Start(m)
  PROVE  Sound(n)
<1>1. CASE ~StorageFine
  BY <1>1, StorageStatusType, SaidIsSound DEF Start
<1>2. CASE StorageFine /\ wanted \in Refused
  BY <1>2, SaidIsSound DEF Start, Statuses, Waiting
<1>3. CASE StorageFine /\ wanted \notin Refused
  <2>1. PICK r \in Started(Configured(m)) :
          n \in IF r.loki # "ready"
                THEN {Say(r, "WaitingReady")}
                ELSE {IF d.delivery \in {"incomplete", "disabled"} THEN d
                      ELSE Say(d, HealthStatus(d)) : d \in Delivered(r)}
    BY <1>3 DEF Start
  <2>2. r \in UnitState /\ r.delivery = "none"
    BY <2>1, ConfiguredFacts, StartedFacts
  <2>3. CASE n = Say(r, "WaitingReady")
    BY <2>2, <2>3, SaidIsSound DEF Statuses, Maintenance
  <2>4. CASE n # Say(r, "WaitingReady")
    <3>1. PICK d \in Delivered(r) :
            n = IF d.delivery \in {"incomplete", "disabled"} THEN d
                ELSE Say(d, HealthStatus(d))
      BY <2>1, <2>4
    <3>2. Sound(d)
      BY <2>2, DeliveredFacts DEF Sound
    <3>3. HealthStatus(d) \in Statuses
      BY HealthStatusType
    <3> QED
      BY <3>1, <3>2, <3>3 DEF Sound, Say, UnitState
  <2> QED
    BY <2>3, <2>4
<1> QED
  BY <1>1, <1>2, <1>3

LEMMA DriftSeenFacts ==
  ASSUME NEW m \in UnitState
  PROVE  /\ DriftSeen(m) \in UnitState
         /\ DriftSeen(m).delivery = m.delivery
         /\ DriftSeen(m).loki = m.loki
         /\ DriftSeen(m).disk = m.disk
         /\ DriftSeen(m).good = m.good
BY DEF DriftSeen, Drifts, UnitState, Statuses, Maintenance

LEMMA UpdateStatusSound ==
  ASSUME NEW m \in UnitState, m.delivery = "none", NEW n \in UpdateStatus(m)
  PROVE  Sound(n)
<1>1. CASE ~StorageFine
  BY <1>1, StorageStatusType, SaidIsSound DEF UpdateStatus
<1>2. CASE StorageFine /\ m.loki = "down"
  BY <1>2, SaidIsSound DEF UpdateStatus, Statuses, Maintenance
<1>3. CASE StorageFine /\ m.loki # "down" /\ Drifts(m)
  BY <1>3, DriftSeenFacts DEF UpdateStatus, Sound
<1>4. CASE StorageFine /\ m.loki # "down" /\ ~Drifts(m)
  BY <1>4, DriftSeenFacts, SettledFacts DEF UpdateStatus
<1> QED
  BY <1>1, <1>2, <1>3, <1>4

LEMMA FastPathSound ==
  ASSUME NEW m \in UnitState, m.delivery = "none", NEW n \in FastPath(m)
  PROVE  Sound(n)
<1>1. CASE ~StorageFine
  BY <1>1, StorageStatusType, SaidIsSound DEF FastPath
<1>2. CASE StorageFine /\ m.loki = "down"
  BY <1>2, SaidIsSound DEF FastPath, Statuses, Maintenance
<1>3. CASE StorageFine /\ m.loki # "down" /\ m.drifted
  BY <1>3 DEF FastPath, Sound
<1>4. CASE StorageFine /\ m.loki # "down" /\ ~m.drifted
  <2>1. PICK r \in Rolled(m) : n = Say(r, HealthStatus(r))
    BY <1>4 DEF FastPath
  <2> QED
    BY <2>1, RolledFacts, HealthStatusType, SaidIsSound
<1> QED
  BY <1>1, <1>2, <1>3, <1>4

-----------------------------------------------------------------------------
(***************************************************************************)
(* The inductive invariant: the type, and that no incomplete delivery is   *)
(* hidden.                                                                 *)
(***************************************************************************)
Inv == TypeOK /\ NoHiddenIncompletion

LEMMA InitInv == Init => Inv
<1> SUFFICES ASSUME Init PROVE Inv
  OBVIOUS
<1>1. unit \in UnitState /\ unit.delivery = "none"
  BY DEF Init, UnitState, Statuses, Maintenance
<1>2. due \subseteq Hooks
  BY DEF Init, Hooks
<1>3. MaxEvents \in 0..MaxEvents /\ MaxErrors \in 0..MaxErrors
  BY BudgetAssumption
<1>4. TypeOK
  BY <1>1, <1>2, <1>3 DEF Init, TypeOK
<1> QED
  BY <1>1, <1>4 DEF Inv, NoHiddenIncompletion

LEMMA FoundFacts ==
  ASSUME TypeOK
  PROVE  /\ Found \in UnitState
         /\ Found.delivery = "none"
         /\ Say(Found, "Configuring") \in UnitState
         /\ Say(Found, "Configuring").delivery = "none"
         /\ Say(Found, "Starting") \in UnitState
         /\ Say(Found, "Starting").delivery = "none"
BY DEF TypeOK, Found, Say, UnitState, Statuses, Maintenance

LEMMA HookInv ==
  ASSUME Inv, HookRuns
  PROVE  Sound(unit')
<1> USE FoundFacts DEF Inv
<1>1. CASE ConfigHook
  BY <1>1, RuntimeSound DEF ConfigHook, TypeOK
<1>2. CASE StartHook
  BY <1>2, StartSound DEF StartHook, TypeOK
<1>3. CASE ReplicasHook
  <2>1. CASE moved
    BY <1>3, <2>1, RuntimeSound DEF ReplicasHook, TypeOK
  <2>2. CASE ~moved
    BY <1>3, <2>2, FastPathSound DEF ReplicasHook
  <2> QED
    BY <2>1, <2>2
<1>4. CASE RulesHook
  BY <1>4, DeliveredFacts DEF RulesHook, Sound
<1>5. CASE UpdateStatusHook
  BY <1>5, UpdateStatusSound DEF UpdateStatusHook
<1> QED
  BY <1>1, <1>2, <1>3, <1>4, <1>5 DEF HookRuns

LEMMA RaiseInv ==
  ASSUME Inv, HookRaises
  PROVE  Sound(unit')
<1> USE DEF Inv, TypeOK
<1>1. CASE StartRaises
  BY <1>1 DEF StartRaises, Found, Sound, UnitState, Statuses, Maintenance
<1>2. CASE ConfigRaises
  <2>1. PICK l \in {"down", "starting", "ready"} :
          unit' = [Found EXCEPT !.status = "Configuring", !.disk = wanted,
                                !.loki = l]
    BY <1>2 DEF ConfigRaises
  <2> QED
    BY <2>1 DEF Found, Sound, UnitState, Statuses, Maintenance
<1>3. CASE RollRaises
  <2>1. DriftSeen(unit).status \in Statuses
    BY DriftSeenFacts DEF UnitState
  <2> QED
    BY <1>3, <2>1 DEF RollRaises, Found, Sound, UnitState
<1> QED
  BY <1>1, <1>2, <1>3 DEF HookRaises

\* The environment never touches a status or a delivery.
LEMMA EnvironmentInv ==
  ASSUME Inv, Environment
  PROVE  Sound(unit')
<1>1. Sound(unit)
  BY DEF Inv, TypeOK, NoHiddenIncompletion, Sound
<1>2. CASE UNCHANGED unit
  BY <1>1, <1>2
<1>3. CASE PeersRoll \/ LokiChanges \/ Reboot \/ ManualEdit \/ Elect
  BY <1>1, <1>3
     DEF PeersRoll, LokiChanges, Reboot, ManualEdit, Elect, Sound, UnitState
<1> QED
  BY <1>2, <1>3
     DEF Environment, Reconfigure, StorageChanges, Scale, PeersChange,
         SourcesChange, RulerChanges

\* The variables other than unit keep their types.
WorldOK ==
  /\ wanted \in Configs
  /\ s3 \in {"absent", "incomplete", "invalid", "complete"}
  /\ clustered \in BOOLEAN
  /\ peersReady \in BOOLEAN
  /\ moved \in BOOLEAN
  /\ rules \in {"none", "good", "malformed"}
  /\ ruler \in BOOLEAN
  /\ leader \in BOOLEAN
  /\ due \subseteq Hooks
  /\ events \in 0..MaxEvents
  /\ errors \in 0..MaxErrors

LEMMA WorldStep ==
  ASSUME TypeOK, Next
  PROVE  WorldOK'
<1> USE BudgetAssumption DEF TypeOK, WorldOK, world
<1>1. CASE HookRuns
  BY <1>1 DEF HookRuns, ConfigHook, StartHook, ReplicasHook, RulesHook,
              UpdateStatusHook, Done
<1>2. CASE HookRaises
  BY <1>2 DEF HookRaises
<1>3. CASE Environment
  <2> USE DEF Announced, Hooks
  <2>1. CASE Reconfigure
    BY <2>1 DEF Reconfigure
  <2>2. CASE StorageChanges
    BY <2>2 DEF StorageChanges
  <2>3. CASE Scale
    BY <2>3 DEF Scale
  <2>4. CASE PeersChange
    BY <2>4 DEF PeersChange
  <2>5. CASE PeersRoll \/ LokiChanges \/ Reboot \/ ManualEdit
    BY <2>5 DEF PeersRoll, LokiChanges, Reboot, ManualEdit
  <2>6. CASE SourcesChange
    BY <2>6 DEF SourcesChange
  <2>7. CASE RulerChanges
    BY <2>7 DEF RulerChanges
  <2>8. CASE Elect
    BY <2>8 DEF Elect
  <2> QED
    BY <1>3, <2>1, <2>2, <2>3, <2>4, <2>5, <2>6, <2>7, <2>8 DEF Environment
<1> QED
  BY <1>1, <1>2, <1>3 DEF Next

LEMMA NextInv == Inv /\ [Next]_vars => Inv'
<1> SUFFICES ASSUME Inv, [Next]_vars PROVE Inv'
  OBVIOUS
<1>1. CASE Next
  <2>1. WorldOK'
    BY <1>1, WorldStep DEF Inv
  <2>2. Sound(unit')
    BY <1>1, HookInv, RaiseInv, EnvironmentInv DEF Next
  <2> QED
    BY <2>1, <2>2 DEF Inv, TypeOK, WorldOK, Sound, NoHiddenIncompletion
<1>2. CASE UNCHANGED vars
  BY <1>2 DEF Inv, TypeOK, NoHiddenIncompletion, vars, world
<1> QED
  BY <1>1, <1>2

LEMMA Invariant == Spec => []Inv
<1> QED
  BY InitInv, NextInv, PTL DEF Spec

\* Type correctness of the status model.
THEOREM TypeCorrect == Spec => []TypeOK
<1>1. Inv => TypeOK
  BY DEF Inv
<1> QED
  BY <1>1, Invariant, PTL

\* No handler leaves a unit active over rules that it has just failed to
\* deliver in full (_reconcile_rules and every handler that calls it).
THEOREM IncompletionIsShown == Spec => []NoHiddenIncompletion
<1>1. Inv => NoHiddenIncompletion
  BY DEF Inv
<1> QED
  BY <1>1, Invariant, PTL

-----------------------------------------------------------------------------
(***************************************************************************)
(* update-status.                                                          *)
(***************************************************************************)

\* What Truthful says of a unit without drift and with its process up.
Tells(n) ==
  n.status =
    IF leader /\ wanted \in Legacy /\ (rules # "none" \/ n.cached)
    THEN "RulesDisabled"
    ELSE IF HealthStatus(n) = "Active" /\ leader /\ wanted \notin Legacy
            /\ (rules = "malformed" \/ ~ruler)
    THEN "RulesIncomplete"
    ELSE HealthStatus(n)

\* After health, the rules leave the right status of the two.
LEMMA DeliveredTells ==
  ASSUME NEW m \in UnitState, m.status = HealthStatus(m), m.loki # "down",
         NEW n \in Delivered(m)
  PROVE  Tells(n) /\ n.loki = m.loki /\ n.disk = m.disk /\ n.good = m.good
<1>1. CASE ~leader
  BY <1>1 DEF Delivered, Tells
<1>2. CASE leader /\ wanted \in Legacy
  <2>1. n = Skipped(m)
    BY <1>2 DEF Delivered
  <2>2. CASE rules # "none" \/ m.cached
    BY <1>2, <2>1, <2>2 DEF Skipped, Tells, UnitState
  <2>3. CASE ~(rules # "none" \/ m.cached)
    BY <1>2, <2>1, <2>3 DEF Skipped, Tells
  <2> QED
    BY <2>2, <2>3
<1>3. CASE leader /\ wanted \notin Legacy
  <2>1. PICK a \in Attempts(m) : Possible(m, a) /\ n = Reported(a)
    BY <1>3 DEF Delivered
  <2>2. /\ a \in UnitState
        /\ a.status = m.status /\ a.loki = m.loki /\ a.rollout = m.rollout
        /\ a.disk = m.disk /\ a.good = m.good
        /\ a.delivery \in {"committed", "incomplete"}
    BY <2>1, AttemptsFacts
  <2>3. HealthStatus(a) = a.status
    BY <2>2 DEF HealthStatus, RolloutShown
  <2>4. a.status \in {"Active", "Rolling", "Degraded"}
    BY <2>3 DEF HealthStatus, RolloutShown
  <2>5. /\ n.loki = a.loki /\ n.rollout = a.rollout
        /\ n.disk = a.disk /\ n.good = a.good
        /\ n.status = IF a.delivery = "incomplete" /\ a.status = "Active"
                      THEN "RulesIncomplete" ELSE a.status
    BY <2>1, <2>2, <2>4 DEF Reported, Say, RuleStatusOwned, Waiting, UnitState
  <2>6. HealthStatus(n) = a.status
    BY <2>3, <2>5 DEF HealthStatus, RolloutShown
  <2>7. a.status = "Active" => a.loki = "ready"
    BY <2>3 DEF HealthStatus, RolloutShown
  <2>8. a.status = "Active" =>
          (a.delivery = "incomplete" <=> rules = "malformed" \/ ~ruler)
    BY <2>1, <2>2, <2>7 DEF Possible
  <2>9. Tells(n)
    BY <1>3, <2>5, <2>6, <2>8 DEF Tells
  <2> QED
    BY <2>2, <2>5, <2>9
<1> QED
  BY <1>1, <1>2, <1>3

LEMMA UpdateStatusIsTruthful ==
  ASSUME TypeOK, UpdateStatusHook
  PROVE  unit'.status \in Truthful'
<1> DEFINE m == Found
<1>1. m \in UnitState /\ m.delivery = "none"
  BY FoundFacts
<1>2. unit' \in UpdateStatus(m) /\ UNCHANGED world
  BY DEF UpdateStatusHook
<1>3. /\ StorageFine' <=> StorageFine
      /\ StorageStatus' = StorageStatus
  BY <1>2 DEF world, StorageFine, StorageStatus
<1> HIDE DEF m
<1>4. CASE ~StorageFine
  BY <1>1, <1>2, <1>3, <1>4 DEF UpdateStatus, Say, UnitState, Truthful
<1>5. CASE StorageFine /\ m.loki = "down"
  BY <1>1, <1>2, <1>3, <1>5 DEF UpdateStatus, Say, UnitState, Truthful
<1>6. CASE StorageFine /\ m.loki # "down" /\ Drifts(m)
  <2>1. unit' = DriftSeen(m)
    BY <1>2, <1>6 DEF UpdateStatus
  <2>2. /\ unit'.loki = m.loki
        /\ unit'.disk = m.disk
        /\ unit'.good = m.good
    BY <1>1, <2>1, DriftSeenFacts
  <2>3. Drifts(unit)'
    BY <1>6, <2>2 DEF Drifts
  <2>4. unit'.status \in {"Drift"} \cup Waiting \cup Blocked
    BY <1>1, <1>6, <2>1 DEF DriftSeen, UnitState, Statuses
  <2> QED
    BY <1>3, <1>6, <2>2, <2>3, <2>4 DEF Truthful
<1>7. CASE StorageFine /\ m.loki # "down" /\ ~Drifts(m)
  <2>1. PICK r \in Rolled(DriftSeen(m)) :
          unit' \in Delivered(Say(r, HealthStatus(r)))
    BY <1>2, <1>7 DEF UpdateStatus, Settled
  <2>2. /\ r \in UnitState
        /\ r.loki # "down"
        /\ r.disk = m.disk /\ r.good = m.good
    BY <1>1, <1>7, <2>1, DriftSeenFacts, RolledFacts
  <2> DEFINE h == Say(r, HealthStatus(r))
  <2>3. /\ h \in UnitState
        /\ h.loki = r.loki /\ h.disk = r.disk /\ h.good = r.good
        /\ h.status = HealthStatus(r) /\ h.rollout = r.rollout
    BY <2>2, HealthStatusType, SayType DEF Say, UnitState
  <2>4. h.status = HealthStatus(h)
    BY <2>3 DEF HealthStatus, RolloutShown
  <2> HIDE DEF h
  <2>5. /\ Tells(unit')
        /\ unit'.loki # "down"
        /\ unit'.disk = m.disk /\ unit'.good = m.good
    BY <2>1, <2>2, <2>3, <2>4, DeliveredTells DEF h
  <2>6. ~Drifts(unit)'
    BY <1>7, <2>5 DEF Drifts
  <2>7. (HealthStatus(unit))' = HealthStatus(unit')
    BY <1>2 DEF HealthStatus, RolloutShown, world
  <2> QED
    BY <1>2, <1>3, <1>7, <2>5, <2>6, <2>7 DEF Truthful, Tells, world
<1> QED
  BY <1>4, <1>5, <1>6, <1>7

\* update-status leaves a truthful status behind, whatever it found.
THEOREM UpdateStatusRepairs == Spec => UpdateStatusTells
<1>1. TypeOK /\ [Next]_vars
        => [UpdateStatusHook => unit'.status \in Truthful']_vars
  BY UpdateStatusIsTruthful
<1> QED
  BY <1>1, TypeCorrect, PTL DEF Spec, UpdateStatusTells
=============================================================================
