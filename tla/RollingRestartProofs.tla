------------------------ MODULE RollingRestartProofs ------------------------
(***************************************************************************)
(* Theorems about RollingRestart, for every number of units, every choice  *)
(* of config versions and every environment budget.                        *)
(***************************************************************************)
EXTENDS RollingRestart, FiniteSums

-----------------------------------------------------------------------------
(***************************************************************************)
(* The decisions of a hook are well typed.                                 *)
(***************************************************************************)

\* The target the leader leaves behind (_advance_rolling_restart) is a unit or
\* none.
LEMMA AdvancedType ==
  ASSUME TypeOK, NEW u \in Units, NEW pend \in BOOLEAN
  PROVE  Advanced(u, pend) \in Units \cup {NoUnit}
<1> DEFINE queue == PendingUnits(u, pend)
<1>1. queue \subseteq Units
  BY DEF PendingUnits, TypeOK
<1>2. queue \ {u} # {} => Min(queue \ {u}) \in queue \ {u}
  BY <1>1, MinIsLeast, UnitsAssumption
<1>3. FirstPending(u, queue) \in Units
  BY <1>1, <1>2 DEF FirstPending
<1> QED BY <1>3 DEF Advanced, TypeOK

\* _reconcile_rolling_restart decides about the target and the next step; the
\* rest of what the hook has buffered it leaves alone, and it goes on to a
\* restart only with a restart queued.
LEMMA RolledShape ==
  ASSUME TypeOK, NEW u \in Units, NEW h \in HookState, h.pc = "done"
  PROVE  /\ Rolled(u, h) \in HookState
         /\ Rolled(u, h).pc \in {"restart-self", "done"}
         /\ Rolled(u, h).pc = "restart-self" => h.pend
         /\ Rolled(u, h).good = h.good
         /\ Rolled(u, h).pend = h.pend
<1>1. h.pend \in BOOLEAN
  BY DEF HookState
<1>2. Advanced(u, h.pend) \in Units \cup {NoUnit}
  BY <1>1, AdvancedType
<1>3. target \in Units \cup {NoUnit}
  BY DEF TypeOK
<1> QED BY <1>2, <1>3 DEF Rolled, HookState, Steps

\* The configuration _configure renders is a text, and never a manual edit.
LEMMA RenderedType ==
  ASSUME TypeOK, NEW u \in Units
  PROVE  Rendered(u) \in Text
BY DEF TypeOK, Rendered, Text

LEMMA ManualIsNoText == Manual \notin Text
BY DEF Manual, Text

\* A hook begins with a copy of what is stored.
LEMMA OpenedType ==
  ASSUME TypeOK, NEW u \in Units, NEW kind \in Kinds
  PROVE  /\ Opened(u, kind) \in HookState
         /\ Opened(u, kind).pc = "done"
         /\ Opened(u, kind).good = lastGood[u]
         /\ Opened(u, kind).pend = pending[u]
BY DEF TypeOK, Opened, HookState, Steps

LEMMA IdleType == Idle \in HookState /\ \A u \in Units :
                    TypeOK => Failed(u) \in HookState
BY DEF Idle, Failed, TypeOK, HookState, Steps, Kinds, Text

-----------------------------------------------------------------------------
(***************************************************************************)
(* Type correctness.                                                       *)
(***************************************************************************)

\* ReconcileRuntime keeps the types of the variables it changes.
LEMMA ReconcileRuntimeType ==
  ASSUME TypeOK, NEW u \in Units, NEW h \in HookState, h.pc = "done",
         ReconcileRuntime(u, h)
  PROVE  /\ hook' \in [Units -> HookState]
         /\ disk' \in [Units -> Text \cup {Manual}]
         /\ running' \in [Units -> Text \cup {Manual}]
         /\ active' \in [Units -> BOOLEAN]
         /\ ready' \in [Units -> BOOLEAN]
         /\ lapsed' \subseteq Units
<1> DEFINE a == Applied(u, h)
           p == [a EXCEPT !.pend = TRUE]
<1>1. a \in HookState /\ a.pc = "done"
  BY RenderedType DEF Applied, HookState
<1>2. p \in HookState /\ p.pc = "done"
  BY <1>1 DEF HookState
<1>3. Rolled(u, h) \in HookState /\ Rolled(u, p) \in HookState
  BY <1>2, RolledShape
<1>4. Rendered(u) \in Text
  BY RenderedType
<1>5. UNCHANGED <<disk, process>> \/ WriteConfig(u)
  BY DEF ReconcileRuntime
<1>6. hook' \in [Units -> HookState]
  BY <1>1, <1>3 DEF ReconcileRuntime, TypeOK
<1>7. disk' \in [Units -> Text \cup {Manual}]
  BY <1>4, <1>5 DEF WriteConfig, TypeOK
<1>8. UNCHANGED process \/ Load(u, Rendered(u))
  BY DEF ReconcileRuntime
<1>9. /\ running' \in [Units -> Text \cup {Manual}]
      /\ active' \in [Units -> BOOLEAN]
      /\ ready' \in [Units -> BOOLEAN]
      /\ lapsed' \subseteq Units
  <2>1. CASE UNCHANGED process
    BY <2>1 DEF process, TypeOK
  <2>2. CASE Load(u, Rendered(u))
    BY <1>4, <2>2 DEF Load, TypeOK
  <2> QED BY <1>8, <2>1, <2>2
<1> QED BY <1>6, <1>7, <1>9

\* So does the restart step of update-status and the fast path.
LEMMA RollUnlessDriftedType ==
  ASSUME TypeOK, NEW u \in Units, NEW h \in HookState, h.pc = "done",
         RollUnlessDrifted(u, h)
  PROVE  hook' \in [Units -> HookState] /\ UNCHANGED <<disk, process>>
<1>1. Rolled(u, h) \in HookState
  BY RolledShape
<1> QED BY <1>1 DEF RollUnlessDrifted, TypeOK

\* Every hook and every environment event keeps TypeOK.
LEMMA TypeStep == TypeOK /\ [Next]_vars => TypeOK'
<1> SUFFICES ASSUME TypeOK, [Next]_vars PROVE TypeOK'
  OBVIOUS
<1> USE DEF world, databag, config, process
<1>1. ASSUME NEW u \in Units, RuntimeHook(u) PROVE TypeOK'
  <2>1. Opened(u, "runtime") \in HookState /\ Opened(u, "runtime").pc = "done"
    BY OpenedType DEF Kinds
  <2> QED BY <1>1, <2>1, ReconcileRuntimeType DEF RuntimeHook, TypeOK
<1>2. ASSUME NEW u \in Units, ReplicasHook(u) PROVE TypeOK'
  <2> DEFINE h == Opened(u, "replicas")
             s == [h EXCEPT !.seen = members]
  <2>1. h \in HookState /\ h.pc = "done"
    BY OpenedType DEF Kinds
  <2>2. s \in HookState /\ s.pc = "done"
    BY <2>1 DEF HookState, TypeOK
  <2>3. ReconcileRuntime(u, s) \/ RollUnlessDrifted(u, h)
    BY <1>2 DEF ReplicasHook
  <2> HIDE DEF h, s
  <2>4. CASE ReconcileRuntime(u, s)
    BY <1>2, <2>2, <2>4, ReconcileRuntimeType DEF ReplicasHook, TypeOK
  <2>5. CASE RollUnlessDrifted(u, h)
    BY <1>2, <2>1, <2>5, RollUnlessDriftedType DEF ReplicasHook, TypeOK
  <2> QED BY <2>3, <2>4, <2>5
<1>3. ASSUME NEW u \in Units, UpdateStatusHook(u) PROVE TypeOK'
  <2> DEFINE h == Opened(u, "status")
             d == IF storageOk /\ active[u]
                    THEN [h EXCEPT !.drift = (disk[u] # lastGood[u])]
                    ELSE h
  <2>1. h \in HookState /\ h.pc = "done"
    BY OpenedType DEF Kinds
  <2>2. d \in HookState /\ d.pc = "done"
    BY <2>1 DEF HookState
  <2>3. RollUnlessDrifted(u, d)
    BY <1>3 DEF UpdateStatusHook
  <2> HIDE DEF d
  <2> QED BY <1>3, <2>2, <2>3, RollUnlessDriftedType DEF UpdateStatusHook, TypeOK
<1>4. ASSUME NEW u \in Units, StartHook(u) PROVE TypeOK'
  <2> DEFINE h == Opened(u, "start")
             text == IF ConfigChanged(u) THEN Rendered(u) ELSE disk[u]
  <2>1. h \in HookState
    BY OpenedType DEF Kinds
  <2>2. Rendered(u) \in Text
    BY RenderedType
  <2>3. Applied(u, h) \in HookState
    BY <2>1, <2>2 DEF Applied, HookState
  <2>4. text \in Text \cup {Manual}
    BY <2>2 DEF TypeOK
  <2>5. hook' \in [Units -> HookState]
    BY <1>4, <2>1, <2>3 DEF StartHook, TypeOK
  <2>6. disk' \in [Units -> Text \cup {Manual}]
    BY <1>4, <2>4 DEF StartHook, TypeOK
  <2>7. \/ UNCHANGED process
        \/ Load(u, text)
        \/ lapsed' \subseteq Units /\ UNCHANGED <<running, active, ready>>
    BY <1>4 DEF StartHook, TypeOK
  <2> HIDE DEF h, text
  <2> QED BY <1>4, <2>4, <2>5, <2>6, <2>7 DEF StartHook, Load, TypeOK
<1>5. ASSUME NEW u \in Units, Restart(u) PROVE TypeOK'
  <2> DEFINE h == [hook[u] EXCEPT !.pc = "wait-ready"]
  <2>1. hook' = [hook EXCEPT ![u] = h]
    BY <1>5 DEF Restart
  <2>2. h \in HookState
    BY DEF TypeOK, HookState, Steps
  <2> QED BY <1>5, <2>1, <2>2 DEF Restart, Load, TypeOK
<1>6. ASSUME NEW u \in Units, LocalReady(u) PROVE TypeOK'
  BY <1>6 DEF LocalReady, TypeOK, HookState, Steps
<1>7. ASSUME NEW u \in Units, ClusterHealthy(u) PROVE TypeOK'
  <2> DEFINE h == [hook[u] EXCEPT !.pc = "done", !.pend = FALSE]
  <2>1. hook' = [hook EXCEPT ![u] = h]
    BY <1>7 DEF ClusterHealthy
  <2>2. hook[u] \in HookState
    BY DEF TypeOK
  <2>3. h \in HookState
    BY <2>2 DEF HookState, Steps
  <2> QED BY <1>7, <2>1, <2>3 DEF ClusterHealthy, TypeOK
<1>8. ASSUME NEW u \in Units, Commit(u) PROVE TypeOK'
  BY <1>8, IdleType DEF Commit, SaveStored, TypeOK, HookState
<1>9. ASSUME NEW u \in Units, FlushRefused(u) \/ AgentDies(u) \/ HookError(u)
      PROVE  TypeOK'
  <2>1. Failed(u) \in HookState
    BY IdleType
  <2>2. hook' \in [Units -> HookState] /\ lapsed' \subseteq Units
    BY <1>9, <2>1 DEF FlushRefused, AgentDies, HookError, Discard, TypeOK
  <2>3. /\ lastGood' \in [Units -> Text]
        /\ drifted' \in [Units -> BOOLEAN]
        /\ peersSeen' \in [Units -> SUBSET Units]
    BY <1>9 DEF FlushRefused, AgentDies, HookError, SaveStored, TypeOK, HookState
  <2>4. budget' \in [Events -> Nat]
    BY <1>9 DEF FlushRefused, AgentDies, HookError, Spend, TypeOK, Events
  <2>5. UNCHANGED <<world, databag, disk, running, active, ready, rebooted>>
    BY <1>9 DEF FlushRefused, AgentDies, HookError, Discard
  <2> QED BY <2>2, <2>3, <2>4, <2>5 DEF TypeOK
<1>10. ASSUME NEW u \in Units, WaitFails(u) \/ WaitTimeout(u) PROVE TypeOK'
  <2>1. Failed(u) \in HookState
    BY IdleType
  <2>2. budget' \in [Events -> Nat]
    BY <1>10 DEF WaitFails, WaitTimeout, Spend, TypeOK, Events
  <2>3. hook' \in [Units -> HookState]
    BY <1>10, <2>1 DEF WaitFails, WaitTimeout, TimeOut, TypeOK
  <2>4. UNCHANGED <<world, databag, config, disk, process, rebooted>>
    BY <1>10 DEF WaitFails, WaitTimeout, TimeOut
  <2> QED BY <2>2, <2>3, <2>4 DEF TypeOK
<1>11. ASSUME Reconfigure \/ StorageOutage \/ StorageRestored PROVE TypeOK'
  <2>1. budget' \in [Events -> Nat]
    BY <1>11 DEF Reconfigure, StorageOutage, StorageRestored, Spend, TypeOK, Events
  <2>2. wanted' \in Nat
    BY <1>11 DEF Reconfigure, StorageOutage, StorageRestored, TypeOK
  <2>4. storageOk' \in BOOLEAN
    BY <1>11, Zenon DEF Reconfigure, StorageOutage, StorageRestored, TypeOK
  <2>3. UNCHANGED <<leader, members, databag, config, disk, process, rebooted, hook>>
    BY <1>11 DEF Reconfigure, StorageOutage, StorageRestored
  <2> QED BY <2>1, <2>2, <2>3, <2>4 DEF TypeOK
<1>12. ASSUME NEW u \in Units,
              \/ ManualEdit(u) \/ LosesReady(u) \/ Crash(u)
              \/ BecomesReady(u) \/ ServiceRecovers(u)
       PROVE  TypeOK'
  <2>1. budget' \in [Events -> Nat]
    BY <1>12 DEF ManualEdit, LosesReady, Crash, BecomesReady, ServiceRecovers,
                 Spend, TypeOK, Events
  <2> QED BY <1>12, <2>1 DEF ManualEdit, LosesReady, Crash, BecomesReady,
                 ServiceRecovers, Load, TypeOK
<1>13. ASSUME NEW u \in Units, Reboot(u) PROVE TypeOK'
  <2>1. budget' \in [Events -> Nat]
    BY <1>13 DEF Reboot, Spend, TypeOK, Events
  <2> QED BY <1>13, <2>1, IdleType DEF Reboot, Load, TypeOK
<1>14. ASSUME NEW u \in Units, Elect(u) \/ Depart(u) PROVE TypeOK'
  <2>1. budget' \in [Events -> Nat]
    BY <1>14 DEF Elect, Depart, Spend, TypeOK, Events
  <2> QED BY <1>14, <2>1 DEF Elect, Depart, TypeOK
<1>15. CASE UNCHANGED vars
  BY <1>15 DEF vars, TypeOK
<1> QED
  BY <1>1, <1>2, <1>3, <1>4, <1>5, <1>6, <1>7, <1>8, <1>9, <1>10, <1>11,
     <1>12, <1>13, <1>14, <1>15
  DEF Next, Environment, Hook, Progress

\* The initial state is well typed.
LEMMA TypeInit == Init => TypeOK
BY LeaderAssumption, BudgetAssumption, IdleType
   DEF Init, TypeOK, Rendered, Text

\* Every variable of every unit keeps its type, whatever the interleaving of
\* hooks, failures and environment events.
THEOREM TypeCorrect == Spec => []TypeOK
<1> QED BY TypeInit, TypeStep, PTL DEF Spec

-----------------------------------------------------------------------------
(***************************************************************************)
(* No restart is lost.  RestartAccounted is inductive; each action touches *)
(* one unit and leaves the others as they were.                            *)
(***************************************************************************)
Untouched(v) ==
  /\ active'[v] = active[v] /\ running'[v] = running[v]
  /\ lastGood'[v] = lastGood[v] /\ pending'[v] = pending[v]
  /\ disk'[v] = disk[v] /\ hook'[v] = hook[v]
  /\ (v \in lapsed' <=> v \in lapsed)

\* A step that does not touch a unit keeps what is known of it.
LEMMA UntouchedUnit ==
  ASSUME NEW v \in Units, UnitAccounted(v), Untouched(v)
  PROVE  UnitAccounted(v)'
BY DEF Untouched, UnitAccounted, AccountedBetweenHooks, AccountedInHook,
       RestartedFromDisk, Accounted, Between, Restarting

\* A unit between hooks, or with a failed one, as a new hook finds it.
LEMMA AtHookStart ==
  ASSUME NEW u \in Units, NEW kind \in Kinds, UnitAccounted(u), CanRun(u, kind)
  PROVE  Accounted(u, lastGood[u], pending[u])
BY DEF CanRun, UnitAccounted, AccountedBetweenHooks, Between

\* A hook that has left disk and process alone so far, and has buffered
\* neither a config nor a restart.
LEMMA HookWithoutChange ==
  ASSUME TypeOK, NEW u \in Units, Accounted(u, lastGood[u], pending[u]),
         NEW h \in HookState,
         h.pc \in {"restart-self", "done"},
         h.good = lastGood[u], h.pend = pending[u],
         hook' = [hook EXCEPT ![u] = h],
         UNCHANGED <<disk, process, databag, config>>
  PROVE  UnitAccounted(u)'
<1>1. hook'[u] = h
  BY DEF TypeOK
<1> QED
  BY <1>1 DEF UnitAccounted, AccountedBetweenHooks, AccountedInHook,
       RestartedFromDisk, Accounted, Between, Restarting, process, databag, config

\* _reconcile_runtime accounts for the change it applies.
LEMMA ReconcileRuntimeAccounted ==
  ASSUME TypeOK, NEW u \in Units, Accounted(u, lastGood[u], pending[u]),
         NEW h \in HookState, h.pc = "done",
         h.good = lastGood[u], h.pend = pending[u],
         ReconcileRuntime(u, h), UNCHANGED <<databag, config>>
  PROVE  UnitAccounted(u)'
<1>1. CASE ConfigRejected
  <2>1. hook' = [hook EXCEPT ![u] = h] /\ UNCHANGED <<disk, process>>
    BY <1>1 DEF ReconcileRuntime
  <2> QED BY <2>1, HookWithoutChange
<1>2. CASE ~ConfigRejected /\ ~ConfigChanged(u)
  <2>1. hook' = [hook EXCEPT ![u] = Rolled(u, h)] /\ UNCHANGED <<disk, process>>
    BY <1>2 DEF ReconcileRuntime
  <2> QED BY <2>1, HookWithoutChange, RolledShape
<1>3. CASE ~ConfigRejected /\ ConfigChanged(u) /\ Clustered
  <2> DEFINE p == [Applied(u, h) EXCEPT !.pend = TRUE]
  <2>1. hook' = [hook EXCEPT ![u] = Rolled(u, p)] /\ UNCHANGED process
    BY <1>3 DEF ReconcileRuntime
  <2>2. disk' = [disk EXCEPT ![u] = Rendered(u)]
    BY <1>3 DEF ReconcileRuntime, WriteConfig
  <2>3. p \in HookState /\ p.pc = "done" /\ p.good = Rendered(u) /\ p.pend = TRUE
    BY RenderedType DEF Applied, HookState
  <2> HIDE DEF p
  <2>4. /\ hook'[u].pc \in {"restart-self", "done"}
        /\ hook'[u].good = Rendered(u) /\ hook'[u].pend = TRUE
    BY <2>1, <2>3, RolledShape DEF TypeOK
  <2>5. disk'[u] = Rendered(u) /\ lastGood'[u] = lastGood[u]
    BY <2>2 DEF TypeOK, config
  <2> QED
    BY <2>4, <2>5 DEF UnitAccounted, AccountedBetweenHooks, AccountedInHook,
         RestartedFromDisk, Accounted, Between, Restarting
<1>4. CASE ~ConfigRejected /\ ConfigChanged(u) /\ ~Clustered
  <2>1. hook' = [hook EXCEPT ![u] = Applied(u, h)]
    BY <1>4 DEF ReconcileRuntime
  <2>2. WriteConfig(u) /\ Load(u, Rendered(u))
    BY <1>4 DEF ReconcileRuntime
  <2>3. hook'[u].pc = "done" /\ hook'[u].good = Rendered(u)
    BY <2>1 DEF Applied, TypeOK, HookState
  <2>4. disk'[u] = Rendered(u) /\ running'[u] = Rendered(u)
    BY <2>2 DEF WriteConfig, Load, TypeOK
  <2> QED
    BY <2>3, <2>4 DEF UnitAccounted, AccountedBetweenHooks, AccountedInHook,
         RestartedFromDisk, Accounted, Between, Restarting
<1> QED BY <1>1, <1>2, <1>3, <1>4

LEMMA RollUnlessDriftedAccounted ==
  ASSUME TypeOK, NEW u \in Units, Accounted(u, lastGood[u], pending[u]),
         NEW h \in HookState, h.pc = "done",
         h.good = lastGood[u], h.pend = pending[u],
         RollUnlessDrifted(u, h), UNCHANGED <<databag, config>>
  PROVE  UnitAccounted(u)'
<1>1. PICK g \in {h, Rolled(u, h)} : hook' = [hook EXCEPT ![u] = g]
  BY DEF RollUnlessDrifted
<1>2. /\ g \in HookState /\ g.pc \in {"restart-self", "done"}
      /\ g.good = lastGood[u] /\ g.pend = pending[u]
  BY RolledShape
<1>3. UNCHANGED <<disk, process>>
  BY DEF RollUnlessDrifted
<1> QED BY <1>1, <1>2, <1>3, HookWithoutChange

\* What a hook of unit u may change leaves every other unit untouched.
LEMMA HookTouchesOne ==
  ASSUME TypeOK, NEW u \in Units, Hook(u), NEW v \in Units \ {u}
  PROVE  Untouched(v)
<1>1. UNCHANGED <<databag, config>>
  BY DEF Hook, RuntimeHook, ReplicasHook, UpdateStatusHook, StartHook
<1>2. UNCHANGED <<disk, process>> \/ WriteConfig(u) \/ disk'[v] = disk[v]
  BY DEF Hook, RuntimeHook, ReplicasHook, UpdateStatusHook, StartHook,
         ReconcileRuntime, RollUnlessDrifted, TypeOK
<1>3. disk'[v] = disk[v]
  BY <1>2 DEF WriteConfig, TypeOK
<1>4. \E g : hook' = [hook EXCEPT ![u] = g]
  BY DEF Hook, RuntimeHook, ReplicasHook, UpdateStatusHook, StartHook,
         ReconcileRuntime, RollUnlessDrifted
<1>5. \/ UNCHANGED process
      \/ \E text : Load(u, text)
      \/ lapsed' \in {lapsed, lapsed \cup {u}} /\ UNCHANGED <<running, active>>
  BY DEF Hook, RuntimeHook, ReplicasHook, UpdateStatusHook, StartHook,
         ReconcileRuntime, RollUnlessDrifted
<1>6. /\ running'[v] = running[v] /\ active'[v] = active[v]
      /\ (v \in lapsed' <=> v \in lapsed)
  BY <1>5 DEF process, Load, TypeOK
<1> QED BY <1>1, <1>3, <1>4, <1>6 DEF Untouched, databag, config, TypeOK

\* Each kind of hook accounts for what it changes.
LEMMA HookAccounted ==
  ASSUME TypeOK, NEW u \in Units, UnitAccounted(u), Hook(u)
  PROVE  UnitAccounted(u)'
<1>1. CASE RuntimeHook(u)
  <2>1. ReconcileRuntime(u, Opened(u, "runtime")) /\ UNCHANGED <<databag, config>>
    BY <1>1 DEF RuntimeHook
  <2>2. Accounted(u, lastGood[u], pending[u])
    BY <1>1, AtHookStart DEF RuntimeHook, Kinds
  <2> QED BY <2>1, <2>2, OpenedType, ReconcileRuntimeAccounted DEF Kinds
<1>2. CASE ReplicasHook(u)
  <2> DEFINE h == Opened(u, "replicas")
             s == [h EXCEPT !.seen = members]
  <2>1. Accounted(u, lastGood[u], pending[u]) /\ UNCHANGED <<databag, config>>
    BY <1>2, AtHookStart DEF ReplicasHook, Kinds
  <2>2. /\ h \in HookState /\ h.pc = "done"
        /\ h.good = lastGood[u] /\ h.pend = pending[u]
    BY OpenedType DEF Kinds
  <2>3. /\ s \in HookState /\ s.pc = "done"
        /\ s.good = lastGood[u] /\ s.pend = pending[u]
    BY <2>2 DEF HookState, TypeOK
  <2>4. ReconcileRuntime(u, s) \/ RollUnlessDrifted(u, h)
    BY <1>2 DEF ReplicasHook
  <2> HIDE DEF h, s
  <2> QED
    BY <2>1, <2>2, <2>3, <2>4, ReconcileRuntimeAccounted, RollUnlessDriftedAccounted
<1>3. CASE UpdateStatusHook(u)
  <2> DEFINE h == Opened(u, "status")
             d == IF storageOk /\ active[u]
                    THEN [h EXCEPT !.drift = (disk[u] # lastGood[u])]
                    ELSE h
  <2>1. Accounted(u, lastGood[u], pending[u]) /\ UNCHANGED <<databag, config>>
    BY <1>3, AtHookStart DEF UpdateStatusHook, Kinds
  <2>2. /\ h \in HookState /\ h.pc = "done"
        /\ h.good = lastGood[u] /\ h.pend = pending[u]
    BY OpenedType DEF Kinds
  <2>3. /\ d \in HookState /\ d.pc = "done"
        /\ d.good = lastGood[u] /\ d.pend = pending[u]
    BY <2>2 DEF HookState
  <2>4. RollUnlessDrifted(u, d)
    BY <1>3 DEF UpdateStatusHook
  <2> HIDE DEF d
  <2> QED BY <2>1, <2>3, <2>4, RollUnlessDriftedAccounted
<1>4. CASE StartHook(u)
  <2> DEFINE h == Opened(u, "start")
             text == IF ConfigChanged(u) THEN Rendered(u) ELSE disk[u]
             g == IF ConfigChanged(u) THEN Applied(u, h) ELSE h
  <2>1. Accounted(u, lastGood[u], pending[u]) /\ UNCHANGED <<databag, config>>
    BY <1>4, AtHookStart DEF StartHook, Kinds
  <2>2. /\ h \in HookState /\ h.pc = "done"
        /\ h.good = lastGood[u] /\ h.pend = pending[u]
    BY OpenedType DEF Kinds
  <2>3. CASE ConfigRejected
    <3>1. hook' = [hook EXCEPT ![u] = h] /\ UNCHANGED <<disk, process>>
      BY <1>4, <2>3 DEF StartHook
    <3> QED BY <2>1, <2>2, <3>1, HookWithoutChange
  <2>4. CASE ~ConfigRejected /\ ~ConfigChanged(u) /\ active[u]
    <3>1. hook' = [hook EXCEPT ![u] = h]
      BY <1>4, <2>4 DEF StartHook
    <3>2. disk' = disk
      BY <1>4, <2>4 DEF StartHook, TypeOK
    <3>3. UNCHANGED process
      BY <1>4, <2>4 DEF StartHook, process
    <3> QED BY <2>1, <2>2, <3>1, <3>2, <3>3, HookWithoutChange
  <2>5. CASE ~ConfigRejected /\ ConfigChanged(u) /\ active[u]
    <3>1. hook'[u] = Applied(u, h) /\ disk'[u] = Rendered(u) /\ u \in lapsed'
      BY <1>4, <2>5 DEF StartHook, TypeOK
    <3>2. hook'[u].pc = "done"
      BY <2>2, <3>1 DEF Applied, HookState
    <3> QED
      BY <3>1, <3>2 DEF UnitAccounted, AccountedBetweenHooks, AccountedInHook,
           RestartedFromDisk, Accounted, Between, Restarting
  <2>6. CASE ~ConfigRejected /\ ~active[u]
    <3>1. hook'[u] = g /\ disk'[u] = text /\ running'[u] = text
      BY <1>4, <2>6 DEF StartHook, Load, TypeOK
    <3>2. hook'[u].pc = "done"
      BY <2>2, <3>1 DEF Applied, HookState
    <3> QED
      BY <3>1, <3>2 DEF UnitAccounted, AccountedBetweenHooks, AccountedInHook,
           RestartedFromDisk, Accounted, Between, Restarting
  <2> QED BY <2>3, <2>4, <2>5, <2>6
<1> QED BY <1>1, <1>2, <1>3, <1>4 DEF Hook

\* A process that has just loaded the file on disk owes nothing.
LEMMA LoadedFromDisk ==
  ASSUME TypeOK, NEW u \in Units, UnitAccounted(u), Load(u, disk[u]),
         UNCHANGED <<disk, databag, config>>,
         \/ hook' = hook
         \/ hook[u].pc = "restart-self" /\ hook' = [hook EXCEPT ![u].pc = "wait-ready"]
         \/ hook' = [hook EXCEPT ![u] = Failed(u)]
         \/ hook' = [hook EXCEPT ![u] = Idle]
  PROVE  UnitAccounted(u)'
<1>1. running'[u] = disk'[u] /\ disk'[u] = disk[u] /\ lastGood' = lastGood
  BY DEF Load, TypeOK, config
<1>2. \/ hook'[u] = hook[u]
      \/ ~Between(u)'
      \/ hook'[u].pc \in {"failed", "idle"}
  BY DEF TypeOK, HookState, Between, Failed, Idle
<1> QED
  BY <1>1, <1>2 DEF UnitAccounted, AccountedBetweenHooks, AccountedInHook,
       RestartedFromDisk, Accounted, Between, Restarting

\* A hook that fails before it saved anything falls back to the stored state.
LEMMA FailedWaitAccounted ==
  ASSUME TypeOK, NEW u \in Units, UnitAccounted(u), TimeOut(u)
  PROVE  UnitAccounted(u)'
<1>1. Restarting(u) /\ hook'[u].pc = "failed"
  BY DEF TimeOut, Restarting, Failed, Idle, TypeOK
<1>2. running[u] = disk[u] \/ disk[u] = Manual
  BY <1>1 DEF UnitAccounted, RestartedFromDisk
<1>3. Accounted(u, lastGood[u], pending[u] \/ (hook[u].pend /\ hook[u].good = lastGood[u]))
  BY <1>1 DEF UnitAccounted, AccountedInHook, Between, Restarting
<1>4. lastGood[u] # Manual
  BY ManualIsNoText DEF TypeOK
<1>5. Accounted(u, lastGood[u], pending[u])
  BY <1>2, <1>3, <1>4 DEF Accounted
<1>6. UNCHANGED <<disk, process, databag, config>>
  BY DEF TimeOut
<1> QED
  BY <1>1, <1>5, <1>6 DEF UnitAccounted, AccountedBetweenHooks, AccountedInHook,
       RestartedFromDisk, Accounted, Between, Restarting, process, databag, config

\* A hook that saved StoredState and lost the databags owes what Discard notes.
LEMMA FlushLostAccounted ==
  ASSUME TypeOK, NEW u \in Units, UnitAccounted(u), hook[u].pc = "done",
         SaveStored(u), Discard(u)
  PROVE  UnitAccounted(u)'
<1>1. Accounted(u, hook[u].good, hook[u].pend)
  BY DEF UnitAccounted, AccountedInHook, Between
<1>2. hook'[u].pc = "failed" /\ lastGood'[u] = hook[u].good
  BY DEF SaveStored, Discard, Failed, Idle, TypeOK
<1>3. hook[u].pend /\ ~pending[u] => u \in lapsed'
  BY <1>2 DEF Discard
<1>4. lapsed \subseteq lapsed' /\ UNCHANGED <<disk, databag, running, active>>
  BY DEF Discard
<1> QED
  BY <1>1, <1>2, <1>3, <1>4 DEF UnitAccounted, AccountedBetweenHooks, AccountedInHook,
       RestartedFromDisk, Accounted, Between, Restarting, databag

LEMMA HookErrorAccounted ==
  ASSUME TypeOK, NEW u \in Units, UnitAccounted(u), HookError(u)
  PROVE  UnitAccounted(u)'
<1>1. Accounted(u, lastGood[u], pending[u] \/ (hook[u].pend /\ hook[u].good = lastGood[u]))
  BY DEF HookError, UnitAccounted, AccountedInHook, Between
<1>2. hook'[u].pc = "failed" /\ lastGood' = lastGood
  BY DEF HookError, Discard, Failed, Idle, TypeOK, config
<1>3. hook[u].pend /\ ~pending[u] /\ hook[u].good = lastGood[u] => u \in lapsed'
  BY <1>2 DEF HookError, Discard
<1>4. lapsed \subseteq lapsed' /\ UNCHANGED <<disk, databag, running, active>>
  BY DEF HookError, Discard
<1> QED
  BY <1>1, <1>2, <1>3, <1>4 DEF UnitAccounted, AccountedBetweenHooks, AccountedInHook,
       RestartedFromDisk, Accounted, Between, Restarting, databag

\* A hook that ends well leaves what it had buffered.
LEMMA CommitAccounted ==
  ASSUME TypeOK, NEW u \in Units, UnitAccounted(u), Commit(u)
  PROVE  UnitAccounted(u)'
<1>1. Accounted(u, hook[u].good, hook[u].pend)
  BY DEF Commit, UnitAccounted, AccountedInHook, Between
<1>2. /\ hook'[u].pc = "idle" /\ lastGood'[u] = hook[u].good
      /\ pending'[u] = hook[u].pend
  BY DEF Commit, SaveStored, Idle, TypeOK
<1>3. UNCHANGED <<disk, process>>
  BY DEF Commit
<1> QED
  BY <1>1, <1>2, <1>3 DEF UnitAccounted, AccountedBetweenHooks, AccountedInHook,
       RestartedFromDisk, Accounted, Between, Restarting, process

\* The two waits only look; the second clears the queued restart of a process
\* that runs what is on its disk.
LEMMA WaitsAccounted ==
  ASSUME TypeOK, NEW u \in Units, UnitAccounted(u),
         LocalReady(u) \/ ClusterHealthy(u)
  PROVE  UnitAccounted(u)'
<1>1. Restarting(u)
  BY DEF LocalReady, ClusterHealthy, Restarting
<1>2. running[u] = disk[u] \/ disk[u] = Manual
  BY <1>1 DEF UnitAccounted, RestartedFromDisk
<1>3. UNCHANGED <<disk, process, databag, config>>
  BY DEF LocalReady, ClusterHealthy
<1>4. /\ hook'[u].pc \in {"wait-cluster", "done"} /\ hook'[u].good = hook[u].good
      /\ hook[u].good \in Text /\ lastGood[u] \in Text
  BY DEF LocalReady, ClusterHealthy, TypeOK, HookState
<1>5. hook[u].good # Manual /\ lastGood[u] # Manual
  BY <1>4, ManualIsNoText
<1> QED
  BY <1>2, <1>3, <1>4, <1>5 DEF UnitAccounted, AccountedBetweenHooks, AccountedInHook,
       RestartedFromDisk, Accounted, Between, Restarting, process, databag, config

\* Every step of every unit and of the environment keeps every unit accounted.
LEMMA AccountedStep == TypeOK /\ RestartAccounted /\ [Next]_vars => RestartAccounted'
<1> SUFFICES ASSUME TypeOK, RestartAccounted, [Next]_vars, NEW v \in Units
             PROVE  UnitAccounted(v)'
  BY DEF RestartAccounted
<1>1. \A u \in Units : UnitAccounted(u)
  BY DEF RestartAccounted
<1>2. ASSUME NEW u \in Units, Hook(u) PROVE UnitAccounted(v)'
  BY <1>1, <1>2, HookAccounted, HookTouchesOne, UntouchedUnit
<1>3. ASSUME NEW u \in Units, Restart(u) PROVE UnitAccounted(v)'
  <2>1. CASE v = u
    BY <1>1, <1>3, <2>1, LoadedFromDisk DEF Restart
  <2>2. CASE v # u
    <3>1. Untouched(v)
      BY <1>3, <2>2 DEF Restart, Load, Untouched, databag, config, TypeOK
    <3> QED BY <1>1, <3>1, UntouchedUnit
  <2> QED BY <2>1, <2>2
<1>4. ASSUME NEW u \in Units, LocalReady(u) \/ ClusterHealthy(u)
      PROVE  UnitAccounted(v)'
  <2>1. CASE v = u
    BY <1>1, <1>4, <2>1, WaitsAccounted
  <2>2. CASE v # u
    <3>1. Untouched(v)
      BY <1>4, <2>2 DEF LocalReady, ClusterHealthy, Untouched, databag, config,
           process, TypeOK
    <3> QED BY <1>1, <3>1, UntouchedUnit
  <2> QED BY <2>1, <2>2
<1>5. ASSUME NEW u \in Units, Commit(u) PROVE UnitAccounted(v)'
  <2>1. CASE v = u
    BY <1>1, <1>5, <2>1, CommitAccounted
  <2>2. CASE v # u
    <3>1. Untouched(v)
      BY <1>5, <2>2 DEF Commit, SaveStored, Untouched, process, TypeOK
    <3> QED BY <1>1, <3>1, UntouchedUnit
  <2> QED BY <2>1, <2>2
<1>6. ASSUME NEW u \in Units, FlushRefused(u) \/ AgentDies(u) \/ HookError(u)
      PROVE  UnitAccounted(v)'
  <2>1. CASE v = u
    BY <1>1, <1>6, <2>1, FlushLostAccounted, HookErrorAccounted
       DEF FlushRefused, AgentDies
  <2>2. CASE v # u
    <3>1. Discard(u) /\ (SaveStored(u) \/ UNCHANGED config)
      BY <1>6 DEF FlushRefused, AgentDies, HookError
    <3>2. lastGood'[v] = lastGood[v]
      BY <2>2, <3>1 DEF SaveStored, config, TypeOK
    <3>3. Untouched(v)
      BY <2>2, <3>1, <3>2 DEF Discard, Untouched, databag, TypeOK
    <3> QED BY <1>1, <3>3, UntouchedUnit
  <2> QED BY <2>1, <2>2
<1>7. ASSUME NEW u \in Units, WaitFails(u) \/ WaitTimeout(u)
      PROVE  UnitAccounted(v)'
  <2>1. TimeOut(u)
    BY <1>7 DEF WaitFails, WaitTimeout
  <2>2. CASE v = u
    BY <1>1, <2>1, <2>2, FailedWaitAccounted
  <2>3. CASE v # u
    <3>1. Untouched(v)
      BY <2>1, <2>3 DEF TimeOut, Untouched, databag, config, process, TypeOK
    <3> QED BY <1>1, <3>1, UntouchedUnit
  <2> QED BY <2>2, <2>3
<1>8. ASSUME NEW u \in Units,
             \/ Reconfigure \/ StorageOutage \/ StorageRestored
             \/ LosesReady(u) \/ BecomesReady(u) \/ Elect(u)
      PROVE  UnitAccounted(v)'
  <2>1. Untouched(v)
    BY <1>8 DEF Reconfigure, StorageOutage, StorageRestored, LosesReady,
         BecomesReady, Elect, Untouched, databag, config, process, TypeOK
  <2> QED BY <1>1, <2>1, UntouchedUnit
<1>9. ASSUME NEW u \in Units, ManualEdit(u) PROVE UnitAccounted(v)'
  <2>1. CASE v = u
    <3>1. disk'[u] = Manual /\ UNCHANGED <<hook, process, databag, config>>
      BY <1>9 DEF ManualEdit, TypeOK
    <3>2. lastGood[u] # Manual /\ hook[u].good # Manual
      BY ManualIsNoText DEF TypeOK, HookState
    <3> QED
      BY <1>1, <2>1, <3>1, <3>2 DEF UnitAccounted, AccountedBetweenHooks,
         AccountedInHook, RestartedFromDisk, Accounted, Between, Restarting,
         process, databag, config
  <2>2. CASE v # u
    <3>1. Untouched(v)
      BY <1>9, <2>2 DEF ManualEdit, Untouched, databag, config, process, TypeOK
    <3> QED BY <1>1, <3>1, UntouchedUnit
  <2> QED BY <2>1, <2>2
<1>10. ASSUME NEW u \in Units, ServiceRecovers(u) \/ Reboot(u)
       PROVE  UnitAccounted(v)'
  <2>1. Load(u, disk[u]) /\ UNCHANGED <<disk, databag, config>>
    BY <1>10 DEF ServiceRecovers, Reboot
  <2>2. \/ hook' = hook
        \/ hook' = [hook EXCEPT ![u] = Failed(u)]
        \/ hook' = [hook EXCEPT ![u] = Idle]
    BY <1>10 DEF ServiceRecovers, Reboot
  <2>3. CASE v = u
    BY <1>1, <2>1, <2>2, <2>3, LoadedFromDisk
  <2>4. CASE v # u
    <3>1. Untouched(v)
      BY <2>1, <2>2, <2>4 DEF Load, Untouched, databag, config, TypeOK
    <3> QED BY <1>1, <3>1, UntouchedUnit
  <2> QED BY <2>3, <2>4
<1>11. ASSUME NEW u \in Units, Crash(u) \/ Depart(u) PROVE UnitAccounted(v)'
  <2>1. CASE v = u
    <3>1. active'[u] = FALSE /\ UNCHANGED <<hook, disk, running>>
      BY <1>11 DEF Crash, Depart, TypeOK
    <3> QED
      BY <1>1, <2>1, <3>1 DEF UnitAccounted, AccountedBetweenHooks,
         AccountedInHook, RestartedFromDisk, Accounted, Between, Restarting
  <2>2. CASE v # u
    <3>1. Untouched(v)
      BY <1>11, <2>2 DEF Crash, Depart, Untouched, databag, config, TypeOK
    <3> QED BY <1>1, <3>1, UntouchedUnit
  <2> QED BY <2>1, <2>2
<1>12. CASE UNCHANGED vars
  <2>1. Untouched(v)
    BY <1>12 DEF vars, Untouched, databag, config, process
  <2> QED BY <1>1, <2>1, UntouchedUnit
<1> QED
  BY <1>2, <1>3, <1>4, <1>5, <1>6, <1>7, <1>8, <1>9, <1>10, <1>11, <1>12,
     LeaderAssumption
  DEF Next, Environment, Progress

LEMMA AccountedInit == Init => RestartAccounted
BY DEF Init, RestartAccounted, UnitAccounted, AccountedBetweenHooks, AccountedInHook,
       RestartedFromDisk, Accounted, Between, Restarting, Idle

\* RestartAccounted holds throughout: with it, the stored and the buffered view
\* of every unit explain every process that does not run its accepted config.
THEOREM RestartsAccounted == Spec => []RestartAccounted
<1>1. Init => TypeOK /\ RestartAccounted
  BY TypeInit, AccountedInit
<1>2. TypeOK /\ RestartAccounted /\ [Next]_vars => (TypeOK /\ RestartAccounted)'
  BY TypeStep, AccountedStep
<1> QED BY <1>1, <1>2, PTL DEF Spec

\* A unit between hooks never runs a config other than the accepted one with no
\* restart queued and no drift to show for it, unless a lossy event took it.
THEOREM NoRestartIsLost == Spec => []NoLostRestart
<1>1. TypeOK /\ RestartAccounted => NoLostRestart
  BY DEF RestartAccounted, UnitAccounted, AccountedBetweenHooks, Accounted,
     Between, NoLostRestart, TypeOK
<1> QED BY <1>1, TypeCorrect, RestartsAccounted, PTL

-----------------------------------------------------------------------------
(***************************************************************************)
(* Who takes a queued restart back, and when.                              *)
(***************************************************************************)

\* A hook that is about to take back the published flag has seen its process
\* load what is on the disk.
FlagDue(u) ==
  ~Between(u) /\ pending[u] /\ ~hook[u].pend => running[u] = disk[u] \/ disk[u] = Manual

FlagsDue == \A u \in Units : FlagDue(u)

LEMMA UntouchedFlag ==
  ASSUME NEW v \in Units, FlagDue(v), Untouched(v)
  PROVE  FlagDue(v)'
BY DEF Untouched, FlagDue, Between

\* _configure and the rolling-restart decision only ever set the flag.
LEMMA RuntimeKeepsFlag ==
  ASSUME TypeOK, NEW u \in Units, NEW h \in HookState, h.pc = "done", h.pend = pending[u],
         ReconcileRuntime(u, h)
  PROVE  pending[u] => hook'[u].pend
<1> DEFINE a == Applied(u, h)
           p == [a EXCEPT !.pend = TRUE]
<1>1. a \in HookState /\ a.pc = "done" /\ a.pend = h.pend
  BY RenderedType DEF Applied, HookState
<1>2. p \in HookState /\ p.pc = "done" /\ p.pend = TRUE
  BY <1>1 DEF HookState
<1>3. PICK g \in {h, Rolled(u, h), Rolled(u, p), a} : hook' = [hook EXCEPT ![u] = g]
  BY DEF ReconcileRuntime
<1>4. Rolled(u, h).pend = h.pend /\ Rolled(u, p).pend = p.pend
  BY <1>2, RolledShape
<1>5. hook'[u] = g
  BY <1>3 DEF TypeOK
<1> HIDE DEF a, p
<1> QED
  BY <1>1, <1>2, <1>3, <1>4, <1>5

LEMMA RollKeepsFlag ==
  ASSUME TypeOK, NEW u \in Units, NEW h \in HookState, h.pc = "done", h.pend = pending[u],
         RollUnlessDrifted(u, h)
  PROVE  pending[u] => hook'[u].pend
<1>1. PICK g \in {h, Rolled(u, h)} : hook' = [hook EXCEPT ![u] = g]
  BY DEF RollUnlessDrifted
<1>2. hook'[u] = g
  BY <1>1 DEF TypeOK
<1>3. Rolled(u, h).pend = h.pend
  BY RolledShape
<1>4. g.pend = pending[u]
  BY <1>3
<1> QED
  BY <1>2, <1>4

LEMMA HookKeepsFlag ==
  ASSUME TypeOK, NEW u \in Units, Hook(u)
  PROVE  pending[u] => hook'[u].pend
<1>1. CASE RuntimeHook(u)
  <2> DEFINE h == Opened(u, "runtime")
  <2>1. h \in HookState /\ h.pc = "done" /\ h.pend = pending[u]
    BY OpenedType DEF Kinds
  <2>2. ReconcileRuntime(u, h)
    BY <1>1 DEF RuntimeHook
  <2> HIDE DEF h
  <2> QED
    BY <2>1, <2>2, RuntimeKeepsFlag
<1>2. CASE ReplicasHook(u)
  <2> DEFINE h == Opened(u, "replicas")
             s == [h EXCEPT !.seen = members]
  <2>1. h \in HookState /\ h.pc = "done" /\ h.pend = pending[u]
    BY OpenedType DEF Kinds
  <2>2. s \in HookState /\ s.pc = "done" /\ s.pend = pending[u]
    BY <2>1 DEF HookState, TypeOK
  <2>3. ReconcileRuntime(u, s) \/ RollUnlessDrifted(u, h)
    BY <1>2 DEF ReplicasHook
  <2> HIDE DEF h, s
  <2> QED
    BY <2>1, <2>2, <2>3, RuntimeKeepsFlag, RollKeepsFlag
<1>3. CASE UpdateStatusHook(u)
  <2> DEFINE h == Opened(u, "status")
             d == IF storageOk /\ active[u]
                    THEN [h EXCEPT !.drift = (disk[u] # lastGood[u])]
                    ELSE h
  <2>1. h \in HookState /\ h.pc = "done" /\ h.pend = pending[u]
    BY OpenedType DEF Kinds
  <2>2. d \in HookState /\ d.pc = "done" /\ d.pend = pending[u]
    BY <2>1 DEF HookState
  <2>3. RollUnlessDrifted(u, d)
    BY <1>3 DEF UpdateStatusHook
  <2> HIDE DEF d
  <2> QED
    BY <2>2, <2>3, RollKeepsFlag
<1>4. CASE StartHook(u)
  <2> DEFINE h == Opened(u, "start")
  <2>1. h \in HookState /\ h.pend = pending[u]
    BY OpenedType DEF Kinds
  <2>2. Applied(u, h).pend = h.pend
    BY <2>1 DEF Applied, HookState
  <2>3. hook'[u] \in {h, Applied(u, h)}
    BY <1>4 DEF StartHook, TypeOK
  <2> HIDE DEF h
  <2> QED
    BY <2>1, <2>2, <2>3
<1> QED
  BY <1>1, <1>2, <1>3, <1>4 DEF Hook

LEMMA FlagStep == TypeOK /\ RestartAccounted /\ FlagsDue /\ [Next]_vars => FlagsDue'
<1> SUFFICES ASSUME TypeOK, RestartAccounted, FlagsDue, [Next]_vars, NEW v \in Units
             PROVE  FlagDue(v)'
  BY DEF FlagsDue
<1>1. \A u \in Units : FlagDue(u) /\ RestartedFromDisk(u)
  BY DEF FlagsDue, RestartAccounted, UnitAccounted
<1>2. ASSUME NEW u \in Units, Hook(u) PROVE FlagDue(v)'
  <2>1. CASE v = u
    <3>1. pending' = pending
      BY <1>2 DEF Hook, RuntimeHook, ReplicasHook, UpdateStatusHook, StartHook, databag
    <3> QED BY <1>2, <2>1, <3>1, HookKeepsFlag DEF FlagDue
  <2>2. CASE v # u
    BY <1>1, <1>2, <2>2, HookTouchesOne, UntouchedFlag
  <2> QED BY <2>1, <2>2
<1>3. ASSUME NEW u \in Units, Restart(u) \/ ServiceRecovers(u) \/ Reboot(u)
      PROVE  FlagDue(v)'
  <2>1. Load(u, disk[u]) /\ UNCHANGED <<disk, databag, config>>
    BY <1>3 DEF Restart, ServiceRecovers, Reboot
  <2>2. \E g : hook' = [hook EXCEPT ![u] = g] \/ hook' = hook
    BY <1>3 DEF Restart, ServiceRecovers, Reboot
  <2>3. CASE v = u
    BY <2>1, <2>3 DEF Load, FlagDue, TypeOK
  <2>4. CASE v # u
    <3>1. Untouched(v)
      BY <2>1, <2>2, <2>4 DEF Load, Untouched, databag, config, TypeOK
    <3> QED BY <1>1, <3>1, UntouchedFlag
  <2> QED BY <2>3, <2>4
<1>4. ASSUME NEW u \in Units, LocalReady(u) \/ ClusterHealthy(u)
      PROVE  FlagDue(v)'
  <2>1. CASE v = u
    <3>1. running[u] = disk[u] \/ disk[u] = Manual
      BY <1>1, <1>4 DEF LocalReady, ClusterHealthy, RestartedFromDisk, Restarting
    <3> QED BY <1>4, <2>1, <3>1 DEF LocalReady, ClusterHealthy, FlagDue, process
  <2>2. CASE v # u
    <3>1. Untouched(v)
      BY <1>4, <2>2 DEF LocalReady, ClusterHealthy, Untouched, databag, config,
           process, TypeOK
    <3> QED BY <1>1, <3>1, UntouchedFlag
  <2> QED BY <2>1, <2>2
<1>5. ASSUME NEW u \in Units,
             \/ Commit(u) \/ FlushRefused(u) \/ AgentDies(u) \/ HookError(u)
             \/ WaitFails(u) \/ WaitTimeout(u)
      PROVE  FlagDue(v)'
  <2>1. CASE v = u
    <3>1. hook'[u].pc \in {"idle", "failed"}
      <4>1. hook' = [hook EXCEPT ![u] = Idle] \/ hook' = [hook EXCEPT ![u] = Failed(u)]
        BY <1>5 DEF Commit, FlushRefused, AgentDies, HookError, Discard, WaitFails,
           WaitTimeout, TimeOut
      <4>2. Idle.pc = "idle" /\ Failed(u).pc = "failed"
        BY DEF Idle, Failed
      <4> QED
        BY <4>1, <4>2 DEF TypeOK
    <3> QED BY <2>1, <3>1 DEF FlagDue, Between
  <2>2. CASE v # u
    <3>1. /\ hook'[v] = hook[v] /\ pending'[v] = pending[v]
          /\ running'[v] = running[v] /\ disk'[v] = disk[v]
      BY <1>5, <2>2 DEF Commit, FlushRefused, AgentDies, HookError, Discard, WaitFails,
         WaitTimeout, TimeOut, databag, process, TypeOK
    <3> QED BY <1>1, <3>1 DEF FlagDue, Between
  <2> QED BY <2>1, <2>2
<1>6. ASSUME NEW u \in Units,
             \/ Reconfigure \/ StorageOutage \/ StorageRestored
             \/ LosesReady(u) \/ BecomesReady(u) \/ Elect(u) \/ Crash(u)
      PROVE  FlagDue(v)'
  <2>1. UNCHANGED <<hook, pending, running, disk>>
    BY <1>6 DEF Reconfigure, StorageOutage, StorageRestored, LosesReady,
         BecomesReady, Elect, Crash, databag, process
  <2> QED BY <1>1, <2>1 DEF FlagDue, Between
<1>7. ASSUME NEW u \in Units, ManualEdit(u) PROVE FlagDue(v)'
  <2>1. disk'[v] \in {Manual, disk[v]} /\ UNCHANGED <<hook, pending, running>>
    BY <1>7 DEF ManualEdit, databag, process, TypeOK
  <2> QED BY <1>1, <2>1 DEF FlagDue, Between
<1>8. ASSUME NEW u \in Units, Depart(u) PROVE FlagDue(v)'
  <2>1. (pending'[v] => pending[v]) /\ UNCHANGED <<hook, running, disk>>
    BY <1>8 DEF Depart, TypeOK
  <2> QED BY <1>1, <2>1 DEF FlagDue, Between
<1>9. CASE UNCHANGED vars
  BY <1>1, <1>9 DEF vars, FlagDue, Between, databag, process
<1> QED
  BY <1>2, <1>3, <1>4, <1>5, <1>6, <1>7, <1>8, <1>9, LeaderAssumption
  DEF Next, Environment, Progress

\* A flag goes down only in the hook of its own unit that ends well, or with
\* the unit itself.
LEMMA FlagDown ==
  ASSUME TypeOK, FlagsDue, [Next]_vars, NEW v \in members, v \in members',
         pending[v], ~pending'[v]
  PROVE  running[v] = disk[v] \/ disk[v] = Manual
<1>1. v \in Units
  BY DEF TypeOK
<1>2. CASE Next
  <2>1. CASE \E u \in Units : Commit(u)
    <3>1. PICK u \in Units : Commit(u)
      BY <2>1
    <3>2. v = u /\ ~hook[u].pend /\ hook[u].pc = "done"
      BY <1>1, <3>1 DEF Commit, TypeOK, HookState
    <3> QED BY <1>1, <3>2 DEF FlagsDue, FlagDue, Between
  <2>2. CASE \E u \in Units : Depart(u)
    <3>1. PICK u \in Units : Depart(u)
      BY <2>2
    <3>2. v = u
      BY <1>1, <3>1 DEF Depart, TypeOK
    <3> QED BY <3>1, <3>2 DEF Depart
  <2>3. CASE Environment /\ ~\E u \in Units : Depart(u)
    <3>1. pending' = pending
      BY <2>3 DEF Environment, Reconfigure, StorageOutage, StorageRestored, ManualEdit,
         LosesReady, Crash, Reboot, Elect, BecomesReady, ServiceRecovers, databag
    <3> QED BY <3>1
  <2>4. CASE \E u \in Units : \/ Hook(u) \/ Restart(u) \/ LocalReady(u) \/ ClusterHealthy(u)
                              \/ FlushRefused(u) \/ WaitFails(u) \/ AgentDies(u)
                              \/ WaitTimeout(u) \/ HookError(u)
    <3>1. pending' = pending
      BY <2>4 DEF Hook, RuntimeHook, ReplicasHook, UpdateStatusHook, StartHook, Restart,
         LocalReady, ClusterHealthy, FlushRefused, WaitFails, AgentDies, WaitTimeout,
         HookError, Discard, TimeOut, databag
    <3> QED BY <3>1
  <2> QED BY <1>2, <2>1, <2>2, <2>3, <2>4 DEF Next, Progress
<1>3. CASE UNCHANGED vars
  BY <1>3 DEF vars, databag
<1> QED BY <1>2, <1>3

LEMMA FlagInit == Init => FlagsDue
BY DEF Init, FlagsDue, FlagDue, Between, Idle

\* The published flag of a unit is taken back only when its process has loaded
\* what is on its disk (or an operator has edited that since), through every
\* failed hook, retry, election and reboot.
THEOREM FlagClearedByRestart == Spec => PendingClearedByRestart
<1>1. TypeOK /\ FlagsDue /\ [Next]_vars =>
        [\A u \in members \cap members' : pending[u] /\ ~pending'[u] =>
           running[u] = disk[u] \/ disk[u] = Manual]_vars
  BY FlagDown
<1>2. TypeOK /\ RestartAccounted /\ FlagsDue /\ [Next]_vars => FlagsDue'
  BY FlagStep
<1> QED
  BY <1>1, <1>2, FlagInit, TypeCorrect, RestartsAccounted, PTL
     DEF Spec, PendingClearedByRestart
=============================================================================
