------------------------- MODULE RollingTurnProofs -------------------------
(***************************************************************************)
(* Whose turn it is to restart: RestartExclusive and BrokenContained, for   *)
(* every number of units, of failures, of timeouts and of reboots, as long  *)
(* as the configuration changes once and the leader stays.                  *)
(***************************************************************************)
EXTENDS RollingRestartProofs

-----------------------------------------------------------------------------
(***************************************************************************)
(* The inductive invariant.                                                *)
(***************************************************************************)
Changes == {"change", "edit", "depart"}

\* One event that makes some unit render another text than the one it runs.
OneRollout ==
  /\ Budget["election"] = 0
  /\ Budget["change"] + Budget["edit"] + Budget["depart"] <= 1

EventsLeft ==
  /\ budget["election"] = 0
  /\ budget["change"] + budget["edit"] + budget["depart"] <= 1

\* Nothing changes the configuration any more.
Quiet == \A e \in Changes : budget[e] = 0

Underway(u) == ~Between(u)
InTurn(u) == hook[u].pc \in {"restart-self", "wait-ready", "wait-cluster"}

\* _configure finds nothing to apply.
UpToDate(u) == ~ConfigChanged(u)

\* The hook will leave the unit up to date.
Prepared(u) ==
  hook[u].good = Rendered(u) /\ disk[u] = Rendered(u) /\ ~hook[u].drift

Untroubled(u) ==
  /\ UpToDate(u) /\ ~pending[u]
  /\ Underway(u) => Prepared(u) /\ ~hook[u].pend /\ ~hook[u].wrote

\* Until the change comes nobody queues and nobody is elected.
BeforeChange ==
  ~Quiet => target = NoUnit /\ \A u \in Units : Untroubled(u)

\* A unit queues once: from then on it finds nothing to apply.
QueuedOnce(u) == pending[u] => UpToDate(u) /\ u \in members

TargetQueuedOnce == target # NoUnit => UpToDate(target)

\* What the leader writes: it leaves a target only when that has restarted, for
\* one that is queued or for itself.
Election(u) ==
  hook[u].wrote =>
    /\ u = leader
    /\ target # NoUnit => ~pending[target]
    /\ hook[u].tgt # NoUnit =>
         IF hook[u].tgt = u THEN Prepared(u) ELSE pending[hook[u].tgt]

\* A hook restarts its unit only as the target that the databag names, or that
\* the hook itself has elected.
Turn(u) ==
  InTurn(u) => hook[u].pend /\ (target = u \/ (hook[u].wrote /\ hook[u].tgt = u))

HookTurn(u) ==
  Underway(u) =>
    /\ u \in members
    /\ UpToDate(u) \/ hook[u].pend => Prepared(u)
    /\ hook[u].pend /\ target = u => pending[u]
    /\ pending[u] /\ ~hook[u].pend => target = u \/ hook[u].wrote
    /\ Election(u)
    /\ Turn(u)

TurnInv ==
  /\ EventsLeft
  /\ BeforeChange
  /\ TargetQueuedOnce
  /\ \A u \in Units : QueuedOnce(u) /\ HookTurn(u)

\* Nobody else restarts while a unit is in turn: the target of the databag is
\* queued, and a leader that elects itself has seen its restart.
LEMMA TurnIsExclusive == TypeOK /\ TurnInv => RestartExclusive
<1> SUFFICES ASSUME TypeOK, TurnInv, NEW u \in Units, NEW v \in Units,
                    Restarting(u), Restarting(v)
             PROVE  u = v
  BY DEF RestartExclusive
<1>1. \A w \in {u, v} : InTurn(w) /\ Underway(w) /\ HookTurn(w)
  BY DEF Restarting, InTurn, Underway, Between, TurnInv
<1>2. \A w \in {u, v} : hook[w].pend /\ (target = w \/ hook[w].wrote)
  BY <1>1 DEF HookTurn, Turn
<1>3. \A w \in {u, v} : target = w => pending[w]
  BY <1>1, <1>2 DEF HookTurn
<1>4. \A w \in {u, v} : hook[w].wrote => w = leader /\ (target # NoUnit => ~pending[target])
  BY <1>1 DEF HookTurn, Election
<1> QED
  BY <1>2, <1>3, <1>4, NoUnitAssumption

-----------------------------------------------------------------------------
(***************************************************************************)
(* How a hook begins.                                                      *)
(***************************************************************************)

\* The decision of _advance_rolling_restart, as the hook has it in memory.
Elects(u, g) ==
  g.wrote =>
    /\ u = leader
    /\ Healthy(members)
    /\ target \notin PendingUnits(u, g.pend)
    /\ g.tgt \in {NoUnit} \cup PendingUnits(u, g.pend)
    /\ g.tgt # target

TakesTurn(u, g) ==
  g.pc = "restart-self" => g.pend /\ (target = u \/ (g.wrote /\ g.tgt = u))

LEMMA RolledTurn ==
  ASSUME TypeOK, NEW u \in Units, NEW h \in HookState, h.pc = "done", ~h.wrote
  PROVE  /\ Rolled(u, h).drift = h.drift
         /\ Elects(u, Rolled(u, h))
         /\ TakesTurn(u, Rolled(u, h))
<1> DEFINE queue == PendingUnits(u, h.pend)
           t == IF u = leader THEN Advanced(u, h.pend) ELSE target
           g == [h EXCEPT !.tgt = t, !.wrote = (t # target),
                          !.pc = IF t = u /\ h.pend THEN "restart-self" ELSE "done"]
<1>1. CASE ~Clustered
  <2>1. Rolled(u, h) = h
    BY <1>1 DEF Rolled
  <2> QED
    BY <2>1 DEF Elects, TakesTurn
<1>2. CASE Clustered
  <2>1. Rolled(u, h) = g
    BY <1>2 DEF Rolled
  <2>2. /\ g.drift = h.drift /\ g.tgt = t /\ g.wrote = (t # target) /\ g.pend = h.pend
        /\ g.pc = IF t = u /\ h.pend THEN "restart-self" ELSE "done"
    BY DEF HookState
  <2>3. queue \subseteq Units
    BY DEF PendingUnits, TypeOK
  <2>4. queue # {} => FirstPending(u, queue) \in queue
    <3>1. queue \ {u} # {} => Min(queue \ {u}) \in queue \ {u}
      BY <2>3, MinIsLeast, UnitsAssumption
    <3> QED
      BY <3>1 DEF FirstPending
  <2>5. t # target => /\ u = leader /\ Healthy(members) /\ target \notin queue
                      /\ t \in {NoUnit} \cup queue
    BY <2>4 DEF Advanced
  <2> HIDE DEF t, g, queue
  <2>6. Elects(u, g)
    BY <2>2, <2>5 DEF Elects, queue
  <2>7. TakesTurn(u, g)
    BY <2>2 DEF TakesTurn
  <2> QED
    BY <2>1, <2>2, <2>6, <2>7
<1> QED
  BY <1>1, <1>2

\* What a hook of u has buffered, and left on the disk, when it waits or ends.
Opens(u) ==
  LET g == hook'[u] IN
  /\ g.pc \in {"restart-self", "done"}
  /\ \/ g.pend = pending[u] /\ g.good = lastGood[u] /\ g.drift = drifted[u]
     \/ /\ ~UpToDate(u)
        /\ disk'[u] = Rendered(u) /\ g.good = Rendered(u) /\ ~g.drift
        /\ pending[u] => g.pend
     \/ ~UpToDate(u) /\ g.pend = pending[u] /\ g.good = lastGood[u] /\ disk' = disk
  /\ UpToDate(u) => disk' = disk
  /\ disk'[u] # disk[u] => g.good = Rendered(u) /\ disk'[u] = Rendered(u) /\ ~g.drift
  /\ Elects(u, g)
  /\ TakesTurn(u, g)

LEMMA RuntimeOpens ==
  ASSUME TypeOK, NEW u \in Units, NEW h \in HookState, h.pc = "done", ~h.wrote,
         h.good = lastGood[u], h.pend = pending[u], h.drift = drifted[u],
         ReconcileRuntime(u, h)
  PROVE  Opens(u)
<1> DEFINE a == Applied(u, h)
           p == [a EXCEPT !.pend = TRUE]
<1>1. /\ a \in HookState /\ a.pc = "done" /\ ~a.wrote /\ a.pend = h.pend
      /\ a.good = Rendered(u) /\ ~a.drift
  BY RenderedType DEF Applied, HookState
<1>2. /\ p \in HookState /\ p.pc = "done" /\ ~p.wrote /\ p.pend
      /\ p.good = Rendered(u) /\ ~p.drift
  BY <1>1 DEF HookState
<1>3. /\ Elects(u, h) /\ TakesTurn(u, h) /\ Elects(u, a) /\ TakesTurn(u, a)
  BY <1>1 DEF Elects, TakesTurn
<1> HIDE DEF a, p
<1>4. CASE ConfigRejected
  <2>1. hook' = [hook EXCEPT ![u] = h] /\ disk' = disk
    BY <1>4 DEF ReconcileRuntime
  <2>2. hook'[u] = h
    BY <2>1 DEF TypeOK
  <2> QED
    BY <1>3, <2>1, <2>2 DEF Opens
<1>5. CASE ~ConfigRejected /\ ~ConfigChanged(u)
  <2>1. hook' = [hook EXCEPT ![u] = Rolled(u, h)] /\ disk' = disk
    BY <1>5 DEF ReconcileRuntime
  <2>2. hook'[u] = Rolled(u, h)
    BY <2>1 DEF TypeOK
  <2> QED
    BY <2>1, <2>2, RolledShape, RolledTurn DEF Opens
<1>6. CASE ~ConfigRejected /\ ConfigChanged(u) /\ Clustered
  <2>1. hook' = [hook EXCEPT ![u] = Rolled(u, p)]
    BY <1>6 DEF ReconcileRuntime, a, p
  <2>2. disk' = [disk EXCEPT ![u] = Rendered(u)]
    BY <1>6 DEF ReconcileRuntime, WriteConfig
  <2>3. hook'[u] = Rolled(u, p) /\ disk'[u] = Rendered(u)
    BY <2>1, <2>2 DEF TypeOK
  <2> QED
    BY <1>2, <1>6, <2>3, RolledShape, RolledTurn DEF Opens, UpToDate
<1>7. CASE ~ConfigRejected /\ ConfigChanged(u) /\ ~Clustered
  <2>1. hook' = [hook EXCEPT ![u] = a]
    BY <1>7 DEF ReconcileRuntime, a
  <2>2. disk' = [disk EXCEPT ![u] = Rendered(u)]
    BY <1>7 DEF ReconcileRuntime, WriteConfig
  <2>3. hook'[u] = a /\ disk'[u] = Rendered(u)
    BY <2>1, <2>2 DEF TypeOK
  <2> QED
    BY <1>1, <1>3, <1>7, <2>3 DEF Opens, UpToDate
<1> QED
  BY <1>4, <1>5, <1>6, <1>7

LEMMA RollOpens ==
  ASSUME TypeOK, NEW u \in Units, NEW h \in HookState, h.pc = "done", ~h.wrote,
         h.good = lastGood[u], h.pend = pending[u], UpToDate(u) => ~h.drift,
         RollUnlessDrifted(u, h)
  PROVE  Opens(u)
<1>1. PICK g \in {h, Rolled(u, h)} : hook' = [hook EXCEPT ![u] = g]
  BY DEF RollUnlessDrifted
<1>2. disk' = disk
  BY DEF RollUnlessDrifted
<1>3. hook'[u] = g
  BY <1>1 DEF TypeOK
<1>4. /\ g.pc \in {"restart-self", "done"} /\ g.good = lastGood[u]
      /\ g.pend = pending[u] /\ g.drift = h.drift
  <2>1. /\ Rolled(u, h).pc \in {"restart-self", "done"}
        /\ Rolled(u, h).good = h.good /\ Rolled(u, h).pend = h.pend
        /\ Rolled(u, h).drift = h.drift
    BY RolledShape, RolledTurn
  <2>2. CASE g = h
    BY <2>2
  <2>3. CASE g = Rolled(u, h)
    BY <2>1, <2>3
  <2> QED
    BY <2>2, <2>3
<1>5. Elects(u, g) /\ TakesTurn(u, g)
  <2>1. Elects(u, h) /\ TakesTurn(u, h)
    BY DEF Elects, TakesTurn
  <2> QED
    BY <2>1, RolledTurn
<1>6. UpToDate(u) => drifted[u] = FALSE
  BY DEF UpToDate, ConfigChanged, TypeOK
<1>7. UpToDate(u) => g.drift = drifted[u]
  BY <1>4, <1>6 DEF HookState
<1> QED
  BY <1>2, <1>3, <1>4, <1>5, <1>7 DEF Opens

\* A hook opens with what is stored, and changes nothing that another unit sees.
LEMMA HookOpens ==
  ASSUME TypeOK, NEW u \in Units, Hook(u)
  PROVE  /\ Opens(u)
         /\ u \in members
         /\ UNCHANGED <<world, databag, config, budget>>
<1>1. u \in members
  BY DEF Hook, RuntimeHook, ReplicasHook, UpdateStatusHook, StartHook, CanRun
<1>2. UNCHANGED <<world, databag, config, budget>>
  BY DEF Hook, RuntimeHook, ReplicasHook, UpdateStatusHook, StartHook
<1>3. ASSUME NEW kind \in Kinds
      PROVE  /\ Opened(u, kind) \in HookState
             /\ Opened(u, kind).pc = "done" /\ ~Opened(u, kind).wrote
             /\ Opened(u, kind).good = lastGood[u]
             /\ Opened(u, kind).pend = pending[u]
             /\ Opened(u, kind).drift = drifted[u]
  BY OpenedType DEF Opened
<1>4. CASE RuntimeHook(u)
  <2> DEFINE h == Opened(u, "runtime")
  <2>1. /\ h \in HookState /\ h.pc = "done" /\ ~h.wrote /\ h.good = lastGood[u]
        /\ h.pend = pending[u] /\ h.drift = drifted[u]
    BY <1>3 DEF Kinds
  <2>2. ReconcileRuntime(u, h)
    BY <1>4 DEF RuntimeHook
  <2> HIDE DEF h
  <2> QED
    BY <1>1, <1>2, <2>1, <2>2, RuntimeOpens
<1>5. CASE ReplicasHook(u)
  <2> DEFINE h == Opened(u, "replicas")
             s == [h EXCEPT !.seen = members]
  <2>1. /\ h \in HookState /\ h.pc = "done" /\ ~h.wrote /\ h.good = lastGood[u]
        /\ h.pend = pending[u] /\ h.drift = drifted[u]
    BY <1>3 DEF Kinds
  <2>2. /\ s \in HookState /\ s.pc = "done" /\ ~s.wrote /\ s.good = lastGood[u]
        /\ s.pend = pending[u] /\ s.drift = drifted[u]
    BY <2>1 DEF HookState, TypeOK
  <2>3. ReconcileRuntime(u, s) \/ RollUnlessDrifted(u, h)
    BY <1>5 DEF ReplicasHook
  <2>4. UpToDate(u) => ~drifted[u]
    BY DEF UpToDate, ConfigChanged
  <2> HIDE DEF h, s
  <2> QED
    BY <1>1, <1>2, <2>1, <2>2, <2>3, <2>4, RuntimeOpens, RollOpens
<1>6. CASE UpdateStatusHook(u)
  <2> DEFINE h == Opened(u, "status")
             d == IF storageOk /\ active[u]
                    THEN [h EXCEPT !.drift = (disk[u] # lastGood[u])]
                    ELSE h
  <2>1. /\ h \in HookState /\ h.pc = "done" /\ ~h.wrote /\ h.good = lastGood[u]
        /\ h.pend = pending[u] /\ h.drift = drifted[u]
    BY <1>3 DEF Kinds
  <2>2. UpToDate(u) => ~drifted[u] /\ disk[u] = lastGood[u]
    BY DEF UpToDate, ConfigChanged
  <2>3. /\ d \in HookState /\ d.pc = "done" /\ ~d.wrote /\ d.good = lastGood[u]
        /\ d.pend = pending[u] /\ (UpToDate(u) => ~d.drift)
    BY <2>1, <2>2 DEF HookState
  <2>4. RollUnlessDrifted(u, d)
    BY <1>6 DEF UpdateStatusHook
  <2> HIDE DEF d
  <2> QED
    BY <1>1, <1>2, <2>3, <2>4, RollOpens
<1>7. CASE StartHook(u)
  <2> DEFINE h == Opened(u, "start")
             a == Applied(u, h)
             text == IF ConfigChanged(u) THEN Rendered(u) ELSE disk[u]
             g == IF ConfigChanged(u) THEN a ELSE h
  <2>1. /\ h \in HookState /\ h.pc = "done" /\ ~h.wrote /\ h.good = lastGood[u]
        /\ h.pend = pending[u] /\ h.drift = drifted[u]
    BY <1>3 DEF Kinds
  <2>2. /\ a.pc = "done" /\ ~a.wrote /\ a.good = Rendered(u) /\ a.pend = pending[u]
        /\ ~a.drift
    BY <2>1, RenderedType DEF Applied, HookState
  <2>3. Elects(u, h) /\ TakesTurn(u, h) /\ Elects(u, a) /\ TakesTurn(u, a)
    BY <2>1, <2>2 DEF Elects, TakesTurn
  <2>4. CASE ConfigRejected
    <3>1. hook'[u] = h /\ disk' = disk
      BY <1>7, <2>4 DEF StartHook, TypeOK
    <3> QED
      BY <1>1, <1>2, <2>1, <2>3, <3>1 DEF Opens
  <2>5. CASE ~ConfigRejected /\ ~ConfigChanged(u)
    <3>1. hook'[u] = h /\ disk' = disk
      BY <1>7, <2>5 DEF StartHook, TypeOK
    <3> QED
      BY <1>1, <1>2, <2>1, <2>3, <3>1 DEF Opens
  <2>6. CASE ~ConfigRejected /\ ConfigChanged(u)
    <3>1. hook'[u] = a /\ disk'[u] = Rendered(u)
      BY <1>7, <2>6 DEF StartHook, TypeOK
    <3> QED
      BY <1>1, <1>2, <2>2, <2>3, <2>6, <3>1 DEF Opens, UpToDate
  <2> QED
    BY <2>4, <2>5, <2>6
<1> QED
  BY <1>1, <1>2, <1>4, <1>5, <1>6, <1>7 DEF Hook

-----------------------------------------------------------------------------
(***************************************************************************)
(* The environment's budget only falls, and one change spends it.          *)
(***************************************************************************)
LEMMA SpendFalls ==
  ASSUME TypeOK, NEW e \in Events, Spend(e)
  PROVE  /\ \A d \in Events : budget'[d] \in Nat /\ budget'[d] <= budget[d]
         /\ budget[e] > 0 /\ budget'[e] = budget[e] - 1
BY DEF Spend, TypeOK

LEMMA BudgetFalls ==
  ASSUME TypeOK, [Next]_vars
  PROVE  \A d \in Events : budget'[d] \in Nat /\ budget'[d] <= budget[d]
<1>1. ASSUME NEW e \in Events, Spend(e)
      PROVE  \A d \in Events : budget'[d] \in Nat /\ budget'[d] <= budget[d]
  BY <1>1, SpendFalls
<1>2. CASE UNCHANGED budget
  BY <1>2 DEF TypeOK
<1>3. UNCHANGED budget \/ \E e \in Events : Spend(e)
  <2>1. CASE UNCHANGED vars
    BY <2>1 DEF vars
  <2>2. CASE Environment
    BY <2>2 DEF Environment, Reconfigure, StorageOutage, StorageRestored, ManualEdit,
       LosesReady, Crash, Reboot, Elect, Depart, BecomesReady, ServiceRecovers, Events
  <2>3. CASE \E u \in Units : \/ Hook(u) \/ Progress(u)
                              \/ AgentDies(u) \/ WaitTimeout(u) \/ HookError(u)
    BY <2>3 DEF Hook, RuntimeHook, ReplicasHook, UpdateStatusHook, StartHook, Progress,
       Restart, LocalReady, ClusterHealthy, Commit, FlushRefused, WaitFails, AgentDies,
       WaitTimeout, HookError, Events
  <2> QED
    BY <2>1, <2>2, <2>3 DEF Next
<1> QED
  BY <1>1, <1>2, <1>3

LEMMA EventsStep ==
  ASSUME TypeOK, EventsLeft, [Next]_vars
  PROVE  EventsLeft' /\ (Quiet => Quiet')
<1>1. \A d \in Events : /\ budget[d] \in Nat
                        /\ budget'[d] \in Nat /\ budget'[d] <= budget[d]
  BY BudgetFalls DEF TypeOK
<1>2. EventsLeft'
  BY <1>1 DEF EventsLeft, Events
<1>3. Quiet => Quiet'
  BY <1>1 DEF Quiet, Changes, Events
<1> QED
  BY <1>2, <1>3

LEMMA OneOfThree ==
  ASSUME NEW a \in Nat, NEW b \in Nat, NEW c \in Nat, a + b + c <= 1,
         NEW x \in Nat, NEW y \in Nat, NEW z \in Nat, x <= a, y <= b, z <= c,
         x < a \/ y < b \/ z < c
  PROVE  x = 0 /\ y = 0 /\ z = 0
OBVIOUS

\* The one change is the last.
LEMMA ChangeIsLast ==
  ASSUME TypeOK, EventsLeft, NEW e \in Changes, Spend(e)
  PROVE  ~Quiet /\ Quiet'
<1>1. e \in Events /\ Changes \subseteq Events
  BY DEF Changes, Events
<1>2. /\ \A d \in Events : budget'[d] \in Nat /\ budget'[d] <= budget[d]
      /\ budget[e] > 0 /\ budget'[e] = budget[e] - 1
  BY <1>1, SpendFalls
<1>3. \A d \in Events : budget[d] \in Nat
  BY DEF TypeOK
<1>4. /\ budget["change"] \in Nat /\ budget["edit"] \in Nat /\ budget["depart"] \in Nat
      /\ budget'["change"] \in Nat /\ budget'["edit"] \in Nat /\ budget'["depart"] \in Nat
      /\ budget'["change"] <= budget["change"] /\ budget'["edit"] <= budget["edit"]
      /\ budget'["depart"] <= budget["depart"]
  BY <1>1, <1>2, <1>3 DEF Changes
<1>5. budget["change"] + budget["edit"] + budget["depart"] <= 1
  BY DEF EventsLeft
<1>6. e \in {"change", "edit", "depart"}
  BY DEF Changes
<1>7. \/ budget'["change"] < budget["change"]
      \/ budget'["edit"] < budget["edit"]
      \/ budget'["depart"] < budget["depart"]
  <2>1. budget'[e] < budget[e]
    BY <1>1, <1>2, <1>3
  <2> QED
    BY <1>6, <2>1
<1>8. budget'["change"] = 0 /\ budget'["edit"] = 0 /\ budget'["depart"] = 0
  BY <1>4, <1>5, <1>7, OneOfThree
<1> QED
  BY <1>2, <1>8 DEF Quiet, Changes

-----------------------------------------------------------------------------
(***************************************************************************)
(* Steps that concern one unit only.                                       *)
(***************************************************************************)
Kept(v) ==
  /\ hook'[v] = hook[v] /\ disk'[v] = disk[v]
  /\ lastGood'[v] = lastGood[v] /\ drifted'[v] = drifted[v]

Surroundings == <<leader, members, wanted, target, pending>>

LEMMA KeptUnit ==
  ASSUME NEW v, Kept(v), UNCHANGED <<members, wanted>>
  PROVE  /\ UpToDate(v)' <=> UpToDate(v)
         /\ Prepared(v)' <=> Prepared(v)
         /\ Underway(v)' <=> Underway(v)
         /\ InTurn(v)' <=> InTurn(v)
BY DEF Kept, UpToDate, ConfigChanged, Prepared, Rendered, Underway, Between, InTurn

LEMMA KeptTurn ==
  ASSUME NEW v, Kept(v), UNCHANGED Surroundings
  PROVE  /\ HookTurn(v)' <=> HookTurn(v)
         /\ QueuedOnce(v)' <=> QueuedOnce(v)
         /\ Untroubled(v)' <=> Untroubled(v)
<1>1. /\ UpToDate(v)' <=> UpToDate(v)
      /\ Prepared(v)' <=> Prepared(v)
      /\ Underway(v)' <=> Underway(v)
      /\ InTurn(v)' <=> InTurn(v)
  BY KeptUnit DEF Surroundings
<1>2. hook'[v] = hook[v] /\ UNCHANGED <<leader, members, target, pending>>
  BY DEF Kept, Surroundings
<1> QED
  BY <1>1, <1>2 DEF HookTurn, Election, Turn, QueuedOnce, Untroubled

\* It is enough to look at the unit that steps.
LEMMA LocalStep ==
  ASSUME TypeOK, TurnInv, [Next]_vars, NEW u \in Units, UNCHANGED Surroundings,
         \A v \in Units \ {u} : Kept(v),
         UpToDate(u) => UpToDate(u)',
         HookTurn(u)',
         ~Quiet => Untroubled(u)'
  PROVE  TurnInv'
<1>1. EventsLeft' /\ (Quiet => Quiet')
  BY EventsStep DEF TurnInv
<1>2. \A v \in Units \ {u} : QueuedOnce(v)' /\ HookTurn(v)'
  BY KeptTurn DEF TurnInv
<1>3. QueuedOnce(u)'
  BY DEF TurnInv, QueuedOnce, Surroundings
<1>4. TargetQueuedOnce'
  <2>1. \A v \in Units \ {u} : UpToDate(v)' <=> UpToDate(v)
    BY KeptUnit DEF Surroundings
  <2>2. target' = target /\ target \in Units \cup {NoUnit}
    BY DEF Surroundings, TypeOK
  <2> QED
    BY <2>1, <2>2 DEF TurnInv, TargetQueuedOnce
<1>5. BeforeChange'
  <2>1. ASSUME ~Quiet'
        PROVE  target' = NoUnit /\ \A v \in Units : Untroubled(v)'
    <3>1. target = NoUnit /\ \A v \in Units : Untroubled(v)
      BY <1>1, <2>1 DEF TurnInv, BeforeChange
    <3>2. \A v \in Units \ {u} : Untroubled(v)'
      BY <3>1, KeptTurn
    <3> QED
      BY <1>1, <2>1, <3>1, <3>2 DEF Surroundings
  <2> QED
    BY <2>1 DEF BeforeChange
<1> QED
  BY <1>1, <1>2, <1>3, <1>4, <1>5 DEF TurnInv

\* A hook that begins.
LEMMA HookTurnStep ==
  ASSUME TypeOK, TurnInv, [Next]_vars, NEW u \in Units, Hook(u)
  PROVE  TurnInv'
<1> DEFINE g == hook'[u]
<1>1. /\ Opens(u) /\ u \in members
      /\ UNCHANGED Surroundings /\ UNCHANGED <<lastGood, drifted>>
  BY HookOpens DEF Surroundings, world, databag, config
<1>2. ASSUME NEW v \in Units \ {u} PROVE Kept(v)
  <2>1. Untouched(v)
    BY HookTouchesOne
  <2> QED
    BY <1>1, <2>1 DEF Untouched, Kept
<1>3. UpToDate(u) => UpToDate(u)'
  BY <1>1 DEF Opens, UpToDate, ConfigChanged, Rendered, Surroundings
<1>4. /\ QueuedOnce(u)
      /\ target # NoUnit => UpToDate(target)
      /\ ~Quiet => target = NoUnit /\ \A v \in Units : Untroubled(v)
  BY DEF TurnInv, TargetQueuedOnce, BeforeChange
<1>5. UpToDate(u) => g.pend = pending[u] /\ g.good = lastGood[u] /\ g.drift = drifted[u]
  BY <1>1 DEF Opens
<1>6. Rendered(u)' = Rendered(u)
  BY <1>1 DEF Rendered, Surroundings
<1>7. UpToDate(u)' \/ g.pend => Prepared(u)'
  <2>1. CASE UpToDate(u)
    BY <1>1, <1>3, <1>5, <1>6, <2>1 DEF UpToDate, ConfigChanged, Prepared, Opens
  <2>2. CASE ~UpToDate(u)
    <3>1. ~pending[u]
      BY <1>4, <2>2 DEF QueuedOnce
    <3>2. CASE disk'[u] = Rendered(u) /\ g.good = Rendered(u) /\ ~g.drift
      BY <1>6, <3>2 DEF Prepared
    <3>3. CASE g.pend = pending[u] /\ disk'[u] = disk[u]
      <4>1. ~UpToDate(u)'
        BY <1>1, <1>6, <2>2, <3>3 DEF UpToDate, ConfigChanged
      <4> QED
        BY <3>1, <3>3, <4>1
    <3> QED
      BY <1>1, <2>2, <3>2, <3>3 DEF Opens
  <2> QED
    BY <2>1, <2>2
<1>8. pending[u] => g.pend
  BY <1>1, <1>4, <1>5 DEF QueuedOnce
<1>9. g.pend /\ target = u => pending[u]
  BY <1>4, <1>5, NoUnitAssumption
<1>10. Election(u)'
  <2> SUFFICES ASSUME g.wrote
               PROVE  /\ u = leader
                      /\ target # NoUnit => ~pending[target]
                      /\ g.tgt # NoUnit => IF g.tgt = u THEN Prepared(u)' ELSE pending[g.tgt]
    BY <1>1 DEF Election, Surroundings
  <2>1. /\ u = leader /\ target \notin PendingUnits(u, g.pend)
        /\ g.tgt \in {NoUnit} \cup PendingUnits(u, g.pend)
    BY <1>1 DEF Opens, Elects
  <2>2. target # NoUnit => ~pending[target]
    <3> SUFFICES ASSUME target \in Units, pending[target] PROVE FALSE
      BY DEF TypeOK
    <3>1. target \in members
      BY DEF TurnInv, QueuedOnce
    <3> QED
      BY <1>8, <2>1, <3>1 DEF PendingUnits
  <2>3. g.tgt # NoUnit => IF g.tgt = u THEN g.pend ELSE pending[g.tgt]
    BY <2>1 DEF PendingUnits
  <2> QED
    BY <1>7, <2>1, <2>2, <2>3
<1>11. Turn(u)'
  <2>1. g.pc \in {"restart-self", "done"} /\ TakesTurn(u, g)
    BY <1>1 DEF Opens
  <2> QED
    BY <1>1, <2>1 DEF Turn, InTurn, TakesTurn, Surroundings
<1>12. HookTurn(u)'
  BY <1>1, <1>7, <1>8, <1>9, <1>10, <1>11 DEF HookTurn, Surroundings
<1>13. ASSUME ~Quiet PROVE Untroubled(u)'
  <2>1. UpToDate(u) /\ ~pending[u] /\ \A v \in Units : ~pending[v]
    BY <1>4, <1>13 DEF Untroubled
  <2>2. ~g.pend
    BY <1>5, <2>1
  <2>3. PendingUnits(u, g.pend) = {}
    BY <2>1, <2>2 DEF PendingUnits, TypeOK
  <2>4. ~g.wrote
    BY <1>1, <1>4, <1>13, <2>3 DEF Opens, Elects
  <2> QED
    BY <1>1, <1>3, <1>7, <2>1, <2>2, <2>4 DEF Untroubled, Surroundings
<1> QED
  BY <1>1, <1>2, <1>3, <1>12, <1>13, LocalStep

\* The waits of _perform_target_restart.
LEMMA WaitTurnStep ==
  ASSUME TypeOK, TurnInv, [Next]_vars, NEW u \in Units,
         Restart(u) \/ LocalReady(u) \/ ClusterHealthy(u)
  PROVE  TurnInv'
<1>1. UNCHANGED Surroundings /\ UNCHANGED <<disk, lastGood, drifted>>
  BY DEF Restart, LocalReady, ClusterHealthy, Surroundings, world, databag, config
<1>2. \A v \in Units \ {u} : Kept(v)
  BY <1>1 DEF Restart, LocalReady, ClusterHealthy, Kept, TypeOK
<1>3. /\ UpToDate(u)' <=> UpToDate(u)
      /\ Rendered(u)' = Rendered(u)
  BY <1>1 DEF UpToDate, ConfigChanged, Rendered, Surroundings
<1>4. /\ hook'[u].good = hook[u].good /\ hook'[u].drift = hook[u].drift
      /\ hook'[u].wrote = hook[u].wrote /\ hook'[u].tgt = hook[u].tgt
      /\ \/ hook'[u].pend = hook[u].pend /\ hook'[u].pc \in {"wait-ready", "wait-cluster"}
         \/ hook'[u].pend = FALSE /\ hook'[u].pc = "done"
  BY DEF Restart, LocalReady, ClusterHealthy, TypeOK, HookState
<1>5. Prepared(u)' <=> Prepared(u)
  BY <1>1, <1>3, <1>4 DEF Prepared
<1>6. InTurn(u) /\ Underway(u) /\ HookTurn(u)
  BY DEF Restart, LocalReady, ClusterHealthy, InTurn, Underway, Between, TurnInv
<1>7. Election(u)' <=> Election(u)
  BY <1>1, <1>4, <1>5 DEF Election, Surroundings
<1>8. HookTurn(u)'
  BY <1>1, <1>3, <1>4, <1>5, <1>6, <1>7 DEF HookTurn, Turn, InTurn, Surroundings
<1>9. ~Quiet => Untroubled(u)'
  BY <1>6 DEF TurnInv, BeforeChange, Untroubled, HookTurn, Turn
<1> QED
  BY <1>1, <1>2, <1>3, <1>8, <1>9, LocalStep

\* A hook that fails, with or without its stored state.  A unit that is up to
\* date stays so, for what the hook saves is what it has prepared.
LEMMA FailedTurnStep ==
  ASSUME TypeOK, TurnInv, [Next]_vars, NEW u \in Units,
         \/ FlushRefused(u) \/ AgentDies(u) \/ HookError(u)
         \/ WaitFails(u) \/ WaitTimeout(u) \/ Reboot(u)
  PROVE  TurnInv'
<1>1. UNCHANGED Surroundings /\ UNCHANGED disk
  BY DEF FlushRefused, AgentDies, HookError, WaitFails, WaitTimeout, Reboot, Discard,
     TimeOut, Surroundings, world, databag
<1>2. hook' = [hook EXCEPT ![u] = Failed(u)] \/ hook' = [hook EXCEPT ![u] = Idle]
  BY DEF FlushRefused, AgentDies, HookError, WaitFails, WaitTimeout, Reboot, Discard,
     TimeOut
<1>3. ~Underway(u)'
  <2>1. Idle.pc = "idle" /\ Failed(u).pc = "failed"
    BY DEF Idle, Failed
  <2>2. hook'[u].pc \in {"idle", "failed"}
    BY <1>2, <2>1 DEF TypeOK
  <2> QED
    BY <2>2 DEF Underway, Between
<1>4. UNCHANGED config \/ (SaveStored(u) /\ hook[u].pc = "done")
  BY DEF FlushRefused, AgentDies, HookError, WaitFails, WaitTimeout, Reboot, TimeOut
<1>5. \A v \in Units \ {u} : Kept(v)
  BY <1>1, <1>2, <1>4 DEF Kept, SaveStored, config, TypeOK
<1>6. UpToDate(u) => UpToDate(u)'
  <2>1. CASE UNCHANGED config
    BY <1>1, <2>1 DEF UpToDate, ConfigChanged, Rendered, config, Surroundings
  <2>2. CASE SaveStored(u) /\ hook[u].pc = "done"
    <3>1. UpToDate(u) => Prepared(u)
      BY <2>2 DEF TurnInv, HookTurn, Underway, Between
    <3>2. lastGood'[u] = hook[u].good /\ drifted'[u] = hook[u].drift
      BY <2>2 DEF SaveStored, TypeOK
    <3> QED
      BY <1>1, <3>1, <3>2 DEF UpToDate, ConfigChanged, Prepared, Rendered, Surroundings
  <2> QED
    BY <1>4, <2>1, <2>2
<1>7. HookTurn(u)'
  BY <1>3 DEF HookTurn
<1>8. ~Quiet => Untroubled(u)'
  BY <1>1, <1>3, <1>6 DEF TurnInv, BeforeChange, Untroubled, Surroundings
<1> QED
  BY <1>1, <1>5, <1>6, <1>7, <1>8, LocalStep

\* A hook that ends well publishes the flag and, on the leader, the target.
LEMMA CommitTurnStep ==
  ASSUME TypeOK, TurnInv, [Next]_vars, NEW u \in Units, Commit(u)
  PROVE  TurnInv'
<1> DEFINE h == hook[u]
<1>1. /\ HookTurn(u) /\ Underway(u) /\ QueuedOnce(u)
  BY DEF Commit, Underway, Between, TurnInv
<1>2. /\ lastGood'[u] = h.good /\ drifted'[u] = h.drift /\ pending'[u] = h.pend
      /\ \A v \in Units \ {u} : Kept(v) /\ pending'[v] = pending[v]
  BY DEF Commit, SaveStored, Kept, TypeOK
<1>3. /\ UNCHANGED <<leader, members, wanted, disk>>
      /\ target' = IF h.wrote THEN h.tgt ELSE target
      /\ h.pend \in BOOLEAN /\ h.wrote \in BOOLEAN /\ h.tgt \in Units \cup {NoUnit}
      /\ target \in Units \cup {NoUnit}
  BY DEF Commit, world, TypeOK, HookState
<1>4. ~Underway(u)'
  BY DEF Commit, Underway, Between, Idle, TypeOK
<1>5. Prepared(u) => UpToDate(u)'
  BY <1>2, <1>3 DEF Prepared, UpToDate, ConfigChanged, Rendered
<1>6. \A v \in Units \ {u} : /\ (UpToDate(v)' <=> UpToDate(v))
                             /\ (Prepared(v)' <=> Prepared(v))
                             /\ (Underway(v)' <=> Underway(v))
                             /\ (InTurn(v)' <=> InTurn(v))
  BY <1>2, <1>3, KeptUnit
<1>7. /\ h.pend => Prepared(u)
      /\ UpToDate(u) => Prepared(u)
      /\ h.pend /\ target = u => pending[u]
      /\ pending[u] /\ ~h.pend => target = u \/ h.wrote
      /\ u \in members
  BY <1>1 DEF HookTurn
<1>8. h.wrote => /\ u = leader
                 /\ target # NoUnit => ~pending[target]
                 /\ h.tgt # NoUnit => IF h.tgt = u THEN Prepared(u) ELSE pending[h.tgt]
  BY <1>1 DEF HookTurn, Election
<1>9. EventsLeft' /\ (Quiet => Quiet')
  BY EventsStep DEF TurnInv
<1> HIDE DEF h
<1>10. QueuedOnce(u)'
  BY <1>2, <1>3, <1>5, <1>7 DEF QueuedOnce
<1>11. \A v \in Units \ {u} : QueuedOnce(v)'
  BY <1>2, <1>3, <1>6 DEF TurnInv, QueuedOnce
<1>12. TargetQueuedOnce'
  <2>1. CASE h.wrote /\ h.tgt # NoUnit /\ h.tgt # u
    BY <1>3, <1>6, <1>8, <2>1 DEF TurnInv, QueuedOnce, TargetQueuedOnce
  <2>2. CASE h.wrote /\ h.tgt = u
    BY <1>3, <1>5, <1>8, <2>2, NoUnitAssumption DEF TargetQueuedOnce
  <2>3. CASE h.wrote /\ h.tgt = NoUnit
    BY <1>3, <2>3 DEF TargetQueuedOnce
  <2>4. CASE ~h.wrote
    BY <1>3, <1>5, <1>6, <1>7, <2>4 DEF TurnInv, TargetQueuedOnce
  <2> QED
    BY <2>1, <2>2, <2>3, <2>4
<1>13. ASSUME NEW v \in Units \ {u}, Underway(v) PROVE HookTurn(v)'
  <2>1. /\ HookTurn(v) /\ hook'[v] = hook[v] /\ pending'[v] = pending[v]
        /\ hook[v].tgt \in Units \cup {NoUnit}
    BY <1>2 DEF TurnInv, Kept, TypeOK, HookState
  <2>2. /\ v \in members
        /\ UpToDate(v) \/ hook[v].pend => Prepared(v)
        /\ hook[v].pend /\ target = v => pending[v]
        /\ pending[v] /\ ~hook[v].pend => target = v \/ hook[v].wrote
        /\ Election(v) /\ Turn(v)
    BY <1>13, <2>1 DEF HookTurn
  <2>3. hook[v].pend /\ target' = v => pending[v]
    BY <1>3, <1>8, <2>2, NoUnitAssumption
  <2>4. pending[v] /\ ~hook[v].pend => target' = v \/ hook[v].wrote
    BY <1>3, <1>8, <2>2, NoUnitAssumption
  <2>5. Election(v)'
    <3> SUFFICES ASSUME hook[v].wrote
                 PROVE  /\ v = leader
                        /\ target' # NoUnit => ~pending'[target']
                        /\ hook[v].tgt # NoUnit =>
                              IF hook[v].tgt = v THEN Prepared(v) ELSE pending'[hook[v].tgt]
      BY <1>3, <1>6, <2>1 DEF Election
    <3>1. /\ v = leader
          /\ target # NoUnit => ~pending[target]
          /\ hook[v].tgt # NoUnit =>
                IF hook[v].tgt = v THEN Prepared(v) ELSE pending[hook[v].tgt]
      BY <2>2 DEF Election
    <3>2. ~h.wrote /\ target' = target
      BY <1>3, <1>8, <3>1
    <3>3. target # NoUnit => ~pending'[target]
      BY <1>2, <1>3, <1>7, <3>1
    <3>4. pending[u] => pending'[u]
      BY <1>2, <1>7, <3>1, <3>2, NoUnitAssumption
    <3>5. hook[v].tgt # NoUnit /\ hook[v].tgt # v => pending'[hook[v].tgt]
      BY <1>2, <2>1, <3>1, <3>4
    <3> QED
      BY <3>1, <3>2, <3>3, <3>5
  <2>6. Turn(v)'
    BY <1>3, <1>6, <1>8, <2>1, <2>2, NoUnitAssumption DEF Turn
  <2> QED
    BY <1>3, <1>6, <2>1, <2>2, <2>3, <2>4, <2>5, <2>6 DEF HookTurn
<1>14. \A v \in Units : HookTurn(v)'
  <2>1. ASSUME NEW v \in Units, ~Underway(v)' PROVE HookTurn(v)'
    BY <2>1 DEF HookTurn
  <2> QED
    BY <1>4, <1>6, <1>13, <2>1
<1>15. BeforeChange'
  <2> SUFFICES ASSUME ~Quiet
               PROVE  target' = NoUnit /\ \A v \in Units : Untroubled(v)'
    BY <1>9 DEF BeforeChange
  <2>1. target = NoUnit /\ \A v \in Units : Untroubled(v)
    BY DEF TurnInv, BeforeChange
  <2>2. UpToDate(u) /\ Prepared(u) /\ ~h.pend /\ ~h.wrote
    BY <1>1, <2>1 DEF Untroubled, h
  <2>3. Untroubled(u)'
    BY <1>2, <1>4, <1>5, <2>2 DEF Untroubled
  <2>4. \A v \in Units \ {u} : Untroubled(v)'
    BY <1>2, <1>6, <2>1 DEF Untroubled, Kept
  <2> QED
    BY <1>3, <2>1, <2>2, <2>3, <2>4
<1> QED
  BY <1>9, <1>10, <1>11, <1>12, <1>14, <1>15 DEF TurnInv

\* The one change finds nobody queued, and every hook under way with a unit that
\* was up to date: it ends as if it had begun before the change.
LEMMA ChangeTurnStep ==
  ASSUME TypeOK, TurnInv, [Next]_vars, NEW e \in Changes, Spend(e),
         UNCHANGED <<target, hook, lastGood, drifted>>,
         \A v \in Units : pending'[v] => pending[v],
         \A v \in Units : Underway(v) /\ v \in members => v \in members'
  PROVE  TurnInv'
<1>1. ~Quiet /\ Quiet' /\ EventsLeft'
  BY ChangeIsLast, EventsStep DEF TurnInv
<1>2. target = NoUnit /\ \A v \in Units : Untroubled(v) /\ HookTurn(v)
  BY <1>1 DEF TurnInv, BeforeChange
<1>3. BeforeChange' /\ TargetQueuedOnce'
  BY <1>1, <1>2 DEF BeforeChange, TargetQueuedOnce
<1>4. ASSUME NEW v \in Units PROVE QueuedOnce(v)' /\ HookTurn(v)'
  <2>1. ~pending'[v]
    BY <1>2 DEF Untroubled
  <2>2. ASSUME Underway(v) PROVE HookTurn(v)'
    <3>1. /\ v \in members
          /\ Prepared(v) /\ UpToDate(v) /\ ~hook[v].pend /\ ~hook[v].wrote
      BY <1>2, <2>2 DEF Untroubled, HookTurn
    <3>2. hook[v].good = lastGood[v] /\ ~hook[v].drift
      BY <3>1 DEF Prepared, UpToDate, ConfigChanged
    <3>3. UpToDate(v)' => Prepared(v)'
      BY <3>2 DEF Prepared, UpToDate, ConfigChanged
    <3>4. ~InTurn(v)
      BY <1>2, <2>2, <3>1 DEF HookTurn, Turn
    <3> QED
      BY <2>1, <2>2, <3>1, <3>3, <3>4 DEF HookTurn, Election, Turn, InTurn
  <2>3. Underway(v)' <=> Underway(v)
    BY DEF Underway, Between
  <2> QED
    BY <2>1, <2>2, <2>3 DEF QueuedOnce, HookTurn
<1> QED
  BY <1>1, <1>3, <1>4 DEF TurnInv

\* What happens to a process or to the storage is no concern of whose turn it is.
LEMMA AsideTurnStep ==
  ASSUME TypeOK, TurnInv, [Next]_vars, UNCHANGED Surroundings,
         UNCHANGED <<hook, disk, lastGood, drifted>>
  PROVE  TurnInv'
<1>1. FirstLeader \in Units
  BY LeaderAssumption
<1>2. \A v \in Units : Kept(v)
  BY DEF Kept
<1>3. HookTurn(FirstLeader) /\ (~Quiet => Untroubled(FirstLeader))
  BY <1>1 DEF TurnInv, BeforeChange
<1>4. HookTurn(FirstLeader)' /\ (~Quiet => Untroubled(FirstLeader)')
  BY <1>1, <1>2, <1>3, KeptTurn
<1>5. UpToDate(FirstLeader) => UpToDate(FirstLeader)'
  BY <1>1, <1>2, KeptUnit DEF Surroundings
<1> QED
  BY <1>1, <1>2, <1>4, <1>5, LocalStep

LEMMA TurnStep == TypeOK /\ TurnInv /\ [Next]_vars => TurnInv'
<1> SUFFICES ASSUME TypeOK, TurnInv, [Next]_vars PROVE TurnInv'
  OBVIOUS
<1>1. CASE UNCHANGED vars
  BY <1>1, AsideTurnStep DEF vars, world, databag, config, Surroundings
<1>2. CASE Reconfigure
  BY <1>2, ChangeTurnStep DEF Reconfigure, Changes, databag, config
<1>3. CASE StorageOutage \/ StorageRestored
  BY <1>3, AsideTurnStep DEF StorageOutage, StorageRestored, databag, config, Surroundings
<1>4. ASSUME NEW u \in Units, ManualEdit(u) PROVE TurnInv'
  BY <1>4, ChangeTurnStep DEF ManualEdit, Changes, world, databag, config
<1>5. ASSUME NEW u \in Units,
             LosesReady(u) \/ Crash(u) \/ BecomesReady(u) \/ ServiceRecovers(u)
      PROVE  TurnInv'
  BY <1>5, AsideTurnStep
     DEF LosesReady, Crash, BecomesReady, ServiceRecovers, world, databag, config, Surroundings
<1>6. ASSUME NEW u \in Units, Elect(u) PROVE TurnInv'
  BY <1>6 DEF Elect, Spend, TurnInv, EventsLeft
<1>7. ASSUME NEW u \in Units, Depart(u) PROVE TurnInv'
  <2>1. UNCHANGED <<target, hook, lastGood, drifted>> /\ Spend("depart")
    BY <1>7 DEF Depart, config
  <2>2. \A v \in Units : pending'[v] => pending[v]
    BY <1>7 DEF Depart, TypeOK
  <2>3. \A v \in Units : Underway(v) /\ v \in members => v \in members'
    BY <1>7 DEF Depart, Underway, Between
  <2> QED
    BY <2>1, <2>2, <2>3, ChangeTurnStep DEF Changes
<1>8. ASSUME NEW u \in Units, Hook(u) PROVE TurnInv'
  BY <1>8, HookTurnStep
<1>9. ASSUME NEW u \in Units, Restart(u) \/ LocalReady(u) \/ ClusterHealthy(u)
      PROVE  TurnInv'
  BY <1>9, WaitTurnStep
<1>10. ASSUME NEW u \in Units, Commit(u) PROVE TurnInv'
  BY <1>10, CommitTurnStep
<1>11. ASSUME NEW u \in Units,
              \/ FlushRefused(u) \/ AgentDies(u) \/ HookError(u)
              \/ WaitFails(u) \/ WaitTimeout(u) \/ Reboot(u)
       PROVE  TurnInv'
  BY <1>11, FailedTurnStep
<1> QED
  BY <1>1, <1>2, <1>3, <1>4, <1>5, <1>6, <1>7, <1>8, <1>9, <1>10, <1>11
  DEF Next, Environment, Progress

LEMMA TurnInit == OneRollout /\ Init => TurnInv
<1> SUFFICES ASSUME OneRollout, Init PROVE TurnInv
  OBVIOUS
<1>1. EventsLeft
  BY DEF OneRollout, Init, EventsLeft
<1>2. \A u \in Units : UpToDate(u) /\ ~pending[u] /\ ~Underway(u)
  BY DEF Init, UpToDate, ConfigChanged, Underway, Between, Idle
<1>3. target = NoUnit
  BY DEF Init
<1> QED
  BY <1>1, <1>2, <1>3
  DEF TurnInv, BeforeChange, TargetQueuedOnce, QueuedOnce, HookTurn, Untroubled

\* No two units are ever in the middle of a coordinated restart
\* (_perform_target_restart), however many units there are and whatever fails,
\* times out, reboots or crashes on the way, provided the text that the units
\* render changes once and the leader stays (see OneRollout).
THEOREM RestartsAreExclusive == OneRollout => (Spec => []RestartExclusive)
<1> SUFFICES ASSUME OneRollout PROVE Spec => []RestartExclusive
  OBVIOUS
<1>1. Init => TypeOK /\ TurnInv
  BY TypeInit, TurnInit
<1>2. TypeOK /\ TurnInv /\ [Next]_vars => (TypeOK /\ TurnInv)'
  BY TypeStep, TurnStep
<1>3. TypeOK /\ TurnInv => RestartExclusive
  BY TurnIsExclusive
<1> QED
  BY <1>1, <1>2, <1>3, PTL DEF Spec

-----------------------------------------------------------------------------
(***************************************************************************)
(* BrokenContained.  A process that runs a version that never becomes      *)
(* ready keeps the cluster unhealthy, so that the leader elects nobody,    *)
(* and the unit in turn stays in turn.  That needs processes that start    *)
(* only when the charm says so: one that systemd starts reads the new      *)
(* config without being told.                                              *)
(***************************************************************************)
ProcessesStayUp == Budget["fault"] = 0 /\ Budget["reboot"] = 0

NoneGoesDown ==
  /\ budget["fault"] = 0 /\ budget["reboot"] = 0
  /\ \A u \in members : active[u]

\* Texts in use are those of the deployed version, of the one change, or manual.
Versions ==
  /\ ~Quiet => wanted = 0
  /\ \A u \in Units : /\ disk[u].ver \in {-1, 0, wanted}
                      /\ running[u].ver \in {-1, 0, wanted}

RunsBroken(u) == running[u].ver \in Broken

\* The first unit in turn: it is the queued target, or the leader that elected
\* itself; its restart does not end, and no other hook has elected anybody.
Canary(u) ==
  RunsBroken(u) =>
    /\ ~ready[u] /\ u \in members
    /\ \/ target = u /\ pending[u]
       \/ u = leader /\ (target # NoUnit => ~pending[target])
    /\ Underway(u) => hook[u].pc # "wait-cluster" /\ (pending[u] => hook[u].pend)
    /\ \A v \in Units : Underway(v) /\ hook[v].wrote =>
         v = u /\ hook[v].pc = "wait-ready"

CanaryInv ==
  /\ NoneGoesDown
  /\ Versions
  /\ Clustered => \A u \in Units : Canary(u)

LEMMA CanaryIsAlone == TypeOK /\ CanaryInv => BrokenContained
<1> SUFFICES ASSUME TypeOK, CanaryInv, NEW u \in members, NEW v \in members,
                    RunsBroken(u), RunsBroken(v)
             PROVE  u = v
  BY DEF BrokenContained, RunsBroken
<1>1. CASE Clustered
  <2>1. u \in Units /\ v \in Units /\ Canary(u) /\ Canary(v)
    BY <1>1 DEF CanaryInv, TypeOK
  <2> QED
    BY <2>1, NoUnitAssumption DEF Canary
<1>2. CASE ~Clustered
  <2>1. IsFiniteSet(members) /\ Cardinality(members) \in Nat
    BY UnitsAssumption, FS_Subset, FS_CardinalityType DEF TypeOK
  <2>2. u # v => Cardinality({u, v}) = 2
    <3>1. u # v => u \notin {v} /\ IsFiniteSet({v}) /\ Cardinality({v}) = 1
      BY FS_Singleton
    <3>2. u # v => Cardinality({v} \cup {u}) = 2
      BY <3>1, FS_AddElement
    <3>3. {v} \cup {u} = {u, v}
      OBVIOUS
    <3> QED
      BY <3>2, <3>3
  <2>3. {u, v} \subseteq members => Cardinality({u, v}) <= Cardinality(members)
    BY <2>1, FS_Subset
  <2> QED
    BY <1>2, <2>1, <2>2, <2>3 DEF Clustered
<1> QED
  BY <1>1, <1>2

-----------------------------------------------------------------------------
\* A version that never becomes ready is the one that the change brought.
LEMMA BrokenIsNew ==
  ASSUME TypeOK, Versions, NEW u \in Units, RunsBroken(u)
  PROVE  Quiet
BY BrokenAssumption DEF Versions, RunsBroken

\* Where texts come from.
LEMMA TextsStep ==
  ASSUME TypeOK, [Next]_vars, NEW u \in Units
  PROVE  /\ disk'[u] \in {disk[u], Rendered(u), Manual}
         /\ running'[u] \in {running[u], disk[u], Rendered(u)}
<1>1. CASE UNCHANGED vars
  BY <1>1 DEF vars, process
<1>2. CASE Environment
  <2>1. CASE Reconfigure \/ StorageOutage \/ StorageRestored
    BY <2>1 DEF Reconfigure, StorageOutage, StorageRestored, process
  <2>2. ASSUME NEW v \in Units, ManualEdit(v)
        PROVE  disk'[u] \in {disk[u], Manual} /\ running' = running
    BY <2>2 DEF ManualEdit, process, TypeOK
  <2>3. ASSUME NEW v \in Units,
               LosesReady(v) \/ Crash(v) \/ Elect(v) \/ Depart(v) \/ BecomesReady(v)
        PROVE  disk' = disk /\ running' = running
    BY <2>3 DEF LosesReady, Crash, Elect, Depart, BecomesReady, process
  <2>4. ASSUME NEW v \in Units, Reboot(v) \/ ServiceRecovers(v)
        PROVE  disk' = disk /\ running'[u] \in {running[u], disk[u]}
    BY <2>4 DEF Reboot, ServiceRecovers, Load, TypeOK
  <2> QED
    BY <1>2, <2>1, <2>2, <2>3, <2>4 DEF Environment
<1>3. ASSUME NEW v \in Units, Hook(v)
      PROVE  /\ disk'[u] \in {disk[u], Rendered(u)}
             /\ running'[u] \in {running[u], disk[u], Rendered(u)}
  BY <1>3 DEF Hook, RuntimeHook, ReplicasHook, UpdateStatusHook, StartHook,
     ReconcileRuntime, RollUnlessDrifted, WriteConfig, Load, process, TypeOK
<1>4. ASSUME NEW v \in Units, Restart(v)
      PROVE  disk' = disk /\ running'[u] \in {running[u], disk[u]}
  BY <1>4 DEF Restart, Load, TypeOK
<1>5. ASSUME NEW v \in Units,
             \/ LocalReady(v) \/ ClusterHealthy(v) \/ Commit(v) \/ FlushRefused(v)
             \/ WaitFails(v) \/ AgentDies(v) \/ WaitTimeout(v) \/ HookError(v)
      PROVE  disk' = disk /\ running' = running
  BY <1>5 DEF LocalReady, ClusterHealthy, Commit, FlushRefused, WaitFails, AgentDies,
     WaitTimeout, HookError, TimeOut, Discard, process
<1> QED
  BY <1>1, <1>2, <1>3, <1>4, <1>5 DEF Next, Progress

LEMMA VersionsStep ==
  ASSUME TypeOK, EventsLeft, Versions, [Next]_vars
  PROVE  Versions'
<1>1. wanted' = wanted \/ (Reconfigure /\ wanted = 0 /\ ~Quiet /\ Quiet')
  <2>1. CASE UNCHANGED vars
    BY <2>1 DEF vars, world
  <2>2. CASE Reconfigure
    BY <2>2, ChangeIsLast DEF Reconfigure, Changes, Versions
  <2>3. CASE Environment /\ ~Reconfigure
    BY <2>3 DEF Environment, StorageOutage, StorageRestored, ManualEdit, LosesReady,
       Crash, Reboot, Elect, Depart, BecomesReady, ServiceRecovers, world
  <2>4. ASSUME NEW u \in Units,
               \/ Hook(u) \/ Progress(u)
               \/ AgentDies(u) \/ WaitTimeout(u) \/ HookError(u)
        PROVE  wanted' = wanted
    BY <2>4 DEF Hook, RuntimeHook, ReplicasHook, UpdateStatusHook, StartHook, Progress,
       Restart, LocalReady, ClusterHealthy, Commit, FlushRefused, WaitFails, AgentDies,
       WaitTimeout, HookError, TimeOut, Discard, world
  <2> QED
    BY <2>1, <2>2, <2>3, <2>4 DEF Next
<1>2. ~Quiet' => wanted' = 0
  BY <1>1, EventsStep DEF Versions
<1>3. ASSUME NEW u \in Units
      PROVE  disk'[u].ver \in {-1, 0, wanted'} /\ running'[u].ver \in {-1, 0, wanted'}
  <2>1. Rendered(u).ver = wanted /\ Manual.ver = -1
    BY DEF Rendered, Manual
  <2>2. disk'[u].ver \in {-1, 0, wanted} /\ running'[u].ver \in {-1, 0, wanted}
    BY <2>1, TextsStep DEF Versions
  <2> QED
    BY <1>1, <2>2
<1> QED
  BY <1>2, <1>3 DEF Versions

LEMMA UpStep ==
  ASSUME TypeOK, NoneGoesDown, [Next]_vars
  PROVE  NoneGoesDown'
<1>1. /\ budget["fault"] = 0 /\ budget'["fault"] = 0
      /\ budget["reboot"] = 0 /\ budget'["reboot"] = 0
  BY BudgetFalls DEF NoneGoesDown, Events, TypeOK
<1>2. \A u \in Units : ~Crash(u) /\ ~Reboot(u) /\ ~LosesReady(u)
  BY <1>1 DEF Crash, Reboot, LosesReady, Spend
<1>3. ASSUME NEW u \in members' PROVE u \in members /\ (active[u] => active'[u])
  <2>1. CASE UNCHANGED vars
    BY <2>1 DEF vars, world, process
  <2>2. CASE Environment
    <3>1. ASSUME NEW v \in Units, Depart(v) PROVE u \in members /\ active'[u] = active[u]
      BY <3>1 DEF Depart, TypeOK
    <3>2. ASSUME NEW v \in Units, ServiceRecovers(v)
          PROVE  u \in members /\ (active[u] => active'[u])
      BY <3>2 DEF ServiceRecovers, Load, world, TypeOK
    <3> QED
      BY <1>2, <2>2, <3>1, <3>2 DEF Environment, Reconfigure, StorageOutage,
         StorageRestored, ManualEdit, Elect, BecomesReady, world, process
  <2>3. ASSUME NEW v \in Units,
               \/ Hook(v) \/ Progress(v)
               \/ AgentDies(v) \/ WaitTimeout(v) \/ HookError(v)
        PROVE  /\ UNCHANGED members
               /\ active' \in {active, [active EXCEPT ![v] = TRUE]}
    BY <2>3 DEF Hook, RuntimeHook, ReplicasHook, UpdateStatusHook, StartHook,
       ReconcileRuntime, RollUnlessDrifted, Progress, Restart, LocalReady,
       ClusterHealthy, Commit, FlushRefused, WaitFails, AgentDies, WaitTimeout,
       HookError, TimeOut, Discard, Load, world, process
  <2> QED
    BY <2>1, <2>2, <2>3 DEF Next, TypeOK
<1> QED
  BY <1>1, <1>3 DEF NoneGoesDown

-----------------------------------------------------------------------------
\* Steps outside the hooks.
LEMMA AsideKeepsCanary ==
  ASSUME UNCHANGED <<leader, members, target, pending, running, hook>>,
         NEW u \in Units, Canary(u), RunsBroken(u) /\ ready'[u] => ready[u]
  PROVE  Canary(u)'
BY DEF Canary, RunsBroken, Underway, Between

\* A hook that opens sees the unready process, and elects nobody.
LEMMA HookKeepsCanary ==
  ASSUME TypeOK, TurnInv, NoneGoesDown, Clustered,
         NEW v \in Units, Hook(v), NEW u \in Units, Canary(u)
  PROVE  Canary(u)'
<1> SUFFICES ASSUME RunsBroken(u)' PROVE Canary(u)'
  BY DEF Canary
<1>1. Opens(v) /\ v \in members /\ UNCHANGED <<leader, members, target, pending>>
  BY HookOpens DEF world, databag
<1>2. UNCHANGED <<running, ready>>
  <2>1. v \in members /\ active[v]
    BY <1>1 DEF NoneGoesDown
  <2> QED
    BY <2>1 DEF Hook, RuntimeHook, ReplicasHook, UpdateStatusHook, StartHook,
       ReconcileRuntime, RollUnlessDrifted, process
<1>3. /\ RunsBroken(u) /\ ~ready[u] /\ u \in members
      /\ \/ target = u /\ pending[u]
         \/ u = leader /\ (target # NoUnit => ~pending[target])
      /\ Underway(u) => hook[u].pc # "wait-cluster" /\ (pending[u] => hook[u].pend)
      /\ \A w \in Units : Underway(w) /\ hook[w].wrote =>
           w = u /\ hook[w].pc = "wait-ready"
  BY <1>2 DEF RunsBroken, Canary
<1>4. /\ hook'[v].pc \in {"restart-self", "done"}
      /\ pending[v] => hook'[v].pend
      /\ ~hook'[v].wrote
  BY <1>1, <1>3 DEF Opens, Elects, Healthy
<1>5. \A w \in Units \ {v} : hook'[w] = hook[w]
  BY HookTouchesOne DEF Untouched
<1>6. Underway(u)' => hook'[u].pc # "wait-cluster" /\ (pending'[u] => hook'[u].pend)
  BY <1>1, <1>3, <1>4, <1>5 DEF Underway, Between
<1>7. ASSUME NEW w \in Units, Underway(w)', hook'[w].wrote
      PROVE  w = u /\ hook'[w].pc = "wait-ready"
  BY <1>3, <1>4, <1>5, <1>7 DEF Underway, Between
<1> QED
  BY <1>1, <1>2, <1>3, <1>6, <1>7 DEF Canary

\* The unit that restarts is in turn; as long as another runs a broken version it
\* is not.
LEMMA RestartKeepsCanary ==
  ASSUME TypeOK, TurnInv, Clustered,
         NEW v \in Units, Restart(v), NEW u \in Units, \A w \in Units : Canary(w)
  PROVE  Canary(u)'
<1> SUFFICES ASSUME RunsBroken(u)' PROVE Canary(u)'
  BY DEF Canary
<1>1. UNCHANGED <<leader, members, target, pending>>
  BY DEF Restart, world, databag
<1>2. /\ hook'[v].pc = "wait-ready" /\ hook[v].pc = "restart-self"
      /\ hook'[v].pend = hook[v].pend /\ hook'[v].wrote = hook[v].wrote
      /\ ~ready'[v]
      /\ \A w \in Units \ {v} : /\ hook'[w] = hook[w]
                                /\ running'[w] = running[w] /\ ready'[w] = ready[w]
  BY DEF Restart, Load, TypeOK, HookState
<1>3. /\ Underway(v) /\ HookTurn(v) /\ InTurn(v)
  BY <1>2 DEF TurnInv, Underway, Between, InTurn
<1>4. /\ v \in members /\ hook[v].pend
      /\ (target = v /\ pending[v]) \/ (hook[v].wrote /\ hook[v].tgt = v)
      /\ hook[v].wrote => v = leader /\ (target # NoUnit => ~pending[target])
  BY <1>3 DEF HookTurn, Turn, Election
<1>5. CASE u = v
  <2>1. ASSUME NEW w \in Units, Underway(w)', hook'[w].wrote
        PROVE  w = u /\ hook'[w].pc = "wait-ready"
    <3>1. CASE w = v
      BY <1>2, <1>5, <3>1
    <3>2. CASE w # v
      <4>1. Underway(w) /\ hook[w].wrote
        BY <1>2, <2>1, <3>2 DEF Underway, Between
      <4>2. w = leader /\ (target # NoUnit => ~pending[target])
        BY <4>1 DEF TurnInv, HookTurn, Election
      <4> QED
        BY <1>4, <3>2, <4>2, NoUnitAssumption
    <3> QED
      BY <3>1, <3>2
  <2> QED
    BY <1>1, <1>2, <1>4, <1>5, <2>1 DEF Canary
<1>6. CASE u # v
  <2>1. /\ RunsBroken(u) /\ ~ready[u] /\ u \in members
        /\ \/ target = u /\ pending[u]
           \/ u = leader /\ (target # NoUnit => ~pending[target])
        /\ Underway(u) => hook[u].pc # "wait-cluster" /\ (pending[u] => hook[u].pend)
        /\ \A w \in Units : Underway(w) /\ hook[w].wrote =>
             w = u /\ hook[w].pc = "wait-ready"
    BY <1>2, <1>6 DEF RunsBroken, Canary
  <2>2. \A w \in Units : Underway(w)' /\ hook'[w].wrote =>
             w = u /\ hook'[w].pc = "wait-ready"
    BY <1>2, <1>3, <2>1 DEF Underway, Between
  <2> QED
    BY <1>1, <1>2, <1>6, <2>1, <2>2 DEF Canary, Underway, Between
<1> QED
  BY <1>5, <1>6

\* Neither wait ends for a process that never becomes ready.
LEMMA WaitKeepsCanary ==
  ASSUME TypeOK, NEW v \in Units, LocalReady(v) \/ ClusterHealthy(v),
         NEW u \in Units, Canary(u)
  PROVE  Canary(u)'
<1> SUFFICES ASSUME RunsBroken(u)' PROVE Canary(u)'
  BY DEF Canary
<1>1. UNCHANGED <<leader, members, target, pending, running, ready>>
  BY DEF LocalReady, ClusterHealthy, world, databag, process
<1>2. /\ hook'[v].wrote = hook[v].wrote
      /\ \A w \in Units \ {v} : hook'[w] = hook[w]
      /\ Underway(v)
      /\ \/ hook[v].pc = "wait-ready" /\ ready[v]
         \/ hook[v].pc = "wait-cluster"
  BY DEF LocalReady, ClusterHealthy, TypeOK, HookState, Underway, Between
<1>3. /\ RunsBroken(u) /\ ~ready[u] /\ u \in members
      /\ \/ target = u /\ pending[u]
         \/ u = leader /\ (target # NoUnit => ~pending[target])
      /\ Underway(u) => hook[u].pc # "wait-cluster" /\ (pending[u] => hook[u].pend)
      /\ \A w \in Units : Underway(w) /\ hook[w].wrote =>
           w = u /\ hook[w].pc = "wait-ready"
  BY <1>1 DEF RunsBroken, Canary
<1>4. u # v
  BY <1>2, <1>3
<1>5. \A w \in Units : Underway(w)' /\ hook'[w].wrote =>
        w = u /\ hook'[w].pc = "wait-ready"
  BY <1>2, <1>3, <1>4 DEF Underway, Between
<1> QED
  BY <1>1, <1>2, <1>3, <1>4, <1>5 DEF Canary, Underway, Between

\* A hook that fails publishes nothing.
LEMMA FailureKeepsCanary ==
  ASSUME TypeOK, NEW v \in Units,
         \/ FlushRefused(v) \/ AgentDies(v) \/ HookError(v)
         \/ WaitFails(v) \/ WaitTimeout(v),
         NEW u \in Units, Canary(u)
  PROVE  Canary(u)'
<1>1. UNCHANGED <<leader, members, target, pending, running, ready>>
  BY DEF FlushRefused, AgentDies, HookError, WaitFails, WaitTimeout, Discard, TimeOut,
     world, databag, process
<1>2. hook' = [hook EXCEPT ![v] = Failed(v)]
  BY DEF FlushRefused, AgentDies, HookError, WaitFails, WaitTimeout, Discard, TimeOut
<1>3. Failed(v).pc = "failed"
  BY DEF Failed, Idle
<1>4. ~Underway(v)' /\ \A w \in Units \ {v} : hook'[w] = hook[w]
  BY <1>2, <1>3 DEF Underway, Between, TypeOK
<1> QED
  BY <1>1, <1>4 DEF Canary, RunsBroken, Underway, Between

\* A hook that ends has elected nobody, and leaves the unit queued.
LEMMA CommitKeepsCanary ==
  ASSUME TypeOK, TurnInv, NEW v \in Units, Commit(v), NEW u \in Units, Canary(u)
  PROVE  Canary(u)'
<1> SUFFICES ASSUME RunsBroken(u)' PROVE Canary(u)'
  BY DEF Canary
<1>1. UNCHANGED <<leader, members, running, ready>>
  BY DEF Commit, world, process
<1>2. /\ RunsBroken(u) /\ ~ready[u] /\ u \in members
      /\ \/ target = u /\ pending[u]
         \/ u = leader /\ (target # NoUnit => ~pending[target])
      /\ Underway(u) => hook[u].pc # "wait-cluster" /\ (pending[u] => hook[u].pend)
      /\ \A w \in Units : Underway(w) /\ hook[w].wrote =>
           w = u /\ hook[w].pc = "wait-ready"
  BY <1>1 DEF RunsBroken, Canary
<1>3. Underway(v) /\ ~hook[v].wrote /\ HookTurn(v)
  BY <1>2 DEF Commit, Underway, Between, TurnInv
<1>4. /\ target' = target /\ pending'[v] = hook[v].pend
      /\ \A w \in Units \ {v} : pending'[w] = pending[w] /\ hook'[w] = hook[w]
      /\ ~Underway(v)'
  BY <1>3 DEF Commit, TypeOK, Underway, Between, Idle
<1>5. hook[v].pend /\ target = v => pending[v]
  BY <1>3 DEF HookTurn
<1>6. CASE target = u /\ pending[u]
  BY <1>1, <1>2, <1>3, <1>4, <1>6 DEF Canary, Underway, Between
<1>7. CASE u = leader /\ (target # NoUnit => ~pending[target])
  <2>1. target \in Units \cup {NoUnit}
    BY DEF TypeOK
  <2>2. target' # NoUnit => ~pending'[target']
    BY <1>4, <1>5, <1>7, <2>1
  <2> QED
    BY <1>1, <1>2, <1>4, <1>7, <2>2 DEF Canary, Underway, Between
<1> QED
  BY <1>2, <1>6, <1>7

\* Units only leave.
LEMMA ClusteredBefore ==
  ASSUME TypeOK, members' \subseteq members, Clustered'
  PROVE  Clustered
<1>1. IsFiniteSet(members)
  BY UnitsAssumption, FS_Subset DEF TypeOK
<1>2. /\ IsFiniteSet(members') /\ Cardinality(members') <= Cardinality(members)
      /\ Cardinality(members) \in Nat
  BY <1>1, FS_Subset, FS_CardinalityType
<1>3. Cardinality(members') \in Nat
  BY <1>2, FS_CardinalityType
<1> QED
  BY <1>2, <1>3 DEF Clustered

LEMMA CanaryStep == TypeOK /\ TurnInv /\ CanaryInv /\ [Next]_vars => CanaryInv'
<1> SUFFICES ASSUME TypeOK, TurnInv, CanaryInv, [Next]_vars PROVE CanaryInv'
  OBVIOUS
<1>1. NoneGoesDown' /\ Versions'
  BY UpStep, VersionsStep DEF CanaryInv, TurnInv
<1>2. members' \subseteq members
  <2>1. CASE UNCHANGED vars
    BY <2>1 DEF vars, world
  <2>2. CASE Environment
    BY <2>2 DEF Environment, Reconfigure, StorageOutage, StorageRestored, ManualEdit,
       LosesReady, Crash, Reboot, Elect, Depart, BecomesReady, ServiceRecovers, world
  <2>3. ASSUME NEW u \in Units,
               \/ Hook(u) \/ Progress(u)
               \/ AgentDies(u) \/ WaitTimeout(u) \/ HookError(u)
        PROVE  members' = members
    BY <2>3 DEF Hook, RuntimeHook, ReplicasHook, UpdateStatusHook, StartHook, Progress,
       Restart, LocalReady, ClusterHealthy, Commit, FlushRefused, WaitFails, AgentDies,
       WaitTimeout, HookError, TimeOut, Discard, world
  <2> QED
    BY <2>1, <2>2, <2>3 DEF Next
<1>3. ASSUME Clustered', NEW u \in Units PROVE Canary(u)'
  <2> USE DEF CanaryInv
  <2>1. Clustered /\ \A w \in Units : Canary(w)
    BY <1>2, <1>3, ClusteredBefore
  <2>2. \A v \in Units : ~Crash(v) /\ ~Reboot(v) /\ ~LosesReady(v) /\ ~Elect(v)
    BY DEF NoneGoesDown, TurnInv, EventsLeft, Crash, Reboot, LosesReady, Elect, Spend
  <2>3. CASE UNCHANGED vars
    BY <2>1, <2>3, AsideKeepsCanary DEF vars, world, databag, process
  <2>4. CASE Reconfigure \/ StorageOutage \/ StorageRestored
    BY <2>1, <2>4, AsideKeepsCanary
       DEF Reconfigure, StorageOutage, StorageRestored, databag, process
  <2>5. ASSUME NEW v \in Units, ManualEdit(v) PROVE Canary(u)'
    BY <2>1, <2>5, AsideKeepsCanary DEF ManualEdit, world, databag, process
  <2>6. ASSUME NEW v \in Units, BecomesReady(v) PROVE Canary(u)'
    <3>1. RunsBroken(u) /\ ready'[u] => ready[u]
      BY <2>6 DEF BecomesReady, RunsBroken, TypeOK
    <3> QED
      BY <2>1, <2>6, <3>1, AsideKeepsCanary DEF BecomesReady, world, databag
  <2>7. ASSUME NEW v \in Units PROVE ~ServiceRecovers(v)
    BY DEF ServiceRecovers, NoneGoesDown
  <2>8. ASSUME NEW v \in Units, Depart(v) PROVE Canary(u)'
    <3>1. ~Quiet
      BY <2>8, ChangeIsLast DEF Depart, Changes, TurnInv
    <3>2. ~RunsBroken(u) /\ running' = running
      BY <2>8, <3>1, BrokenIsNew DEF Depart
    <3> QED
      BY <3>2 DEF Canary, RunsBroken
  <2>9. CASE Environment
    BY <2>2, <2>4, <2>5, <2>6, <2>7, <2>8, <2>9 DEF Environment
  <2>10. ASSUME NEW v \in Units, Hook(v) PROVE Canary(u)'
    BY <2>1, <2>10, HookKeepsCanary
  <2>11. ASSUME NEW v \in Units, Restart(v) PROVE Canary(u)'
    BY <2>1, <2>11, RestartKeepsCanary
  <2>12. ASSUME NEW v \in Units, LocalReady(v) \/ ClusterHealthy(v) PROVE Canary(u)'
    BY <2>1, <2>12, WaitKeepsCanary
  <2>13. ASSUME NEW v \in Units, Commit(v) PROVE Canary(u)'
    BY <2>1, <2>13, CommitKeepsCanary
  <2>14. ASSUME NEW v \in Units,
                \/ FlushRefused(v) \/ AgentDies(v) \/ HookError(v)
                \/ WaitFails(v) \/ WaitTimeout(v)
         PROVE  Canary(u)'
    BY <2>1, <2>14, FailureKeepsCanary
  <2> QED
    BY <2>3, <2>9, <2>10, <2>11, <2>12, <2>13, <2>14 DEF Next, Progress
<1> QED
  BY <1>1, <1>3 DEF CanaryInv

LEMMA CanaryInit == ProcessesStayUp /\ Init => CanaryInv
<1> SUFFICES ASSUME ProcessesStayUp, Init PROVE CanaryInv
  OBVIOUS
<1>1. \A u \in Units : /\ disk[u].ver = 0 /\ running[u].ver = 0
                       /\ active[u]
  BY DEF Init, Rendered
<1>2. NoneGoesDown /\ Versions
  BY <1>1 DEF ProcessesStayUp, Init, NoneGoesDown, Versions
<1>3. \A u \in Units : Canary(u)
  BY <1>1, BrokenAssumption DEF Canary, RunsBroken
<1> QED
  BY <1>2, <1>3 DEF CanaryInv

\* A version that verifies and never becomes ready is loaded by one process at
\* most, in a cluster of any size, through timeouts, failed hooks and outages of
\* the storage: _perform_target_restart keeps the unit in turn queued, and
\* _advance_rolling_restart elects nobody while a unit is unready.  For one
\* change under one leader (OneRollout), and processes that are only started by
\* the charm (ProcessesStayUp).
THEOREM BrokenIsContained ==
  OneRollout /\ ProcessesStayUp => (Spec => []BrokenContained)
<1> SUFFICES ASSUME OneRollout, ProcessesStayUp PROVE Spec => []BrokenContained
  OBVIOUS
<1>1. Init => TypeOK /\ TurnInv /\ CanaryInv
  BY TypeInit, TurnInit, CanaryInit
<1>2. TypeOK /\ TurnInv /\ CanaryInv /\ [Next]_vars => (TypeOK /\ TurnInv /\ CanaryInv)'
  BY TypeStep, TurnStep, CanaryStep
<1>3. TypeOK /\ CanaryInv => BrokenContained
  BY CanaryIsAlone
<1> QED
  BY <1>1, <1>2, <1>3, PTL DEF Spec
=============================================================================
