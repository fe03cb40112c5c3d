------------------------ MODULE RuleReconcilerProofs ------------------------
(***************************************************************************)
(* Theorems about RuleReconciler, for any units, sources, documents,       *)
(* limits and environment budgets.                                         *)
(*                                                                         *)
(* The inductive invariant says what the record of a job means (Coherent)  *)
(* and, unless another writer came in between, how the job stands to the   *)
(* ruler (InStep).  LimitInv, for the cached groups, says that every       *)
(* snapshot held anywhere is within the limit of the cache.  AimInv, for   *)
(* the implementation of RuleNamespace, says that no request of a job,     *)
(* disturbed or not, leads away from what the job wants.                   *)
(***************************************************************************)
EXTENDS RuleReconciler, FiniteSums

UniqueNames(groups) == \A g, h \in groups : g.name = h.name => g = h

\* The candidate is the one that admission chose, and a lost cache was made
\* up for by the sources.
Chosen(j) ==
  LET kept == Retained(j.owned, j.seen)
  IN  /\ j.snap = Candidate(kept, j.seen)
      /\ \/ j.valid
         \/ \A r \in Sources : j.seen[r] # Gone => r \in Admitted(kept, j.seen)

\* What a job knows, whatever became of the ruler.
Knows(j) ==
  /\ UniqueNames(j.goal)
  /\ UniqueNames(j.before)
  /\ Mergeable(j.owned)
  /\ j.pc \in {"persist", "done"} => j.phase = "apply"
  /\ j.pc # "idle" /\ j.phase = "apply" =>
       /\ Mergeable(j.snap)
       /\ j.goal = Merged(j.snap)
       /\ Chosen(j)
  /\ j.pc = "write" => j.drops \cap NamesOf(j.goal) = {}

\* Between two steps there is room for a mutation, if the job makes any.
Coherent(j) == Knows(j) /\ (j.pc \in {"write", "undo"} => j.room > 0)

Wanted(j) == IF j.pc = "write" THEN j.goal ELSE j.before

\* How a job that nobody disturbed stands to the groups in the ruler.
InStep(j, groups) ==
  /\ j.pc \in {"write", "undo"} =>
       /\ j.posts = Wanted(j) \ groups
       /\ j.drops = NamesOf(groups) \ NamesOf(Wanted(j))
  /\ j.pc \in {"write", "recover", "undo", "persist", "done"} =>
       NamesOf(j.before) \cap NamesOf(j.goal) \subseteq NamesOf(groups)
  /\ j.pc \in {"persist", "done"} => groups = Merged(j.snap)

JobsInv ==
  \A u \in Units :
    /\ Coherent(job[u])
    /\ u \notin disturbed => InStep(job[u], live)

IInv == TypeOK /\ Mergeable(cache) /\ UniqueNames(live) /\ JobsInv

-----------------------------------------------------------------------------
(***************************************************************************)
(* Groups and their names.                                                 *)
(***************************************************************************)
LEMMA MergeableUnique ==
  ASSUME NEW snap, Mergeable(snap)
  PROVE  UniqueNames(Merged(snap))
BY DEF Mergeable, Merged, UniqueNames

LEMMA MergedType ==
  ASSUME NEW snap \in Snapshots
  PROVE  Merged(snap) \in SUBSET Group
<1>1. \A r \in Sources : snap[r] \subseteq Group
  BY DocumentsAssumption DEF Snapshots
<1> QED BY <1>1 DEF Merged

LEMMA NoSnapshotsMergeable == NoSnapshots \in Snapshots /\ Mergeable(NoSnapshots)
<1>1. NoSnapshots \in Snapshots
  BY DocumentsAssumption DEF NoSnapshots, Snapshots
<1>2. Merged(NoSnapshots) = {}
  BY DEF Merged, NoSnapshots
<1>3. Cardinality({}) = 0
  BY FS_EmptySet
<1>4. Cardinality(Merged(NoSnapshots)) <= MaxGroups
  BY <1>2, <1>3, LimitsAssumption
<1> QED BY <1>1, <1>4 DEF Mergeable, NoSnapshots

\* A POST leaves names unique, keeps every name and adds one.
LEMMA UpsertedFacts ==
  ASSUME NEW S \in SUBSET Group, UniqueNames(S), live = S, NEW g \in Group
  PROVE  /\ Upserted(g) \in SUBSET Group
         /\ UniqueNames(Upserted(g))
         /\ NamesOf(Upserted(g)) = NamesOf(S) \cup {g.name}
         /\ \A groups \in SUBSET Group :
              UniqueNames(groups) /\ g \in groups =>
                groups \ Upserted(g) = (groups \ S) \ {g}
<1>1. Upserted(g) \in SUBSET Group
  BY DEF Upserted
<1>2. UniqueNames(Upserted(g))
  BY DEF Upserted, UniqueNames
<1>3. NamesOf(Upserted(g)) = NamesOf(S) \cup {g.name}
  BY DEF Upserted, NamesOf
<1>4. ASSUME NEW groups \in SUBSET Group, UniqueNames(groups), g \in groups
      PROVE  groups \ Upserted(g) = (groups \ S) \ {g}
  BY <1>4 DEF Upserted, UniqueNames
<1> QED BY <1>1, <1>2, <1>3, <1>4

\* A DELETE leaves names unique and takes away one name.
LEMMA RemovedFacts ==
  ASSUME NEW S \in SUBSET Group, UniqueNames(S), live = S, NEW n
  PROVE  /\ Removed(n) \in SUBSET Group
         /\ UniqueNames(Removed(n))
         /\ NamesOf(Removed(n)) = NamesOf(S) \ {n}
         /\ \A groups : n \notin NamesOf(groups) => groups \ Removed(n) = groups \ S
<1>1. Removed(n) \in SUBSET Group
  BY DEF Removed
<1>2. UniqueNames(Removed(n))
  BY DEF Removed, UniqueNames
<1>3. NamesOf(Removed(n)) = NamesOf(S) \ {n}
  BY DEF Removed, NamesOf
<1>4. ASSUME NEW groups, n \notin NamesOf(groups)
      PROVE  groups \ Removed(n) = groups \ S
  BY <1>4 DEF Removed, NamesOf
<1> QED BY <1>1, <1>2, <1>3, <1>4

\* With no request left to make, the ruler holds exactly what was asked for.
LEMMA NothingLeft ==
  ASSUME NEW S, UniqueNames(S), NEW groups,
         groups \ S = {}, NamesOf(S) \ NamesOf(groups) = {}
  PROVE  S = groups
BY DEF UniqueNames, NamesOf

-----------------------------------------------------------------------------
(***************************************************************************)
(* Where a job goes.                                                       *)
(***************************************************************************)
LEMMA NoJobFacts ==
  NoJob \in Job /\ Coherent(NoJob) /\ \A S : InStep(NoJob, S)
<1>1. NoJob \in Job
  BY NoSnapshotsMergeable, LimitsAssumption DEF NoJob, Job, Seen, Steps
<1>2. Coherent(NoJob)
  BY NoSnapshotsMergeable DEF NoJob, Coherent, Knows, UniqueNames
<1>3. \A S : InStep(NoJob, S)
  BY DEF NoJob, InStep
<1> QED BY <1>1, <1>2, <1>3

\* A replay has read nothing yet.
LEMMA ReplayFacts ==
  ASSUME NEW j \in Job, Mergeable(j.owned),
         NEW groups \in SUBSET Group, UniqueNames(groups)
  PROVE  /\ Replay(j, groups) \in Job
         /\ Coherent(Replay(j, groups))
         /\ \A S : InStep(Replay(j, groups), S)
<1> DEFINE k == [j EXCEPT !.phase = "replay", !.pc = "read", !.goal = groups,
                          !.before = {}, !.posts = {}, !.drops = {}]
<1>1. k \in Job
  BY DEF Job, Steps
<1>2. /\ k.pc = "read" /\ k.phase = "replay" /\ k.goal = groups
      /\ k.before = {} /\ k.owned = j.owned
  BY DEF Job
<1>3. Coherent(k)
  BY <1>2 DEF Coherent, Knows, UniqueNames
<1>4. \A S : InStep(k, S)
  BY <1>2 DEF InStep
<1>5. Replay(j, groups) \in {NoJob, k}
  BY DEF Replay
<1> QED BY <1>1, <1>3, <1>4, <1>5, NoJobFacts

LEMMA UnrestoredFacts ==
  ASSUME NEW j \in Job, Mergeable(j.owned)
  PROVE  /\ Unrestored(j) \in Job
         /\ Coherent(Unrestored(j))
         /\ \A S : InStep(Unrestored(j), S)
<1>1. Merged(j.owned) \in SUBSET Group
  BY MergedType DEF Job
<1>2. UniqueNames(Merged(j.owned))
  BY MergeableUnique
<1> QED BY <1>1, <1>2, ReplayFacts, NoJobFacts DEF Unrestored

\* After a request the job goes on, ends, or hands over, and in each case it
\* stands to the ruler as it should: it hands over only what is live.
LEMMA SettledFacts ==
  ASSUME NEW j \in Job, Knows(j), j.pc \in {"write", "undo"}
  PROVE  /\ Settled(j) \in Job
         /\ Coherent(Settled(j))
         /\ \A S : UniqueNames(S) /\ InStep(j, S) => InStep(Settled(j), S)
<1>1. Mergeable(j.owned)
  BY DEF Knows
<1>2. CASE j.posts = {} /\ j.drops = {} /\ j.pc = "write" /\ j.phase = "apply"
  <2> DEFINE k == [j EXCEPT !.pc = "persist"]
  <2>1. Settled(j) = k
    BY <1>2 DEF Settled
  <2>2. k \in Job
    BY DEF Job, Steps
  <2>3. /\ k.pc = "persist" /\ k.phase = "apply" /\ k.goal = j.goal
        /\ k.before = j.before /\ k.owned = j.owned /\ k.snap = j.snap
        /\ k.seen = j.seen /\ k.valid = j.valid
    BY <1>2 DEF Job
  <2>4. Coherent(k)
    BY <1>2, <2>3 DEF Coherent, Knows, Chosen
  <2>5. ASSUME NEW S, UniqueNames(S), InStep(j, S)
        PROVE  InStep(k, S)
    <3>1. j.goal \ S = {} /\ NamesOf(S) \ NamesOf(j.goal) = {}
      BY <1>2, <2>5 DEF InStep, Wanted
    <3>2. S = j.goal
      BY <2>5, <3>1, NothingLeft
    <3>3. j.goal = Merged(j.snap)
      BY <1>2 DEF Knows
    <3> QED BY <1>2, <2>3, <2>5, <3>2, <3>3 DEF InStep
  <2> QED BY <2>1, <2>2, <2>4, <2>5
<1>3. CASE j.posts = {} /\ j.drops = {} /\ ~(j.pc = "write" /\ j.phase = "apply")
  BY <1>3, NoJobFacts DEF Settled
<1>4. CASE ~(j.posts = {} /\ j.drops = {}) /\ j.room = 0
  BY <1>1, <1>4, NoJobFacts, UnrestoredFacts DEF Settled
<1>5. CASE ~(j.posts = {} /\ j.drops = {}) /\ j.room # 0
  <2>1. Settled(j) = j
    BY <1>5 DEF Settled
  <2>2. j.room > 0
    BY <1>5, LimitsAssumption DEF Job
  <2> QED BY <2>1, <2>2 DEF Coherent
<1> QED BY <1>2, <1>3, <1>4, <1>5

\* What the requests are planned from is what they are planned for.
LEMMA PlannedFacts ==
  ASSUME NEW j \in Job, Knows(j), j.pc # "idle", live \in SUBSET Group,
         NEW pc \in {"write", "undo"}, NEW groups \in SUBSET Group,
         groups = (IF pc = "write" THEN j.goal ELSE j.before)
  PROVE  LET k == Planned(j, pc, groups)
         IN  /\ k \in Job
             /\ k.pc = pc
             /\ Knows(k)
             /\ NamesOf(j.before) \cap NamesOf(j.goal) \subseteq NamesOf(live) =>
                  InStep(k, live)
<1> DEFINE k == Planned(j, pc, groups)
<1>1. NamesOf(live) \in SUBSET Names
  BY DEF NamesOf, Group
<1>2. k \in Job
  <2>1. Batch \in 0 .. Batch /\ pc \in Steps
    BY LimitsAssumption DEF Steps
  <2>2. groups \ live \in SUBSET Group
    OBVIOUS
  <2>3. NamesOf(live) \ NamesOf(groups) \in SUBSET Names
    BY <1>1
  <2> QED BY <2>1, <2>2, <2>3 DEF Planned, Job
<1>3. /\ k.pc = pc /\ k.phase = j.phase /\ k.goal = j.goal /\ k.before = j.before
      /\ k.owned = j.owned /\ k.snap = j.snap /\ k.seen = j.seen /\ k.valid = j.valid
      /\ k.posts = groups \ live /\ k.drops = NamesOf(live) \ NamesOf(groups)
  BY DEF Planned, Job
<1>4. Knows(k)
  BY <1>3 DEF Knows, Chosen
<1>5. NamesOf(j.before) \cap NamesOf(j.goal) \subseteq NamesOf(live) => InStep(k, live)
  BY <1>3 DEF InStep, Wanted
<1> QED BY <1>2, <1>3, <1>4, <1>5

-----------------------------------------------------------------------------
(***************************************************************************)
(* The frame of a step.                                                    *)
(***************************************************************************)

\* A step of one job, if it leaves the ruler alone or marks the jobs it
\* disturbs.
LEMMA JobStep ==
  ASSUME IInv, NEW u \in Units, NEW j \in Job, Coherent(j),
         Advance(u, j),
         u \notin disturbed' => InStep(j, live'),
         \A v \in Units \ {u} : v \notin disturbed' =>
           v \notin disturbed /\ (live' = live \/ job[v].pc = "idle")
  PROVE  job' \in [Units -> Job] /\ JobsInv'
<1>1. job \in [Units -> Job]
  BY DEF IInv, TypeOK
<1>2. job' \in [Units -> Job]
  BY <1>1 DEF Advance
<1>3. ASSUME NEW v \in Units
      PROVE  Coherent(job'[v]) /\ (v \notin disturbed' => InStep(job'[v], live'))
  <2>1. CASE v = u
    BY <1>1, <2>1 DEF Advance
  <2>2. CASE v # u
    <3>1. job'[v] = job[v]
      BY <1>1, <2>2 DEF Advance
    <3>2. Coherent(job[v]) /\ (v \notin disturbed => InStep(job[v], live))
      BY DEF IInv, JobsInv
    <3>3. job[v].pc = "idle" => InStep(job[v], live')
      BY DEF InStep
    <3> QED BY <2>2, <3>1, <3>2, <3>3
  <2> QED BY <2>1, <2>2
<1> QED BY <1>2, <1>3 DEF JobsInv

LEMMA DisturbFacts ==
  ASSUME TypeOK, NEW u \in Units, Disturb(u)
  PROVE  /\ disturbed' \subseteq Units
         /\ u \notin disturbed' => u \notin disturbed
         /\ \A v \in Units \ {u} : v \notin disturbed' =>
              v \notin disturbed /\ (live' = live \/ job[v].pc = "idle")
BY DEF TypeOK, Disturb

LEMMA SpendType ==
  ASSUME TypeOK, NEW e \in Events, Spend(e)
  PROVE  budget' \in [Events -> Nat]
<1>1. budget[e] \in Nat /\ budget[e] > 0
  BY DEF TypeOK, Spend
<1>2. budget[e] - 1 \in Nat
  BY <1>1
<1> QED BY <1>2 DEF TypeOK, Spend

\* Nothing but the record of one job changes, and whatever the ruler holds
\* the new record is in step with it.
LEMMA QuietStep ==
  ASSUME IInv, NEW u \in Units, NEW j \in Job, Coherent(j),
         Advance(u, j), \A S : InStep(j, S),
         UNCHANGED <<leader, sources, accepted, live>>,
         disturbed' \in {disturbed, disturbed \ {u}},
         budget' \in [Events -> Nat]
  PROVE  IInv'
<1>1. job' \in [Units -> Job] /\ JobsInv'
  <2>1. u \notin disturbed' => InStep(j, live')
    OBVIOUS
  <2>2. \A v \in Units \ {u} : v \notin disturbed' =>
          v \notin disturbed /\ (live' = live \/ job[v].pc = "idle")
    OBVIOUS
  <2> QED BY <2>1, <2>2, JobStep
<1>2. TypeOK'
  BY <1>1 DEF IInv, TypeOK, sources, accepted
<1>3. Mergeable(cache)' /\ UniqueNames(live)'
  BY DEF IInv, Mergeable, Merged, accepted
<1> QED BY <1>1, <1>2, <1>3 DEF IInv

\* A job that changes the ruler.
LEMMA RulerStep ==
  ASSUME IInv, NEW u \in Units, NEW j \in Job, Coherent(j),
         Advance(u, j), Disturb(u),
         u \notin disturbed => InStep(j, live'),
         live' \in SUBSET Group, UniqueNames(live'),
         UNCHANGED <<leader, sources, accepted>>,
         budget' \in [Events -> Nat]
  PROVE  IInv'
<1>0. TypeOK
  BY DEF IInv
<1>1. job' \in [Units -> Job] /\ JobsInv'
  BY <1>0, JobStep, DisturbFacts
<1>2. TypeOK'
  BY <1>0, <1>1, DisturbFacts DEF TypeOK, sources, accepted
<1>3. Mergeable(cache)' /\ UniqueNames(live)'
  BY DEF IInv, Mergeable, Merged, accepted
<1> QED BY <1>1, <1>2, <1>3 DEF IInv

\* The environment changes no job; it may change the ruler if it marks them.
LEMMA OutsideStep ==
  ASSUME IInv, UNCHANGED job, TypeOK',
         Mergeable(cache'), UniqueNames(live'),
         \A v \in Units : v \notin disturbed' =>
           v \notin disturbed /\ (live' = live \/ job[v].pc = "idle")
  PROVE  IInv'
<1>1. ASSUME NEW v \in Units
      PROVE  Coherent(job'[v]) /\ (v \notin disturbed' => InStep(job'[v], live'))
  <2>1. Coherent(job[v]) /\ (v \notin disturbed => InStep(job[v], live))
    BY DEF IInv, JobsInv
  <2>2. job[v].pc = "idle" => InStep(job[v], live')
    BY DEF InStep
  <2> QED BY <2>1, <2>2
<1>2. JobsInv'
  BY <1>1 DEF JobsInv
<1>3. Mergeable(cache)' /\ UniqueNames(live)'
  BY DEF Mergeable, Merged, UniqueNames
<1> QED BY <1>2, <1>3 DEF IInv

-----------------------------------------------------------------------------
(***************************************************************************)
(* The steps of reconcile, one lemma per action.                           *)
(***************************************************************************)

\* Only sources with a valid document are admitted.
LEMMA AdmittedReadable ==
  ASSUME NEW kept, NEW seen, NEW r \in Admitted(kept, seen)
  PROVE  r \in Sources /\ seen[r] \in Documents
BY DEF Admitted

LEMMA CandidateType ==
  ASSUME NEW owned \in Snapshots, NEW seen \in Seen
  PROVE  /\ Retained(owned, seen) \in Snapshots
         /\ Candidate(Retained(owned, seen), seen) \in Snapshots
<1>1. Retained(owned, seen) \in Snapshots
  BY DocumentsAssumption DEF Retained, Snapshots
<1>2. \A r \in Admitted(Retained(owned, seen), seen) : seen[r] \in Documents
  BY AdmittedReadable
<1> QED BY <1>1, <1>2 DEF Candidate, Updated, Snapshots

LEMMA FoundType ==
  ASSUME TypeOK
  PROVE  Found \in Seen
BY DEF TypeOK, Found, Seen

LEMMA ReconcileStep ==
  ASSUME IInv, NEW u \in Units, Reconcile(u)
  PROVE  IInv'
<1> DEFINE kept == Retained(cache, Found)
           snap == Candidate(kept, Found)
           j == [NoJob EXCEPT !.pc = "read", !.seen = Found, !.owned = cache,
                              !.valid = cacheValid, !.snap = snap,
                              !.goal = Merged(snap)]
           k == IF Mergeable(snap) THEN j ELSE Replay(j, Merged(cache))
<1>1. TypeOK /\ Mergeable(cache) /\ cache \in Snapshots /\ cacheValid \in BOOLEAN
  BY DEF IInv, TypeOK
<1>2. Found \in Seen
  BY <1>1, FoundType
<1>3. snap \in Snapshots
  BY <1>1, <1>2, CandidateType
<1>4. Merged(snap) \in SUBSET Group /\ Merged(cache) \in SUBSET Group
  BY <1>1, <1>3, MergedType
<1>5. j \in Job
  <2> HIDE DEF snap
  <2> QED BY <1>1, <1>2, <1>3, <1>4, NoJobFacts DEF Job, Steps
<1>6. /\ j.pc = "read" /\ j.seen = Found /\ j.owned = cache /\ j.snap = snap
      /\ j.goal = Merged(snap) /\ j.before = {} /\ j.valid = cacheValid
      /\ j.phase = "apply"
  BY DEF NoJob
<1>7. Trusted(kept, Found) /\ Advance(u, k)
  BY DEF Reconcile
<1> HIDE DEF j
<1>8. ASSUME Mergeable(snap)
      PROVE  Coherent(j)
  <2>1. UniqueNames(j.goal) /\ UniqueNames(j.before)
    BY <1>6, <1>8, MergeableUnique DEF UniqueNames
  <2>2. Chosen(j)
    BY <1>6, <1>7 DEF Chosen, Trusted
  <2> HIDE DEF snap
  <2> QED BY <1>1, <1>6, <1>8, <2>1, <2>2 DEF Coherent, Knows
<1>9. \A S : InStep(j, S)
  BY <1>6 DEF InStep
<1>10. UniqueNames(Merged(cache))
  BY <1>1, MergeableUnique
<1>11. k \in Job /\ Coherent(k) /\ \A S : InStep(k, S)
  BY <1>1, <1>4, <1>5, <1>6, <1>8, <1>9, <1>10, ReplayFacts
<1>12. budget' \in [Events -> Nat]
  BY <1>1 DEF TypeOK, Reconcile
<1> QED BY <1>7, <1>11, <1>12, QuietStep DEF Reconcile

\* A job that is not idle has a coherent record.
LEMMA JobFacts ==
  ASSUME IInv, NEW u \in Units
  PROVE  /\ job[u] \in Job
         /\ Coherent(job[u])
         /\ Knows(job[u])
         /\ Mergeable(job[u].owned)
         /\ u \notin disturbed => InStep(job[u], live)
         /\ live \in SUBSET Group
         /\ UniqueNames(live)
         /\ TypeOK
BY DEF IInv, TypeOK, JobsInv, Coherent, Knows

LEMMA ReadNamespaceStep ==
  ASSUME IInv, NEW u \in Units, ReadNamespace(u)
  PROVE  IInv'
<1> DEFINE j == [job[u] EXCEPT !.before = live]
           k == Planned(j, "write", j.goal)
<1>1. /\ job[u] \in Job /\ Knows(job[u]) /\ job[u].pc = "read"
      /\ live \in SUBSET Group /\ UniqueNames(live) /\ TypeOK
  BY JobFacts DEF ReadNamespace
<1>2. j \in Job
  BY <1>1 DEF Job
<1>3. /\ j.pc = "read" /\ j.phase = job[u].phase /\ j.goal = job[u].goal
      /\ j.before = live /\ j.owned = job[u].owned /\ j.snap = job[u].snap
      /\ j.seen = job[u].seen /\ j.valid = job[u].valid
  BY <1>1 DEF Job
<1>4. Knows(j)
  BY <1>1, <1>3 DEF Knows, Chosen
<1>5. j.goal \in SUBSET Group
  BY <1>2 DEF Job
<1>6. Advance(u, Settled(k))
  BY DEF ReadNamespace
<1> HIDE DEF j
<1>7. k \in Job /\ k.pc = "write" /\ Knows(k) /\ InStep(k, live)
  BY <1>1, <1>2, <1>3, <1>4, <1>5, PlannedFacts
<1> HIDE DEF k
<1>8. Settled(k) \in Job /\ Coherent(Settled(k)) /\ InStep(Settled(k), live)
  BY <1>1, <1>7, SettledFacts
<1>9. job' \in [Units -> Job] /\ JobsInv'
  BY <1>6, <1>8, JobStep DEF ReadNamespace
<1>10. TypeOK'
  BY <1>1, <1>9 DEF TypeOK, ReadNamespace, sources, accepted
<1>11. Mergeable(cache)' /\ UniqueNames(live)'
  BY DEF IInv, Mergeable, Merged, ReadNamespace, accepted
<1> QED BY <1>9, <1>10, <1>11 DEF IInv

LEMMA ReadForRecoveryStep ==
  ASSUME IInv, NEW u \in Units, ReadForRecovery(u)
  PROVE  IInv'
<1> DEFINE j == job[u]
           k == Planned(j, "undo", j.before)
<1>1. /\ j \in Job /\ Knows(j) /\ j.pc = "recover"
      /\ live \in SUBSET Group /\ UniqueNames(live) /\ TypeOK
      /\ u \notin disturbed => InStep(j, live)
  BY JobFacts DEF ReadForRecovery
<1>2. j.before \in SUBSET Group
  BY <1>1 DEF Job
<1>3. Advance(u, Settled(k))
  BY DEF ReadForRecovery
<1>4. u \notin disturbed => NamesOf(j.before) \cap NamesOf(j.goal) \subseteq NamesOf(live)
  BY <1>1 DEF InStep
<1> HIDE DEF j
<1>5. k \in Job /\ k.pc = "undo" /\ Knows(k) /\ (u \notin disturbed => InStep(k, live))
  BY <1>1, <1>2, <1>4, PlannedFacts
<1> HIDE DEF k
<1>6. /\ Settled(k) \in Job /\ Coherent(Settled(k))
      /\ u \notin disturbed => InStep(Settled(k), live)
  BY <1>1, <1>5, SettledFacts
<1>7. job' \in [Units -> Job] /\ JobsInv'
  BY <1>3, <1>6, JobStep DEF ReadForRecovery
<1>8. TypeOK'
  BY <1>1, <1>7 DEF TypeOK, ReadForRecovery, sources, accepted
<1>9. Mergeable(cache)' /\ UniqueNames(live)'
  BY DEF IInv, Mergeable, Merged, ReadForRecovery, accepted
<1> QED BY <1>7, <1>8, <1>9 DEF IInv

LEMMA ReadRefusedStep ==
  ASSUME IInv, NEW u \in Units, ReadRefused(u)
  PROVE  IInv'
<1> DEFINE k == IF job[u].pc = "recover" THEN Unrestored(job[u]) ELSE NoJob
<1>1. k \in Job /\ Coherent(k) /\ \A S : InStep(k, S)
  BY JobFacts, UnrestoredFacts, NoJobFacts
<1>2. Advance(u, k)
  BY DEF ReadRefused
<1>3. budget' \in [Events -> Nat]
  BY DEF IInv, TypeOK, ReadRefused
<1> QED BY <1>1, <1>2, <1>3, QuietStep DEF ReadRefused

LEMMA ReadFailsStep ==
  ASSUME IInv, NEW u \in Units, ReadFails(u)
  PROVE  IInv'
<1>1. /\ Unrestored(job[u]) \in Job /\ Coherent(Unrestored(job[u]))
      /\ \A S : InStep(Unrestored(job[u]), S)
  BY JobFacts, UnrestoredFacts
<1>2. budget' \in [Events -> Nat]
  BY JobFacts, SpendType DEF ReadFails, Events
<1> QED BY <1>1, <1>2, QuietStep DEF ReadFails

\* Counting a mutation changes nothing else, and there was room for it.
LEMMA CountedFacts ==
  ASSUME NEW j \in Job, Coherent(j), j.pc \in {"write", "undo"}
  PROVE  LET k == Counted(j)
         IN  /\ k \in Job
             /\ k.pc = j.pc /\ k.phase = j.phase /\ k.goal = j.goal
             /\ k.before = j.before /\ k.owned = j.owned /\ k.snap = j.snap
             /\ k.seen = j.seen /\ k.valid = j.valid
             /\ k.posts = j.posts /\ k.drops = j.drops
             /\ k.room = j.room - 1
             /\ Knows(k)
             /\ \A S : InStep(j, S) => InStep(k, S)
<1> DEFINE k == Counted(j)
<1>1. j.room \in 0 .. Batch /\ j.room > 0
  BY DEF Coherent, Job
<1>2. j.room - 1 \in 0 .. Batch
  BY <1>1, LimitsAssumption
<1>3. k \in Job
  BY <1>2 DEF Counted, Job
<1>4. /\ k.pc = j.pc /\ k.phase = j.phase /\ k.goal = j.goal
      /\ k.before = j.before /\ k.owned = j.owned /\ k.snap = j.snap
      /\ k.seen = j.seen /\ k.valid = j.valid
      /\ k.posts = j.posts /\ k.drops = j.drops /\ k.room = j.room - 1
  BY DEF Counted, Job
<1>5. Knows(k)
  BY <1>4 DEF Coherent, Knows, Chosen
<1>6. \A S : InStep(j, S) => InStep(k, S)
  BY <1>4 DEF InStep, Wanted
<1> QED BY <1>3, <1>4, <1>5, <1>6

\* What a job wants, and the requests it has left, are groups and names.
LEMMA WritingFacts ==
  ASSUME IInv, NEW u \in Units, Writing(u)
  PROVE  /\ job[u] \in Job /\ Coherent(job[u]) /\ job[u].pc \in {"write", "undo"}
         /\ u \notin disturbed => InStep(job[u], live)
         /\ job[u].posts \in SUBSET Group
         /\ Wanted(job[u]) \in SUBSET Group
         /\ UniqueNames(Wanted(job[u]))
<1>1. job[u] \in Job /\ Coherent(job[u]) /\ (u \notin disturbed => InStep(job[u], live))
  BY JobFacts
<1>2. Wanted(job[u]) \in SUBSET Group
  BY <1>1 DEF Wanted, Job
<1>3. UniqueNames(Wanted(job[u]))
  BY <1>1 DEF Wanted, Coherent, Knows
<1> QED BY <1>1, <1>2, <1>3 DEF Writing, Job

LEMMA PostFacts ==
  ASSUME IInv, NEW u \in Units, Post(u)
  PROVE  /\ live' \in SUBSET Group /\ UniqueNames(live')
         /\ \E k \in Job :
              /\ Advance(u, Settled(k)) /\ Knows(k)
              /\ k.pc = job[u].pc /\ k.before = job[u].before /\ k.goal = job[u].goal
              /\ k.phase = job[u].phase /\ k.room = job[u].room - 1
              /\ u \notin disturbed => InStep(k, live')
<1>1. /\ job[u] \in Job /\ Coherent(job[u]) /\ job[u].pc \in {"write", "undo"}
      /\ u \notin disturbed => InStep(job[u], live)
      /\ job[u].posts \in SUBSET Group
      /\ Wanted(job[u]) \in SUBSET Group /\ UniqueNames(Wanted(job[u]))
      /\ live \in SUBSET Group /\ UniqueNames(live) /\ TypeOK
  BY WritingFacts, JobFacts DEF Post
<1>2. PICK g \in job[u].posts :
        /\ live' = Upserted(g)
        /\ Advance(u, Settled([Counted(job[u]) EXCEPT !.posts = @ \ {g}]))
  BY DEF Post
<1> DEFINE c == Counted(job[u])
           k == [c EXCEPT !.posts = @ \ {g}]
<1>3. g \in Group
  BY <1>1
<1>4. /\ live' \in SUBSET Group /\ UniqueNames(live')
      /\ NamesOf(live') = NamesOf(live) \cup {g.name}
      /\ \A groups \in SUBSET Group : UniqueNames(groups) /\ g \in groups =>
           groups \ live' = (groups \ live) \ {g}
  BY <1>1, <1>2, <1>3, UpsertedFacts
<1>5. /\ c \in Job /\ Knows(c) /\ (u \notin disturbed => InStep(c, live))
      /\ c.pc = job[u].pc /\ c.posts = job[u].posts /\ c.goal = job[u].goal
      /\ c.before = job[u].before /\ c.phase = job[u].phase /\ c.room = job[u].room - 1
  BY <1>1, CountedFacts
<1> HIDE DEF c
<1>6. k \in Job
  BY <1>5 DEF Job
<1>7. /\ k.pc = c.pc /\ k.phase = c.phase /\ k.goal = c.goal /\ k.before = c.before
      /\ k.owned = c.owned /\ k.snap = c.snap /\ k.seen = c.seen
      /\ k.valid = c.valid /\ k.room = c.room /\ k.drops = c.drops /\ k.posts = c.posts \ {g}
  BY <1>5 DEF Job
<1>8. Knows(k)
  BY <1>5, <1>7 DEF Knows, Chosen
<1>9. ASSUME u \notin disturbed
      PROVE  InStep(k, live')
  <2>1. InStep(c, live) /\ Wanted(k) = Wanted(c) /\ Wanted(c) = Wanted(job[u])
    BY <1>5, <1>7, <1>9 DEF Wanted
  <2>2. /\ c.posts = Wanted(c) \ live
        /\ c.drops = NamesOf(live) \ NamesOf(Wanted(c))
        /\ c.pc = "write" \/ c.pc = "undo"
        /\ NamesOf(c.before) \cap NamesOf(c.goal) \subseteq NamesOf(live)
    BY <1>1, <1>5, <2>1 DEF InStep
  <2>3. g \in Wanted(c)
    BY <1>2, <1>5, <2>2
  <2>4. Wanted(c) \ live' = c.posts \ {g}
    BY <1>1, <1>4, <2>1, <2>2, <2>3
  <2>5. g.name \in NamesOf(Wanted(c))
    BY <2>3 DEF NamesOf
  <2>6. NamesOf(live') \ NamesOf(Wanted(c)) = c.drops
    BY <1>4, <2>2, <2>5
  <2>7. NamesOf(k.before) \cap NamesOf(k.goal) \subseteq NamesOf(live')
    BY <1>4, <1>7, <2>2
  <2> HIDE DEF k
  <2> QED BY <1>7, <2>1, <2>2, <2>4, <2>6, <2>7 DEF InStep
<1>10. Advance(u, Settled(k))
  BY <1>2 DEF c
<1> HIDE DEF k
<1>11. k.room = job[u].room - 1
  BY <1>1, <1>5, <1>7, CountedFacts
<1> QED BY <1>4, <1>5, <1>6, <1>7, <1>8, <1>9, <1>10, <1>11

LEMMA DeleteFacts ==
  ASSUME IInv, NEW u \in Units, Delete(u)
  PROVE  /\ live' \in SUBSET Group /\ UniqueNames(live')
         /\ \E k \in Job :
              /\ Advance(u, Settled(k)) /\ Knows(k)
              /\ k.pc = job[u].pc /\ k.before = job[u].before /\ k.goal = job[u].goal
              /\ k.phase = job[u].phase /\ k.room = job[u].room - 1
              /\ u \notin disturbed => InStep(k, live')
<1>1. /\ job[u] \in Job /\ Coherent(job[u]) /\ job[u].pc \in {"write", "undo"}
      /\ u \notin disturbed => InStep(job[u], live)
      /\ Wanted(job[u]) \in SUBSET Group
      /\ live \in SUBSET Group /\ UniqueNames(live) /\ TypeOK
  BY WritingFacts, JobFacts DEF Delete
<1>2. PICK n \in job[u].drops :
        /\ live' = Removed(n)
        /\ Advance(u, Settled([Counted(job[u]) EXCEPT !.drops = @ \ {n}]))
  BY DEF Delete
<1> DEFINE c == Counted(job[u])
           k == [c EXCEPT !.drops = @ \ {n}]
<1>4. /\ live' \in SUBSET Group /\ UniqueNames(live')
      /\ NamesOf(live') = NamesOf(live) \ {n}
      /\ \A groups : n \notin NamesOf(groups) => groups \ live' = groups \ live
  BY <1>1, <1>2, RemovedFacts
<1>5. /\ c \in Job /\ Knows(c) /\ (u \notin disturbed => InStep(c, live))
      /\ c.pc = job[u].pc /\ c.drops = job[u].drops /\ c.goal = job[u].goal
      /\ c.before = job[u].before /\ c.phase = job[u].phase /\ c.room = job[u].room - 1
  BY <1>1, CountedFacts
<1> HIDE DEF c
<1>6. k \in Job
  BY <1>5 DEF Job
<1>7. /\ k.pc = c.pc /\ k.phase = c.phase /\ k.goal = c.goal /\ k.before = c.before
      /\ k.owned = c.owned /\ k.snap = c.snap /\ k.seen = c.seen
      /\ k.valid = c.valid /\ k.room = c.room /\ k.posts = c.posts /\ k.drops = c.drops \ {n}
  BY <1>5 DEF Job
<1>8. Knows(k)
  BY <1>5, <1>7 DEF Knows, Chosen
<1>9. ASSUME u \notin disturbed
      PROVE  InStep(k, live')
  <2>1. InStep(c, live) /\ Wanted(k) = Wanted(c)
    BY <1>5, <1>7, <1>9 DEF Wanted
  <2>2. /\ c.posts = Wanted(c) \ live
        /\ c.drops = NamesOf(live) \ NamesOf(Wanted(c))
        /\ c.pc = "write" \/ c.pc = "undo"
        /\ NamesOf(c.before) \cap NamesOf(c.goal) \subseteq NamesOf(live)
    BY <1>1, <1>5, <2>1 DEF InStep
  <2>3. n \notin NamesOf(Wanted(c))
    BY <1>2, <1>5, <2>2
  <2>4. Wanted(c) \ live' = c.posts
    BY <1>4, <2>2, <2>3
  <2>5. NamesOf(live') \ NamesOf(Wanted(c)) = c.drops \ {n}
    BY <1>4, <2>2
  <2>6. n \notin NamesOf(c.before) \cap NamesOf(c.goal)
    BY <2>3 DEF Wanted
  <2>7. NamesOf(k.before) \cap NamesOf(k.goal) \subseteq NamesOf(live')
    BY <1>4, <1>7, <2>2, <2>6
  <2> HIDE DEF k
  <2> QED BY <1>7, <2>1, <2>2, <2>4, <2>5, <2>7 DEF InStep
<1>10. Advance(u, Settled(k))
  BY <1>2 DEF c
<1> HIDE DEF k
<1>11. k.room = job[u].room - 1
  BY <1>1, <1>5, <1>7, CountedFacts
<1> QED BY <1>4, <1>5, <1>6, <1>7, <1>8, <1>9, <1>10, <1>11

LEMMA MutationStep ==
  ASSUME IInv, NEW u \in Units, Post(u) \/ Delete(u)
  PROVE  IInv'
<1>1. live' \in SUBSET Group /\ UniqueNames(live')
  BY PostFacts, DeleteFacts
<1>2. PICK k \in Job :
        /\ Advance(u, Settled(k)) /\ Knows(k) /\ k.pc = job[u].pc
        /\ u \notin disturbed => InStep(k, live')
  BY PostFacts, DeleteFacts
<1>3. k.pc \in {"write", "undo"}
  BY <1>2, WritingFacts DEF Post, Delete
<1>4. /\ Settled(k) \in Job /\ Coherent(Settled(k))
      /\ u \notin disturbed => InStep(Settled(k), live')
  BY <1>1, <1>2, <1>3, SettledFacts
<1>5. budget' \in [Events -> Nat]
  BY DEF IInv, TypeOK, Post, Delete
<1>6. Disturb(u) /\ UNCHANGED <<leader, sources, accepted>>
  BY DEF Post, Delete
<1> QED BY <1>1, <1>2, <1>4, <1>5, <1>6, RulerStep

\* A failed mutation may have had its effect; what it took away, the job did
\* not want.
LEMMA MutationFailsStep ==
  ASSUME IInv, NEW u \in Units, MutationFails(u)
  PROVE  IInv'
<1> DEFINE c == Counted(job[u])
           r == [c EXCEPT !.pc = "recover"]
           k == IF c.pc = "write" THEN r ELSE Unrestored(c)
<1>1. /\ job[u] \in Job /\ Coherent(job[u]) /\ job[u].pc \in {"write", "undo"}
      /\ u \notin disturbed => InStep(job[u], live)
      /\ job[u].posts \in SUBSET Group
      /\ live \in SUBSET Group /\ UniqueNames(live) /\ TypeOK
  BY WritingFacts, JobFacts DEF MutationFails
<1>2. /\ c \in Job /\ Knows(c) /\ c.pc = job[u].pc
      /\ u \notin disturbed => InStep(c, live)
      /\ c.drops = job[u].drops
  BY <1>1, CountedFacts
<1>3. Advance(u, k) /\ Disturb(u)
  BY DEF MutationFails
<1>4. \/ live' = live
      \/ \E g \in job[u].posts : live' = Upserted(g)
      \/ \E n \in job[u].drops : live' = Removed(n)
  BY DEF MutationFails
<1>5. /\ live' \in SUBSET Group /\ UniqueNames(live')
      /\ \/ NamesOf(live) \subseteq NamesOf(live')
         \/ \E n \in job[u].drops : NamesOf(live') = NamesOf(live) \ {n}
  <2>1. CASE live' = live
    BY <1>1, <2>1
  <2>2. CASE \E g \in job[u].posts : live' = Upserted(g)
    BY <1>1, <2>2, UpsertedFacts
  <2>3. CASE \E n \in job[u].drops : live' = Removed(n)
    BY <1>1, <2>3, RemovedFacts
  <2> QED BY <1>4, <2>1, <2>2, <2>3
<1> HIDE DEF c
<1>6. CASE c.pc = "write"
  <2>1. r \in Job
    BY <1>2 DEF Job, Steps
  <2>2. /\ r.pc = "recover" /\ r.phase = c.phase /\ r.goal = c.goal
        /\ r.before = c.before /\ r.owned = c.owned /\ r.snap = c.snap
        /\ r.seen = c.seen /\ r.valid = c.valid
    BY <1>2 DEF Job
  <2>3. Coherent(r)
    BY <1>2, <1>6, <2>2 DEF Coherent, Knows, Chosen
  <2>4. ASSUME u \notin disturbed
        PROVE  InStep(r, live')
    <3>1. NamesOf(c.before) \cap NamesOf(c.goal) \subseteq NamesOf(live)
      BY <1>2, <1>6, <2>4 DEF InStep
    <3>2. c.drops \cap NamesOf(c.goal) = {}
      BY <1>2, <1>6 DEF Knows
    <3>3. NamesOf(c.before) \cap NamesOf(c.goal) \subseteq NamesOf(live')
      BY <1>2, <1>5, <3>1, <3>2
    <3> HIDE DEF r
    <3> QED BY <2>2, <3>3 DEF InStep
  <2> HIDE DEF r
  <2>5. k = r
    BY <1>6
  <2>6. budget' \in [Events -> Nat]
    BY <1>1, SpendType DEF MutationFails, Events
  <2> QED BY <1>3, <1>5, <2>1, <2>3, <2>4, <2>5, <2>6, RulerStep DEF MutationFails
<1>7. CASE c.pc # "write"
  <2>1. Mergeable(c.owned)
    BY <1>2 DEF Knows
  <2>2. k \in Job /\ Coherent(k) /\ \A S : InStep(k, S)
    BY <1>2, <1>7, <2>1, UnrestoredFacts
  <2> HIDE DEF k
  <2>3. budget' \in [Events -> Nat]
    BY <1>1, SpendType DEF MutationFails, Events
  <2> QED BY <1>3, <1>5, <2>2, <2>3, RulerStep DEF MutationFails
<1> QED BY <1>6, <1>7

LEMMA SliceExhaustedStep ==
  ASSUME IInv, NEW u \in Units, SliceExhausted(u)
  PROVE  IInv'
<1> DEFINE k == IF job[u].pc = "write" THEN NoJob ELSE Unrestored(job[u])
<1>1. k \in Job /\ Coherent(k) /\ \A S : InStep(k, S)
  BY JobFacts, UnrestoredFacts, NoJobFacts
<1>2. Advance(u, k)
  BY DEF SliceExhausted
<1>3. budget' \in [Events -> Nat]
  BY JobFacts, SpendType DEF SliceExhausted, Events
<1> QED BY <1>1, <1>2, <1>3, QuietStep DEF SliceExhausted

LEMMA PersistStep ==
  ASSUME IInv, NEW u \in Units, Persist(u)
  PROVE  IInv'
<1> DEFINE j == job[u]
           k == [j EXCEPT !.pc = "done"]
<1>1. /\ j \in Job /\ Knows(j) /\ j.pc = "persist" /\ TypeOK
      /\ u \notin disturbed => InStep(j, live)
  BY JobFacts DEF Persist
<1>2. Advance(u, k)
  BY DEF Persist
<1> HIDE DEF j
<1>3. k \in Job
  BY <1>1 DEF Job, Steps
<1>4. /\ k.pc = "done" /\ k.phase = j.phase /\ k.goal = j.goal
      /\ k.before = j.before /\ k.owned = j.owned /\ k.snap = j.snap
      /\ k.seen = j.seen /\ k.valid = j.valid
  BY <1>1 DEF Job
<1>5. Coherent(k) /\ (u \notin disturbed => InStep(k, live))
  <2> HIDE DEF k
  <2>1. Coherent(k)
    BY <1>1, <1>4 DEF Coherent, Knows, Chosen
  <2>2. InStep(j, live) => InStep(k, live)
    BY <1>1, <1>4 DEF InStep
  <2> QED BY <1>1, <2>1, <2>2
<1> HIDE DEF k
<1>6. job' \in [Units -> Job] /\ JobsInv'
  BY <1>2, <1>3, <1>5, JobStep DEF Persist
<1>7. TypeOK'
  BY <1>1, <1>6 DEF TypeOK, Persist, sources, accepted
<1>8. Mergeable(cache)' /\ UniqueNames(live)'
  BY DEF IInv, Mergeable, Merged, Persist, accepted
<1> QED BY <1>6, <1>7, <1>8 DEF IInv

LEMMA PersistFailsStep ==
  ASSUME IInv, NEW u \in Units, PersistFails(u)
  PROVE  IInv'
<1> DEFINE groups == IF job[u].valid THEN Merged(job[u].owned) ELSE job[u].before
           k == Replay(job[u], groups)
<1>1. job[u] \in Job /\ Knows(job[u]) /\ Mergeable(job[u].owned) /\ TypeOK
  BY JobFacts
<1>2. Merged(job[u].owned) \in SUBSET Group /\ job[u].before \in SUBSET Group
  BY <1>1, MergedType DEF Job
<1>3. UniqueNames(Merged(job[u].owned)) /\ UniqueNames(job[u].before)
  BY <1>1, MergeableUnique DEF Knows
<1>4. k \in Job /\ Coherent(k) /\ \A S : InStep(k, S)
  BY <1>1, <1>2, <1>3, ReplayFacts
<1>5. Advance(u, k)
  BY DEF PersistFails
<1>6. budget' \in [Events -> Nat]
  <2>1. CASE UNCHANGED budget
    BY <1>1, <2>1 DEF TypeOK
  <2>2. CASE Spend("fault")
    BY <1>1, <2>2, SpendType DEF Events
  <2> QED BY <2>1, <2>2 DEF PersistFails
<1> QED BY <1>4, <1>5, <1>6, QuietStep DEF PersistFails

-----------------------------------------------------------------------------
(***************************************************************************)
(* The end of the hook, and the environment.                               *)
(***************************************************************************)

\* What is flushed is a candidate, so the new cache can be merged.
LEMMA FlushStep ==
  ASSUME IInv, NEW u \in Units, Flush(u)
  PROVE  IInv'
<1>1. /\ job[u] \in Job /\ Knows(job[u]) /\ job[u].pc = "done" /\ TypeOK
      /\ UniqueNames(live)
  BY JobFacts DEF Flush
<1>2. Mergeable(job[u].snap) /\ job[u].snap \in Snapshots
  BY <1>1 DEF Knows, Job
<1>3. job' \in [Units -> Job] /\ JobsInv'
  BY NoJobFacts, JobStep DEF Flush
<1>4. TypeOK'
  BY <1>1, <1>2, <1>3 DEF TypeOK, Flush, sources
<1>5. Mergeable(cache)'
  BY <1>2 DEF Flush, Mergeable, Merged
<1>6. UniqueNames(live)'
  BY <1>1 DEF Flush, UniqueNames
<1> QED BY <1>3, <1>4, <1>5, <1>6 DEF IInv

LEMMA HookEndStep ==
  ASSUME IInv, NEW u \in Units, FlushRefused(u) \/ HookLost(u)
  PROVE  IInv'
<1>1. budget' \in [Events -> Nat]
  <2>1. CASE FlushRefused(u)
    BY <2>1 DEF FlushRefused, IInv, TypeOK
  <2>2. CASE HookLost(u)
    BY <2>2, JobFacts, SpendType DEF HookLost, Events
  <2> QED BY <2>1, <2>2
<1> QED BY <1>1, NoJobFacts, QuietStep DEF FlushRefused, HookLost

\* The sources and the leadership change: neither ruler, cache nor jobs do.
LEMMA SourceStep ==
  ASSUME IInv,
         \/ \E r \in Sources : Publish(r) \/ Relate(r) \/ Break(r)
         \/ \E u \in Units : Elect(u)
  PROVE  IInv'
<1>1. TypeOK /\ Mergeable(cache) /\ UniqueNames(live)
  BY DEF IInv
<1>2. UNCHANGED <<accepted, live, job, disturbed>>
  BY DEF Publish, Relate, Break, Elect
<1>3. Mergeable(cache') /\ UniqueNames(live')
  BY <1>1, <1>2 DEF accepted
<1>4. budget' \in [Events -> Nat]
  BY <1>1, SpendType DEF Publish, Relate, Break, Elect, Events
<1>5. leader' \in Units /\ related' \subseteq Sources /\ payload' \in Seen
  <2>1. ASSUME NEW r \in Sources, Publish(r)
        PROVE  leader' \in Units /\ related' \subseteq Sources /\ payload' \in Seen
    <3>1. Offers[r] \subseteq Documents
      BY DocumentsAssumption
    <3> QED BY <1>1, <2>1, <3>1 DEF Publish, TypeOK, Seen
  <2>2. ASSUME NEW r \in Sources, Relate(r) \/ Break(r)
        PROVE  leader' \in Units /\ related' \subseteq Sources /\ payload' \in Seen
    BY <1>1, <2>2 DEF Relate, Break, TypeOK, Seen
  <2>3. ASSUME NEW u \in Units, Elect(u)
        PROVE  leader' \in Units /\ related' \subseteq Sources /\ payload' \in Seen
    BY <1>1, <2>3 DEF Elect, TypeOK, sources
  <2> QED BY <2>1, <2>2, <2>3
<1>6. TypeOK'
  BY <1>1, <1>2, <1>4, <1>5 DEF TypeOK, accepted
<1> QED BY <1>2, <1>3, <1>6, OutsideStep

LEMMA CorruptCacheStep ==
  ASSUME IInv, CorruptCache
  PROVE  IInv'
<1>1. TypeOK /\ UniqueNames(live)
  BY DEF IInv
<1>2. budget' \in [Events -> Nat]
  BY <1>1, SpendType DEF CorruptCache, Events
<1>3. TypeOK'
  BY <1>1, <1>2, NoSnapshotsMergeable DEF TypeOK, CorruptCache, sources
<1> QED BY <1>1, <1>3, NoSnapshotsMergeable, OutsideStep DEF CorruptCache

LEMMA TamperStep ==
  ASSUME IInv, Tamper
  PROVE  IInv'
<1>1. TypeOK /\ Mergeable(cache)
  BY DEF IInv
<1>2. budget' \in [Events -> Nat]
  BY <1>1, SpendType DEF Tamper, Events
<1>3. live' \in SUBSET Group /\ UniqueNames(live')
  BY ForeignAssumption DEF Tamper, UniqueNames
<1>4. TypeOK'
  BY <1>1, <1>2, <1>3 DEF TypeOK, Tamper, sources, accepted
<1>5. Mergeable(cache')
  BY <1>1 DEF Tamper, accepted
<1> QED BY <1>3, <1>4, <1>5, OutsideStep DEF Tamper

-----------------------------------------------------------------------------
(***************************************************************************)
(* The inductive invariant, and what follows from it.                      *)
(***************************************************************************)
LEMMA IInvInit == Init => IInv
<1> SUFFICES ASSUME Init PROVE IInv
  OBVIOUS
<1>1. Initial \in Snapshots
  BY DocumentsAssumption DEF Snapshots
<1>2. live \in SUBSET Group
  BY <1>1, MergedType DEF Init
<1>3. payload \in Seen
  BY <1>1 DEF Init, Seen, Snapshots
<1>4. TypeOK
  BY <1>1, <1>2, <1>3, NoJobFacts, UnitsAssumption, SourcesAssumption, BudgetAssumption
     DEF Init, TypeOK
<1>5. Mergeable(cache) /\ UniqueNames(live)
  BY InitialAssumption, MergeableUnique DEF Init
<1>6. JobsInv
  BY NoJobFacts DEF Init, JobsInv
<1> QED BY <1>4, <1>5, <1>6 DEF IInv

LEMMA IInvStep == IInv /\ [Next]_vars => IInv'
<1> SUFFICES ASSUME IInv, [Next]_vars PROVE IInv'
  OBVIOUS
<1>1. ASSUME NEW u \in Units, Reconcile(u) PROVE IInv'
  BY <1>1, ReconcileStep
<1>2. ASSUME NEW u \in Units, Progress(u) PROVE IInv'
  BY <1>2, ReadNamespaceStep, ReadForRecoveryStep, ReadRefusedStep, MutationStep,
     PersistStep, PersistFailsStep, FlushStep, HookEndStep DEF Progress
<1>3. ASSUME NEW u \in Units, Failure(u) PROVE IInv'
  BY <1>3, ReadFailsStep, MutationFailsStep, SliceExhaustedStep, HookEndStep DEF Failure
<1>4. ASSUME Environment PROVE IInv'
  BY <1>4, SourceStep, CorruptCacheStep, TamperStep DEF Environment
<1>5. ASSUME UNCHANGED vars PROVE IInv'
  <2>1. UNCHANGED job /\ TypeOK' /\ Mergeable(cache') /\ UniqueNames(live')
    BY <1>5 DEF IInv, TypeOK, vars, sources, accepted
  <2> QED BY <1>5, <2>1, OutsideStep DEF vars
<1>6. ASSUME NEW u \in Units, Decline(u) PROVE IInv'
  BY <1>5, <1>6 DEF Decline
<1> QED BY <1>1, <1>2, <1>3, <1>4, <1>5, <1>6 DEF Next

\* The invariant holds in every reachable state.
THEOREM Invariant == Spec => []IInv
BY IInvInit, IInvStep, PTL DEF Spec

\* Type correctness, for every value of the constants; in particular the
\* budget of a batch is never overdrawn.
THEOREM TypeCorrect == Spec => []TypeOK
<1>1. IInv => TypeOK
  BY DEF IInv
<1> QED BY <1>1, Invariant, PTL

\* What a job has left to do is exactly what separates the ruler from its
\* goal, in writing, in recovery and in replay, at every request, unless
\* another writer came in between (_write_namespace).
THEOREM WorkAccounted == Spec => []WorkRemaining
<1>1. IInv => WorkRemaining
  BY DEF IInv, JobsInv, InStep, Wanted, WorkRemaining, Writing, Undisturbed
<1> QED BY <1>1, Invariant, PTL

\* A cache is handed to Juju only for a ruler that holds exactly its groups:
\* no partly applied candidate is accepted, after any number of failed
\* requests, exhausted batches and recoveries (_apply_candidate, persist).
THEOREM AcceptanceIsExact == Spec => []AcceptedIsLive
<1>1. IInv => AcceptedIsLive
  BY DEF IInv, JobsInv, InStep, AcceptedIsLive, Undisturbed
<1> QED BY <1>1, Invariant, PTL

\* A group that is in the ruler before a job and wanted after it is there all
\* the time, through failures and recovery (replace_namespace).
THEOREM UpdatesLeaveNoGap == Spec => []NoGap
<1>1. IInv => NoGap
  BY DEF IInv, JobsInv, InStep, NoGap, Undisturbed
<1> QED BY <1>1, Invariant, PTL

\* A candidate deletes an accepted group only if its source is gone or has
\* published a valid document without it; when the cache is lost, only if
\* every source was read (reconcile).
THEOREM OnlyOwnersWithdraw == Spec => OwnerWithdraws
<1> DEFINE Consent(u) ==
      LET lost == NamesOf(live) \ NamesOf(live')
          seen == job[u].seen
      IN  \A r \in Sources :
            \/ seen[r] = Gone
            \/ seen[r] \in Documents /\ lost \cap NamesOf(seen[r]) = {}
            \/ job[u].valid /\ lost \cap NamesOf(job[u].owned[r]) = {}
<1>1. ASSUME IInv, NEW u \in Units, Delete(u), job[u].pc = "write",
             job[u].phase = "apply"
      PROVE  Consent(u)
  <2> DEFINE j == job[u]
             kept == Retained(j.owned, j.seen)
             taken == Admitted(kept, j.seen)
             lost == NamesOf(live) \ NamesOf(live')
  <2>1. j \in Job /\ Knows(j)
    BY <1>1, JobFacts
  <2>2. lost \cap NamesOf(j.goal) = {}
    <3>1. PICK n \in j.drops : live' = Removed(n)
      BY <1>1 DEF Delete
    <3>2. lost \subseteq {n}
      BY <3>1 DEF Removed, NamesOf
    <3> QED BY <1>1, <2>1, <3>1, <3>2 DEF Knows
  <2>3. j.goal = Merged(j.snap) /\ Chosen(j)
    BY <1>1, <2>1 DEF Knows
  <2>4. ASSUME NEW r \in Sources
        PROVE  lost \cap NamesOf(j.snap[r]) = {}
    BY <2>2, <2>3 DEF Merged, NamesOf
  <2>5. ASSUME NEW r \in Sources, r \in taken
        PROVE  j.seen[r] \in Documents /\ lost \cap NamesOf(j.seen[r]) = {}
    <3>1. j.snap[r] = j.seen[r]
      BY <2>3, <2>5 DEF Chosen, Candidate, Updated
    <3> QED BY <2>4, <2>5, <3>1, AdmittedReadable
  <2>6. ASSUME NEW r \in Sources, r \notin taken, j.seen[r] # Gone
        PROVE  j.valid /\ lost \cap NamesOf(j.owned[r]) = {}
    <3>1. j.snap[r] = j.owned[r]
      BY <2>3, <2>6 DEF Chosen, Candidate, Updated, Retained
    <3>2. j.valid
      BY <2>3, <2>6 DEF Chosen
    <3> QED BY <2>4, <3>1, <3>2
  <2> HIDE DEF taken, lost
  <2>7. \A r \in Sources :
          \/ j.seen[r] = Gone
          \/ j.seen[r] \in Documents /\ lost \cap NamesOf(j.seen[r]) = {}
          \/ j.valid /\ lost \cap NamesOf(j.owned[r]) = {}
    BY <2>5, <2>6, Zenon
  <2> QED BY <2>7 DEF lost
<1>2. IInv => [\A u \in Units : Delete(u) /\ job[u].pc = "write" /\ job[u].phase = "apply" =>
                                Consent(u)]_vars
  BY <1>1
<1> QED BY <1>2, Invariant, PTL DEF OwnerWithdraws

-----------------------------------------------------------------------------
(***************************************************************************)
(* A recovery has room enough: a batch makes at most Batch mutations, each *)
(* of one name, and so has at most as many names to put back.              *)
(***************************************************************************)

\* The names that tell S from T.
Apart(S, T) == NamesOf(S \ T) \cup NamesOf(T \ S)

Near(j, groups) ==
  j.pc \in {"write", "recover", "undo"} =>
    /\ IsFiniteSet(Apart(j.before, groups))
    /\ Cardinality(Apart(j.before, groups)) <=
         (IF j.pc = "undo" THEN j.room ELSE Batch - j.room)

NearInv == \A u \in Units : u \notin disturbed => Near(job[u], live)

LEMMA OneNameMore ==
  ASSUME NEW A, IsFiniteSet(A), NEW x, NEW B, B \subseteq A \cup {x}
  PROVE  IsFiniteSet(B) /\ Cardinality(B) <= Cardinality(A) + 1
<1>1. IsFiniteSet(A \cup {x}) /\ Cardinality(A \cup {x}) <= Cardinality(A) + 1
  <2>1. /\ IsFiniteSet(A \cup {x})
        /\ Cardinality(A \cup {x}) = IF x \in A THEN Cardinality(A) ELSE Cardinality(A) + 1
    BY FS_AddElement, Zenon
  <2>2. Cardinality(A) \in Nat
    BY FS_CardinalityType
  <2> QED BY <2>1, <2>2
<1>2. IsFiniteSet(B) /\ Cardinality(B) <= Cardinality(A \cup {x})
  BY <1>1, FS_Subset
<1>3. /\ Cardinality(A) \in Nat /\ Cardinality(B) \in Nat
      /\ Cardinality(A \cup {x}) \in Nat
  BY <1>1, <1>2, FS_CardinalityType
<1> QED BY <1>1, <1>2, <1>3

LEMMA OneNameLess ==
  ASSUME NEW A, IsFiniteSet(A), NEW x \in A, NEW B, B \subseteq A \ {x}
  PROVE  IsFiniteSet(B) /\ Cardinality(B) <= Cardinality(A) - 1
<1>1. IsFiniteSet(A \ {x}) /\ Cardinality(A \ {x}) = Cardinality(A) - 1
  BY FS_RemoveElement
<1> QED BY <1>1, FS_Subset

\* A mutation takes the ruler away from any groups by one name at most, and
\* closer by one name if it is one of those that are left to make.
LEMMA ApartUpserted ==
  ASSUME NEW g \in Group, NEW S
  PROVE  /\ Apart(S, Upserted(g)) \subseteq Apart(S, live) \cup {g.name}
         /\ UniqueNames(S) /\ g \in S \ live =>
              /\ g.name \in Apart(S, live)
              /\ Apart(S, Upserted(g)) \subseteq Apart(S, live) \ {g.name}
<1>1. Apart(S, Upserted(g)) \subseteq Apart(S, live) \cup {g.name}
  BY DEF Apart, Upserted, NamesOf
<1>2. ASSUME UniqueNames(S), g \in S \ live
      PROVE  /\ g.name \in Apart(S, live)
             /\ g.name \notin Apart(S, Upserted(g))
  BY <1>2 DEF Apart, Upserted, NamesOf, UniqueNames
<1> QED BY <1>1, <1>2

LEMMA ApartRemoved ==
  ASSUME NEW n, NEW S
  PROVE  /\ Apart(S, Removed(n)) \subseteq Apart(S, live) \cup {n}
         /\ n \in NamesOf(live) \ NamesOf(S) =>
              /\ n \in Apart(S, live)
              /\ Apart(S, Removed(n)) \subseteq Apart(S, live) \ {n}
<1>1. Apart(S, Removed(n)) \subseteq Apart(S, live) \cup {n}
  BY DEF Apart, Removed, NamesOf
<1>2. ASSUME n \in NamesOf(live) \ NamesOf(S)
      PROVE  /\ n \in Apart(S, live)
             /\ n \notin Apart(S, Removed(n))
  BY <1>2 DEF Apart, Removed, NamesOf
<1> QED BY <1>1, <1>2

\* Two sets of groups are the same if no name tells them apart.
LEMMA ApartEmpty ==
  ASSUME NEW S, NEW T
  PROVE  Apart(S, T) = {} <=> S = T
BY DEF Apart, NamesOf

\* A request of an undisturbed job keeps the slack.
LEMMA MutationNear ==
  ASSUME IInv, NearInv, NEW u \in Units, u \notin disturbed, Writing(u),
         NEW x,
         \/ \E g \in job[u].posts : x = g.name /\ live' = Upserted(g)
         \/ \E n \in job[u].drops : x = n /\ live' = Removed(n)
  PROVE  LET B == Apart(job[u].before, live')
         IN  /\ IsFiniteSet(B)
             /\ job[u].pc = "write" => Cardinality(B) <= Batch - (job[u].room - 1)
             /\ job[u].pc = "undo" => Cardinality(B) <= job[u].room - 1
<1> DEFINE j == job[u]
           A == Apart(j.before, live)
           B == Apart(j.before, live')
<1>1. /\ j \in Job /\ j.pc \in {"write", "undo"} /\ InStep(j, live)
      /\ j.posts \in SUBSET Group /\ UniqueNames(Wanted(j))
  BY WritingFacts
<1>2. /\ IsFiniteSet(A)
      /\ Cardinality(A) <= (IF j.pc = "undo" THEN j.room ELSE Batch - j.room)
  BY <1>1 DEF NearInv, Near
<1>3. B \subseteq A \cup {x}
  BY <1>1, ApartUpserted, ApartRemoved
<1>4. ASSUME j.pc = "undo"
      PROVE  x \in A /\ B \subseteq A \ {x}
  <2>1. /\ Wanted(j) = j.before /\ UniqueNames(j.before)
        /\ j.posts = j.before \ live
        /\ j.drops = NamesOf(live) \ NamesOf(j.before)
    BY <1>1, <1>4 DEF InStep, Wanted
  <2>2. CASE \E g \in j.posts : x = g.name /\ live' = Upserted(g)
    BY <1>1, <2>1, <2>2, ApartUpserted
  <2>3. CASE \E n \in j.drops : x = n /\ live' = Removed(n)
    BY <2>1, <2>3, ApartRemoved
  <2> QED BY <2>2, <2>3
<1>5. j.room \in Nat /\ Batch \in Nat
  BY <1>1, LimitsAssumption DEF Job
<1> HIDE DEF A, B, j
<1>6. IsFiniteSet(B) /\ Cardinality(B) <= Cardinality(A) + 1
  BY <1>2, <1>3, OneNameMore
<1>7. Cardinality(A) \in Nat /\ Cardinality(B) \in Nat
  BY <1>2, <1>6, FS_CardinalityType
<1>8. ASSUME j.pc = "undo"
      PROVE  Cardinality(B) <= j.room - 1
  <2>1. Cardinality(B) <= Cardinality(A) - 1
    BY <1>2, <1>4, <1>8, OneNameLess
  <2> QED BY <1>2, <1>5, <1>7, <1>8, <2>1
<1>9. ASSUME j.pc = "write"
      PROVE  Cardinality(B) <= Batch - (j.room - 1)
  BY <1>2, <1>5, <1>6, <1>7, <1>9
<1> USE DEF B, j
<1> QED BY <1>6, <1>8, <1>9

\* Where a job may go without any slack.
LEMMA GoneOn ==
  ASSUME NEW j \in Job
  PROVE  /\ NoJob.pc = "idle"
         /\ \A groups : Replay(j, groups).pc \in {"idle", "read"}
         /\ Unrestored(j).pc \in {"idle", "read"}
         /\ Settled(j) = j \/ Settled(j).pc \in {"idle", "read", "persist"}
<1>1. NoJob.pc = "idle"
  BY DEF NoJob
<1>2. \A groups : Replay(j, groups).pc \in {"idle", "read"}
  BY <1>1 DEF Replay, Job
<1>3. Unrestored(j).pc \in {"idle", "read"}
  BY <1>1, <1>2 DEF Unrestored
<1>4. Settled(j) = j \/ Settled(j).pc \in {"idle", "read", "persist"}
  BY <1>1, <1>3 DEF Settled, Job
<1> QED BY <1>1, <1>2, <1>3, <1>4

LEMMA NearFrame ==
  ASSUME IInv, NearInv, NEW u \in Units, NEW j,
         Advance(u, j),
         u \notin disturbed' => Near(j, live'),
         \A v \in Units \ {u} : v \notin disturbed' =>
           v \notin disturbed /\ (live' = live \/ job[v].pc = "idle")
  PROVE  NearInv'
<1>1. job \in [Units -> Job]
  BY DEF IInv, TypeOK
<1>2. ASSUME NEW v \in Units, v \notin disturbed'
      PROVE  Near(job'[v], live')
  <2>1. CASE v = u
    BY <1>1, <1>2, <2>1 DEF Advance
  <2>2. CASE v # u
    <3>1. job'[v] = job[v]
      BY <1>1, <2>2 DEF Advance
    <3>2. v \notin disturbed /\ (live' = live \/ job[v].pc = "idle")
      BY <1>2, <2>2
    <3>3. Near(job[v], live)
      BY <3>2 DEF NearInv
    <3> QED BY <3>1, <3>2, <3>3 DEF Near
  <2> QED BY <2>1, <2>2
<1> QED BY <1>2 DEF NearInv

\* A step of a job after which it makes no mutation.
LEMMA NearQuiet ==
  ASSUME IInv, NearInv, NEW u \in Units, NEW j, Advance(u, j),
         j.pc \notin {"write", "recover", "undo"},
         \/ disturbed' \in {disturbed, disturbed \ {u}} /\ live' = live
         \/ Disturb(u)
  PROVE  NearInv'
<1>1. Near(j, live')
  BY DEF Near
<1>2. \A v \in Units \ {u} : v \notin disturbed' =>
        v \notin disturbed /\ (live' = live \/ job[v].pc = "idle")
  BY DisturbFacts DEF IInv
<1> QED BY <1>1, <1>2, NearFrame

LEMMA NearReads ==
  ASSUME IInv, NearInv, NEW u \in Units, ReadNamespace(u) \/ ReadForRecovery(u)
  PROVE  NearInv'
<1>1. /\ job[u] \in Job /\ live' = live /\ TypeOK
      /\ disturbed' \in {disturbed, disturbed \ {u}}
  BY JobFacts DEF ReadNamespace, ReadForRecovery
<1>2. Batch \in Nat /\ job[u].room \in 0 .. Batch
  BY <1>1, LimitsAssumption DEF Job
<1>3. CASE ReadNamespace(u)
  <2> DEFINE j == [job[u] EXCEPT !.before = live]
             k == Planned(j, "write", j.goal)
  <2>1. Advance(u, Settled(k))
    BY <1>3 DEF ReadNamespace
  <2>2. k.pc = "write" /\ k.before = live /\ k.room = Batch
    BY <1>1 DEF Planned, Job
  <2>3. Near(k, live)
    <3>1. Apart(live, live) = {}
      BY ApartEmpty
    <3>2. IsFiniteSet({}) /\ Cardinality({}) = 0
      BY FS_EmptySet
    <3> HIDE DEF k
    <3> QED BY <1>2, <2>2, <3>1, <3>2 DEF Near
  <2>4. k \in Job
    <3>1. j \in Job /\ j.pc = "read"
      BY <1>1, <1>3 DEF ReadNamespace, Job, TypeOK
    <3>2. Knows(j)
      <4>1. Knows(job[u]) /\ UniqueNames(live) /\ job[u].pc = "read"
        BY <1>3, JobFacts DEF ReadNamespace
      <4>2. /\ j.pc = job[u].pc /\ j.phase = job[u].phase /\ j.goal = job[u].goal
            /\ j.before = live /\ j.owned = job[u].owned /\ j.snap = job[u].snap
            /\ j.seen = job[u].seen /\ j.valid = job[u].valid
        BY <1>1 DEF Job
      <4> HIDE DEF j
      <4> QED BY <4>1, <4>2 DEF Knows, Chosen
    <3>3. j.goal \in SUBSET Group
      BY <3>1 DEF Job
    <3> HIDE DEF j
    <3> QED BY <1>1, <3>1, <3>2, <3>3, PlannedFacts DEF TypeOK
  <2> HIDE DEF k
  <2>5. Near(Settled(k), live')
    BY <1>1, <2>3, <2>4, GoneOn DEF Near
  <2> QED BY <1>1, <2>1, <2>5, NearFrame
<1>4. CASE ReadForRecovery(u)
  <2> DEFINE j == job[u]
             k == Planned(j, "undo", j.before)
  <2>1. Advance(u, Settled(k)) /\ disturbed' = disturbed /\ j.pc = "recover"
    BY <1>4 DEF ReadForRecovery
  <2>2. k.pc = "undo" /\ k.before = j.before /\ k.room = Batch
    BY <1>1 DEF Planned, Job
  <2>3. k \in Job
    <3>1. Knows(j) /\ live \in SUBSET Group /\ j.before \in SUBSET Group
      BY <1>1, JobFacts DEF Job
    <3> HIDE DEF j
    <3> QED BY <1>1, <2>1, <3>1, PlannedFacts DEF j
  <2>4. ASSUME u \notin disturbed
        PROVE  Near(k, live)
    <3>1. /\ IsFiniteSet(Apart(j.before, live))
          /\ Cardinality(Apart(j.before, live)) <= Batch - j.room
      BY <2>1, <2>4 DEF NearInv, Near
    <3>2. Cardinality(Apart(j.before, live)) \in Nat
      BY <3>1, FS_CardinalityType
    <3>3. Cardinality(Apart(j.before, live)) <= Batch
      BY <1>2, <3>1, <3>2
    <3> HIDE DEF k, j
    <3> QED BY <2>2, <3>1, <3>3 DEF Near
  <2> HIDE DEF k
  <2>5. u \notin disturbed' => Near(Settled(k), live')
    BY <1>1, <2>1, <2>3, <2>4, GoneOn DEF Near
  <2> QED BY <1>1, <2>1, <2>5, NearFrame
<1> QED BY <1>3, <1>4

LEMMA NearMutations ==
  ASSUME IInv, NearInv, NEW u \in Units, Post(u) \/ Delete(u)
  PROVE  NearInv'
<1>1. PICK k \in Job :
        /\ Advance(u, Settled(k)) /\ k.pc = job[u].pc
        /\ k.before = job[u].before /\ k.room = job[u].room - 1
  BY PostFacts, DeleteFacts
<1>2. Writing(u) /\ Disturb(u) /\ TypeOK
  BY DEF Post, Delete, IInv
<1>3. ASSUME u \notin disturbed
      PROVE  Near(k, live')
  <2>1. \E x : \/ \E g \in job[u].posts : x = g.name /\ live' = Upserted(g)
               \/ \E n \in job[u].drops : x = n /\ live' = Removed(n)
    BY DEF Post, Delete
  <2>2. LET B == Apart(job[u].before, live')
        IN  /\ IsFiniteSet(B)
            /\ job[u].pc = "write" => Cardinality(B) <= Batch - (job[u].room - 1)
            /\ job[u].pc = "undo" => Cardinality(B) <= job[u].room - 1
    BY <1>2, <1>3, <2>1, MutationNear
  <2>3. job[u].pc \in {"write", "undo"}
    BY <1>2 DEF Writing
  <2> QED BY <1>1, <2>2, <2>3 DEF Near
<1>4. u \notin disturbed' => Near(Settled(k), live')
  BY <1>2, <1>3, DisturbFacts, GoneOn DEF Near
<1> QED BY <1>1, <1>2, <1>4, DisturbFacts, NearFrame

LEMMA NearMutationFails ==
  ASSUME IInv, NearInv, NEW u \in Units, MutationFails(u)
  PROVE  NearInv'
<1> DEFINE c == Counted(job[u])
           r == [c EXCEPT !.pc = "recover"]
<1>1. /\ job[u] \in Job /\ Coherent(job[u]) /\ job[u].pc \in {"write", "undo"}
      /\ Writing(u) /\ Disturb(u) /\ TypeOK
  BY WritingFacts DEF MutationFails, IInv
<1>2. /\ c \in Job /\ c.pc = job[u].pc /\ c.before = job[u].before
      /\ c.room = job[u].room - 1
  BY <1>1, CountedFacts
<1>3. Advance(u, IF c.pc = "write" THEN r ELSE Unrestored(c))
  BY DEF MutationFails
<1> HIDE DEF c
<1>4. CASE c.pc # "write"
  BY <1>1, <1>2, <1>3, <1>4, GoneOn, NearQuiet
<1>5. CASE c.pc = "write"
  <2>1. r.pc = "recover" /\ r.before = c.before /\ r.room = c.room
    BY <1>2 DEF Job
  <2>2. ASSUME u \notin disturbed
        PROVE  Near(r, live')
    <3>1. /\ IsFiniteSet(Apart(job[u].before, live'))
          /\ Cardinality(Apart(job[u].before, live')) <= Batch - (job[u].room - 1)
      <4>1. CASE live' = live
        <5>1. /\ IsFiniteSet(Apart(job[u].before, live))
              /\ Cardinality(Apart(job[u].before, live)) <= Batch - job[u].room
          BY <1>2, <1>5, <2>2 DEF NearInv, Near
        <5>2. Cardinality(Apart(job[u].before, live)) \in Nat
          BY <5>1, FS_CardinalityType
        <5>3. job[u].room \in Nat /\ Batch \in Nat
          BY <1>1, LimitsAssumption DEF Job
        <5>4. Cardinality(Apart(job[u].before, live)) <= Batch - (job[u].room - 1)
          BY <5>1, <5>2, <5>3
        <5> QED BY <4>1, <5>1, <5>4
      <4>2. CASE \E x : \/ \E g \in job[u].posts : x = g.name /\ live' = Upserted(g)
                       \/ \E n \in job[u].drops : x = n /\ live' = Removed(n)
        BY <1>1, <1>2, <1>5, <2>2, <4>2, MutationNear
      <4>3. \/ live' = live
            \/ \E g \in job[u].posts : live' = Upserted(g)
            \/ \E n \in job[u].drops : live' = Removed(n)
        BY DEF MutationFails
      <4> QED BY <4>1, <4>2, <4>3
    <3> HIDE DEF r
    <3> QED BY <1>2, <2>1, <3>1 DEF Near
  <2>3. u \notin disturbed' => Near(r, live')
    BY <1>1, <2>2, DisturbFacts
  <2> QED BY <1>1, <1>3, <1>5, <2>3, DisturbFacts, NearFrame
<1> QED BY <1>4, <1>5

LEMMA NearInit == Init => NearInv
BY DEF Init, NoJob, NearInv, Near

LEMMA NearStep == IInv /\ NearInv /\ [Next]_vars => NearInv'
<1> SUFFICES ASSUME IInv, NearInv, [Next]_vars PROVE NearInv'
  OBVIOUS
<1>1. ASSUME NEW u \in Units, Reconcile(u) PROVE NearInv'
  <2> DEFINE snap == Candidate(Retained(cache, Found), Found)
             j == [NoJob EXCEPT !.pc = "read", !.seen = Found, !.owned = cache,
                                !.valid = cacheValid, !.snap = snap,
                                !.goal = Merged(snap)]
             k == IF Mergeable(snap) THEN j ELSE Replay(j, Merged(cache))
  <2>1. Advance(u, k)
    BY <1>1 DEF Reconcile
  <2>2. k.pc \in {"idle", "read"}
    BY DEF Replay, NoJob
  <2> HIDE DEF k
  <2> QED BY <1>1, <2>1, <2>2, NearQuiet DEF Reconcile
<1>2. ASSUME NEW u \in Units, ReadRefused(u) \/ ReadFails(u) PROVE NearInv'
  BY <1>2, JobFacts, GoneOn, NearQuiet DEF ReadRefused, ReadFails
<1>3. ASSUME NEW u \in Units, SliceExhausted(u) PROVE NearInv'
  BY <1>3, JobFacts, GoneOn, NearQuiet DEF SliceExhausted
<1>4. ASSUME NEW u \in Units, Persist(u) PROVE NearInv'
  <2> DEFINE k == [job[u] EXCEPT !.pc = "done"]
  <2>1. k.pc = "done"
    BY JobFacts DEF Job
  <2> QED BY <1>4, <2>1, NearQuiet DEF Persist
<1>5. ASSUME NEW u \in Units, PersistFails(u) PROVE NearInv'
  BY <1>5, JobFacts, GoneOn, NearQuiet DEF PersistFails
<1>6. ASSUME NEW u \in Units, Flush(u) \/ FlushRefused(u) \/ HookLost(u) PROVE NearInv'
  BY <1>6, NoJobFacts, GoneOn, NearQuiet DEF Flush, FlushRefused, HookLost
<1>7. ASSUME NEW u \in Units, Progress(u) \/ Failure(u) PROVE NearInv'
  BY <1>2, <1>3, <1>4, <1>5, <1>6, <1>7, NearReads, NearMutations, NearMutationFails
     DEF Progress, Failure
<1>8. CASE UNCHANGED <<job, live, disturbed>>
  BY <1>8 DEF NearInv, Near
<1>9. ASSUME Environment PROVE NearInv'
  <2>1. CASE Tamper
    <3>1. ASSUME NEW u \in Units, u \notin disturbed'
          PROVE  Near(job[u], live')
      BY <2>1, <3>1 DEF Tamper, Near
    <3> QED BY <2>1, <3>1 DEF Tamper, NearInv, Near
  <2>2. CASE ~Tamper
    BY <1>8, <1>9, <2>2 DEF Environment, Publish, Relate, Break, Elect, CorruptCache
  <2> QED BY <2>1, <2>2
<1>10. CASE UNCHANGED vars
  BY <1>8, <1>10 DEF vars
<1>11. ASSUME NEW u \in Units, Decline(u) PROVE NearInv'
  BY <1>8, <1>11 DEF Decline, vars
<1> QED BY <1>1, <1>7, <1>9, <1>10, <1>11 DEF Next

\* Spending an event shows in the budget.
LEMMA SpendShows ==
  ASSUME TypeOK, NEW e \in Events, Spend(e)
  PROVE  budget' # budget
<1>1. budget[e] \in Nat /\ budget'[e] = budget[e] - 1
  BY DEF TypeOK, Spend
<1> QED BY <1>1

\* A recovery that ends without another failure has put everything back: the
\* batch never ends first (replace_namespace, _write_namespace).
THEOREM RecoveryIsComplete == Spec => RestoredIsCaptured
<1>1. ASSUME IInv, NearInv, [Next]_vars, NEW u \in Units,
             job[u].pc = "undo", job'[u].pc = "idle", UNCHANGED budget,
             u \notin disturbed
      PROVE  live' = job[u].before
  <2>1. job \in [Units -> Job] /\ job[u] \in Job /\ TypeOK
    BY <1>1, JobFacts DEF IInv, TypeOK
  <2>2. Post(u) \/ Delete(u)
    <3>1. job'[u] # job[u]
      BY <1>1
    <3>2. \A v \in Units \ {u} : \A j : ~Advance(v, j)
      BY <2>1, <3>1 DEF Advance
    <3>3. PICK v \in Units : Reconcile(v) \/ Progress(v) \/ Failure(v)
      BY <1>1, <3>1
      DEF Next, Environment, Decline, Publish, Relate, Break, Elect, CorruptCache, Tamper, vars
    <3>4. \E j : Advance(v, j)
      BY <3>3 DEF Reconcile, Progress, Failure, ReadNamespace, ReadForRecovery, ReadRefused,
                  ReadFails, Post, Delete, MutationFails, SliceExhausted, Persist,
                  PersistFails, Flush, FlushRefused, HookLost
    <3>5. v = u
      BY <3>2, <3>4
    <3>6. ~Failure(u)
      BY <1>1, <2>1, SpendShows
      DEF Failure, ReadFails, MutationFails, SliceExhausted, HookLost, Events
    <3> QED BY <1>1, <3>3, <3>5, <3>6
            DEF Reconcile, Progress, ReadNamespace, ReadForRecovery, ReadRefused, Persist,
                PersistFails, Flush, FlushRefused
  <2>3. PICK k \in Job :
          /\ Advance(u, Settled(k)) /\ Knows(k) /\ k.pc = job[u].pc
          /\ k.before = job[u].before /\ k.room = job[u].room - 1
          /\ InStep(k, live')
    BY <1>1, <2>2, PostFacts, DeleteFacts
  <2>4. UniqueNames(live')
    BY <1>1, <2>2, PostFacts, DeleteFacts
  <2>5. Settled(k).pc = "idle"
    BY <1>1, <2>1, <2>3 DEF Advance
  <2>6. Settled(k) # k
    BY <1>1, <2>3, <2>5
  <2>7. CASE k.posts = {} /\ k.drops = {}
    <3>1. k.before \ live' = {} /\ NamesOf(live') \ NamesOf(k.before) = {}
      BY <1>1, <2>3, <2>7 DEF InStep, Wanted
    <3> QED BY <2>3, <2>4, <3>1, NothingLeft
  <2>8. CASE ~(k.posts = {} /\ k.drops = {})
    <3>1. k.room = 0
      BY <2>6, <2>8 DEF Settled
    <3>2. \E x : \/ \E g \in job[u].posts : x = g.name /\ live' = Upserted(g)
                 \/ \E n \in job[u].drops : x = n /\ live' = Removed(n)
      BY <2>2 DEF Post, Delete
    <3>3. LET B == Apart(job[u].before, live')
          IN  IsFiniteSet(B) /\ Cardinality(B) <= job[u].room - 1
      BY <1>1, <2>2, <3>2, MutationNear DEF Post, Delete
    <3>4. /\ Cardinality(Apart(job[u].before, live')) \in Nat
          /\ Cardinality(Apart(job[u].before, live')) <= 0
      BY <2>3, <3>1, <3>3, FS_CardinalityType
    <3>5. Apart(job[u].before, live') = {}
      BY <3>3, <3>4, FS_EmptySet
    <3> QED BY <3>5, ApartEmpty
  <2> QED BY <2>7, <2>8
<1>2. IInv /\ NearInv /\ [Next]_vars =>
        [\A u \in Units :
           job[u].pc = "undo" /\ job'[u].pc = "idle" /\ UNCHANGED budget
             /\ Undisturbed(u) =>
               live' = job[u].before]_vars
  BY <1>1 DEF Undisturbed
<1>3. Spec => []NearInv
  BY NearInit, NearStep, Invariant, PTL DEF Spec
<1> QED BY <1>2, <1>3, Invariant, PTL DEF Spec, RestoredIsCaptured

-----------------------------------------------------------------------------
(***************************************************************************)
(* The weight of snapshots.                                                *)
(***************************************************************************)
Sizes(snap) == [r \in Sources |-> Bytes[snap[r]]]

LEMMA SizesType ==
  ASSUME NEW snap \in Snapshots
  PROVE  Sizes(snap) \in [Sources -> Nat]
BY LimitsAssumption DEF Sizes, Snapshots

LEMMA WeightIsSum ==
  ASSUME NEW snap \in Snapshots
  PROVE  \E f : AddsUp(f, Sizes(snap), SUBSET Sources) /\ Weight(snap) = f[Sources]
<1>1. \E f : AddsUp(f, Sizes(snap), SUBSET Sources)
  BY SumExists, SizesType, SourcesAssumption
<1>2. Weight(snap) = (CHOOSE f : AddsUp(f, Sizes(snap), SUBSET Sources))[Sources]
  BY DEF Weight, MapThenSumSet, MapThenFoldSet, AddsUp, Sizes, Taken
<1> QED
  BY <1>1, <1>2

LEMMA WeightGrows ==
  ASSUME NEW small \in Snapshots, NEW large \in Snapshots,
         \A r \in Sources : small[r] \in {{}, large[r]}
  PROVE  Weight(small) \in Nat /\ Weight(large) \in Nat /\ Weight(small) <= Weight(large)
<1>1. PICK f : AddsUp(f, Sizes(small), SUBSET Sources) /\ Weight(small) = f[Sources]
  BY WeightIsSum
<1>2. PICK g : AddsUp(g, Sizes(large), SUBSET Sources) /\ Weight(large) = g[Sources]
  BY WeightIsSum
<1>3. \A r \in Sources : Sizes(small)[r] <= Sizes(large)[r]
  <2>1. ASSUME NEW r \in Sources PROVE Bytes[small[r]] <= Bytes[large[r]]
    <3>1. large[r] \in Documents /\ Bytes[large[r]] \in Nat /\ Bytes[{}] = 0
      BY LimitsAssumption DEF Snapshots
    <3> QED
      BY <3>1
  <2> QED
    BY <2>1 DEF Sizes
<1>4. Sizes(small) \in [Sources -> Nat] /\ Sizes(large) \in [Sources -> Nat]
  BY SizesType
<1>5. IsFiniteSet(Sources)
  BY SourcesAssumption
<1>6. f[Sources] \in Nat /\ g[Sources] \in Nat /\ f[Sources] <= g[Sources]
  <2> DEFINE F == Sizes(small)
             G == Sizes(large)
  <2>1. /\ F \in [Sources -> Nat] /\ G \in [Sources -> Nat]
        /\ \A r \in Sources : F[r] <= G[r]
    BY <1>3, <1>4
  <2>2. AddsUp(f, F, SUBSET Sources) /\ AddsUp(g, G, SUBSET Sources)
    BY <1>1, <1>2
  <2> HIDE DEF F, G
  <2> QED
    BY <1>5, <2>1, <2>2, SumsGrow
<1> QED
  BY <1>1, <1>2, <1>6

-----------------------------------------------------------------------------
(***************************************************************************)
(* Admission: the set that Admitted chooses exists, because whether a      *)
(* source fits depends on those before it alone.                           *)
(***************************************************************************)
Readable(seen) == {r \in Sources : seen[r] \in Documents}

Fits(kept, seen, r, taken) ==
  Weight(Updated(kept, seen, (taken \cap Before(kept, r)) \cup {r})) <= MaxBytes

Admits(kept, seen, taken, D) ==
  /\ taken \subseteq Readable(seen) \cap D
  /\ \A r \in Readable(seen) \cap D : r \in taken <=> Fits(kept, seen, r, taken)

LEMMA BeforeIsOrder ==
  ASSUME NEW kept
  PROVE  /\ \A r \in Sources : r \notin Before(kept, r) /\ Before(kept, r) \subseteq Sources
         /\ \A r, s, t \in Sources :
              r \in Before(kept, s) /\ s \in Before(kept, t) => r \in Before(kept, t)
         /\ \A r, s \in Sources :
              r = s \/ r \in Before(kept, s) \/ s \in Before(kept, r)
<1>1. Sources \subseteq Nat
  BY SourcesAssumption
<1>2. \A r, s \in Sources :
        s \in Before(kept, r) <=> IF (kept[s] = {}) = (kept[r] = {}) THEN s < r
                                  ELSE kept[s] # {}
  BY DEF Before
<1>3. \A r \in Sources : r \notin Before(kept, r) /\ Before(kept, r) \subseteq Sources
  BY <1>1 DEF Before
<1>4. \A r, s, t \in Sources :
        r \in Before(kept, s) /\ s \in Before(kept, t) => r \in Before(kept, t)
  BY <1>1, <1>2
<1>5. ASSUME NEW r \in Sources, NEW s \in Sources
      PROVE  r = s \/ r \in Before(kept, s) \/ s \in Before(kept, r)
  <2>1. r \in Nat /\ s \in Nat
    BY <1>1
  <2>2. CASE (kept[s] = {}) = (kept[r] = {})
    BY <1>2, <2>1, <2>2
  <2>3. CASE (kept[s] = {}) # (kept[r] = {})
    BY <1>2, <2>3
  <2> QED
    BY <2>2, <2>3
<1> QED
  BY <1>3, <1>4, <1>5

\* The sources of D are settled; the next one in the order joins them.
LEMMA AdmissionExtends ==
  ASSUME NEW kept, NEW seen, NEW D \in SUBSET Sources, D # Sources,
         \A r \in D : Before(kept, r) \subseteq D,
         NEW taken, Admits(kept, seen, taken, D)
  PROVE  \E q \in Sources \ D : \E more :
           /\ \A r \in D \cup {q} : Before(kept, r) \subseteq D \cup {q}
           /\ Admits(kept, seen, more, D \cup {q})
<1> DEFINE X == Sources \ D
           R == {p \in Sources \X Sources : p[1] \in Before(kept, p[2])}
<1>1. IsFiniteSet(X) /\ X # {}
  BY SourcesAssumption, FS_Subset
<1>2. \A x, y \in Sources : <<x, y>> \in R <=> x \in Before(kept, y)
  OBVIOUS
<1>3. \A x \in X : <<x, x>> \notin R
  BY <1>2, BeforeIsOrder
<1>4. \A x, y, z \in X : <<x, y>> \in R /\ <<y, z>> \in R => <<x, z>> \in R
  <2>1. X \subseteq Sources
    OBVIOUS
  <2> HIDE DEF X, R
  <2> QED
    BY <1>2, <2>1, BeforeIsOrder
<1>5. PICK q \in X : \A y \in X : <<y, q>> \notin R
  <2> HIDE DEF X, R
  <2> QED
    BY <1>1, <1>3, <1>4, FirstElement
<1>6. Before(kept, q) \subseteq D /\ q \notin Before(kept, q)
  BY <1>2, <1>5, BeforeIsOrder
<1> DEFINE more == taken \cup
                     (IF q \in Readable(seen) /\ Fits(kept, seen, q, taken) THEN {q} ELSE {})
<1>7. \A r \in D \cup {q} : Before(kept, r) \subseteq D \cup {q}
  BY <1>6
<1>8. \A r \in D \cup {q} : more \cap Before(kept, r) = taken \cap Before(kept, r)
  <2>1. \A r \in D \cup {q} : q \notin Before(kept, r)
    BY <1>5, <1>6
  <2> QED
    BY <2>1
<1>9. \A r \in D \cup {q} : Fits(kept, seen, r, more) <=> Fits(kept, seen, r, taken)
  BY <1>8 DEF Fits
<1>10. Admits(kept, seen, more, D \cup {q})
  <2>1. taken \subseteq D /\ q \notin D
    BY <1>5 DEF Admits
  <2>2. more \subseteq Readable(seen) \cap (D \cup {q})
    BY DEF Admits
  <2>3. \A r \in D : r \in more <=> r \in taken
    BY <2>1
  <2>4. q \in Readable(seen) => (q \in more <=> Fits(kept, seen, q, taken))
    BY <2>1
  <2> HIDE DEF more
  <2> QED
    BY <1>9, <2>2, <2>3, <2>4 DEF Admits
<1> QED
  BY <1>5, <1>7, <1>10

LEMMA AdmissionExists ==
  ASSUME NEW kept, NEW seen
  PROVE  \E taken : Admits(kept, seen, taken, Sources)
<1> DEFINE Settling(D) == /\ \A r \in D : Before(kept, r) \subseteq D
                          /\ \E taken : Admits(kept, seen, taken, D)
           Left == {Sources \ D : D \in {E \in SUBSET Sources : Settling(E)}}
<1>1. \A s \in Left : IsFiniteSet(s) /\ Cardinality(s) \in Nat
  BY SourcesAssumption, FS_Subset, FS_CardinalityType
<1>2. Settling({})
  BY DEF Admits
<1>3. Left # {}
  <2>1. Sources \ {} \in Left
    BY <1>2
  <2> QED
    BY <2>1, Zenon
<1>4. PICK s \in Left : \A t \in Left : Cardinality(s) <= Cardinality(t)
  <2> HIDE DEF Left
  <2> QED
    BY <1>1, <1>3, SmallestSet
<1>5. PICK D \in SUBSET Sources : Settling(D) /\ s = Sources \ D
  OBVIOUS
<1>6. CASE D = Sources
  BY <1>5, <1>6
<1>7. CASE D # Sources
  <2>1. PICK q \in Sources \ D : Settling(D \cup {q})
    BY <1>5, <1>7, AdmissionExtends
  <2>2. Sources \ (D \cup {q}) \in Left
    BY <2>1
  <2>3. Sources \ (D \cup {q}) = s \ {q} /\ q \in s
    BY <1>5
  <2>4. Cardinality(s \ {q}) = Cardinality(s) - 1
    BY <1>1, <2>3, FS_RemoveElement
  <2> HIDE DEF Left
  <2> QED
    BY <1>1, <1>4, <2>2, <2>3, <2>4
<1> QED
  BY <1>6, <1>7

LEMMA AdmittedAdmits ==
  ASSUME NEW kept, NEW seen
  PROVE  Admits(kept, seen, Admitted(kept, seen), Sources)
<1> DEFINE readable == {r \in Sources : seen[r] \in Documents}
           AdmitsAll(taken) ==
             \A r \in readable : r \in taken <=>
               Weight(Updated(kept, seen, (taken \cap Before(kept, r)) \cup {r})) <= MaxBytes
           t == CHOOSE taken \in SUBSET readable : AdmitsAll(taken)
<1>1. Admitted(kept, seen) = readable \cap t
  BY DEF Admitted
<1>2. \E taken \in SUBSET readable : AdmitsAll(taken)
  BY AdmissionExists DEF Admits, Readable, Fits
<1>3. t \in SUBSET readable /\ AdmitsAll(t)
  BY <1>2
<1> HIDE DEF t
<1>4. Admitted(kept, seen) = t
  BY <1>1, <1>3
<1> QED
  BY <1>3, <1>4 DEF Admits, Readable, Fits

\* What the last source to be admitted was held against is the candidate.
LEMMA CandidateFits ==
  ASSUME NEW kept \in Snapshots, NEW seen, Weight(kept) <= MaxBytes
  PROVE  Weight(Candidate(kept, seen)) <= MaxBytes
<1> DEFINE A == Admitted(kept, seen)
           R == {p \in Sources \X Sources : p[2] \in Before(kept, p[1])}
<1>1. Admits(kept, seen, A, Sources) /\ A \subseteq Sources
  BY AdmittedAdmits DEF Admits
<1>2. Candidate(kept, seen) = Updated(kept, seen, A)
  BY DEF Candidate
<1> HIDE DEF A
<1>3. CASE A = {}
  <2>1. Updated(kept, seen, A) = kept
    BY <1>3 DEF Updated, Snapshots
  <2> QED
    BY <1>2, <2>1
<1>4. CASE A # {}
  <2>1. \A x, y \in Sources : <<x, y>> \in R <=> y \in Before(kept, x)
    OBVIOUS
  <2>2. IsFiniteSet(A)
    BY <1>1, SourcesAssumption, FS_Subset
  <2> HIDE DEF R
  <2>3. /\ \A x \in A : <<x, x>> \notin R
        /\ \A x, y, z \in A : <<x, y>> \in R /\ <<y, z>> \in R => <<x, z>> \in R
    BY <1>1, <2>1, BeforeIsOrder
  <2>4. PICK last \in A : \A y \in A : <<y, last>> \notin R
    BY <1>4, <2>2, <2>3, FirstElement
  <2>5. (A \cap Before(kept, last)) \cup {last} = A
    <3>1. \A y \in A : y = last \/ y \in Before(kept, last)
      BY <1>1, <2>1, <2>4, BeforeIsOrder
    <3> QED
      BY <3>1
  <2>6. Fits(kept, seen, last, A)
    BY <1>1 DEF Admits
  <2> QED
    BY <1>2, <2>5, <2>6 DEF Fits
<1> QED
  BY <1>3, <1>4

-----------------------------------------------------------------------------
(***************************************************************************)
(* The invariant: no job carries snapshots that are too large.             *)
(***************************************************************************)
LimitInv ==
  /\ Weight(cache) <= MaxBytes
  /\ \A u \in Units : Weight(job[u].snap) <= MaxBytes

\* A job keeps the snapshots it has chosen.
LEMMA SnapKept ==
  ASSUME NEW j \in Job
  PROVE  /\ NoJob.snap = NoSnapshots
         /\ \A groups : Replay(j, groups).snap \in {j.snap, NoSnapshots}
         /\ Unrestored(j).snap \in {j.snap, NoSnapshots}
         /\ Settled(j).snap \in {j.snap, NoSnapshots}
<1>1. NoJob.snap = NoSnapshots
  BY DEF NoJob
<1>2. ASSUME NEW groups PROVE Replay(j, groups).snap \in {j.snap, NoSnapshots}
  BY <1>1 DEF Replay, Job
<1>3. Unrestored(j).snap \in {j.snap, NoSnapshots}
  BY <1>1, <1>2 DEF Unrestored
<1>4. [j EXCEPT !.pc = "persist"].snap = j.snap
  BY DEF Job
<1>5. Settled(j).snap \in {j.snap, NoSnapshots}
  BY <1>1, <1>3, <1>4 DEF Settled
<1> QED
  BY <1>1, <1>2, <1>3, <1>5

\* Where the snapshots of a job come from.
LEMMA SnapStep ==
  ASSUME IInv, [Next]_vars, NEW u \in Units
  PROVE  job'[u].snap \in
           {job[u].snap, NoSnapshots, Candidate(Retained(cache, Found), Found)}
<1> DEFINE S == {job[u].snap, NoSnapshots}
<1>1. job \in [Units -> Job]
  BY DEF IInv, TypeOK
<1>2. ASSUME NEW v \in Units, NEW j, Advance(v, j), j.snap \in {job[v].snap, NoSnapshots}
      PROVE  job'[u].snap \in S
  BY <1>1, <1>2 DEF Advance
<1>3. ASSUME NEW v \in Units, Reconcile(v)
      PROVE  job'[u].snap \in S \cup {Candidate(Retained(cache, Found), Found)}
  <2> DEFINE snap == Candidate(Retained(cache, Found), Found)
             j == [NoJob EXCEPT !.pc = "read", !.seen = Found, !.owned = cache,
                                !.valid = cacheValid, !.snap = snap,
                                !.goal = Merged(snap)]
  <2>1. Found \in Seen /\ snap \in Snapshots /\ cache \in Snapshots /\ cacheValid \in BOOLEAN
    BY FoundType, CandidateType DEF IInv, TypeOK
  <2>2. j \in Job /\ j.snap = snap
    <3>1. Merged(snap) \in SUBSET Group
      BY <2>1, MergedType
    <3> HIDE DEF snap
    <3> QED
      BY <2>1, <3>1, NoJobFacts DEF Job, Steps
  <2>3. \E k \in {j, Replay(j, Merged(cache))} : Advance(v, k)
    BY <1>3 DEF Reconcile
  <2> HIDE DEF j, snap
  <2>4. PICK k \in {j, Replay(j, Merged(cache))} : Advance(v, k)
    BY <2>3
  <2>5. k.snap \in {snap, NoSnapshots}
    BY <2>2, <2>4, SnapKept
  <2>6. job'[u].snap \in S \cup {snap}
    BY <1>1, <2>4, <2>5 DEF Advance
  <2> QED
    BY <2>6 DEF snap
<1>4. ASSUME NEW v \in Units, ReadNamespace(v) PROVE job'[u].snap \in S
  <2> DEFINE j == [job[v] EXCEPT !.before = live]
             k == Planned(j, "write", j.goal)
  <2>1. /\ job[v] \in Job /\ Knows(job[v]) /\ job[v].pc = "read"
        /\ live \in SUBSET Group
    BY <1>4, JobFacts DEF ReadNamespace
  <2>2. j \in Job /\ j.snap = job[v].snap /\ j.goal \in SUBSET Group
    BY <2>1 DEF Job
  <2>3. NamesOf(live) \ NamesOf(j.goal) \in SUBSET Names
    BY <2>1 DEF NamesOf, Group
  <2>4. Advance(v, Settled(k))
    BY <1>4 DEF ReadNamespace
  <2> HIDE DEF j
  <2>5. k \in Job /\ k.snap = j.snap
    <3>1. Batch \in 0 .. Batch /\ "write" \in Steps
      BY LimitsAssumption DEF Steps
    <3> QED
      BY <2>1, <2>2, <2>3, <3>1 DEF Planned, Job
  <2> HIDE DEF k
  <2> QED
    BY <1>2, <2>2, <2>4, <2>5, SnapKept
<1>5. ASSUME NEW v \in Units, ReadForRecovery(v) PROVE job'[u].snap \in S
  <2> DEFINE j == job[v]
             k == Planned(j, "undo", j.before)
  <2>1. j \in Job /\ live \in SUBSET Group /\ j.before \in SUBSET Group
    BY JobFacts DEF Job
  <2>2. NamesOf(live) \ NamesOf(j.before) \in SUBSET Names
    BY <2>1 DEF NamesOf, Group
  <2>3. Advance(v, Settled(k))
    BY <1>5 DEF ReadForRecovery
  <2> HIDE DEF j
  <2>4. k \in Job /\ k.snap = j.snap
    <3>1. Batch \in 0 .. Batch /\ "undo" \in Steps
      BY LimitsAssumption DEF Steps
    <3> QED
      BY <2>1, <2>2, <3>1 DEF Planned, Job
  <2> HIDE DEF k
  <2> QED
    BY <1>2, <2>3, <2>4, SnapKept DEF j
<1>6. ASSUME NEW v \in Units, Post(v) \/ Delete(v) \/ MutationFails(v)
      PROVE  job'[u].snap \in S
  <2> DEFINE j == Counted(job[v])
  <2>1. j \in Job /\ j.snap = job[v].snap
    BY <1>6, WritingFacts, CountedFacts DEF Post, Delete, MutationFails
  <2> HIDE DEF j
  <2>2. ASSUME NEW g, NEW k, k = [j EXCEPT !.posts = @ \ {g}]
        PROVE  k \in Job /\ k.snap = j.snap
    BY <2>1, <2>2 DEF Job
  <2>3. ASSUME NEW n, NEW k, k = [j EXCEPT !.drops = @ \ {n}]
        PROVE  k \in Job /\ k.snap = j.snap
    BY <2>1, <2>3 DEF Job
  <2>4. CASE Post(v)
    <3>1. PICK g : Advance(v, Settled([j EXCEPT !.posts = @ \ {g}]))
      BY <2>4 DEF Post, j
    <3> DEFINE k == [j EXCEPT !.posts = @ \ {g}]
    <3>2. k \in Job /\ k.snap = j.snap
      BY <2>2
    <3>3. Advance(v, Settled(k))
      BY <3>1
    <3> HIDE DEF k
    <3> QED
      BY <1>2, <2>1, <3>2, <3>3, SnapKept
  <2>5. CASE Delete(v)
    <3>1. PICK n : Advance(v, Settled([j EXCEPT !.drops = @ \ {n}]))
      BY <2>5 DEF Delete, j
    <3> DEFINE k == [j EXCEPT !.drops = @ \ {n}]
    <3>2. k \in Job /\ k.snap = j.snap
      BY <2>3
    <3>3. Advance(v, Settled(k))
      BY <3>1
    <3> HIDE DEF k
    <3> QED
      BY <1>2, <2>1, <3>2, <3>3, SnapKept
  <2>6. CASE MutationFails(v)
    <3>1. PICK k \in {[j EXCEPT !.pc = "recover"], Unrestored(j)} : Advance(v, k)
      BY <2>6 DEF MutationFails, j
    <3>2. [j EXCEPT !.pc = "recover"].snap = j.snap
      BY <2>1 DEF Job
    <3> QED
      BY <1>2, <2>1, <3>1, <3>2, SnapKept
  <2> QED
    BY <1>6, <2>4, <2>5, <2>6
<1>7. ASSUME NEW v \in Units,
             \/ ReadRefused(v) \/ ReadFails(v) \/ SliceExhausted(v) \/ Flush(v)
             \/ FlushRefused(v) \/ HookLost(v)
      PROVE  job'[u].snap \in S
  <2>1. \E k \in {Unrestored(job[v]), NoJob} : Advance(v, k)
    BY <1>7 DEF ReadRefused, ReadFails, SliceExhausted, Flush, FlushRefused, HookLost
  <2> QED
    BY <1>1, <1>2, <2>1, SnapKept
<1>8. ASSUME NEW v \in Units, Persist(v) \/ PersistFails(v)
      PROVE  job'[u].snap \in S
  <2> DEFINE k == [job[v] EXCEPT !.pc = "done"]
  <2>1. k.snap = job[v].snap
    BY <1>1 DEF Job
  <2>2. Advance(v, k) \/ \E groups : Advance(v, Replay(job[v], groups))
    BY <1>8 DEF Persist, PersistFails
  <2> HIDE DEF k
  <2> QED
    BY <1>1, <1>2, <2>1, <2>2, SnapKept
<1>9. ASSUME UNCHANGED job PROVE job'[u].snap \in S
  BY <1>9
<1>10. UNCHANGED job \/ \E v \in Units : Reconcile(v) \/ Progress(v) \/ Failure(v)
  BY DEF Next, vars, Decline, Environment, Publish, Relate, Break, Elect,
     CorruptCache, Tamper
<1> QED
  BY <1>3, <1>4, <1>5, <1>6, <1>7, <1>8, <1>9, <1>10 DEF Progress, Failure

\* And so does the cache.
LEMMA CacheStep ==
  ASSUME [Next]_vars
  PROVE  \/ cache' \in {cache, NoSnapshots}
         \/ \E u \in Units : cache' = job[u].snap
BY DEF Next, vars, accepted, Decline, Environment, Publish, Relate, Break, Elect,
   CorruptCache, Tamper, Reconcile, Progress, Failure, ReadNamespace, ReadForRecovery,
   ReadRefused, ReadFails, Post, Delete, MutationFails, SliceExhausted, Persist,
   PersistFails, Flush, FlushRefused, HookLost

LEMMA LimitStep == IInv /\ LimitInv /\ [Next]_vars => LimitInv'
<1> SUFFICES ASSUME IInv, LimitInv, [Next]_vars PROVE LimitInv'
  OBVIOUS
<1> DEFINE kept == Retained(cache, Found)
<1>1. cache \in Snapshots /\ Found \in Seen /\ kept \in Snapshots
  BY FoundType, CandidateType DEF IInv, TypeOK
<1>2. Weight(kept) <= MaxBytes
  <2>1. \A r \in Sources : kept[r] \in {{}, cache[r]}
    BY DEF Retained
  <2> HIDE DEF kept
  <2> QED
    BY <1>1, <2>1, WeightGrows, LimitsAssumption DEF LimitInv
<1>3. Weight(NoSnapshots) <= MaxBytes
  <2>1. NoSnapshots \in Snapshots /\ \A r \in Sources : NoSnapshots[r] \in {{}, cache[r]}
    BY DocumentsAssumption DEF NoSnapshots, Snapshots
  <2> QED
    BY <1>1, <2>1, WeightGrows, LimitsAssumption DEF LimitInv
<1>4. Weight(Candidate(kept, Found)) <= MaxBytes
  BY <1>1, <1>2, CandidateFits
<1>5. ASSUME NEW u \in Units PROVE Weight(job'[u].snap) <= MaxBytes
  <2>1. CASE job'[u].snap = job[u].snap
    BY <2>1 DEF LimitInv
  <2>2. CASE job'[u].snap = NoSnapshots
    BY <1>3, <2>2
  <2>3. CASE job'[u].snap = Candidate(kept, Found)
    BY <1>4, <2>3
  <2> QED
    BY <2>1, <2>2, <2>3, SnapStep
<1>6. Weight(cache') <= MaxBytes
  BY <1>3, CacheStep DEF LimitInv
<1> QED
  BY <1>5, <1>6 DEF LimitInv

LEMMA LimitInit == Init => LimitInv
<1> SUFFICES ASSUME Init PROVE LimitInv
  OBVIOUS
<1>1. Initial \in Snapshots /\ NoSnapshots \in Snapshots
      /\ \A r \in Sources : NoSnapshots[r] \in {{}, Initial[r]}
  BY DocumentsAssumption DEF NoSnapshots, Snapshots
<1>2. Weight(NoSnapshots) <= MaxBytes /\ Weight(Initial) <= MaxBytes
  BY <1>1, WeightGrows, InitialAssumption, LimitsAssumption
<1> QED
  BY <1>2 DEF Init, NoJob, LimitInv

\* Every cache that a hook writes respects the limits in groups and in bytes and
\* has unique names (_encode_cache, _validate_aggregate), with any number of
\* sources and any failures: whatever is admitted is weighed together with all
\* that was admitted or kept before it, and withdrawing only makes it lighter.
THEOREM CachesDecode == Spec => []CacheDecodes
<1>1. Init => IInv /\ LimitInv
  BY IInvInit, LimitInit
<1>2. IInv /\ LimitInv /\ [Next]_vars => (IInv /\ LimitInv)'
  BY IInvStep, LimitStep
<1>3. IInv /\ LimitInv => CacheDecodes
  BY DEF IInv, LimitInv, CacheDecodes
<1> QED
  BY <1>1, <1>2, <1>3, PTL DEF Spec

-----------------------------------------------------------------------------
(***************************************************************************)
(* The jobs implement the transactions of RuleNamespace.  Whoever writes,  *)
(* each request of a job aims at what the job wants (AimInv); the rest is  *)
(* in IInv.                                                                *)
(***************************************************************************)
Aimed(j) ==
  j.pc \in {"write", "undo"} =>
    /\ j.posts \subseteq Wanted(j)
    /\ j.drops \cap NamesOf(Wanted(j)) = {}

AimInv == \A u \in Units : Aimed(job[u])

LEMMA ElsewhereAimed ==
  ASSUME NEW j \in Job, NEW groups
  PROVE  Aimed(NoJob) /\ Aimed(Replay(j, groups)) /\ Aimed(Unrestored(j))
<1>1. Aimed(NoJob)
  BY DEF NoJob, Aimed
<1>2. ASSUME NEW gs PROVE Aimed(Replay(j, gs))
  BY <1>1 DEF Replay, Aimed, Job
<1> QED
  BY <1>1, <1>2 DEF Unrestored

LEMMA SettledAimed ==
  ASSUME NEW j \in Job, Aimed(j), j.pc \in {"write", "undo"}
  PROVE  Aimed(Settled(j))
<1>1. [j EXCEPT !.pc = "persist"].pc = "persist"
  BY DEF Job
<1>2. Aimed([j EXCEPT !.pc = "persist"])
  BY <1>1 DEF Aimed
<1> QED
  BY <1>2, ElsewhereAimed DEF Settled

LEMMA PlannedAimed ==
  ASSUME NEW j \in Job
  PROVE  LET k == Planned(j, "write", j.goal)
             l == Planned(j, "undo", j.before)
         IN  Aimed(k) /\ k.pc = "write" /\ Aimed(l) /\ l.pc = "undo"
BY DEF Planned, Job, Aimed, Wanted

\* What becomes of the job of u decides.
LEMMA AimFrame ==
  ASSUME TypeOK, AimInv, NEW u \in Units, NEW j, Advance(u, j), Aimed(j)
  PROVE  AimInv'
<1>1. \A v \in Units : job'[v] = (IF v = u THEN j ELSE job[v])
  BY DEF TypeOK, Advance
<1> QED
  BY <1>1 DEF AimInv

LEMMA AimMutation ==
  ASSUME IInv, AimInv, NEW u \in Units, Post(u) \/ Delete(u)
  PROVE  AimInv'
<1>1. /\ job[u] \in Job /\ Coherent(job[u]) /\ job[u].pc \in {"write", "undo"}
      /\ Aimed(job[u]) /\ TypeOK
  BY WritingFacts, JobFacts DEF Post, Delete, AimInv
<1> DEFINE c == Counted(job[u])
<1>2. /\ c \in Job /\ c.pc = job[u].pc /\ c.goal = job[u].goal /\ c.before = job[u].before
      /\ c.posts = job[u].posts /\ c.drops = job[u].drops
  BY <1>1, CountedFacts
<1> HIDE DEF c
<1>3. Aimed(c) /\ c.pc \in {"write", "undo"}
  BY <1>1, <1>2 DEF Aimed, Wanted
<1>4. ASSUME NEW x
      PROVE  LET k == [c EXCEPT !.posts = @ \ {x}]
                 l == [c EXCEPT !.drops = @ \ {x}]
             IN  k \in Job /\ Aimed(k) /\ k.pc = c.pc /\ l \in Job /\ Aimed(l) /\ l.pc = c.pc
  <2> DEFINE k == [c EXCEPT !.posts = @ \ {x}]
             l == [c EXCEPT !.drops = @ \ {x}]
  <2>1. k \in Job /\ l \in Job
    BY <1>2 DEF Job
  <2>2. /\ k.pc = c.pc /\ k.goal = c.goal /\ k.before = c.before
        /\ k.posts = c.posts \ {x} /\ k.drops = c.drops
    BY <1>2 DEF Job
  <2>3. /\ l.pc = c.pc /\ l.goal = c.goal /\ l.before = c.before
        /\ l.posts = c.posts /\ l.drops = c.drops \ {x}
    BY <1>2 DEF Job
  <2> HIDE DEF k, l
  <2>4. Aimed(k) /\ Aimed(l)
    BY <1>3, <2>2, <2>3 DEF Aimed, Wanted
  <2> QED
    BY <2>1, <2>2, <2>3, <2>4 DEF k, l
<1>5. \E j \in Job : Advance(u, Settled(j)) /\ Aimed(j) /\ j.pc \in {"write", "undo"}
  <2>1. \/ \E g : Advance(u, Settled([c EXCEPT !.posts = @ \ {g}]))
        \/ \E n : Advance(u, Settled([c EXCEPT !.drops = @ \ {n}]))
    BY DEF Post, Delete, c
  <2> QED
    BY <1>3, <1>4, <2>1
<1> QED
  BY <1>1, <1>5, SettledAimed, AimFrame

LEMMA AimRead ==
  ASSUME IInv, AimInv, NEW u \in Units, ReadNamespace(u) \/ ReadForRecovery(u)
  PROVE  AimInv'
<1>1. job[u] \in Job /\ TypeOK /\ live \in SUBSET Group
  BY JobFacts
<1> DEFINE j == [job[u] EXCEPT !.before = live]
           k == Planned(j, "write", j.goal)
           l == Planned(job[u], "undo", job[u].before)
<1>2. j \in Job
  BY <1>1 DEF Job
<1>3. Aimed(k) /\ k.pc = "write" /\ Aimed(l) /\ l.pc = "undo"
  BY <1>1, <1>2, PlannedAimed
<1>4. \E m \in {k, l} : Advance(u, Settled(m)) /\ m \in Job
  <2>1. k \in Job /\ l \in Job
    <3>1. \A groups : NamesOf(live) \ groups \in SUBSET Names
      BY <1>1 DEF NamesOf, Group
    <3>2. Batch \in 0 .. Batch /\ {"write", "undo"} \subseteq Steps
      BY LimitsAssumption DEF Steps
    <3>3. j.goal \in SUBSET Group /\ job[u].before \in SUBSET Group
      BY <1>1, <1>2 DEF Job
    <3> QED
      BY <1>1, <1>2, <3>1, <3>2, <3>3 DEF Planned, Job
  <2> QED
    BY <2>1 DEF ReadNamespace, ReadForRecovery
<1> HIDE DEF k, l
<1>5. PICK m \in {k, l} : Advance(u, Settled(m)) /\ m \in Job
  BY <1>4
<1> QED
  BY <1>1, <1>3, <1>5, SettledAimed, AimFrame

LEMMA AimStep == IInv /\ AimInv /\ [Next]_vars => AimInv'
<1> SUFFICES ASSUME IInv, AimInv, [Next]_vars PROVE AimInv'
  OBVIOUS
<1>1. TypeOK
  BY DEF IInv
<1>2. ASSUME NEW u \in Units, NEW j, Advance(u, j), j.pc \notin {"write", "undo"}
      PROVE  AimInv'
  BY <1>1, <1>2, AimFrame DEF Aimed
<1>3. ASSUME NEW u \in Units, NEW j \in {NoJob, Unrestored(job[u])}, Advance(u, j)
      PROVE  AimInv'
  BY <1>1, <1>3, ElsewhereAimed, AimFrame DEF TypeOK
<1>4. ASSUME NEW u \in Units, Reconcile(u) PROVE AimInv'
  <2> DEFINE snap == Candidate(Retained(cache, Found), Found)
             j == [NoJob EXCEPT !.pc = "read", !.seen = Found, !.owned = cache,
                                !.valid = cacheValid, !.snap = snap, !.goal = Merged(snap)]
  <2>1. j.pc = "read"
    BY DEF NoJob
  <2>2. \A groups : Replay(j, groups).pc \in {"idle", "read"}
    BY DEF Replay, NoJob
  <2> QED
    BY <1>2, <1>4, <2>1, <2>2 DEF Reconcile
<1>5. ASSUME NEW u \in Units, Progress(u) PROVE AimInv'
  <2>1. CASE ReadRefused(u)
    BY <1>3, <2>1 DEF ReadRefused
  <2>2. CASE Persist(u)
    <3>1. [job[u] EXCEPT !.pc = "done"].pc = "done"
      BY <1>1 DEF TypeOK, Job
    <3> QED
      BY <1>2, <2>2, <3>1 DEF Persist
  <2>3. CASE PersistFails(u)
    BY <1>1, <2>3, ElsewhereAimed, AimFrame DEF PersistFails, TypeOK
  <2>4. CASE Flush(u) \/ FlushRefused(u)
    BY <1>3, <2>4 DEF Flush, FlushRefused
  <2> QED
    BY <1>5, <2>1, <2>2, <2>3, <2>4, AimRead, AimMutation DEF Progress
<1>6. ASSUME NEW u \in Units, Failure(u) PROVE AimInv'
  <2>1. CASE ReadFails(u) \/ SliceExhausted(u) \/ HookLost(u)
    BY <1>3, <2>1 DEF ReadFails, SliceExhausted, HookLost
  <2>2. CASE MutationFails(u)
    <3> DEFINE c == Counted(job[u])
    <3>1. c \in Job
      BY <2>2, WritingFacts, CountedFacts DEF MutationFails
    <3> HIDE DEF c
    <3>2. [c EXCEPT !.pc = "recover"].pc = "recover"
      BY <3>1 DEF Job
    <3>3. Advance(u, IF c.pc = "write" THEN [c EXCEPT !.pc = "recover"] ELSE Unrestored(c))
      BY <2>2 DEF MutationFails, c
    <3> QED
      BY <1>1, <1>2, <3>1, <3>2, <3>3, ElsewhereAimed, AimFrame
  <2> QED
    BY <1>6, <2>1, <2>2 DEF Failure
<1>7. CASE UNCHANGED job
  BY <1>7 DEF AimInv
<1> QED
  BY <1>4, <1>5, <1>6, <1>7
  DEF Next, Environment, Decline, Publish, Relate, Break, Elect, CorruptCache, Tamper, vars

LEMMA AimInit == Init => AimInv
BY ElsewhereAimed, NoJobFacts DEF Init, AimInv

\* Who has a transaction open.
HasRead(j) == j.pc \notin {"idle", "read"}

LEMMA TransactionFacts ==
  ASSUME NEW j
  PROVE  /\ ~HasRead(j) => Transaction(j) = Namespace!Closed
         /\ HasRead(j) <=> Transaction(j).state # "closed"
         /\ HasRead(j) => Transaction(j).from = j.before /\ Transaction(j).to = j.goal
         /\ j.pc = "write" => Transaction(j).state = "applying"
         /\ j.pc \in {"recover", "undo"} => Transaction(j).state = "restoring"
         /\ j.pc \in {"persist", "done"} => Transaction(j).state = "applied"
BY DEF Transaction, HasRead, Namespace!Closed

\* A job that is given up, or starts all over, has no transaction.
LEMMA ElsewhereClosed ==
  ASSUME NEW j \in Job, NEW groups
  PROVE  ~HasRead(NoJob) /\ ~HasRead(Replay(j, groups)) /\ ~HasRead(Unrestored(j))
<1>1. ~HasRead(NoJob)
  BY DEF NoJob, HasRead
<1>2. ASSUME NEW gs PROVE ~HasRead(Replay(j, gs))
  BY <1>1 DEF Replay, HasRead, Job
<1> QED
  BY <1>1, <1>2 DEF Unrestored

\* Two jobs at the same point with the same aims are the same transaction.
LEMMA SameTransaction ==
  ASSUME NEW j, NEW k, k.pc = j.pc, k.before = j.before, k.goal = j.goal
  PROVE  Transaction(k) = Transaction(j)
BY DEF Transaction

LEMMA SettledTransaction ==
  ASSUME NEW j \in Job, j.pc \in {"write", "undo"}
  PROVE  \/ Settled(j) = j
         \/ ~HasRead(Settled(j))
         \/ /\ j.pc = "write" /\ j.posts = {} /\ j.drops = {}
            /\ HasRead(Settled(j))
            /\ Transaction(Settled(j)) = [Transaction(j) EXCEPT !.state = "applied"]
<1> DEFINE k == [j EXCEPT !.pc = "persist"]
<1>1. k.pc = "persist" /\ k.before = j.before /\ k.goal = j.goal
  BY DEF Job
<1>2. ASSUME j.pc = "write"
      PROVE  Transaction(k) = [Transaction(j) EXCEPT !.state = "applied"] /\ HasRead(k)
  BY <1>1, <1>2 DEF Transaction, HasRead
<1> HIDE DEF k
<1>3. \/ Settled(j) = j
      \/ Settled(j) = k /\ j.pc = "write" /\ j.posts = {} /\ j.drops = {}
      \/ Settled(j) \in {NoJob, Unrestored(j)}
  BY DEF Settled, k
<1> QED
  BY <1>2, <1>3, ElsewhereClosed

LEMMA MoveFacts ==
  ASSUME TypeOK, NEW u \in Units, NEW j, Advance(u, j)
  PROVE  /\ Namespace!Move(u, Transaction(j))
         /\ \A v \in Units : job'[v] = (IF v = u THEN j ELSE job[v])
         /\ \A v \in Units : Namespace!IsOpen(v) <=> HasRead(job[v])
         /\ \A v \in Units : Namespace!IsOpen(v)' <=> HasRead(job'[v])
<1>1. \A v \in Units : job'[v] = (IF v = u THEN j ELSE job[v])
  BY DEF TypeOK, Advance
<1>2. [v \in Units |-> Transaction(job[v])]' =
        [[v \in Units |-> Transaction(job[v])] EXCEPT ![u] = Transaction(j)]
  BY <1>1
<1>3. \A v \in Units : Namespace!IsOpen(v) <=> HasRead(job[v])
  BY TransactionFacts DEF Namespace!IsOpen
<1>4. \A v \in Units : Namespace!IsOpen(v)' <=> HasRead(job'[v])
  BY TransactionFacts DEF Namespace!IsOpen
<1> QED
  BY <1>1, <1>2, <1>3, <1>4 DEF Namespace!Move

\* The jobs marked as disturbed are the transactions that are behind.
LEMMA MarkFacts ==
  ASSUME TypeOK, NEW u \in Units, NEW j, Advance(u, j),
         \/ Disturb(u)
         \/ live' = live /\ disturbed' \in {disturbed, disturbed \ {u}},
         HasRead(j) /\ u \in disturbed => (HasRead(job[u]) <=> u \in disturbed')
  PROVE  Namespace!Marked(u)
<1>1. /\ \A v \in Units : job'[v] = (IF v = u THEN j ELSE job[v])
      /\ \A v \in Units : Namespace!IsOpen(v)' <=> HasRead(job'[v])
  BY MoveFacts
<1>2. disturbed \subseteq Units /\ disturbed' \subseteq Units
  BY DEF TypeOK, Disturb
<1>3. ASSUME NEW v \in Units, v # u
      PROVE  v \in disturbed' /\ HasRead(job'[v]) <=>
               /\ HasRead(job'[v])
               /\ (v \in disturbed /\ HasRead(job[v])) \/ live' # live
  BY <1>1, <1>3 DEF Disturb, HasRead
<1>4. u \in disturbed' /\ HasRead(job'[u]) <=>
        HasRead(job'[u]) /\ u \in disturbed /\ HasRead(job[u])
  BY <1>1 DEF Disturb
<1>5. {v \in disturbed : job[v].pc \notin {"idle", "read"}}' =
        {v \in Units : Namespace!IsOpen(v)' /\
           (v \in {w \in disturbed : job[w].pc \notin {"idle", "read"}}
              \/ (live' # live /\ v # u))}
  BY <1>1, <1>2, <1>3, <1>4 DEF HasRead
<1> QED
  BY <1>5 DEF Namespace!Marked

\* Every request of a job takes one name to what the job wants of it.
LEMMA RequestFacts ==
  ASSUME IInv, AimInv, NEW u \in Units, Writing(u),
         \/ \E g \in job[u].posts : live' = Upserted(g)
         \/ job[u].posts = {} /\ \E n \in job[u].drops : live' = Removed(n)
  PROVE  Namespace!Request(u, Wanted(job[u]))
<1> DEFINE wanted == Wanted(job[u])
<1>1. /\ job[u].posts \subseteq wanted /\ job[u].drops \cap NamesOf(wanted) = {}
      /\ wanted \in SUBSET Group /\ UniqueNames(wanted)
      /\ job[u].drops \in SUBSET Names
  BY WritingFacts DEF AimInv, Aimed, Job
<1>2. u \notin {v \in disturbed : job[v].pc \notin {"idle", "read"}} =>
        /\ job[u].posts = wanted \ live
        /\ job[u].drops = NamesOf(live) \ NamesOf(wanted)
  BY WritingFacts DEF InStep
<1> HIDE DEF wanted
<1>3. ASSUME NEW g \in job[u].posts, live' = Upserted(g)
      PROVE  Namespace!Request(u, wanted)
  <2>1. g \in Group /\ g.name \in Names
    BY <1>1 DEF Group
  <2>2. Namespace!At(g.name, wanted) = {g}
    BY <1>1 DEF UniqueNames, Namespace!At
  <2>3. live' = Namespace!Put(g.name, wanted)
    BY <1>3, <2>2 DEF Upserted, Namespace!Put
  <2>4. g \in live'
    BY <1>3 DEF Upserted
  <2> QED
    BY <1>2, <2>1, <2>2, <2>3, <2>4 DEF Namespace!Request
<1>4. ASSUME NEW n \in job[u].drops, live' = Removed(n), job[u].posts = {}
      PROVE  Namespace!Request(u, wanted)
  <2>1. n \in Names /\ Namespace!At(n, wanted) = {}
    BY <1>1 DEF NamesOf, Namespace!At
  <2>2. live' = Namespace!Put(n, wanted)
    BY <1>4, <2>1 DEF Removed, Namespace!Put
  <2>3. n \in NamesOf(live) => live' # live
    BY <1>4 DEF Removed, NamesOf
  <2>4. wanted \ live = {} => wanted \subseteq live
    OBVIOUS
  <2> QED
    BY <1>2, <1>4, <2>1, <2>2, <2>3, <2>4 DEF Namespace!Request
<1> QED
  BY <1>3, <1>4 DEF wanted

\* A step that leaves the transaction of its job as it is.
LEMMA QuietTransaction ==
  ASSUME TypeOK, NEW u \in Units, NEW j, Advance(u, j), UNCHANGED <<live, cache>>,
         Transaction(j) = Transaction(job[u]),
         disturbed' \in {disturbed, disturbed \ {u}},
         HasRead(j) => disturbed' = disturbed
  PROVE  UNCHANGED Namespace!vars
<1>1. \A v \in Units : job'[v] = (IF v = u THEN j ELSE job[v])
  BY MoveFacts
<1>2. HasRead(j) <=> HasRead(job[u])
  BY TransactionFacts
<1>3. disturbed \subseteq Units /\ disturbed' \subseteq Units
  BY DEF TypeOK
<1>4. {v \in disturbed : job[v].pc \notin {"idle", "read"}}' =
        {v \in disturbed : job[v].pc \notin {"idle", "read"}}
  BY <1>1, <1>2, <1>3 DEF HasRead
<1>5. [v \in Units |-> Transaction(job[v])]' = [v \in Units |-> Transaction(job[v])]
  BY <1>1
<1>6. Merged(cache)' = Merged(cache)
  BY DEF Merged
<1> QED
  BY <1>4, <1>5, <1>6 DEF Namespace!vars

\* A transaction may be left open-ended at any point.
LEMMA Abandons ==
  ASSUME IInv, NEW u \in Units, NEW j, Advance(u, j), ~HasRead(j),
         UNCHANGED <<live, cache, disturbed>>
  PROVE  \/ UNCHANGED Namespace!vars
         \/ Namespace!Apply(u) \/ Namespace!Restore(u) \/ Namespace!Forsake(u)
<1>1. TypeOK /\ job[u] \in Job
  BY JobFacts
<1>2. Transaction(j) = Namespace!Closed
  BY TransactionFacts
<1>3. Namespace!Move(u, Namespace!Closed)
  BY <1>1, <1>2, MoveFacts
<1>4. Namespace!Marked(u)
  BY <1>1, MarkFacts
<1>5. Merged(cache)' = Merged(cache)
  BY DEF Merged
<1>6. CASE ~HasRead(job[u])
  BY <1>1, <1>2, <1>6, TransactionFacts, QuietTransaction
<1>7. CASE job[u].pc = "write"
  <2>1. Transaction(job[u]).state = "applying"
    BY <1>7, TransactionFacts
  <2> QED
    BY <1>3, <1>4, <1>5, <2>1 DEF Namespace!Apply
<1>8. CASE job[u].pc \in {"recover", "undo"}
  <2>1. Transaction(job[u]).state = "restoring"
    BY <1>8, TransactionFacts
  <2> QED
    BY <1>3, <1>4, <1>5, <2>1 DEF Namespace!Restore
<1>9. CASE job[u].pc \in {"persist", "done"}
  <2>1. Transaction(job[u]).state = "applied"
    BY <1>9, TransactionFacts
  <2> QED
    BY <1>3, <1>4, <1>5, <2>1 DEF Namespace!Forsake
<1>10. job[u].pc \in Steps
  BY <1>1 DEF Job
<1> QED
  BY <1>6, <1>7, <1>8, <1>9, <1>10 DEF Steps, HasRead

LEMMA ReadOpens ==
  ASSUME IInv, NEW u \in Units, ReadNamespace(u)
  PROVE  UNCHANGED Namespace!vars \/ Namespace!Open(u)
<1> DEFINE j == [job[u] EXCEPT !.before = live]
           k == Planned(j, "write", j.goal)
<1>1. /\ TypeOK /\ job[u] \in Job /\ live \in SUBSET Group /\ UniqueNames(live)
      /\ job[u].pc = "read" /\ Advance(u, Settled(k))
      /\ UNCHANGED <<live, cache>> /\ disturbed' = disturbed \ {u}
  BY JobFacts DEF ReadNamespace, accepted
<1>2. j \in Job /\ j.goal = job[u].goal /\ j.before = live /\ job[u].goal \in SUBSET Group
  BY <1>1 DEF Job
<1>3. k \in Job
  <2>1. NamesOf(live) \ NamesOf(j.goal) \in SUBSET Names
    BY <1>1 DEF NamesOf, Group
  <2>2. Batch \in 0 .. Batch /\ "write" \in Steps
    BY LimitsAssumption DEF Steps
  <2> QED
    BY <1>2, <2>1, <2>2 DEF Planned, Job
<1>4. /\ k.pc = "write" /\ k.before = live /\ k.goal = job[u].goal
      /\ k.posts = job[u].goal \ live
      /\ k.drops = NamesOf(live) \ NamesOf(job[u].goal)
  BY <1>2 DEF Planned, Job
<1> HIDE DEF j, k
<1>5. CASE ~HasRead(Settled(k))
  BY <1>1, <1>5, TransactionFacts, QuietTransaction DEF HasRead
<1>6. CASE HasRead(Settled(k))
  <2> DEFINE t == [state |-> "applying", from |-> live, to |-> job[u].goal]
             m == Transaction(Settled(k))
  <2>1. Transaction(k) = t
    BY <1>4 DEF Transaction
  <2>2. m = t \/ (m = [t EXCEPT !.state = "applied"] /\ job[u].goal = live)
    BY <1>1, <1>3, <1>4, <1>6, <2>1, SettledTransaction, NothingLeft
  <2>3. Namespace!Move(u, m) /\ Namespace!Marked(u)
    BY <1>1, MoveFacts, MarkFacts DEF HasRead
  <2>4. [v \in Units |-> Transaction(job[v])]'[u].to = job[u].goal
    <3>1. job'[u] = Settled(k)
      BY <1>1, MoveFacts
    <3>2. m.to = t.to
      BY <2>2
    <3> QED
      BY <3>1, <3>2
  <2>5. ~Namespace!IsOpen(u)
    BY <1>1, MoveFacts DEF HasRead
  <2>6. Merged(cache)' = Merged(cache)
    BY <1>1 DEF Merged
  <2> HIDE DEF m
  <2> QED
    BY <1>1, <1>2, <2>2, <2>3, <2>4, <2>5, <2>6 DEF Namespace!Open
<1> QED
  BY <1>5, <1>6

LEMMA RecoveryRestores ==
  ASSUME IInv, NEW u \in Units, ReadForRecovery(u)
  PROVE  UNCHANGED Namespace!vars \/ Namespace!Restore(u)
<1> DEFINE k == Planned(job[u], "undo", job[u].before)
<1>1. /\ TypeOK /\ job[u] \in Job /\ live \in SUBSET Group
      /\ job[u].pc = "recover" /\ Advance(u, Settled(k))
      /\ UNCHANGED <<live, cache, disturbed>>
  BY JobFacts DEF ReadForRecovery, accepted
<1>2. k \in Job
  <2>1. NamesOf(live) \ NamesOf(job[u].before) \in SUBSET Names
    BY <1>1 DEF NamesOf, Group
  <2>2. Batch \in 0 .. Batch /\ "undo" \in Steps /\ job[u].before \in SUBSET Group
    BY <1>1, LimitsAssumption DEF Steps, Job
  <2> QED
    BY <1>1, <2>1, <2>2 DEF Planned, Job
<1>3. k.pc = "undo" /\ k.before = job[u].before /\ k.goal = job[u].goal
  BY <1>1 DEF Planned, Job
<1> HIDE DEF k
<1>4. Transaction(k) = Transaction(job[u])
  BY <1>1, <1>3 DEF Transaction
<1>5. Settled(k) = k \/ ~HasRead(Settled(k))
  BY <1>2, <1>3, SettledTransaction
<1>6. CASE Settled(k) = k
  BY <1>1, <1>4, <1>6, QuietTransaction
<1>7. CASE ~HasRead(Settled(k))
  <2>1. Transaction(job[u]).state = "restoring"
    BY <1>1, TransactionFacts
  <2>2. Namespace!Move(u, Namespace!Closed) /\ Namespace!Marked(u)
    BY <1>1, <1>7, TransactionFacts, MoveFacts, MarkFacts
  <2>3. Merged(cache)' = Merged(cache)
    BY <1>1 DEF Merged
  <2> QED
    BY <1>1, <2>1, <2>2, <2>3 DEF Namespace!Restore
<1> QED
  BY <1>5, <1>6, <1>7

LEMMA MutationApplies ==
  ASSUME IInv, AimInv, NEW u \in Units, Post(u) \/ Delete(u)
  PROVE  Namespace!Apply(u) \/ Namespace!Restore(u)
<1> DEFINE s == Transaction(job[u])
<1>1. /\ Writing(u) /\ Disturb(u) /\ UNCHANGED cache /\ TypeOK
      /\ job[u].pc \in {"write", "undo"}
      /\ \/ \E g \in job[u].posts : live' = Upserted(g)
         \/ job[u].posts = {} /\ \E n \in job[u].drops : live' = Removed(n)
  BY JobFacts DEF Post, Delete, Writing, accepted
<1>2. PICK k \in Job :
        /\ Advance(u, Settled(k)) /\ k.pc = job[u].pc
        /\ k.before = job[u].before /\ k.goal = job[u].goal
        /\ u \notin disturbed => InStep(k, live')
  BY PostFacts, DeleteFacts
<1>3. UniqueNames(live')
  BY PostFacts, DeleteFacts
<1>4. Transaction(k) = s
  BY <1>2, SameTransaction
<1>5. Namespace!Request(u, Wanted(job[u]))
  BY <1>1, RequestFacts
<1>6. Namespace!Move(u, Transaction(Settled(k))) /\ Namespace!Marked(u)
  BY <1>1, <1>2, MoveFacts, MarkFacts DEF Disturb, HasRead
<1>7. /\ s.from = job[u].before /\ s.to = job[u].goal
      /\ job[u].pc = "write" => s.state = "applying"
      /\ job[u].pc = "undo" => s.state = "restoring"
  BY <1>1, TransactionFacts DEF HasRead
<1>8. Merged(cache)' = Merged(cache)
  BY <1>1 DEF Merged
<1>9. \/ Transaction(Settled(k)) = s
      \/ Transaction(Settled(k)) = Namespace!Closed
      \/ /\ k.pc = "write" /\ k.posts = {} /\ k.drops = {}
         /\ Transaction(Settled(k)) = [s EXCEPT !.state = "applied"]
  BY <1>1, <1>2, <1>4, SettledTransaction, TransactionFacts
<1>10. CASE job[u].pc = "write"
  <2>1. ASSUME k.posts = {}, k.drops = {}, u \notin disturbed
        PROVE  live' = job[u].goal
    BY <1>2, <1>3, <1>10, <2>1, NothingLeft DEF InStep, Wanted
  <2>2. k.posts = {} /\ k.drops = {} => Namespace!Complete(u, s)
    BY <1>7, <1>10, <2>1 DEF Namespace!Complete
  <2>3. Wanted(job[u]) = s.to
    BY <1>7, <1>10 DEF Wanted
  <2> HIDE DEF s
  <2>4. /\ s.state = "applying" /\ Namespace!Request(u, s.to)
        /\ \/ Namespace!Move(u, s)
           \/ Namespace!Complete(u, s) /\ Namespace!Move(u, [s EXCEPT !.state = "applied"])
           \/ Namespace!Move(u, Namespace!Closed)
    BY <1>5, <1>6, <1>7, <1>9, <1>10, <2>2, <2>3
  <2> QED
    BY <1>6, <1>8, <2>4 DEF Namespace!Apply, s
<1>11. CASE job[u].pc = "undo"
  <2>1. Wanted(job[u]) = s.from
    BY <1>7, <1>11 DEF Wanted
  <2> HIDE DEF s
  <2>2. /\ s.state = "restoring" /\ Namespace!Request(u, s.from)
        /\ Namespace!Move(u, s) \/ Namespace!Move(u, Namespace!Closed)
    BY <1>2, <1>5, <1>6, <1>7, <1>9, <1>11, <2>1
  <2> QED
    BY <1>6, <1>8, <2>2 DEF Namespace!Restore, s
<1> QED
  BY <1>1, <1>10, <1>11

LEMMA FailureTurnsBack ==
  ASSUME IInv, AimInv, NEW u \in Units, MutationFails(u)
  PROVE  Namespace!Apply(u) \/ Namespace!Restore(u)
<1> DEFINE c == Counted(job[u])
           r == [c EXCEPT !.pc = "recover"]
           s == Transaction(job[u])
<1>1. /\ Writing(u) /\ Disturb(u) /\ UNCHANGED cache /\ TypeOK
      /\ job[u].pc \in {"write", "undo"}
      /\ \/ live' = live
         \/ \E g \in job[u].posts : live' = Upserted(g)
         \/ job[u].posts = {} /\ \E n \in job[u].drops : live' = Removed(n)
  BY JobFacts DEF MutationFails, Writing, accepted
<1>2. c \in Job /\ c.pc = job[u].pc /\ c.goal = job[u].goal /\ c.before = job[u].before
  BY <1>1, WritingFacts, CountedFacts
<1>3. Advance(u, IF c.pc = "write" THEN r ELSE Unrestored(c))
  BY DEF MutationFails
<1>4. live' = live \/ Namespace!Request(u, Wanted(job[u]))
  BY <1>1, RequestFacts
<1>5. /\ s.from = job[u].before /\ s.to = job[u].goal
      /\ job[u].pc = "write" => s.state = "applying"
      /\ job[u].pc = "undo" => s.state = "restoring"
  BY <1>1, TransactionFacts DEF HasRead
<1>6. Merged(cache)' = Merged(cache)
  BY <1>1 DEF Merged
<1> HIDE DEF c
<1>7. CASE job[u].pc = "write"
  <2>1. r.pc = "recover" /\ r.before = job[u].before /\ r.goal = job[u].goal
    BY <1>2 DEF Job
  <2>2. Transaction(r) = [s EXCEPT !.state = "restoring"]
    BY <1>7, <2>1 DEF Transaction
  <2> HIDE DEF r
  <2>3. Namespace!Move(u, [s EXCEPT !.state = "restoring"]) /\ Namespace!Marked(u)
    <3>1. Advance(u, r) /\ HasRead(r) /\ HasRead(job[u])
      BY <1>2, <1>3, <1>7, <2>1 DEF HasRead
    <3>2. Namespace!Move(u, Transaction(r)) /\ Namespace!Marked(u)
      BY <1>1, <3>1, MoveFacts, MarkFacts DEF Disturb
    <3> QED
      BY <2>2, <3>2
  <2>4. Wanted(job[u]) = s.to
    BY <1>5, <1>7 DEF Wanted
  <2> HIDE DEF s
  <2>5. s.state = "applying" /\ (live' = live \/ Namespace!Request(u, s.to))
    BY <1>4, <1>5, <1>7, <2>4
  <2> QED
    BY <1>6, <2>3, <2>5 DEF Namespace!Apply, s
<1>8. CASE job[u].pc = "undo"
  <2>1. ~HasRead(Unrestored(c)) /\ Advance(u, Unrestored(c))
    BY <1>2, <1>3, <1>8, ElsewhereClosed
  <2>2. Namespace!Move(u, Namespace!Closed) /\ Namespace!Marked(u)
    BY <1>1, <2>1, TransactionFacts, MoveFacts, MarkFacts
  <2>3. Wanted(job[u]) = s.from
    BY <1>5, <1>8 DEF Wanted
  <2> HIDE DEF s
  <2>4. s.state = "restoring" /\ (live' = live \/ Namespace!Request(u, s.from))
    BY <1>4, <1>5, <1>8, <2>3
  <2> QED
    BY <1>6, <2>2, <2>4 DEF Namespace!Restore, s
<1> QED
  BY <1>1, <1>7, <1>8

LEMMA FlushCommits ==
  ASSUME IInv, NEW u \in Units, Flush(u)
  PROVE  Namespace!Commit(u)
<1>1. /\ job[u].pc = "done" /\ cache' = job[u].snap /\ Advance(u, NoJob)
      /\ UNCHANGED <<live, disturbed>> /\ TypeOK
  BY JobFacts DEF Flush
<1>2. /\ Coherent(job[u])
      /\ u \notin disturbed => InStep(job[u], live)
  BY JobFacts
<1>3. job[u].goal = Merged(job[u].snap)
  BY <1>1, <1>2 DEF Coherent, Knows
<1>4. u \notin disturbed => live = job[u].goal
  BY <1>1, <1>2, <1>3 DEF InStep
<1>5. Merged(cache)' = job[u].goal
  BY <1>1, <1>3 DEF Merged
<1>6. Transaction(job[u]).state = "applied" /\ Transaction(job[u]).to = job[u].goal
  BY <1>1, TransactionFacts DEF HasRead
<1>7. ~HasRead(NoJob)
  BY NoJobFacts, ElsewhereClosed
<1>8. Namespace!Move(u, Namespace!Closed) /\ Namespace!Marked(u)
  BY <1>1, <1>7, TransactionFacts, MoveFacts, MarkFacts
<1> QED
  BY <1>1, <1>4, <1>5, <1>6, <1>8 DEF Namespace!Commit

LEMMA TamperInterferes ==
  ASSUME IInv, Tamper
  PROVE  Namespace!Interfere
<1>1. TypeOK /\ UNCHANGED <<cache, job>> /\ live' \in SUBSET Group
  BY ForeignAssumption DEF IInv, Tamper, accepted
<1>2. disturbed \subseteq Units /\ disturbed' = {u \in Units : job[u].pc # "idle"} \cup disturbed
  BY DEF Tamper, IInv, TypeOK
<1>3. \A u \in Units : Namespace!IsOpen(u) <=> HasRead(job[u])
  BY TransactionFacts DEF Namespace!IsOpen
<1>4. {u \in disturbed : job[u].pc \notin {"idle", "read"}}' =
        {u \in Units : Namespace!IsOpen(u)}
  BY <1>1, <1>2, <1>3 DEF HasRead
<1>5. Merged(cache)' = Merged(cache)
  BY <1>1 DEF Merged
<1>6. [u \in Units |-> Transaction(job[u])]' = [u \in Units |-> Transaction(job[u])]
  BY <1>1
<1> QED
  BY <1>1, <1>4, <1>5, <1>6 DEF Namespace!Interfere

LEMMA CorruptionForgets ==
  ASSUME CorruptCache
  PROVE  Namespace!Forget
<1>1. Merged(cache)' = {}
  BY DEF CorruptCache, Merged, NoSnapshots
<1>2. UNCHANGED <<live, job, disturbed>>
  BY DEF CorruptCache
<1> QED
  BY <1>1, <1>2 DEF Namespace!Forget

LEMMA NamespaceInit == Init => Namespace!Init
<1> SUFFICES ASSUME Init PROVE Namespace!Init
  OBVIOUS
<1>1. live \in SUBSET Group /\ Merged(cache) = live
  BY IInvInit DEF IInv, TypeOK, Init
<1>2. Transaction(NoJob) = Namespace!Closed
  BY NoJobFacts, ElsewhereClosed, TransactionFacts
<1>3. [u \in Units |-> Transaction(job[u])] = [u \in Units |-> Namespace!Closed]
  BY <1>2 DEF Init
<1>4. {u \in disturbed : job[u].pc \notin {"idle", "read"}} = {}
  BY DEF Init
<1> QED
  BY <1>1, <1>3, <1>4 DEF Namespace!Init

LEMMA NamespaceStep ==
  ASSUME IInv, AimInv, [Next]_vars
  PROVE  [Namespace!Next]_(Namespace!vars)
<1>1. TypeOK /\ job \in [Units -> Job]
  BY DEF IInv, TypeOK
<1>2. ASSUME NEW u \in Units, Reconcile(u) PROVE UNCHANGED Namespace!vars
  <2> DEFINE snap == Candidate(Retained(cache, Found), Found)
             j == [NoJob EXCEPT !.pc = "read", !.seen = Found, !.owned = cache,
                                !.valid = cacheValid, !.snap = snap, !.goal = Merged(snap)]
             k == IF Mergeable(snap) THEN j ELSE Replay(j, Merged(cache))
  <2>1. j.pc = "read" /\ NoJob.pc = "idle"
    BY DEF NoJob
  <2>2. \A groups : Replay(j, groups).pc \in {"idle", "read"}
    BY <2>1 DEF Replay, NoJob
  <2>3. ~HasRead(k) /\ ~HasRead(job[u])
    BY <1>2, <2>1, <2>2 DEF HasRead, Reconcile
  <2>4. Advance(u, k) /\ UNCHANGED <<live, cache>> /\ disturbed' = disturbed \ {u}
    BY <1>2 DEF Reconcile, accepted
  <2> HIDE DEF k
  <2>5. Transaction(k) = Transaction(job[u])
    BY <2>3, TransactionFacts
  <2> QED
    BY <1>1, <2>3, <2>4, <2>5, QuietTransaction
<1>3. ASSUME NEW u \in Units, NEW j, Advance(u, j), ~HasRead(j),
             UNCHANGED <<live, cache, disturbed>>
      PROVE  [Namespace!Next]_(Namespace!vars)
  BY <1>3, Abandons DEF Namespace!Next
<1>4. ASSUME NEW u \in Units, Progress(u) PROVE [Namespace!Next]_(Namespace!vars)
  <2>1. CASE ReadNamespace(u) \/ ReadForRecovery(u)
    BY <2>1, ReadOpens, RecoveryRestores DEF Namespace!Next
  <2>2. CASE ReadRefused(u)
    <3>1. ~HasRead(IF job[u].pc = "recover" THEN Unrestored(job[u]) ELSE NoJob)
      BY <1>1, ElsewhereClosed
    <3> QED
      BY <1>3, <2>2, <3>1 DEF ReadRefused, accepted
  <2>3. CASE Post(u) \/ Delete(u)
    BY <2>3, MutationApplies DEF Namespace!Next
  <2>4. CASE Persist(u)
    <3> DEFINE k == [job[u] EXCEPT !.pc = "done"]
    <3>1. job[u].pc = "persist" /\ k.pc = "done" /\ k.before = job[u].before /\ k.goal = job[u].goal
      BY <1>1, <2>4 DEF Persist, Job
    <3> HIDE DEF k
    <3>2. Transaction(k) = Transaction(job[u])
      BY <3>1 DEF Transaction
    <3> QED
      BY <1>1, <2>4, <3>2, QuietTransaction DEF Persist, accepted, k
  <2>5. CASE PersistFails(u)
    BY <1>1, <1>3, <2>5, ElsewhereClosed DEF PersistFails, accepted
  <2>6. CASE Flush(u)
    BY <2>6, FlushCommits DEF Namespace!Next
  <2>7. CASE FlushRefused(u)
    BY <1>3, <2>7, NoJobFacts, ElsewhereClosed DEF FlushRefused, accepted
  <2> QED
    BY <1>4, <2>1, <2>2, <2>3, <2>4, <2>5, <2>6, <2>7 DEF Progress
<1>5. ASSUME NEW u \in Units, Failure(u) PROVE [Namespace!Next]_(Namespace!vars)
  <2>1. CASE MutationFails(u)
    BY <2>1, FailureTurnsBack DEF Namespace!Next
  <2>2. CASE ReadFails(u) \/ SliceExhausted(u) \/ HookLost(u)
    <3>1. ~HasRead(NoJob) /\ ~HasRead(Unrestored(job[u]))
      BY <1>1, ElsewhereClosed
    <3>2. \E j \in {NoJob, Unrestored(job[u])} : Advance(u, j)
      BY <2>2 DEF ReadFails, SliceExhausted, HookLost
    <3>3. UNCHANGED <<live, cache, disturbed>>
      BY <2>2 DEF ReadFails, SliceExhausted, HookLost, accepted
    <3> QED
      BY <1>3, <3>1, <3>2, <3>3
  <2> QED
    BY <1>5, <2>1, <2>2 DEF Failure
<1>6. CASE CorruptCache \/ Tamper
  BY <1>6, CorruptionForgets, TamperInterferes DEF Namespace!Next
<1>7. CASE UNCHANGED <<live, cache, job, disturbed>>
  BY <1>7 DEF Namespace!vars, Merged
<1>8. ASSUME NEW r \in Sources, Publish(r) \/ Relate(r) \/ Break(r)
      PROVE  UNCHANGED <<live, cache, job, disturbed>>
  BY <1>8 DEF Publish, Relate, Break, accepted
<1>9. ASSUME NEW u \in Units, Elect(u) \/ Decline(u)
      PROVE  UNCHANGED <<live, cache, job, disturbed>>
  BY <1>9 DEF Elect, Decline, vars, accepted
<1>10. UNCHANGED vars => UNCHANGED <<live, cache, job, disturbed>>
  BY DEF vars, accepted
<1> QED
  BY <1>2, <1>4, <1>5, <1>6, <1>7, <1>8, <1>9, <1>10 DEF Next, Environment

(* Whatever fails, replays, is elected or written by others, a job is a     *)
(* transaction on the namespace: it goes name by name from what it read to  *)
(* what it wants or back, asks for nothing that is there, deletes only when *)
(* all else is there, and what it caches is complete                        *)
(* (RulerClient.replace_namespace and its callers).                         *)
THEOREM NamespaceIsImplemented == Spec => ImplementsNamespace
<1>1. Init => IInv /\ AimInv
  BY IInvInit, AimInit
<1>2. (IInv /\ AimInv) /\ [Next]_vars => (IInv /\ AimInv)'
  BY IInvStep, AimStep
<1>3. (IInv /\ AimInv) /\ [Next]_vars => [Namespace!Next]_(Namespace!vars)
  BY NamespaceStep
<1> QED
  BY <1>1, <1>2, <1>3, NamespaceInit, PTL DEF Spec, ImplementsNamespace, Namespace!Spec

\* One name changed in the direction of groups.
LEMMA PutFacts ==
  ASSUME NEW n \in Names, NEW groups, live' = Namespace!Put(n, groups)
  PROVE  \A m \in Names :
           Namespace!At(m, live') = Namespace!At(m, IF m = n THEN groups ELSE live)
BY DEF Namespace!Put, Namespace!At

LEMMA OldOrNewStep ==
  ASSUME OldOrNew, [Namespace!Next]_(Namespace!vars)
  PROVE  OldOrNew'
<1> DEFINE txn == [u \in Units |-> Transaction(job[u])]
           stale == {u \in disturbed : job[u].pc \notin {"idle", "read"}}
           Between(u, ruler, t) ==
             \A n \in Names :
               Namespace!At(n, ruler) \in {Namespace!At(n, t.from), Namespace!At(n, t.to)}
<1>1. /\ \A u \in Units : txn[u].state # "closed" /\ u \notin stale => Between(u, live, txn[u])
      /\ OldOrNew' <=>
           \A u \in Units :
             txn'[u].state # "closed" /\ u \notin stale' => Between(u, live', txn'[u])
      /\ \A u \in Units : Namespace!IsOpen(u) <=> txn[u].state # "closed"
      /\ \A u \in Units : Namespace!IsOpen(u)' <=> txn'[u].state # "closed"
  BY DEF OldOrNew, Namespace!OldOrNew, Namespace!IsOpen
<1>2. ASSUME NEW u \in Units, NEW t, Namespace!Move(u, t), Namespace!Marked(u),
             t.state = "closed" \/ u \in stale \/ Between(u, live', t)
      PROVE  OldOrNew'
  <2>1. \A v \in Units : txn'[v] = IF v = u THEN t ELSE txn[v]
    BY <1>2 DEF Namespace!Move
  <2>2. stale' = {v \in Units : txn'[v].state # "closed" /\ (v \in stale \/ (live' # live /\ v # u))}
    BY <1>1, <1>2 DEF Namespace!Marked
  <2> HIDE DEF txn, stale, Between
  <2> QED
    BY <1>1, <1>2, <2>1, <2>2
<1>3. ASSUME NEW u \in Units, Namespace!Open(u) PROVE OldOrNew'
  <2>1. PICK t : /\ Namespace!Move(u, t) /\ Namespace!Marked(u)
                 /\ t.from = live /\ live' = live
    BY <1>3 DEF Namespace!Open
  <2> QED
    BY <1>2, <2>1
<1>4. ASSUME NEW u \in Units, NEW groups \in {txn[u].from, txn[u].to},
             txn[u].state # "closed",
             live' = live \/ Namespace!Request(u, groups)
      PROVE  u \in stale \/ Between(u, live', txn[u])
  <2>1. CASE live' = live
    BY <1>1, <1>4, <2>1
  <2>2. CASE Namespace!Request(u, groups)
    <3>1. PICK n \in Names : live' = Namespace!Put(n, groups)
      BY <2>2 DEF Namespace!Request
    <3> QED
      BY <1>1, <1>4, <3>1, PutFacts
  <2> QED
    BY <1>4, <2>1, <2>2
<1>5. ASSUME NEW u \in Units, Namespace!Apply(u) \/ Namespace!Restore(u) PROVE OldOrNew'
  <2>1. PICK t : /\ Namespace!Move(u, t) /\ Namespace!Marked(u)
                 /\ t.state = "closed" \/ (t.from = txn[u].from /\ t.to = txn[u].to)
    <3>1. \A state : LET t == [txn[u] EXCEPT !.state = state]
                     IN  t.from = txn[u].from /\ t.to = txn[u].to
      BY DEF Transaction
    <3>2. /\ \/ Namespace!Move(u, txn[u])
             \/ \E state : Namespace!Move(u, [txn[u] EXCEPT !.state = state])
             \/ Namespace!Move(u, Namespace!Closed)
          /\ Namespace!Marked(u)
      BY <1>5 DEF Namespace!Apply, Namespace!Restore
    <3> HIDE DEF txn
    <3> QED
      BY <3>1, <3>2 DEF Namespace!Closed
  <2>2. /\ txn[u].state # "closed"
        /\ \E groups \in {txn[u].from, txn[u].to} : live' = live \/ Namespace!Request(u, groups)
    BY <1>5 DEF Namespace!Apply, Namespace!Restore
  <2> HIDE DEF txn, stale
  <2> QED
    BY <1>2, <1>4, <2>1, <2>2
<1>6. ASSUME NEW u \in Units, Namespace!Commit(u) \/ Namespace!Forsake(u) PROVE OldOrNew'
  <2>1. Namespace!Move(u, Namespace!Closed) /\ Namespace!Marked(u)
    BY <1>6 DEF Namespace!Commit, Namespace!Forsake
  <2> QED
    BY <1>2, <2>1 DEF Namespace!Closed
<1>7. CASE Namespace!Interfere
  BY <1>1, <1>7 DEF Namespace!Interfere
<1>8. CASE UNCHANGED <<live, txn, stale>>
  BY <1>1, <1>8
<1> QED
  BY <1>3, <1>5, <1>6, <1>7, <1>8 DEF Namespace!Next, Namespace!Forget, Namespace!vars

(* As long as nobody else writes to the namespace, a job leaves there,      *)
(* under each name and at each of its requests, what it found or what it    *)
(* was asked for: nothing is lost or made up on the way                     *)
(* (RulerClient._write_namespace).                                          *)
THEOREM NamesAreOldOrNew == Spec => []OldOrNew
<1>1. Init => (IInv /\ AimInv) /\ OldOrNew
  BY IInvInit, AimInit, TransactionFacts, NoJobFacts, ElsewhereClosed
  DEF Init, OldOrNew, Namespace!OldOrNew, Namespace!IsOpen
<1>2. (IInv /\ AimInv) /\ [Next]_vars => (IInv /\ AimInv)'
  BY IInvStep, AimStep
<1>3. (IInv /\ AimInv) /\ OldOrNew /\ [Next]_vars => OldOrNew'
  BY NamespaceStep, OldOrNewStep
<1> QED
  BY <1>1, <1>2, <1>3, PTL DEF Spec

-----------------------------------------------------------------------------
(***************************************************************************)
(* The requests that a job may still send, at most.  A replay reads and    *)
(* writes once more, and recovers once more.                               *)
(***************************************************************************)
OnReplay(j) == IF j.phase = "apply" THEN 2 * (1 + Batch) ELSE 0

RequestsLeft(j) ==
  CASE j.pc = "read" -> 2 * (1 + Batch) + OnReplay(j)
    [] j.pc = "write" -> j.room + 1 + Batch + OnReplay(j)
    [] j.pc = "recover" -> 1 + Batch + OnReplay(j)
    [] j.pc = "undo" -> j.room + OnReplay(j)
    [] j.pc = "persist" -> OnReplay(j)
    [] OTHER -> 0

Requests(u) ==
  \/ ReadNamespace(u) \/ ReadForRecovery(u) \/ ReadRefused(u) \/ ReadFails(u)
  \/ Post(u) \/ Delete(u) \/ MutationFails(u)

\* A reconciliation has MAX_RECONCILE_API_OPERATIONS requests to send, and no
\* failure gives it more.
BudgetSuffices ==
  [][\A u \in Units :
       /\ RequestsLeft(job[u]) \in Nat
       /\ job[u].pc = "idle" => RequestsLeft(job'[u]) <= 2 * (2 + 2 * Batch)
       /\ job[u].pc # "idle" => RequestsLeft(job'[u]) <= RequestsLeft(job[u])
       /\ Requests(u) => RequestsLeft(job'[u]) < RequestsLeft(job[u])]_vars

LEMMA LeftByStep ==
  ASSUME NEW j \in Job
  PROVE  /\ OnReplay(j) \in Nat /\ j.room \in Nat /\ j.room <= Batch /\ Batch \in Nat
         /\ RequestsLeft(j) \in Nat
         /\ RequestsLeft(j) <= 2 * (2 + 2 * Batch)
         /\ j.pc = "idle" => RequestsLeft(j) = 0
         /\ j.pc = "read" => RequestsLeft(j) = 2 * (1 + Batch) + OnReplay(j)
         /\ j.pc = "write" => RequestsLeft(j) = j.room + 1 + Batch + OnReplay(j)
         /\ j.pc = "recover" => RequestsLeft(j) = 1 + Batch + OnReplay(j)
         /\ j.pc = "undo" => RequestsLeft(j) = j.room + OnReplay(j)
         /\ j.pc = "persist" => RequestsLeft(j) = OnReplay(j)
         /\ j.pc = "done" => RequestsLeft(j) = 0
<1>1. /\ Batch \in Nat /\ j.room \in Nat /\ j.room <= Batch
      /\ OnReplay(j) \in Nat /\ OnReplay(j) <= 2 * (1 + Batch) /\ j.pc \in Steps
  BY LimitsAssumption DEF Job, OnReplay
<1> QED
  BY <1>1 DEF RequestsLeft, Steps

LEMMA LeftElsewhere ==
  ASSUME NEW j \in Job, NEW groups
  PROVE  /\ RequestsLeft(NoJob) = 0
         /\ RequestsLeft(Replay(j, groups)) \in 0 .. 2 * (1 + Batch)
         /\ RequestsLeft(Unrestored(j)) \in 0 .. OnReplay(j)
<1>1. RequestsLeft(NoJob) = 0
  BY DEF NoJob, RequestsLeft
<1>2. ASSUME NEW gs PROVE RequestsLeft(Replay(j, gs)) \in 0 .. 2 * (1 + Batch)
  <2> DEFINE k == [j EXCEPT !.phase = "replay", !.pc = "read", !.goal = gs,
                            !.before = {}, !.posts = {}, !.drops = {}]
  <2>1. k.phase = "replay" /\ k.pc = "read"
    BY DEF Job
  <2>2. Replay(j, gs) \in {NoJob, k}
    BY DEF Replay
  <2> HIDE DEF k
  <2>3. RequestsLeft(k) = 2 * (1 + Batch)
    BY <2>1, LimitsAssumption DEF RequestsLeft, OnReplay
  <2> QED
    BY <1>1, <2>2, <2>3, LimitsAssumption
<1> QED
  BY <1>1, <1>2, LimitsAssumption DEF Unrestored, OnReplay

LEMMA LeftSettled ==
  ASSUME NEW j \in Job, j.pc \in {"write", "undo"}
  PROVE  RequestsLeft(Settled(j)) \in 0 .. RequestsLeft(j)
<1> DEFINE k == [j EXCEPT !.pc = "persist"]
<1>1. k \in Job /\ k.pc = "persist" /\ k.phase = j.phase
  BY DEF Job, Steps
<1>2. OnReplay(k) = OnReplay(j)
  BY <1>1 DEF OnReplay
<1>3. RequestsLeft(k) = OnReplay(j)
  BY <1>1, <1>2, LeftByStep
<1> HIDE DEF k
<1>4. Settled(j) \in {j, k, NoJob, Unrestored(j)}
  BY DEF Settled, k
<1>5. /\ OnReplay(j) \in Nat /\ j.room \in Nat /\ Batch \in Nat
      /\ j.pc = "write" => RequestsLeft(j) = j.room + 1 + Batch + OnReplay(j)
      /\ j.pc = "undo" => RequestsLeft(j) = j.room + OnReplay(j)
  BY LeftByStep
<1>6. RequestsLeft(j) \in Nat /\ OnReplay(j) <= RequestsLeft(j)
  BY <1>5
<1>7. /\ RequestsLeft(NoJob) = 0
      /\ RequestsLeft(Unrestored(j)) \in 0 .. OnReplay(j)
  BY LeftElsewhere
<1> QED
  BY <1>3, <1>4, <1>5, <1>6, <1>7

\* A read that plans a batch leaves the batch, one recovery and one replay.
LEMMA LeftPlanned ==
  ASSUME NEW j \in Job, NEW pc \in {"write", "undo"}, live \in SUBSET Group,
         NEW groups \in SUBSET Group
  PROVE  RequestsLeft(Settled(Planned(j, pc, groups)))
           \in 0 .. OnReplay(j) + (IF pc = "write" THEN 1 + 2 * Batch ELSE Batch)
<1> DEFINE k == Planned(j, pc, groups)
<1>1. /\ groups \ live \in SUBSET Group
      /\ NamesOf(live) \ NamesOf(groups) \in SUBSET Names
  BY DEF NamesOf, Group
<1>2. Batch \in 0 .. Batch
  BY LimitsAssumption
<1>3. k \in Job /\ k.pc = pc /\ k.room = Batch /\ k.phase = j.phase
  BY <1>1, <1>2 DEF Planned, Job, Steps
<1>4. OnReplay(k) = OnReplay(j)
  BY <1>3 DEF OnReplay
<1> HIDE DEF k
<1>5. /\ RequestsLeft(Settled(k)) \in 0 .. RequestsLeft(k)
      /\ pc = "write" => RequestsLeft(k) = Batch + 1 + Batch + OnReplay(j)
      /\ pc = "undo" => RequestsLeft(k) = Batch + OnReplay(j)
      /\ OnReplay(j) \in Nat /\ Batch \in Nat
  BY <1>3, <1>4, LeftSettled, LeftByStep
<1>6. OnReplay(j) + (IF pc = "write" THEN 1 + 2 * Batch ELSE Batch) = RequestsLeft(k)
  BY <1>5
<1> QED
  BY <1>5, <1>6 DEF k

\* Each request leaves fewer.
LEMMA RequestsCount ==
  ASSUME IInv, NEW u \in Units, Requests(u)
  PROVE  \E j : Advance(u, j) /\ RequestsLeft(j) < RequestsLeft(job[u])
<1>1. /\ job[u] \in Job /\ Coherent(job[u]) /\ live \in SUBSET Group
      /\ job[u].before \in SUBSET Group /\ job[u].goal \in SUBSET Group
  BY JobFacts DEF Job
<1>2. /\ Batch \in Nat /\ OnReplay(job[u]) \in Nat /\ job[u].room \in Nat
      /\ job[u].pc = "read" => RequestsLeft(job[u]) = 2 * (1 + Batch) + OnReplay(job[u])
      /\ job[u].pc = "write" =>
           RequestsLeft(job[u]) = job[u].room + 1 + Batch + OnReplay(job[u])
      /\ job[u].pc = "recover" => RequestsLeft(job[u]) = 1 + Batch + OnReplay(job[u])
      /\ job[u].pc = "undo" => RequestsLeft(job[u]) = job[u].room + OnReplay(job[u])
  BY <1>1, LeftByStep
<1>3. /\ RequestsLeft(Unrestored(job[u])) \in 0 .. OnReplay(job[u])
      /\ RequestsLeft(NoJob) = 0
  BY <1>1, LeftElsewhere
<1>4. CASE ReadNamespace(u)
  <2> DEFINE j == [job[u] EXCEPT !.before = live]
  <2>1. j \in Job /\ j.goal \in SUBSET Group /\ j.phase = job[u].phase
    BY <1>1 DEF Job
  <2>2. job[u].pc = "read" /\ Advance(u, Settled(Planned(j, "write", j.goal)))
    BY <1>4 DEF ReadNamespace
  <2>3. OnReplay(j) = OnReplay(job[u])
    BY <2>1 DEF OnReplay
  <2> HIDE DEF j
  <2>4. RequestsLeft(Settled(Planned(j, "write", j.goal)))
          \in 0 .. OnReplay(j) + (1 + 2 * Batch)
    BY <1>1, <2>1, LeftPlanned
  <2> QED
    BY <1>2, <2>2, <2>3, <2>4
<1>5. CASE ReadForRecovery(u)
  <2>1. /\ job[u].pc = "recover"
        /\ Advance(u, Settled(Planned(job[u], "undo", job[u].before)))
    BY <1>5 DEF ReadForRecovery
  <2>2. RequestsLeft(Settled(Planned(job[u], "undo", job[u].before)))
          \in 0 .. OnReplay(job[u]) + Batch
    BY <1>1, LeftPlanned
  <2> QED
    BY <1>2, <2>1, <2>2
<1>6. CASE ReadRefused(u) \/ ReadFails(u)
  <2>1. /\ job[u].pc \in {"read", "recover"}
        /\ Advance(u, Unrestored(job[u])) \/ Advance(u, NoJob)
    BY <1>6 DEF ReadRefused, ReadFails
  <2>2. OnReplay(job[u]) < RequestsLeft(job[u])
    BY <1>2, <2>1
  <2> QED
    BY <1>2, <1>3, <2>1, <2>2
<1>7. ASSUME NEW k \in Job, k.pc = job[u].pc, k.pc \in {"write", "undo"},
             k.phase = job[u].phase, k.room = job[u].room - 1
      PROVE  RequestsLeft(k) = RequestsLeft(job[u]) - 1
  <2>1. OnReplay(k) = OnReplay(job[u])
    BY <1>7 DEF OnReplay
  <2> QED
    BY <1>2, <1>7, <2>1, LeftByStep
<1>8. CASE Post(u) \/ Delete(u)
  <2>1. PICK k \in Job :
          /\ Advance(u, Settled(k))
          /\ k.pc = job[u].pc /\ k.phase = job[u].phase /\ k.room = job[u].room - 1
    BY <1>8, PostFacts, DeleteFacts
  <2>2. k.pc \in {"write", "undo"}
    BY <1>8, <2>1 DEF Post, Delete, Writing
  <2>3. RequestsLeft(Settled(k)) \in 0 .. RequestsLeft(k)
    BY <2>2, LeftSettled
  <2>4. RequestsLeft(job[u]) \in Int /\ RequestsLeft(k) = RequestsLeft(job[u]) - 1
    BY <1>1, <1>7, <2>1, <2>2, LeftByStep
  <2> QED
    BY <2>1, <2>3, <2>4
<1>9. CASE MutationFails(u)
  <2> DEFINE k == Counted(job[u])
  <2>1. job[u].pc \in {"write", "undo"}
    BY <1>9 DEF MutationFails, Writing
  <2>2. k \in Job /\ k.pc = job[u].pc /\ k.phase = job[u].phase /\ k.room = job[u].room - 1
    BY <1>1, <2>1, CountedFacts
  <2>3. Advance(u, IF k.pc = "write" THEN [k EXCEPT !.pc = "recover"] ELSE Unrestored(k))
    BY <1>9 DEF MutationFails
  <2> HIDE DEF k
  <2>4. OnReplay(k) = OnReplay(job[u])
    BY <2>2 DEF OnReplay
  <2>5. job[u].room > 0
    BY <1>1, <2>1, <2>2, LeftByStep
  <2>6. CASE k.pc = "write"
    <3> DEFINE l == [k EXCEPT !.pc = "recover"]
    <3>1. l \in Job /\ l.pc = "recover" /\ l.phase = k.phase
      BY <2>2 DEF Job, Steps
    <3>2. OnReplay(l) = OnReplay(k)
      BY <3>1 DEF OnReplay
    <3>3. Advance(u, l)
      BY <2>3, <2>6
    <3> HIDE DEF l
    <3>4. RequestsLeft(l) = 1 + Batch + OnReplay(job[u])
      BY <2>4, <3>1, <3>2, LeftByStep
    <3> QED
      BY <1>2, <2>2, <2>5, <2>6, <3>3, <3>4
  <2>7. CASE k.pc # "write"
    <3>1. RequestsLeft(Unrestored(k)) \in 0 .. OnReplay(job[u])
      BY <2>2, <2>4, LeftElsewhere
    <3>2. RequestsLeft(job[u]) = job[u].room + OnReplay(job[u])
      BY <1>2, <2>1, <2>2, <2>7
    <3> QED
      BY <1>2, <2>3, <2>5, <2>7, <3>1, <3>2
  <2> QED
    BY <2>6, <2>7
<1> QED
  BY <1>4, <1>5, <1>6, <1>8, <1>9 DEF Requests

\* Between requests, nothing brings any back.
LEMMA RequestsKept ==
  ASSUME IInv, NEW u \in Units,
         \/ SliceExhausted(u) \/ Persist(u) \/ PersistFails(u)
         \/ Flush(u) \/ FlushRefused(u) \/ HookLost(u)
  PROVE  \E j : Advance(u, j) /\ RequestsLeft(j) <= RequestsLeft(job[u])
<1>1. job[u] \in Job
  BY JobFacts
<1>2. /\ RequestsLeft(job[u]) \in Nat /\ OnReplay(job[u]) \in Nat /\ job[u].room \in Nat
      /\ job[u].pc = "undo" => RequestsLeft(job[u]) = job[u].room + OnReplay(job[u])
      /\ job[u].pc = "persist" => RequestsLeft(job[u]) = OnReplay(job[u])
  BY <1>1, LeftByStep
<1>3. /\ RequestsLeft(Unrestored(job[u])) \in 0 .. OnReplay(job[u])
      /\ RequestsLeft(NoJob) = 0
  BY <1>1, LeftElsewhere
<1>4. CASE Advance(u, NoJob)
  BY <1>2, <1>3, <1>4
<1>5. CASE SliceExhausted(u)
  <2>1. \/ Advance(u, NoJob)
        \/ job[u].pc = "undo" /\ Advance(u, Unrestored(job[u]))
    BY <1>5 DEF SliceExhausted, Writing
  <2> QED
    BY <1>2, <1>3, <1>4, <2>1
<1>6. CASE Persist(u)
  <2> DEFINE k == [job[u] EXCEPT !.pc = "done"]
  <2>1. k \in Job /\ k.pc = "done" /\ Advance(u, k)
    BY <1>1, <1>6 DEF Persist, Job, Steps
  <2> HIDE DEF k
  <2>2. RequestsLeft(k) = 0
    BY <2>1, LeftByStep
  <2> QED
    BY <1>2, <2>1, <2>2
<1>7. CASE PersistFails(u)
  <2> DEFINE groups == IF job[u].valid THEN Merged(job[u].owned) ELSE job[u].before
  <2>1. job[u].pc = "persist" /\ Advance(u, Replay(job[u], groups))
    BY <1>7 DEF PersistFails
  <2> HIDE DEF groups
  <2>2. RequestsLeft(Replay(job[u], groups)) \in 0 .. 2 * (1 + Batch)
    BY <1>1, LeftElsewhere
  <2>3. job[u].phase = "apply"
    BY <2>1, JobFacts DEF Knows
  <2>4. OnReplay(job[u]) = 2 * (1 + Batch)
    BY <2>3 DEF OnReplay
  <2> QED
    BY <1>2, <2>1, <2>2, <2>4
<1> QED
  BY <1>4, <1>5, <1>6, <1>7 DEF Flush, FlushRefused, HookLost

LEMMA RequestsStep ==
  ASSUME IInv, IInv', Next, NEW v \in Units
  PROVE  /\ RequestsLeft(job[v]) \in Nat
         /\ job[v].pc = "idle" => RequestsLeft(job'[v]) <= 2 * (2 + 2 * Batch)
         /\ job[v].pc # "idle" => RequestsLeft(job'[v]) <= RequestsLeft(job[v])
         /\ Requests(v) => RequestsLeft(job'[v]) < RequestsLeft(job[v])
<1>1. /\ job \in [Units -> Job] /\ job[v] \in Job /\ job'[v] \in Job
  BY DEF IInv, TypeOK
<1>2. /\ RequestsLeft(job[v]) \in Nat /\ RequestsLeft(job'[v]) \in Nat
      /\ RequestsLeft(job'[v]) <= 2 * (2 + 2 * Batch)
  BY <1>1, LeftByStep
<1>3. ASSUME NEW u \in Units, NEW j, Advance(u, j)
      PROVE  job'[u] = j /\ (v # u => job'[v] = job[v])
  BY <1>1, <1>3 DEF Advance
<1>4. ASSUME Requests(v)
      PROVE  RequestsLeft(job'[v]) < RequestsLeft(job[v])
  BY <1>3, <1>4, RequestsCount
<1>5. ASSUME job[v].pc # "idle"
      PROVE  RequestsLeft(job'[v]) <= RequestsLeft(job[v])
  <2>1. CASE job' = job
    BY <1>2, <2>1
  <2>2. ASSUME NEW u \in Units, Reconcile(u)
        PROVE  job'[v] = job[v]
    <3>1. job[u].pc = "idle" /\ \E j : Advance(u, j)
      BY <2>2 DEF Reconcile
    <3> QED
      BY <1>3, <1>5, <3>1
  <2>3. ASSUME NEW u \in Units, Requests(u)
        PROVE  RequestsLeft(job'[v]) <= RequestsLeft(job[v])
    <3>1. PICK j : Advance(u, j) /\ RequestsLeft(j) < RequestsLeft(job[u])
      BY <2>3, RequestsCount
    <3>2. CASE u = v
      BY <1>2, <1>3, <3>1, <3>2
    <3>3. CASE u # v
      BY <1>2, <1>3, <3>1, <3>3
    <3> QED
      BY <3>2, <3>3
  <2>4. ASSUME NEW u \in Units,
               \/ SliceExhausted(u) \/ Persist(u) \/ PersistFails(u)
               \/ Flush(u) \/ FlushRefused(u) \/ HookLost(u)
        PROVE  RequestsLeft(job'[v]) <= RequestsLeft(job[v])
    <3>1. PICK j : Advance(u, j) /\ RequestsLeft(j) <= RequestsLeft(job[u])
      BY <2>4, RequestsKept
    <3>2. CASE u = v
      BY <1>3, <3>1, <3>2
    <3>3. CASE u # v
      BY <1>2, <1>3, <3>1, <3>3
    <3> QED
      BY <3>2, <3>3
  <2>5. ASSUME NEW u \in Units, Decline(u)
        PROVE  job' = job
    BY <2>5 DEF Decline, vars
  <2>6. ASSUME Environment
        PROVE  job' = job
    BY <2>6 DEF Environment, Publish, Relate, Break, Elect, CorruptCache, Tamper
  <2> QED
    BY <1>2, <2>1, <2>2, <2>3, <2>4, <2>5, <2>6 DEF Next, Progress, Failure, Requests
<1> QED
  BY <1>2, <1>4, <1>5

\* MAX_RECONCILE_API_OPERATIONS (rule_reconciler.py:79-82), which the code only
\* states (its budgets count each attempt by itself), is enough: whatever fails,
\* and in whichever order, a reconciliation starts with that many requests at
\* most, each request leaves fewer, and no failure, recovery or replay brings
\* any back.
THEOREM RequestsRunOut == Spec => BudgetSuffices
<1>1. IInv /\ IInv' /\ [Next]_vars =>
        [\A u \in Units :
           /\ RequestsLeft(job[u]) \in Nat
           /\ job[u].pc = "idle" => RequestsLeft(job'[u]) <= 2 * (2 + 2 * Batch)
           /\ job[u].pc # "idle" => RequestsLeft(job'[u]) <= RequestsLeft(job[u])
           /\ Requests(u) => RequestsLeft(job'[u]) < RequestsLeft(job[u])]_vars
  BY RequestsStep
<1> QED
  BY <1>1, Invariant, PTL DEF Spec, BudgetSuffices
=============================================================================
