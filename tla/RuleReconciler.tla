--------------------------- MODULE RuleReconciler ---------------------------
(***************************************************************************)
(* Reconciliation of relation-owned alert rules with the one namespace of  *)
(* Loki's ruler that the charm owns (src/src/rule_reconciler.py, called by *)
(* LokiVmCharm._reconcile_rules on the leader).                            *)
(*                                                                         *)
(* A reconciliation runs inside one hook of one unit and talks HTTP to a   *)
(* store that all units share: one step per request.  What it accepted is  *)
(* cached in the application databag, which Juju flushes when the hook     *)
(* ends, and only for the leader.                                          *)
(***************************************************************************)
EXTENDS Integers, FiniteSets, FiniteSetsExt

CONSTANTS
  Units, FirstLeader,
  Sources,       \* relation ids
  Names, Bodies, \* a rule group is a name and a body (modulo _canonical)
  Documents,     \* valid rule documents: sets of groups
  Offers,        \* the documents each source may publish
  Early,         \* sources that are related from the start
  Initial,       \* what they publish when the behaviour starts
  Missing,       \* a source that publishes no alert_rules at all
  Malformed,     \* a payload that parse_rule_groups rejects
  Gone,          \* not a source: no such relation
  Foreign,       \* what someone else may leave in the namespace
  Bytes,         \* size of a document
  MaxBytes,      \* MAX_RULE_BYTES
  MaxGroups,     \* MAX_TOTAL_GROUPS
  Batch,         \* MAX_MUTATION_API_OPERATIONS
  Budget         \* how often each kind of environment event may happen

Group == [name : Names, body : Bodies]

Events == {"publish", "relation", "corrupt", "tamper", "election", "fault",
           "slow"}

ASSUME UnitsAssumption == FirstLeader \in Units
ASSUME SourcesAssumption ==
  /\ Sources \subseteq Nat /\ IsFiniteSet(Sources)
  /\ Early \subseteq Sources
ASSUME DocumentsAssumption ==
  /\ Documents \subseteq SUBSET Group
  /\ {} \in Documents
  /\ Offers \in [Sources -> SUBSET Documents]
  /\ Initial \in [Sources -> Documents]
  /\ \A r \in Sources \ Early : Initial[r] = {}
ASSUME ForeignAssumption ==
  /\ Foreign \subseteq SUBSET Group
  /\ \A groups \in Foreign : \A g, h \in groups : g.name = h.name => g = h
ASSUME MarksAssumption ==
  /\ {Missing, Malformed, Gone} \cap Documents = {}
  /\ Cardinality({Missing, Malformed, Gone}) = 3
ASSUME LimitsAssumption ==
  /\ Bytes \in [Documents -> Nat]
  /\ Bytes[{}] = 0
  /\ MaxBytes \in Nat /\ MaxGroups \in Nat /\ Batch \in Nat \ {0}
ASSUME BudgetAssumption == Budget \in [Events -> Nat]

VARIABLES
  leader,     \* the unit Juju holds to be leader
  related,    \* the sources that are related
  payload,    \* alert_rules in the databag of each source
  cache,      \* the cached snapshots; {} for a source without one, or when
              \* the cache does not decode
  cacheValid, \* the cache decodes
  live,       \* the groups of the namespace in the ruler
  job,        \* the reconciliation under way on each unit
  disturbed,  \* history: jobs since whose last read someone else wrote to live
  budget      \* events the environment has left

sources == <<related, payload>>
accepted == <<cache, cacheValid>>
vars == <<leader, sources, accepted, live, job, disturbed, budget>>

-----------------------------------------------------------------------------
(***************************************************************************)
(* Admission: which snapshots a reconciliation wants to see in the ruler.  *)
(***************************************************************************)
NamesOf(groups) == {g.name : g \in groups}

Merged(snap) == UNION {snap[r] : r \in Sources}

\* merge_rule_groups: names are unique in the namespace, the total is bounded.
Mergeable(snap) ==
  /\ \A r, s \in Sources : \A g \in snap[r], h \in snap[s] :
       g.name = h.name => r = s /\ g = h
  /\ Cardinality(Merged(snap)) <= MaxGroups

NoSnapshots == [r \in Sources |-> {}]

\* Mutant of Retained: a snapshot is kept only while its source is readable.
RetainedReadable(owned, seen) ==
  [r \in Sources |-> IF seen[r] \in Documents THEN owned[r] ELSE {}]

\* Mutant of Retained: the snapshot of a removed relation is kept.
RetainedForever(owned, seen) == owned

\* The last-known-good snapshots of the sources that are still related.
Retained(owned, seen) ==
  [r \in Sources |-> IF seen[r] = Gone THEN {} ELSE owned[r]]

\* The snapshots once the sources in taken have replaced theirs.
Updated(kept, seen, taken) ==
  [r \in Sources |-> IF r \in taken THEN seen[r] ELSE kept[r]]

Weight(snap) == MapThenSumSet(LAMBDA r : Bytes[snap[r]], Sources)

\* What was accepted before the behaviour starts.
ASSUME InitialAssumption == Mergeable(Initial) /\ Weight(Initial) <= MaxBytes

\* Sources that own a snapshot are considered before the newcomers.
Before(kept, r) ==
  {s \in Sources :
     IF (kept[s] = {}) = (kept[r] = {}) THEN s < r ELSE kept[s] # {}}

\* Mutant of Admitted: each source is held against the snapshots that were kept,
\* not against what has been admitted before it.
AdmittedAlone(kept, seen) ==
  {r \in Sources : seen[r] \in Documents
                     /\ Weight(Updated(kept, seen, {r})) <= MaxBytes}

\* A readable source is admitted when it fits next to those before it.
Admitted(kept, seen) ==
  LET readable == {r \in Sources : seen[r] \in Documents}
      Fits(r, taken) ==
        Weight(Updated(kept, seen, (taken \cap Before(kept, r)) \cup {r})) <= MaxBytes
  IN  readable \cap CHOOSE taken \in SUBSET readable :
                       \A r \in readable : r \in taken <=> Fits(r, taken)

Candidate(kept, seen) == Updated(kept, seen, Admitted(kept, seen))

\* Without a valid cache every related source must speak for itself.
Trusted(kept, seen) ==
  \/ cacheValid
  \/ /\ \A r \in Sources : seen[r] # Gone => r \in Admitted(kept, seen)
     /\ Mergeable(Candidate(kept, seen))

-----------------------------------------------------------------------------
(***************************************************************************)
(* A job is one call of reconcile; replace_namespace runs in it for the    *)
(* candidate ("apply") and perhaps once more to put things back            *)
(* ("replay").  In each of the two, "read" and "write" may be followed by  *)
(* "recover" and "undo".                                                   *)
(***************************************************************************)
Steps == {"idle", "read", "write", "recover", "undo", "persist", "done"}

Seen == [Sources -> Documents \cup {Missing, Malformed, Gone}]

Snapshots == [Sources -> Documents]

Job == [pc : Steps, phase : {"apply", "replay"},
        seen : Seen,           \* the sources, as the hook found them
        owned : Snapshots,     \* previous.snapshots
        valid : BOOLEAN,       \* cache_valid
        snap : Snapshots,      \* candidate.snapshots
        goal : SUBSET Group,   \* what replace_namespace was asked for
        before : SUBSET Group, \* what it read first
        posts : SUBSET Group,  \* requests left to make
        drops : SUBSET Names,
        room : 0 .. Batch]     \* mutations left in this batch

NoJob ==
  [pc |-> "idle", phase |-> "apply", seen |-> [r \in Sources |-> Gone],
   owned |-> NoSnapshots, valid |-> TRUE, snap |-> NoSnapshots, goal |-> {},
   before |-> {}, posts |-> {}, drops |-> {}, room |-> 0]

\* replace_namespace is entered again with the groups to restore; it refuses
\* more groups than may be desired.
Replay(j, groups) ==
  IF Cardinality(groups) > MaxGroups THEN NoJob
  ELSE [j EXCEPT !.phase = "replay", !.pc = "read", !.goal = groups,
                 !.before = {}, !.posts = {}, !.drops = {}]

\* The attempt failed and its effects were not taken back.
Unrestored(j) ==
  IF j.phase = "apply" /\ j.valid THEN Replay(j, Merged(j.owned)) ELSE NoJob

\* Mutant of Settled: a batch that is used up counts as complete.
SettledEarly(j) ==
  IF j.room > 0 /\ (j.posts # {} \/ j.drops # {}) THEN j
  ELSE IF j.pc = "write" /\ j.phase = "apply" THEN [j EXCEPT !.pc = "persist"]
  ELSE NoJob

\* Mutant of Settled: batches have no end.
SettledUnbounded(j) ==
  IF j.posts # {} \/ j.drops # {} THEN j
  ELSE IF j.pc = "write" /\ j.phase = "apply" THEN [j EXCEPT !.pc = "persist"]
  ELSE NoJob

\* Where a job goes once its requests, or its batch, may be used up.  A batch
\* that leaves work is pending: nothing is undone, a later hook goes on.
Settled(j) ==
  IF j.posts = {} /\ j.drops = {}
    THEN IF j.pc = "write" /\ j.phase = "apply"
           THEN [j EXCEPT !.pc = "persist"]
           ELSE NoJob
  ELSE IF j.room = 0
    THEN IF j.pc = "write" THEN NoJob ELSE Unrestored(j)
  ELSE j

\* Mutant of Planned: every name that was read is dropped, desired or not.
PlannedDropsAll(j, pc, groups) ==
  [j EXCEPT !.pc = pc, !.room = Batch, !.posts = groups \ live,
            !.drops = NamesOf(live)]

\* Mutant of Planned: what was added is not removed.
PlannedUpserts(j, pc, groups) ==
  [j EXCEPT !.pc = pc, !.room = Batch, !.posts = groups \ live, !.drops = {}]

\* _write_namespace: the requests that turn what is live into groups.
Planned(j, pc, groups) ==
  [j EXCEPT !.pc = pc, !.room = Batch,
            !.posts = groups \ live,
            !.drops = NamesOf(live) \ NamesOf(groups)]

Advance(u, j) == job' = [job EXCEPT ![u] = j]

\* The ruler changed: every job but that of u has been working with stale data.
Disturb(u) ==
  disturbed' = IF live' = live THEN disturbed
               ELSE disturbed \cup {v \in Units \ {u} : job[v].pc # "idle"}

Spend(event) ==
  /\ budget[event] > 0
  /\ budget' = [budget EXCEPT ![event] = @ - 1]

Init ==
  /\ leader = FirstLeader
  /\ related = Early
  /\ payload = [r \in Sources |-> IF r \in Early THEN Initial[r] ELSE Missing]
  /\ cache = Initial
  /\ cacheValid = TRUE
  /\ live = Merged(Initial)
  /\ job = [u \in Units |-> NoJob]
  /\ disturbed = {}
  /\ budget = Budget

-----------------------------------------------------------------------------
(***************************************************************************)
(* LokiRuleReconciler.reconcile.                                           *)
(***************************************************************************)

\* The sources as the hook finds them; a broken relation is excluded.
Found == [r \in Sources |-> IF r \in related THEN payload[r] ELSE Gone]

\* Up to the first request.  A candidate that cannot be merged is given up and
\* the accepted groups are replayed.
Reconcile(u) ==
  /\ u = leader
  /\ job[u].pc = "idle"
  /\ LET kept == Retained(cache, Found)
         snap == Candidate(kept, Found)
         j == [NoJob EXCEPT !.pc = "read", !.seen = Found, !.owned = cache,
                            !.valid = cacheValid, !.snap = snap,
                            !.goal = Merged(snap)]
     IN  /\ Trusted(kept, Found)
         /\ Advance(u, IF Mergeable(snap) THEN j ELSE Replay(j, Merged(cache)))
  /\ disturbed' = disturbed \ {u}
  /\ UNCHANGED <<leader, sources, accepted, live, budget>>

\* "leaving the ruler namespace unchanged": the cache is lost and the sources
\* do not make up for it.
Decline(u) ==
  /\ u = leader
  /\ job[u].pc = "idle"
  /\ ~Trusted(Retained(cache, Found), Found)
  /\ UNCHANGED vars

\* A read accepts at most two generations of groups.
LiveReadable == Cardinality(live) <= 2 * MaxGroups

ReadNamespace(u) ==
  /\ job[u].pc = "read"
  /\ LiveReadable
  /\ LET j == [job[u] EXCEPT !.before = live]
     IN  Advance(u, Settled(Planned(j, "write", j.goal)))
  /\ disturbed' = disturbed \ {u}
  /\ UNCHANGED <<leader, sources, accepted, live, budget>>

\* The first request of the recovery inside replace_namespace.
ReadForRecovery(u) ==
  /\ job[u].pc = "recover"
  /\ LiveReadable
  /\ Advance(u, Settled(Planned(job[u], "undo", job[u].before)))
  /\ UNCHANGED <<leader, sources, accepted, live, disturbed, budget>>

\* InvalidRuleSnapshotError: rejected without mutation, and without replay
\* unless it interrupts a recovery.
ReadRefused(u) ==
  /\ job[u].pc \in {"read", "recover"}
  /\ ~LiveReadable
  /\ Advance(u, IF job[u].pc = "recover" THEN Unrestored(job[u]) ELSE NoJob)
  /\ UNCHANGED <<leader, sources, accepted, live, disturbed, budget>>

\* Connection refused, an HTTP error, or the deadline during a read.
ReadFails(u) ==
  /\ job[u].pc \in {"read", "recover"}
  /\ Spend("fault")
  /\ Advance(u, Unrestored(job[u]))
  /\ UNCHANGED <<leader, sources, accepted, live, disturbed>>

Upserted(g) == {h \in live : h.name # g.name} \cup {g}

Removed(n) == {h \in live : h.name # n}

Counted(j) == [j EXCEPT !.room = @ - 1]

Writing(u) == job[u].pc \in {"write", "undo"}

\* POST of a group.  (The order among the upserts, by source and name in the
\* code, is left open.)
Post(u) ==
  /\ Writing(u)
  /\ \E g \in job[u].posts :
       /\ live' = Upserted(g)
       /\ Advance(u, Settled([Counted(job[u]) EXCEPT !.posts = @ \ {g}]))
  /\ Disturb(u)
  /\ UNCHANGED <<leader, sources, accepted, budget>>

\* Mutant of Delete: removals do not wait for the upserts.
DeleteAnyTime(u) ==
  /\ Writing(u)
  /\ \E n \in job[u].drops :
       /\ live' = Removed(n)
       /\ Advance(u, Settled([Counted(job[u]) EXCEPT !.drops = @ \ {n}]))
  /\ Disturb(u)
  /\ UNCHANGED <<leader, sources, accepted, budget>>

\* DELETE of a group; 404 is fine.  Removals follow the upserts.
Delete(u) ==
  /\ Writing(u)
  /\ job[u].posts = {}
  /\ \E n \in job[u].drops :
       /\ live' = Removed(n)
       /\ Advance(u, Settled([Counted(job[u]) EXCEPT !.drops = @ \ {n}]))
  /\ Disturb(u)
  /\ UNCHANGED <<leader, sources, accepted, budget>>

\* A mutation fails or times out, with or without having had its effect.
MutationFails(u) ==
  /\ Writing(u)
  /\ Spend("fault")
  /\ live' \in {live} \cup {Upserted(g) : g \in job[u].posts}
                    \cup (IF job[u].posts # {} THEN {}
                          ELSE {Removed(n) : n \in job[u].drops})
  /\ LET j == Counted(job[u])
     IN  Advance(u, IF j.pc = "write" THEN [j EXCEPT !.pc = "recover"]
                    ELSE Unrestored(j))
  /\ Disturb(u)
  /\ UNCHANGED <<leader, sources, accepted>>

\* RulerApplyPendingError: less than a second is left before a mutation.
SliceExhausted(u) ==
  /\ Writing(u)
  /\ Spend("slow")
  /\ Advance(u, IF job[u].pc = "write" THEN NoJob ELSE Unrestored(job[u]))
  /\ UNCHANGED <<leader, sources, accepted, live, disturbed>>

\* The candidate is live; relation-set buffers the new cache.
Persist(u) ==
  /\ job[u].pc = "persist"
  /\ u = leader
  /\ Advance(u, [job[u] EXCEPT !.pc = "done"])
  /\ UNCHANGED <<leader, sources, accepted, live, disturbed, budget>>

\* relation-set fails, as it does for a unit that lost the leadership: what
\* was accepted before is put back.
PersistFails(u) ==
  /\ job[u].pc = "persist"
  /\ \/ u # leader /\ UNCHANGED budget
     \/ Spend("fault")
  /\ Advance(u, Replay(job[u], IF job[u].valid THEN Merged(job[u].owned)
                               ELSE job[u].before))
  /\ UNCHANGED <<leader, sources, accepted, live, disturbed>>

(***************************************************************************)
(* The end of the hook, and the environment.                               *)
(***************************************************************************)
Flush(u) ==
  /\ job[u].pc = "done"
  /\ u = leader
  /\ cache' = job[u].snap
  /\ cacheValid' = TRUE
  /\ Advance(u, NoJob)
  /\ UNCHANGED <<leader, sources, live, disturbed, budget>>

\* Juju refuses the databag of a unit that is no longer leader.
FlushRefused(u) ==
  /\ job[u].pc = "done"
  /\ u # leader
  /\ Advance(u, NoJob)
  /\ UNCHANGED <<leader, sources, accepted, live, disturbed, budget>>

\* The agent dies, or another part of the hook raises.
HookLost(u) ==
  /\ job[u].pc # "idle"
  /\ Spend("fault")
  /\ Advance(u, NoJob)
  /\ UNCHANGED <<leader, sources, accepted, live, disturbed>>

Publish(r) ==
  /\ r \in related
  /\ Spend("publish")
  /\ \E p \in Offers[r] \cup {Missing, Malformed} :
       payload' = [payload EXCEPT ![r] = p]
  /\ UNCHANGED <<leader, related, accepted, live, job, disturbed>>

\* A new relation has published nothing yet; the id of a removed relation is
\* not used again.
Relate(r) ==
  /\ r \notin related
  /\ payload[r] = Missing
  /\ Spend("relation")
  /\ related' = related \cup {r}
  /\ UNCHANGED <<leader, payload, accepted, live, job, disturbed>>

Break(r) ==
  /\ r \in related
  /\ Spend("relation")
  /\ related' = related \ {r}
  /\ payload' = [payload EXCEPT ![r] = Gone]
  /\ UNCHANGED <<leader, accepted, live, job, disturbed>>

\* Another build's cache format, or a value that does not decode.
CorruptCache ==
  /\ cacheValid
  /\ Spend("corrupt")
  /\ cacheValid' = FALSE
  /\ cache' = NoSnapshots
  /\ UNCHANGED <<leader, sources, live, job, disturbed>>

\* An operator, or a lost rule store, changes the namespace.
Tamper ==
  /\ Spend("tamper")
  /\ live' \in Foreign
  /\ disturbed' = {u \in Units : job[u].pc # "idle"} \cup disturbed
  /\ UNCHANGED <<leader, sources, accepted, job>>

Elect(u) ==
  /\ u # leader
  /\ Spend("election")
  /\ leader' = u
  /\ UNCHANGED <<sources, accepted, live, job, disturbed>>

-----------------------------------------------------------------------------
Progress(u) ==
  \/ ReadNamespace(u) \/ ReadForRecovery(u) \/ ReadRefused(u)
  \/ Post(u) \/ Delete(u)
  \/ Persist(u) \/ PersistFails(u) \/ Flush(u) \/ FlushRefused(u)

Failure(u) ==
  ReadFails(u) \/ MutationFails(u) \/ SliceExhausted(u) \/ HookLost(u)

Environment ==
  \/ \E r \in Sources : Publish(r) \/ Relate(r) \/ Break(r)
  \/ \E u \in Units : Elect(u)
  \/ CorruptCache \/ Tamper

Next ==
  \/ \E u \in Units : \/ Reconcile(u) \/ Decline(u)
                    \/ Progress(u) \/ Failure(u)
  \/ Environment

Spec == Init /\ [][Next]_vars

\* update-status reconciles periodically, and a hook under way goes on.
Fairness == \A u \in Units : WF_vars(Reconcile(u)) /\ WF_vars(Progress(u))

FairSpec == Spec /\ Fairness

-----------------------------------------------------------------------------
(***************************************************************************)
(* Properties.                                                             *)
(***************************************************************************)
TypeOK ==
  /\ leader \in Units
  /\ related \subseteq Sources
  /\ payload \in Seen
  /\ cache \in Snapshots
  /\ cacheValid \in BOOLEAN
  /\ live \subseteq Group
  /\ job \in [Units -> Job]
  /\ disturbed \subseteq Units
  /\ budget \in [Events -> Nat]

Undisturbed(u) == u \notin disturbed

\* What a job has left to do is exactly what separates the ruler from its goal,
\* for the candidate, for a recovery and for a replay, at every request
\* (_write_namespace works from groups that it read before it began).
WorkRemaining ==
  \A u \in Units : Writing(u) /\ Undisturbed(u) =>
    LET groups == IF job[u].pc = "write" THEN job[u].goal ELSE job[u].before
    IN  /\ job[u].posts = groups \ live
        /\ job[u].drops = NamesOf(live) \ NamesOf(groups)

\* A cache value is handed to Juju only for a ruler that holds exactly the
\* merged snapshots in it: no acceptance of a partly applied candidate.
AcceptedIsLive ==
  \A u \in Units :
    job[u].pc \in {"persist", "done"} /\ Undisturbed(u) =>
      live = Merged(job[u].snap)

\* README.md: the client "never clears the entire namespace for an update".
\* From the first read to the end of the job, recovery included, a group that
\* is there before and wanted after is there all the time, in some version.
NoGap ==
  \A u \in Units :
    job[u].pc \in {"write", "recover", "undo", "persist", "done"}
      /\ Undisturbed(u) =>
        NamesOf(job[u].before) \cap NamesOf(job[u].goal) \subseteq NamesOf(live)

\* What a hook writes to the databag, the next one can decode and live with:
\* unique names and both limits hold for every cache, whatever mixture of old
\* and new snapshots it holds (_decode_cache repeats merge_rule_groups).
CacheDecodes == Mergeable(cache) /\ Weight(cache) <= MaxBytes

\* README.md: "A malformed or over-limit update retains that relation's
\* last-known-good snapshot", "Valid omission or relation removal withdraws
\* owned groups".  A candidate deletes an accepted group only if its source is
\* gone or published a valid document without it; when the cache is lost, only
\* if every source could be read.
OwnerWithdraws ==
  [][\A u \in Units : Delete(u) /\ job[u].pc = "write" /\ job[u].phase = "apply" =>
       LET lost == NamesOf(live) \ NamesOf(live')
           seen == job[u].seen
       IN  \A r \in Sources :
             \/ seen[r] = Gone
             \/ seen[r] \in Documents /\ lost \cap NamesOf(seen[r]) = {}
             \/ job[u].valid /\ lost \cap NamesOf(job[u].owned[r]) = {}]_vars

\* "A failed or expired candidate write restores the captured pre-apply
\* namespace" (docs/charm-architecture.md): a recovery that ends without
\* another failure, and hence without replay, left what the job first read.
RestoredIsCaptured ==
  [][\A u \in Units :
       job[u].pc = "undo" /\ job'[u].pc = "idle" /\ UNCHANGED budget
         /\ Undisturbed(u) =>
           live' = job[u].before]_vars

\* The transaction that a job is, once it has read the namespace.
Transaction(j) ==
  IF j.pc \in {"idle", "read"} THEN [state |-> "closed", from |-> {}, to |-> {}]
  ELSE [state |-> CASE j.pc = "write" -> "applying"
                    [] j.pc \in {"recover", "undo"} -> "restoring"
                    [] OTHER -> "applied",
        from |-> j.before, to |-> j.goal]

Namespace ==
  INSTANCE RuleNamespace WITH
    Groups <- Group,
    ruler <- live,
    accepted <- Merged(cache),
    txn <- [u \in Units |-> Transaction(job[u])],
    stale <- {u \in disturbed : job[u].pc \notin {"idle", "read"}}

\* The jobs of all units, with every failure, replay, former leader and foreign
\* write, are transactions on the one namespace: name by name, one way until
\* they turn back, nothing removed before the rest is there, and the cache only
\* ever replaced by what is complete.
ImplementsNamespace == Namespace!Spec

OldOrNew == Namespace!OldOrNew

\* Every source has its say, or fails closed: once sources, ruler and units
\* are quiet, valid documents are cached, the groups of removed relations are
\* withdrawn, and the ruler holds what the cache holds.  A lost cache is
\* rebuilt unless a source is unreadable.
Converges ==
  <>[](\/ /\ ~cacheValid
          /\ \E r \in related : payload[r] \notin Documents
       \/ /\ live = Merged(cache)
          /\ \A r \in Sources :
               IF r \notin related THEN cache[r] = {}
               ELSE payload[r] \in Documents => cache[r] = payload[r])

\* The groups of a removed relation are withdrawn.
RemovalWithdraws ==
  <>[](\A r \in Sources \ related : cache[r] = {})
=============================================================================
