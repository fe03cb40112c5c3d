# Verification of the Loki VM charm

TLA+ models of the charm in this repository, the TLC configurations that check
them on small instances, and theorems that TLAPS checks for every instance.
Paths below are relative to the repository: `charm.py`, `loki.py`,
`rule_reconciler.py` and `config_builder.py` are in `src/`.

## 1. The system

One Juju unit agent per machine runs the hooks of `LokiVmCharm`, one at a time.
A hook reads relation data (cached for the hook), changes files and systemd at
once, and buffers its databag writes and its stored state. When the handler
returns, ops first commits the stored state, then Juju flushes the databags; a
hook that raises loses both and is run again. Hooks of *different* units
interleave, and all units talk to one Loki cluster over HTTP.

| Part | State it keeps | Operations | Talks to |
|---|---|---|---|
| Config apply (`charm.py` `_configure`, `_reconcile_runtime`, `_on_start`, `_on_update_status`) | `last_good_config`, `config_drifted` in StoredState; `/etc/loki/config.yml` | render, verify, write, restart, detect drift | `loki.py`, rolling restart |
| Rolling restart (`charm.py` 474-486, 818-995) | `restart-target` (application databag), `restart-pending` (unit databag), `peer_addresses_json` | queue, elect a target, restart, wait for self and cluster, clear | peers through databags and `/ready` |
| Rule reconciliation (`rule_reconciler.py`, `charm.py` `_reconcile_rules`) | last-known-good cache (application databag), the charm's namespace in Loki's ruler | admit, merge, apply, recover, replay, persist | ruler API, `loki_push_api` relations |
| Rule wire formats (`rule_reconciler.py` parsing, durations, cache codec) | none | parse, canonicalise, encode, decode | |
| Unit status (`charm.py`, every handler; `_runtime_health_status`) | the Juju status and its message | choose one status among many causes | all parts |
| Endpoint publication (`charm.py` 1161-1259, `lib/charms/`) | relation data of `loki_push_api`, `grafana-source`, `send-datasource`, `ingress`; the requirer's stored ingress URLs | publish, clear, refresh, pass UIDs on | senders of logs (LogForwarder, Promtail), Grafana, Traefik |
| Alert rule files (`loki_push_api.py` 722-987, 1588-1617) | none | read, name, annotate, publish | the sources of rule reconciliation |
| S3 storage state (`charm.py` 1052-1132) | relation data of `s3` | normalise endpoint, decide TLS, block | config apply |
| Alertmanager URLs (`charm.py` 599-650, `lib/charms/alertmanager_k8s/`) | relation data | build the URL set | config apply |
| Data directory (`loki.py` 111-210, `charm.py` 348-370) | `/var/lib/loki` and the storage mount | move, link, chown | storage hooks |
| Config builder (`config_builder.py`) | none | choose the storage, ruler and memberlist sections | config apply |
| Workload (`loki.py`) | package, systemd unit | install, restart, probe | config apply |
| `loki_ops_manager.py`, `tools/`, tests | | | not used by the charm at run time |

How the parts interact: a change of config, relation or membership re-renders
the config in a hook of every unit; the first hook that sees a difference
writes the file and, in a cluster, queues a restart in its databag. The leader
picks one queued unit after the other; the picked unit restarts itself in one of
its own hooks. Independently, the leader's hooks collect the `alert_rules` of
all `loki_push_api` relations and reconcile them with the ruler.

What is hard here, and hardly reached by the unit tests (which run one hook of
one unit with a mocked ruler):

- the two sides of a restart (queue flag and target) are in different databags,
  written by different units, read stale, and lost with a failed hook;
- the file, the running process, the stored state and the databag are changed
  at four different moments of a hook;
- a leader may be replaced in the middle of a hook, and still talks to the
  ruler;
- a reconciliation may fail at any request, also in its own recovery, and the
  last request may or may not have had its effect;
- limits (bytes, groups, mutations per hook, two generations of groups) interact
  with the order of sources and with batches that span hooks.

`PROJECT.json` lists each hazard at its line with the properties that cover it.

What makes each part correct:

- config apply and restart: an accepted config is eventually run; restarts are
  exclusive; a config that never becomes ready stays on one unit;
- rules: only a source's own word (or its removal) withdraws its groups; what is
  accepted is what is live; failures restore what was there; everything
  converges;
- status: an incomplete delivery of rules is not hidden by the handler that met
  it; what other handlers leave behind is repaired by update-status;
- endpoints: what a unit has published is what it offers, or a hook that will
  correct it is scheduled; who reads it ends up with it and with nothing else;
- data directory: no file is lost and a move interrupted anywhere is completed;
- pure parts: what one hook writes the next can read; a change is written if and
  only if it means something else; where two functions parse the same text on their own,
  it is known on which texts they agree.

## 2. Modules

### RollingRestart

Config apply, drift and rolling restart of all units. One action is the part of
a handler up to its first wait (or end), because between waits a hook is not
observed by others: `RuntimeHook` (all events that go to `_reconcile_runtime`),
`ReplicasHook` (peer relation), `UpdateStatusHook`, `StartHook`; then `Restart`,
`LocalReady`, `ClusterHealthy` for the two waits of `_perform_target_restart`;
then the end of the hook: `Commit`, or `FlushRefused` (a former leader wrote
the application databag), `AgentDies` (after the stored state is saved, before
the flush), `WaitFails`, `WaitTimeout`, `HookError`. `hook[u]` holds what the
hook has read and buffered.
The rest is environment: `Reconfigure`, `ManualEdit`, `BecomesReady`,
`LosesReady`, `Crash`, `ServiceRecovers` (systemd restarts Loki), `Reboot`,
`Elect`, `Depart`, `StorageOutage`, `StorageRestored`.

A config text is a version and a set of peers: `wanted` counts the versions of
everything the text depends on, and an override (`Overrides`) does not mention
the peers. `Invalid` versions fail verification; `Broken` ones pass, but never
answer `/ready`. `lapsed` is a history variable: the units whose restart was
dropped by one of the lossy events (a start hook that applies a change to a
running process, a lost databag after the stored state was saved). It is used
only by properties, which would be false without it.

Abstractions: unit names are ordered like numbers; the cluster probe reads all
`/ready` answers at one moment; nobody reverts a manual edit by hand; units only
leave; peer addresses are known; the readiness wait of a single unit and the
statuses are in `UnitStatus`.

### RuleNamespace, RuleReconciler

Admission, ruler transaction, cache and leadership. `job[u]` is one call of
`reconcile`. `Reconcile` is the code up to the first request: read the cache and
the sources, admit, merge (`Candidate`, `Admitted`, `Trusted`, `Mergeable`), or
`Decline` when the cache is lost and the sources do not make up for it. Then one
action per HTTP request: `ReadNamespace`, `ReadForRecovery`, `Post`, `Delete`,
and their failures `ReadRefused`, `ReadFails`, `MutationFails` (with or without
effect), `SliceExhausted` (the time slice ends between two mutations). `Settled`
says where the job goes when its requests or its batch are used up, `Replay` and
`Unrestored` what follows a failed attempt. `Persist` and `PersistFails` are the
databag write; `Flush`, `FlushRefused` and `HookLost` the end of the hook.
Environment: `Publish`, `Relate`, `Break`, `CorruptCache`, `Tamper`, `Elect`.

A rule group is a name and a body modulo `_canonical`; a document is a set of
groups with a size; a payload that does not parse is `Malformed`, one that is
absent is `Missing`. The ruler store is one set of groups, replaced by name. A
cache that does not decode holds no snapshots. `disturbed` is a history variable:
the jobs under which another writer (another unit, or somebody outside) changed
the ruler after their last read.

`RuleNamespace` is what those jobs promise together, whoever runs them: a
transaction of each unit on the one namespace. It opens with what it reads
(`Open`), goes forward name by name, nothing removed before the rest is there
(`Apply`), may turn back but never forward again (`Restore`), and is accepted
only when it is complete (`Commit`); it may be given up anywhere. `stale` names
the transactions behind whose back somebody else wrote: they still only write
what they want. `Transaction` maps a job to it; batches, admission, retries and
replays (a replay is a transaction of its own) are below its level.

Abstractions: the order among the upserts is left open (the code sorts them);
the size limit of the encoded cache and the limit on rules are folded into
`MaxGroups`; the skip when a config override has no ruler contract and the
statuses are in `UnitStatus`; the parsing of documents is left out; a
new relation has a new id, ids are not reused.

### UnitStatus

The status of one unit. One action is one hook: `ConfigHook`, `StartHook`,
`ReplicasHook`, `RulesHook`, `UpdateStatusHook`; each is one handler (`Runtime`,
`Start`, `FastPath`, `Delivered`, `UpdateStatus`), a composition of the parts
that the handlers share, in the order in which the code calls them (`Configured`,
`Restarted`, `Rolled`, `HealthStatus`, `Delivered`). `HookRaises` is a hook that
gives up: what it did to the disk, to Loki and to the status stays, its stored
state does not, and it is run again. `due` holds the events that Juju has
announced. The environment changes the config, the storage relation, the size of
the application, the peers, Loki, the disk, the sources, the ruler and the
leader, with the hook that Juju runs for it, if any.

A status stands for its message. The other units are abstracted to what a hook
reads of them (`peersReady`, `rollout`); a rollout may end, go on, or restart the
unit in any hook that looks at it, which is more than `RollingRestart` allows. A
delivery of rules commits if no source is malformed and the ruler does all its
work, otherwise not, and while Loki starts either.

Abstractions: the peer relation exists; Loki is installed; the two reasons for
which a config is refused are one; the texts with counts and phases are left out.

### EndpointDirectory, EndpointPublication, GrafanaSource, LogClients

`EndpointDirectory` is what the application promises to the senders of logs: one
entry per relation and unit, which changes only when the unit publishes, and then
to what the unit offers at that moment (`Offer`: the external URL on the leader
and nothing elsewhere, or the ingress URL, or the unit's address).

`EndpointPublication` is the charm with its surroundings. One action is one hook,
because its databag writes become visible together when it ends: `RuntimeHook`
(`_reconcile_runtime`), `PushJoined` and `PushChanged` (`loki_push_api`; in the
latter the library's handler writes its fallback URL before the charm's handler),
`IngressHook`, `GrafanaHook`; `ClientHook` and `GrafanaRuns` are the hooks of the
applications at the other end. `pending`, `due` and `grafanaDue` are the hooks
that Juju has scheduled; they run in any order. The surroundings change by
`SetExternal`, `Reconfigure`, `Relate`, `Republish`, `Elect`, `Depart`,
`PublishUrl`, `WipeIngressData`, `RemoveIngress`. `known[u]` is the requirer's
`current_urls`; `View(u)` is what a hook reads directly. `basis` and `missed` are
history variables that name the two ways in which published data stays stale.

`GrafanaSource` is the datastore of `GrafanaSourceConsumer`, `LogClients` the
targets of a `LogForwarder` and the Promtail of a `LogProxyConsumer`; both are
functions from a state to a state, applied by the actions above.

Abstractions: one Grafana; a URL is a tuple of what it is made of; all containers
of a client are one; push and Grafana relations are not removed; a unit that
departed does not run hooks any more.

### DataDirectory

`loki.ensure_data_dir` under the storage hooks, `install` and `start`: one action
per step on the file system, an interruption between any two, and a retry from
the beginning. `shutil.move` is a rename on one file system and a copy, a listing
and a deletion on two (`crossDevice`); it moves into a directory of the same name
if there is one, which is why places have levels. `Write` is Loki.

Abstractions: all subdirectories are alike; ownership and permissions are left
out; an interruption finds the source of a copy whole or partly deleted, never
the destination partly written.

### Formats, with RuleFormats, AlertRules, ConfigBuilder, Addresses

The pure parts, one module each, and their composition. `RuleFormats`: which
payload is accepted, what is merged, what the cache stores and what is read back,
when two groups count as the same, and how many requests a reconciliation makes.
`AlertRules`: the document a related charm publishes from its rule files, with
the options of `ConsumerBase` (`skip_alert_topology_labeling`,
`forward_alert_rules`, `recursive`, `extra_alert_labels`). `ConfigBuilder`: the
sections of the configuration. `Addresses`: Alertmanager units and the S3
endpoint. Where the code has two parsers of one thing, so has the model:
`ClusterInfo` is the library's and `SkippingGone` the charm's own for Alertmanager
data, `Endpoint` and `Insecure` each read the text of the S3 endpoint. `Formats`
lets one value at a time arrive and states what must hold of the answers.

Abstractions:

- A document has measured bytes, depth and nodes; compression divides the bytes
  by a number; durations have no milliseconds.
- A group name is the sequence of its parts between underscores. A part has a
  width in bytes (`Width`), may be white space (`Spaces`) and may have characters
  that cannot be printed (`Unprintable`); the limit is `MaxName`. The topology is
  model, id and application, in which there are no underscores.
- A rule is the sorts of its fields, one sort for each way in which
  `_validate_rule`, `_from_file` or the injection of labels tells rules apart. A
  group without a name or a list of rules makes `_from_file` raise or the document
  invalid and is left out, so is what `cos-tool` makes of an expression.
- An S3 endpoint is a text in lower case, as the sequence of its delimiters and of
  the names between them; a host in brackets is one name. Texts with white space
  or control characters within, with `;` after a slash, with a `?` or `#` that only
  slashes follow, or with brackets elsewhere than around the host are left out.
- An Alertmanager URL is a scheme, an address, and the rest, which the older schema
  has no room for; `Written` is what a unit's library puts into the databag. A unit
  that once wrote the newer schema does not go back to the older one.

### Others

- `MCRollingRestart`, `MCRuleReconciler`, `MCUnitStatus`, `MCEndpointPublication`,
  `MCDataDirectory`, `MCFormats`: documents, offers, configs, values and
  environment budgets for TLC.
- `RollingRestartProofs`, `RollingTurnProofs`, `RuleReconcilerProofs`,
  `UnitStatusProofs`, `EndpointPublicationProofs`, `DataDirectoryProofs`,
  `FormatsProofs`: theorems. `FiniteSums`: lemmas about minima, folds and sums.

Definitions named "Mutant of X" replace X by a plausible bug; each property is
violated by at least one of them (`PROJECT.json`, "mutants").

## 3. Runs

Every kind of environment event has a budget, so that instances are finite. The
budgets are spent in any order; within them nothing else bounds a behaviour.
Deadlock is checked in the runs of the first three modules: no state is stuck,
since hooks can always run. `endpoints` and `data_directory` stop when all hooks
have run and the budget is spent.

| Run | Instance | Shows |
|---|---|---|
| `rolling_anything` | 2 units, one change (an override), edit, reboot, election, departure, failed hook | `NoLostRestart`: a unit runs what it last accepted, or its restart is queued, or it shows drift, or it is in `lapsed`. `PendingClearedByRestart`: a queue flag is taken back only by a restart |
| `rolling_one_rollout` | 3 units, one change, one process failure, one timeout | `RestartExclusive`: no two units between restart and recovery |
| `rolling_canary` | 3 units, a `Broken` version, two timeouts, a failed hook, a storage outage | `BrokenContained`: at most one unit runs it |
| `rolling_live` | 2 units, 4 changes (one rejected, one `Broken` and then corrected), election, timeout, departure | `RolloutCompletes`: the final config runs everywhere, nothing stays queued, unless a unit is `HeldBack` (see the disagreements) |
| `status_settles` | 1 unit, alone or clustered, a plain, a refused and a ruler-less config, any 3 changes around it, one hook that raises | `NoHiddenIncompletion`: a hook that met an incomplete or disabled delivery does not end active. `UpdateStatusTells`: update-status leaves a truthful status. `Settles`: once all is quiet, the status is truthful and stays |
| `rule_failures` | 1 unit, 2 sources with colliding names and both limits in reach, 2 updates, 2 failed requests or hooks, an exhausted slice, a lost cache, a changed namespace | `WorkRemaining`, `NoGap`, `CacheDecodes`, `OwnerWithdraws`, `RestoredIsCaptured` (below) |
| `endpoints` | 2 units, 2 senders of logs (one related later), a Grafana, an ingress, any 2 changes of the surroundings | `PublishedIsCurrent`, `ExchangeFollows`, `DeletedNotListed`, `NoSourceForgotten`, `ImplementsDirectory`, `DatasourcesFollow`, `ForwardersFollow`, `PromtailFollows` (below) |
| `data_directory` | 3 attachments, 2 interruptions, 2 files, one or two file systems | `NothingLost`: no file disappears. `DirectoryMatches`: the stored data_dir is where the path leads. `FirstAttachmentInView`: the first attachment keeps files where Loki finds them. `HooksEnd`: a hook ends, up to the second attachment |
| `formats` | every value of small domains around each limit | `CacheRoundTrips`, `RewritesOnlyDifferences`, `RequestsBounded`, `SentRulesMerge`, `StorageAgrees`, `S3SchemeAgrees`, `AdvertisedAreUsed` (below) |
| `rule_live` | 2 units, batches of one mutation, 2 updates, a new or removed relation, a failed request or hook, an election, a lost cache | `AcceptedIsLive`: a cache is handed to Juju only for a ruler that holds it. `ImplementsNamespace` (below). `Converges`: in the end cache and ruler hold what the sources publish |

- `WorkRemaining`: the requests a job has left are exactly the difference
  between the ruler and its goal, in apply, recovery and replay.
- `NoGap`: a group wanted before and after a job is in the ruler all the time.
- `CacheDecodes`: every cache has unique names and respects both limits, so the
  next hook can decode it, whatever mixture of old and new snapshots it is.
- `OwnerWithdraws`: a candidate deletes a group only if its source is gone or
  published a valid document without it.
- `RestoredIsCaptured`: a recovery that meets no further failure leaves exactly
  what the attempt read first. That it never runs out of its batch is the point.
- `ImplementsNamespace`: `RuleReconciler` implements `RuleNamespace`, with the
  jobs of a leader and a former leader overlapping: each is one transaction after
  the other, a failed or disturbed one included.

- `PublishedIsCurrent`: every entry is what its unit offers, unless a hook that
  will refresh it is scheduled, or the unit's leadership changed since, or the
  entry was written from an ingress path the requirer had not recorded.
- `ExchangeFollows`: the same for the datasource UIDs that the leader passes on.
- `DeletedNotListed`, `NoSourceForgotten`: what Grafana deletes is exactly what
  it no longer lists.
- `ImplementsDirectory`: `EndpointPublication` implements `EndpointDirectory`
  with `push` as the directory: no hook leaves an entry of another unit, of
  another leader or of another moment.
- `DatasourcesFollow`, `ForwardersFollow`, `PromtailFollows`: once all is quiet,
  Grafana, the log targets and Promtail have exactly what is published; each
  names the failed hook or missing datum under which they do not.
- `CacheRoundTrips`: what a leader can encode, its successor decodes to the same.
- `RewritesOnlyDifferences`: two spellings count as one group exactly when the
  durations and labels mean the same (against arithmetic by carrying).
- `RequestsBounded`: the budget never cuts off a batch, and failures at every
  stage stay within `MAX_RECONCILE_API_OPERATIONS`.
- `SentRulesMerge`: documents made from well-formed rule files are accepted as they
  were sent, and within the limits the namespace is refused in exactly two cases:
  an application repeats a name of its own, or one that skips the topology labels
  takes a name of another's. Well-formed (`WellFormed`) is: every rule picked up is
  one that `_validate_rule` accepts and `_from_file` can annotate, and every name
  the library makes is printable and at most `MaxName` bytes long.
- `StorageAgrees`: the sections agree on one store and client, and a cluster never
  keeps data local.
- `S3SchemeAgrees`: TLS exactly for a text that begins with `https://`, and the port
  it names or the scheme's own. A text that is nothing but a scheme and slashes is
  the exception, and the property says what comes of it.
- `AdvertisedAreUsed`: the URLs that Loki is given are exactly those the remaining
  Alertmanager units advertise, whichever schema each of them writes and whichever
  of the two parsers reads it.

Why the bounds are enough: two units are needed for every overlap of leader and
former leader, three for a leader, a target and a bystander. Two sources are
needed for collisions and for competition for the byte budget; a limit of two
groups and a batch of one or two put each limit below, at and above what the
documents need. Every safety property of a passing run is proved for all sizes
(section 4), so that its bounds matter only for finding mistakes early. For `Settles`, three
changes are enough to lay one status over another and to remove either cause.
Two changes of the surroundings are enough for each race of `endpoints`: an
election against a hook of the former leader, a path that appears and disappears
between two ingress hooks, a departure before a set-up. Three attachments reach
the nested directory and the name that is taken. The limits of `formats` are
scaled down to lie between the sizes of its documents; the batch is the real one.
`SentRulesMerge` sees every pair of files of two directories with colliding
names, every sort of rule in one of them, names at 512 and above 512 bytes, and
every choice of the options for both applications; names of an application
without topology that imitate another's are among them. `S3SchemeAgrees` sees
some 700 texts: five beginnings, five hosts, six ports and five endings.
`AdvertisedAreUsed` sees all triples of units that are gone, silent, or advertise
a URL of two schemes, two addresses, with and without rest, in either schema.

Runs that find a disagreement between the code and what the repository says:

| Run | What happens |
|---|---|
| `rolling_concurrent` | Two config changes in a row. A unit that is still the target after its restart queues the second one and, as its name is still in the databag, restarts at once, while the leader moves the target to the other unit. `docs/charm-architecture.md` 128-129 guarantees "rolling restarts rather than concurrent restarts". |
| `rule_wedge` | Two interrupted updates leave three generations of groups in the ruler; a read accepts two. No later hook gets past the read. |

### Disagreements without a run

Each of these was found with the models, and the statements named are defined in
the modules; a run that checks one of them ends with a counterexample.

- `ChangeRestartsLoki` (`RollingRestart`): after a reboot systemd has started
  Loki with the old file; `_on_start` (`charm.py` 229) writes the new one, records
  it as good, and `enable --now` does nothing. No later hook sees a change.
  `README.md` 149-150: a changed Alertmanager unit "changes the generated config
  and restarts Loki".
- `RefusalIsShown` (`UnitStatus`): a refused config is shown as waiting by the
  hook that refuses it, and as active from the next update-status on (`charm.py`
  264). `README.md` 87-89: it "is reported as waiting until the operator upgrades
  Loki or supplies a compatible `config-override`".
- `RemovalWithdraws` (`RuleReconciler`): two sources with one group name make the
  whole candidate invalid (`rule_reconciler.py` 557), so the groups of a third,
  removed source are not withdrawn. `README.md` 112: removal "withdraws owned
  groups".
- `SiblingsContinue` (`Formats`): one document with two groups of the same name
  does the same to its siblings. `README.md` 109-111: "valid sibling relations
  continue".
- `LeaderPublishes` (`EndpointPublication`): no refresh follows an election
  (`charm.py` 267), so with `external-url` the new leader publishes nothing and
  the former one keeps its entry until another hook. `README.md` 443-448: "Only
  the leader unit publishes the endpoint."
- With `external-url` and several units, the units that are not the leader have
  no endpoint, and a `LogForwarder` takes the relation for not ready
  (`loki_push_api.py` 2719, 2733): it never gets a target.
- `UidsAreListed` (`EndpointPublication`): after a departure Grafana shares the
  names of before the removal (`grafana_source.py` 755-757), although its comment
  says "after removing this unit/source".
- `NothingLost` with `WritesDuringMove = TRUE` (`DataDirectory`): a file that Loki
  writes between the listing of a copy and the deletion of its source is deleted
  (`loki.py` 137); nothing stops Loki before the storage hook.
- The third attachment of storage finds a directory of the same name inside the
  stored one and fails in every retry (`HooksEnd`).
- A reconciliation may make 4,100 requests (`rule_reconciler.py` 82);
  `README.md` 106-107 promises 2,054.
- A document at the depth limit is accepted, but the cache nests it one level
  deeper and cannot be encoded: the whole candidate fails.
- Two rule files of one directory with the same group names, or `a.rule` beside
  `a.rules`, collide with one another, and so do two applications of which one sets
  `skip_alert_topology_labeling` (`loki_push_api.py` 1601-1603) if its group names
  meet the other's; either blocks the whole namespace. A rule whose `labels` are
  null raises in the related charm.
- Join members are listed in the order of a set (`charm.py` 1036-1039), which can
  differ between two hooks; the text then differs and queues a restart, although
  `charm.py` 1043 takes care of the order for the same comparison.
- An `external-url` with an IPv6 host or a user gets no default port (`charm.py`
  1218).
- The S3 endpoint `https://` is accepted: `_normalize_s3_endpoint` strips the
  slashes and takes the rest for the host `https` at port 80 (`charm.py` 1107-1110),
  `_s3_is_insecure` looks at the whole text and turns TLS on (1131-1132). A mere
  `minio://` likewise. `S3SchemeAgrees` states this case.
- The leader elects a target as soon as one unit is queued (`charm.py` 902), while
  `docs/charm-architecture.md` 129-130 says that the config is written on all
  units first.
- A config that never becomes ready cannot always be corrected (`HeldBack` in
  `RollingRestart`; without either part of it `RolloutCompletes` fails). If
  the hook in error is `update-status` or a peer hook without new addresses, its
  retry restarts the old file for ever (`charm.py` 263, 311). If the leader elected
  and restarted itself in that hook, the election is lost with it; the retry
  writes the correction and queues a restart, and the health gate (`charm.py`
  899) elects nobody while the unit is unready.
- A queued restart is skipped once the application has shrunk to one unit
  (`charm.py` 878); a generated config then changes with the membership and
  restarts Loki anyway, an override does not, and stays unloaded: with
  `Overrides = {1}`, one change and one departure `RolloutCompletes` fails.
- A status of a rule delivery may lie over one of drift or storage, and its
  recovery sets runtime health (`charm.py` 471); drift does not replace a waiting
  status (`charm.py` 701), while `docs/charm-architecture.md` 32-33 says that
  update-status surfaces it. `Truthful` is written accordingly.
- `charmcraft.yaml` declares an action `set-config` that has no handler.

### Fairness

`RollingRestart`: the agent runs hooks again and again (update-status is
periodic, failed hooks are retried, relation changes and config changes are
delivered), a hook under way goes on, and a process with a sound config becomes
ready or its wait times out. Nothing is assumed of the environment events, which
are bounded. `UnitStatus`: Juju runs the hook of every announced event, and
update-status periodically. `RuleReconciler`: `update-status` reconciles periodically on the
leader (weak fairness of `Reconcile(u)`), and a hook under way goes on
(`Progress(u)`). `EndpointPublication`: Juju runs every hook it has scheduled on
every unit and client, and elects a leader when there is none. `DataDirectory`: a
hook that has begun goes on, and a failed one is run again. No failure is fair,
and no failure repeats for ever: that is the budget, and it is what "once the environment is quiet" means in the liveness
properties.

## 4. Theorems

All are checked by TLAPS from the assumptions stated in the modules (finite sets
of natural numbers for units and sources, a batch of at least one mutation,
documents that are sets of groups, and an initial state whose rules can be
merged and cached; versions that never become ready other than the one the
cluster has settled on; refused and legacy configs that are configs; client
relations that are among the relations; durations, migrations and mutations of
the types that YAML and Python admit; a `None` that is no URL, no path and no
other datum; applications of which no two have the same model, id of the model
and name; rule files, endpoint texts that are not empty and Alertmanager units as
the modules describe them; budgets that are natural numbers). Units, configs, documents, limits
and budgets are otherwise arbitrary. The provers have no induction; an argument
about folds and sums is one about a smallest counterexample (`SmallestSet` in
`FiniteSums`).

`RollingRestartProofs`

- `TypeCorrect`, `RestartsAccounted`, `NoRestartIsLost`. `NoLostRestart` speaks
  of units between hooks and is not inductive: a hook holds the new accepted
  config and the queue flag in memory while the file is already changed.
  `RestartAccounted` says the same for both possible outcomes of the hook, the
  state it will leave and the state its failure falls back to, and that during
  the two waits the process runs what it was restarted with. One lemma per
  action shows that it is kept. The minimum that picks the next unit exists by
  well-foundedness of the naturals (`MinIsLeast`).
- `FlagClearedByRestart`: `FlagDue` says of a hook that is about to take back the
  published flag what `RestartAccounted` says of the two waits, and hooks only
  ever set the flag before (`HookKeepsFlag`).

`RollingTurnProofs`, under `OneRollout`: the leader stays, and at most one event
(`change`, `edit` or `depart`) makes units render another text than the one they
run. Failed hooks, timeouts, process failures and reboots are not limited.

- `RestartsAreExclusive`: `TurnInv`. A unit restarts only in its turn, with its
  own name in the leader's databag (`HookTurn`), and the leader moves the turn
  only to a unit that is queued while everyone is healthy; what makes this
  inductive is that a unit which has had its turn is never queued again, because
  nothing it renders changes any more (`EventsLeft`, `TargetQueuedOnce`,
  `QueuedOnce`), and that nothing at all is queued before the change
  (`BeforeChange`).
- `BrokenIsContained` assumes `ProcessesStayUp` besides (no process failures, no
  reboots): `CanaryInv` adds that nothing goes down but by a restart
  (`NoneGoesDown`), which versions there are (`Versions`), and that a unit which
  runs a broken version keeps the turn and is unready (`Canary`), so that the
  health gate elects nobody else.

The hypotheses are sharp. TLC refutes `RestartExclusive` with two changes, a
change and an edit, a change and a departure, or a change and an election (three
units); and `BrokenContained` with one change and one process failure, reboot,
election, departure or edit: a process that comes up again on its own loads the
broken file that already lies on its disk, and the others let a second unit have
the turn.

`RuleReconcilerProofs`

- `Invariant`: `IInv` consists of type correctness, a cache that can be merged,
  unique names in the ruler, and for each job `Coherent` (what its record means:
  the goal is the merged candidate, the candidate is what admission chose, a
  write never drops a name of its goal) and, while undisturbed, `InStep` (how
  its record stands to the ruler). Unique names are what makes `InStep`
  inductive: a POST of one group must not satisfy or undo another.
  `SettledFacts` is the heart: whatever a job does after a request, it hands
  over only a ruler equal to its goal.
- `TypeCorrect`, `WorkAccounted`, `AcceptanceIsExact`, `UpdatesLeaveNoGap`,
  `OnlyOwnersWithdraw` follow from `IInv`.
- `RecoveryIsComplete` needs `NearInv` on top: the names in which the ruler
  differs from what was captured are at most as many as the mutations made in
  this batch, and each request of a recovery takes one of them away; hence the
  batch of a recovery cannot end before its work does.
- `CachesDecode`: unique names and the limit of groups are part of `IInv`; the
  limit of bytes is `LimitInv`, about every snapshot that is cached, read, kept or
  about to be cached. A candidate fits because of the admission (`CandidateFits`):
  the set it chooses exists, since whether a source is admitted depends on those
  before it alone (`AdmissionExists`, by the first source at which it would not);
  the last one admitted was weighed with all the others; and a candidate without
  any is what the last cache had, or less (`WeightGrows`).
- `NamespaceIsImplemented`: the initial states map to initial states, and each
  step to one of `RuleNamespace` or a stutter (one lemma per kind of step, from
  `ReadOpens` to `CorruptionForgets`). `IInv` says what is complete while a job is
  alone; `AimInv` adds what holds even when it is not: a job has left to post only
  groups it wants, and to delete only names it does not want, so that a request
  made from stale data still sets a name to what the job wants there.
- `NamesAreOldOrNew`: in the refinement, what a job that is alone has not yet
  changed is as it was found, and what it has changed is as it is wanted, so
  that turning back leads through the same states.
- `RequestsRunOut`: `RequestsLeft` counts what a job may still send: the batch it
  is in, one recovery, and one replay with a recovery of its own. Every request
  makes it less and nothing makes it more, so a reconciliation ends within
  `MAX_RECONCILE_API_OPERATIONS`. The code never compares anything with that
  number; its own counters are per attempt (`RequestsBounded`).

`UnitStatusProofs`

- `TypeCorrect`, `IncompletionIsShown`: the invariant is inductive as it stands.
  One lemma per part of a handler, one per handler, and one each for the hooks,
  the hooks that raise, and the environment (`Sound`: what each may leave behind).
- `UpdateStatusRepairs`: an action property, by cases over what update-status
  finds; `DeliveredTells` is its core: the rules, run last, leave the right one of
  the two statuses whatever the rollout did in between.

`EndpointPublicationProofs`

- `TypeCorrect`: one lemma per operator of the clients and one per action.
- `DeletedStaysUnlisted`, `SourcesAreAccounted`: inductive with the types; the
  second is an action property of each change of the datastore.
- `ExchangeIsFollowed`, `PublishedStaysCurrent`: an entry that is not what its
  unit offers needs a reason, and the reasons must survive every other step.
  `IInv` adds to the types, for each unit, that an entry is what the unit offers
  with the path it has recorded and the leadership it had (`FromBasis`), that the
  recorded path is what a hook reads unless a hook will record it (`Recorded`), and
  that a hook for a removed ingress is scheduled only when it is gone
  (`BrokenIsGone`), so that wiping the recorded path cannot hide a live one.
- `DirectoryIsImplemented`: the initial states map to initial states, and each
  hook that publishes is one `Publish` of the directory or a stutter; no invariant
  but the types is needed.

`DataDirectoryProofs`

- `TypeCorrect`, `DirectoryAgrees`: `Shape` says that the destination of a copy
  exists, that nothing local is nested, and that the last step of a hook finds the
  path as the hook wants it. Neither writes nor interruptions disturb it.
- `NothingIsLost`, assuming `WritesDuringMove = FALSE` (the statement is false
  without it, section 3): `CopyInProgress` says that each local file is in the copy
  or still to be copied, and during the deletion that what is to be deleted is
  exactly what is local and all of it is in the copy. An interruption forgets
  both lists; the invariant survives because it speaks of them only in the two
  steps that use them.
- `FirstAttachmentKeepsView`: `Undisturbed` follows the life of the storage
  before, during and after the first attachment; that the storage is empty when
  the move begins is what rules out a nested directory and an error.

`FormatsProofs`: `TypeCorrect` says that the value considered is an input, and
every property holds of every input.

- `RewritesAreDifferences`: `ValueOfAmounts` says that the seconds counted by
  `_duration_value` are what the tokens of each unit amount to, for token
  sequences of any length (seven folds over one sequence, compared on a smallest
  set of positions); `MeaningIsValue` that carrying keeps them; `ReadingsUnique`
  that days, hours, minutes and seconds in range are determined by them.
- `CachesRoundTrip`: `AcceptedAgain`, a snapshot accepted as a payload in any form
  is accepted from the cache in the form that now fits. The sums stay opaque: the
  same text is measured by both sides.
- `RequestsAreBounded`: no attempt makes more requests than it is granted
  (`AttemptBounded`), and a reconciliation makes at most four.
- `StorageAgreesAlways`: `SchemaOfOneStore` follows the loop over the migrations;
  `StorageOf` says where a rendered configuration has its client from.
- `S3SchemeAgreesAlways`: one text, read twice. `StrippedIs` and `Accepted` say
  what an accepted text looks like once its slashes are gone: a scheme or none, a
  host and at most one port; `OnePort` that the port which is found is the only one
  that the text names; `ReadingsAgree` compares this with what `_s3_is_insecure`
  sees in the whole text, which is where the bare scheme splits off.
- `AdvertisedAreUsedAlways`: `WrittenIsRead` follows one unit's URL through its
  databag, of either schema, and back through each of the two parsers on its own.
- `SentRulesAreMerged`: every group of a directory carries the parts of the topology
  that is used at the head of its name (`FileSends`, `DirSends`, by the first file
  after which it would not), and extra labels leave names and validity alone
  (`InjectedGroups`, `SentGroups`). So groups of two applications that both use
  their topology differ in one of the first three parts (`NamesApart`); every other
  collision is one of `Collide`, and each of those makes the merge fail. That no two
  applications have one topology is what Juju guarantees (`ConsumersAssumption`). A
  well-formed group is one that is accepted (`SentIsParsed`). The documents are as
  many and as long as the limits allow (`WithinLimits`, which the statement assumes:
  what exceeds them is refused).

Checked by TLC only: liveness (`RolloutCompletes`, `Converges`, `Settles`,
`DatasourcesFollow`, `ForwardersFollow`, `PromtailFollows`, `HooksEnd`), since the
provers have no rule for fairness. Whatever else a passing run checks is proved.

## 5. Not modelled

`RollingRestart` and `RuleReconciler` are not composed. Where they meet, a restart
of Loki under a reconciliation, each is open to anything the other may do: the
ruler fails, or loses a request, whenever it may (`ReadFails`, `MutationFails`),
and the end of `UnitStatus`'s delivery of rules is open while Loki starts.
`RollingRestart` has no abstract specification of its own: under two changes or
two leaders the code keeps no promise of a turn (`rolling_concurrent`), and under
one of each the promise is `RestartExclusive` and `BrokenContained`.

Left out altogether: package installation and refresh (I/O); in the vendored
libraries the classes no part of this charm uses (of `AlertmanagerProvider` only
what it writes is in `Written`), the
validation of charm metadata, events and their serialisation, the download of the
Promtail binary, `cos-tool` (an external binary that rewrites expressions), and
`LokiPushApiProvider.alerts`, which only reformats what the charm reads on its
own; `loki_ops_manager.py` (not imported), `tools/`, and the contents of log data.
