------------------------------ MODULE Formats ------------------------------
(***************************************************************************)
(* The pure parts of the charm, composed: one value at a time arrives from *)
(* a relation or from the operator, and every module answers for it.       *)
(***************************************************************************)
EXTENDS RuleFormats, AlertRules, ConfigBuilder, Addresses

CONSTANTS
  Caches,        \* snapshots by relation id, with the ratio of compression
  SpelledRules,  \* pairs of a rule in the ruler and the same rule as offered
  Reconciles,    \* the work and the faults of a reconciliation's four attempts
  Consumers,     \* the rule files of related applications and their options
  Deployments,   \* the s3 relation, the planned units and the settings
  Alertmanagers  \* the Alertmanager units

ASSUME ValuesAssumption ==
  /\ \A c \in Caches : c.kind = "cache" /\ c.ratio \in Nat \ {0}
  /\ \A c \in SpelledRules : c.kind = "rules"
  /\ \A c \in Reconciles : c.kind = "reconcile" /\ DOMAIN c.tries = 1..4
  /\ \A c \in Consumers : c.kind = "consumers"
  /\ \A c \in Deployments : c.kind = "deployment"
  /\ \A c \in Alertmanagers : c.kind = "alertmanagers"

(* What YAML and Python admit as a duration, a number of mutations, a      *)
(* migration and the settings.                                             *)
Durations == Seq(Nat \X DOMAIN Seconds)

ASSUME FieldsAssumption ==
  /\ \A c \in SpelledRules : {c.live.wait, c.offered.wait} \subseteq {Unset} \cup Durations
  /\ Batch \in Nat
  /\ \A c \in Reconciles : \A i \in 1..4 :
       c.tries[i].work \in Nat /\ c.tries[i].fault \in {Unset} \cup Nat
  /\ \A c \in Deployments :
       /\ "s3" \in DOMAIN c.settings
       /\ c.settings.migrations \in Seq([date : {None} \cup STRING, version : STRING])

Texts == {"alerts"} \cup STRING

SomeGroup == [name : Seq(Texts), rules : Seq(Rules)]

(* What there is of a rule file depends on its form.                       *)
RuleFile(file) ==
  /\ file.dir \in Seq(Texts)
  /\ file.form = "official" => file.groups \in Seq(SomeGroup)
  /\ file.form = "single" => file.stem \in Seq(Texts) /\ file.rule \in Rules

(* An application is identified by its model, the id of the model and its  *)
(* name; there is no underscore in any of them, and no two are the same.   *)
ASSUME ConsumersAssumption ==
  \A c \in Consumers : \A r \in DOMAIN c.apps : LET app == c.apps[r] IN
    /\ app.topology \in Seq(Texts) /\ Len(app.topology) = 3
    /\ \A s \in DOMAIN c.apps : c.apps[s].topology = app.topology => s = r
    /\ {app.skip, app.forward, app.recursive} \subseteq BOOLEAN
    /\ app.extra \in {"absent", "texts", "other"}
    /\ Len(app.files) \in Nat /\ DOMAIN app.files = 1..Len(app.files)
    /\ \A i \in DOMAIN app.files : RuleFile(app.files[i])

Tokens == Delimiters \cup {"http"} \cup STRING

(* The required fields of the relation are not blank.                      *)
ASSUME EndpointsAssumption ==
  /\ DOMAIN Number \cap Delimiters = {}
  /\ \A c \in Deployments : c.relation # Absent =>
       c.relation.endpoint \in Seq(Tokens) /\ c.relation.endpoint # <<>>

(* An Alertmanager unit is Gone, has not yet written anything, or          *)
(* advertises a URL through the schema of its library's version; one of    *)
(* the older schema leaves the default scheme out or not, and advertises   *)
(* no more than fits in.                                                   *)
ASSUME AlertmanagersAssumption ==
  \A c \in Alertmanagers : \A u \in DOMAIN c.units : LET unit == c.units[u] IN
    unit # Gone =>
      /\ unit.schema \in {"none", "v0", "v0-default", "v1"}
      /\ unit.schema # "none" => Absent \notin {unit.url, unit.url.address, unit.url.scheme}
      /\ unit.schema \in {"v0", "v0-default"} =>
           unit.url = [scheme |-> unit.url.scheme, address |-> unit.url.address, rest |-> Absent]
      /\ unit.schema = "v0-default" => unit.url.scheme = "http"

(* The data that a unit's library writes for the URL of the unit.          *)
Written(unit) ==
  IF unit = Gone THEN Gone
  ELSE IF unit.schema = "none" THEN NoData
  ELSE IF unit.schema = "v1" THEN Provided(unit.url)
  ELSE [url |-> Absent, public_address |-> unit.url.address,
        scheme |-> IF unit.schema = "v0" THEN unit.url.scheme ELSE Absent]

(* Unset, None, Absent and Gone stand for what is missing, Raised for an   *)
(* error; none is data.                                                    *)
ASSUME MissingAssumption ==
  /\ \A c \in Alertmanagers : \A u \in DOMAIN c.units :
       c.units[u] # Gone => Gone # Written(c.units[u])
  /\ Raised \notin Seq(SomeGroup)
  /\ \A c \in SpelledRules : \A d \in {c.live.wait, c.offered.wait} \ {Unset} :
       Unset # <<DurationValue(d)>>
  /\ None \notin {"s3", "filesystem"}
  /\ \A c \in Deployments :
       /\ None # Dir(c.settings, "ruler-tmp")
       /\ c.relation # Absent =>
            [endpoint |-> Endpoint(c.relation.endpoint),
             insecure |-> Insecure(c.relation.endpoint)] \notin {Absent, None}

VARIABLE value \* the value under consideration, or Unset

Inputs == {Caches, SpelledRules, Reconciles, Consumers, Deployments, Alertmanagers}

Init == value = Unset

Arrive == value = Unset /\ \E inputs \in Inputs : value' \in inputs

Answer == value # Unset /\ value' = Unset

Next == Arrive \/ Answer

Spec == Init /\ [][Next]_value

Is(kind) == value # Unset /\ value.kind = kind

-----------------------------------------------------------------------------
(***************************************************************************)
(* Rules.                                                                  *)
(***************************************************************************)

(* A cache that the leader writes is read back by its successor as it was: *)
(* every limit that Encode lets through, Decode accepts, for snapshots     *)
(* that were accepted from a payload (_encode_cache, _decode_cache).       *)
CacheRoundTrips ==
  Is("cache") =>
    LET text == Encode(value.snapshots, value.ratio) IN
    (/\ \A r \in DOMAIN value.snapshots :
          Parse(Text(value.snapshots[r], value.form, value.ratio)) # Rejected
     /\ text # Rejected)
      => Decode(text, value.ratio) = value.snapshots

(* The length of a duration by carrying from unit to unit, as days, hours, *)
(* minutes and seconds.                                                    *)
Meaning(duration) ==
  LET Sum(unit) == FoldLeft(LAMBDA n, t : IF t[2] = unit THEN n + t[1] ELSE n, 0, duration)
      minutes == Sum("m") + (Sum("s") \div 60)
      hours == Sum("h") + (minutes \div 60)
  IN  <<365 * Sum("y") + 7 * Sum("w") + Sum("d") + (hours \div 24),
        hours % 24, minutes % 60, Sum("s") % 60>>

Nothing(wait) == wait = Unset \/ Meaning(wait) = <<0, 0, 0, 0>>

(* The ruler's copy of a group is rewritten exactly when it means something *)
(* else: spelling never causes a write and never hides a change            *)
(* (_canonical against the live namespace).                                *)
RewritesOnlyDifferences ==
  Is("rules") =>
    (Canonical(value.live) = Canonical(value.offered)
      <=> /\ IF Nothing(value.live.wait) \/ Nothing(value.offered.wait)
             THEN Nothing(value.live.wait) /\ Nothing(value.offered.wait)
             ELSE Meaning(value.live.wait) = Meaning(value.offered.wait)
          /\ (value.live.labels = "texts") = (value.offered.labels = "texts"))

(* The budget of requests never cuts off a batch, which would undo it, and  *)
(* a reconciliation with failures at every stage stays within the ceiling  *)
(* MAX_RECONCILE_API_OPERATIONS.  The README gives a lower one.            *)
RequestsBounded ==
  Is("reconcile") =>
    /\ \A i \in DOMAIN value.tries : ~Trips(value.tries[i])
    /\ ReconcileRequests(value.tries, value.persists) <= 2 * (2 + 2 * Batch)

Document(groups) ==
  [groups |-> groups, size |-> Len(groups), depth |-> 1, nodes |-> Len(groups)]

(* Every rule is one that Loki accepts, whatever labels it is given, and   *)
(* every name that the library makes is printable and short enough.        *)
WellFormed(app) ==
  /\ app.extra # "other"
  /\ app.forward =>
       \A i \in {k \in DOMAIN app.files : Picked(app.files[k], app.recursive)} :
         LET file == app.files[i] IN
         \A j \in DOMAIN Read(file) :
           /\ ValidName(GroupName(TopologyUsed(app), file.dir, Read(file)[j].name))
           /\ \A k \in DOMAIN Read(file)[j].rules :
                ValidRule(Read(file)[j].rules[k]) /\ Read(file)[j].rules[k].labels # "null"

NamesUnique(groups) ==
  \A i, j \in DOMAIN groups : groups[i].name = groups[j].name => i = j

NamesMeet(groups, others) ==
  \E i \in DOMAIN groups, j \in DOMAIN others : groups[i].name = others[j].name

(* One application repeats a name of its own, or one that publishes        *)
(* without its topology takes a name of another's.                         *)
Collide(apps) ==
  \/ \E r \in DOMAIN apps : ~NamesUnique(Sent(apps[r]))
  \/ \E r \in DOMAIN apps : \E s \in DOMAIN apps \ {r} :
       apps[r].skip /\ NamesMeet(Sent(apps[r]), Sent(apps[s]))

Documents(apps) == [r \in DOMAIN apps |-> Document(Sent(apps[r]))]

Everything(documents) == {GroupAt(documents, p) : p \in Positions(documents)}

(* The documents, each and together, are small enough.                     *)
WithinLimits(documents) ==
  LET at == Positions(documents) IN
  /\ \A r \in DOMAIN documents :
       documents[r].size < MaxValue /\ Bounded(documents[r], MaxNodes)
  /\ Cardinality(at) <= MaxGroups
  /\ MapThenSumSet(LAMBDA p : Len(GroupAt(documents, p).rules), at) <= MaxRules

(* What a charm publishes from well-formed files is accepted as it was     *)
(* sent, and within the limits two applications block one another in the   *)
(* namespace they share in exactly two cases: one repeats a name of its    *)
(* own, or one skips the topology labels and so meets a name of another's. *)
(* The topology alone keeps all other applications apart, whatever their   *)
(* files are called (AlertRules, parse_rule_groups, merge_rule_groups).    *)
SentRulesMerge ==
  Is("consumers") =>
    ((\A r \in DOMAIN value.apps : WellFormed(value.apps[r]))
      => /\ \A r \in DOMAIN value.apps : Sent(value.apps[r]) # Raised
         /\ WithinLimits(Documents(value.apps)) =>
              /\ \A r \in DOMAIN value.apps :
                   LET sent == Sent(value.apps[r])
                   IN  Parse(Text(Document(sent), "json", 1)) = sent
              /\ Merge(Documents(value.apps)) =
                   IF Collide(value.apps) THEN Rejected
                   ELSE Everything(Documents(value.apps)))

(* README.md:109-111: "A malformed or over-limit update retains that       *)
(* relation's last-known-good snapshot while valid sibling relations       *)
(* continue."  An application whose document cannot be merged alone is the *)
(* malformed one; the other is its sibling.                                *)
SiblingsContinue ==
  Is("consumers") =>
    \A r \in DOMAIN value.apps :
      (/\ \A s \in DOMAIN value.apps : WellFormed(value.apps[s])
       /\ Merge([s \in {r} |-> Document(Sent(value.apps[s]))]) # Rejected)
        => Merge(Documents(value.apps)) # Rejected

-----------------------------------------------------------------------------
(***************************************************************************)
(* The configuration of a deployment.                                      *)
(***************************************************************************)
Storage == Backend(value.relation, value.planned)

(* _render_config_text without an override                                 *)
Rendered ==
  Build([value.settings EXCEPT !.s3 = IF Storage.s3 = Absent THEN None ELSE Storage.s3])

Configurable == Is("deployment") /\ Storage.status = "ready" /\ Rendered # None

(* The sections that choose a store choose the same one, with the same     *)
(* client or directory; units of a cluster never keep chunks or rules to   *)
(* themselves; and the charm recognises its own configuration as one it    *)
(* may write rules through (_storage_backend_state, ConfigBuilder.build,   *)
(* _override_has_ruler_contract).                                          *)
StorageAgrees ==
  Configurable =>
    LET store == Rendered.storage_config.store IN
    /\ store = Rendered.ruler_storage.backend
    /\ \A i \in DOMAIN Rendered.schema_config :
         Rendered.schema_config[i].object_store = store
    /\ Rendered.compactor.delete_request_store \in {None, store}
    /\ IF store = "s3"
       THEN /\ Rendered.common.storage = None
            /\ Rendered.ruler_storage.client = Rendered.storage_config.client
       ELSE /\ Rendered.common.storage.chunks = Rendered.storage_config.client
            /\ Rendered.common.storage.rules = Rendered.ruler_storage.client
    /\ value.planned > 1 => store = "s3"
    /\ HasRulerContract(Rendered)

(* Nothing but a scheme: the slashes are stripped and it counts as a host. *)
OnlyScheme(text) == Marked(text) /\ ~Marked(Stripped(text))

(* The ports that the text names after a colon; 0 is no port.              *)
PortsGiven(text) ==
  {Number[text[i]] : i \in {k \in 2..Len(text) : text[k - 1] = ":" /\ text[k] \in DOMAIN Number}}
    \ {0}

(* Loki connects to the S3 server the way the relation's endpoint says: TLS *)
(* exactly for https, on the given port or the scheme's own.  The two       *)
(* functions read the text separately and do disagree on one sort of text   *)
(* that is accepted: a mere "https://", or "minio://", is a host at port 80 *)
(* for the one and TLS for the other (_normalize_s3_endpoint against        *)
(* _s3_is_insecure).                                                        *)
S3SchemeAgrees ==
  (Configurable /\ Storage.s3 # Absent) =>
    LET client == Rendered.storage_config.client
        text == value.relation.endpoint
    IN  IF OnlyScheme(text)
        THEN client.endpoint.port = 80 /\ (client.insecure <=> Begins(text, "http"))
        ELSE /\ ~client.insecure <=> Begins(text, "https")
             /\ IF PortsGiven(text) = {}
                THEN client.endpoint.port = IF client.insecure THEN 80 ELSE 443
                ELSE PortsGiven(text) = {client.endpoint.port}

-----------------------------------------------------------------------------
(***************************************************************************)
(* Alertmanagers.                                                          *)
(***************************************************************************)

(* Alerts go to exactly the URLs that the remaining units advertise, each  *)
(* through the schema of its own library: the charm's parser, which takes  *)
(* over when a departed unit makes the library's raise, neither loses nor  *)
(* alters the URL of a unit that stays (_generate_relation_data through    *)
(* get_cluster_info and through _alertmanager_urls_skipping_gone_units).   *)
AdvertisedAreUsed ==
  Is("alertmanagers") =>
    AlertmanagerUrls([u \in DOMAIN value.units |-> Written(value.units[u])]) =
      {value.units[u].url :
         u \in {v \in DOMAIN value.units :
                  value.units[v] # Gone /\ value.units[v].schema # "none"}}
=============================================================================
