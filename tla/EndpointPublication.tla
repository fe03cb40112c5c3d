------------------------ MODULE EndpointPublication ------------------------
(***************************************************************************)
(* How the units of the charm publish where Loki is reached, and how the   *)
(* applications at the other end of the relations follow: the push API     *)
(* endpoint in the unit databag of every `loki_push_api' relation, the     *)
(* datasource host in that of `grafana-source', the datasource UIDs the    *)
(* leader passes on over `send-datasource', and the ingress (Traefik) that *)
(* forwards to each unit.                                                  *)
(*                                                                         *)
(* Every hook is one step: what it writes to a databag is committed when   *)
(* it ends.  The hooks a unit has yet to run are in `pending' (those of    *)
(* the clients in `due' and `grafanaDue'), and Juju may run them in any    *)
(* order.  A unit reads the databags as they are when its hook runs, so a  *)
(* hook may see what a later hook is still to be told about.               *)
(***************************************************************************)
EXTENDS Naturals, LogClients, GrafanaSource

CONSTANTS
  Units,       \* units of the charm
  Relations,   \* loki_push_api relations
  Forwarders,  \* those whose client is a LogForwarder; the others run Promtail
  Early,       \* those that have settled before the behaviour starts
  External,    \* values of the option external-url
  Ingress,     \* paths the ingress may give a unit
  None,
  MaxChanges   \* bound on the number of changes of the surroundings

ASSUME RelationsAssumption == Forwarders \subseteq Relations /\ Early \subseteq Relations
ASSUME NoneAssumption == None \notin External \cup Ingress \cup Units
ASSUME BoundAssumption == MaxChanges \in Nat

VARIABLES
  members,     \* the units that have not departed
  leader,      \* the leader, None between its departure and the election
  external,    \* the option external-url, None when it is empty
  related,     \* the established loki_push_api relations
  ingressed,   \* the ingress relation is established
  forwarded,   \* Traefik's application databag: the path of each unit
  known,       \* StoredState current_urls of each unit: its own path
  asked,       \* the units that have published their ingress requirements
  push,        \* the endpoint in the unit databag, per relation and unit
  promtail,    \* the relations whose application databag has the binary URL
  host,        \* grafana_source_host in the unit databag
  exchange,    \* the units whose UID the leader passes on
  pending,     \* the hooks each unit has yet to run
  due,         \* the hooks the client of each relation has yet to run
  grafanaDue,  \* the hooks Grafana has yet to run
  targets,     \* the log targets of each LogForwarder
  proxy,       \* the Promtail of each LogProxyConsumer
  grafana,     \* the datastore of Grafana
  changes,     \* number of changes of the surroundings so far
  basis,       \* history: what each entry was last written from: the leadership,
               \* and whether the requirer had recorded the path
  missed       \* history: an election lost the event that would update `exchange'

lokiVars    == <<push, promtail, host, exchange>>
clientVars  == <<targets, proxy, due>>
grafanaVars == <<grafana, grafanaDue>>
ingressVars == <<ingressed, forwarded, known, asked>>
worldVars   == <<members, leader, external, related>>
ghostVars   == <<basis, missed>>
vars == <<lokiVars, clientVars, grafanaVars, ingressVars, worldVars, ghostVars,
          pending, changes>>

(* IngressPerUnitRequirer.url: a relation is listed until the unit has run  *)
(* its relation-broken hook.                                                *)
View(u) == IF ingressed \/ <<"ingress broken">> \in pending[u] THEN forwarded[u] ELSE None

Dir == INSTANCE EndpointDirectory WITH view <- [u \in Units |-> View(u)], entry <- push

Offer(u, v)   == Dir!Offer(external, u = leader, v, u)
BaseUrl(u, v) == Dir!BaseUrl(external, v, u)

UnitHooks == {<<"runtime">>, <<"ingress changed">>, <<"ingress broken">>, <<"grafana source">>}
             \cup { <<"joined", r>> : r \in Relations }
             \cup { <<"changed", r>> : r \in Relations }

(* The units a client sees: one that departed stays until its departed hook. *)
Visible(dues) == members \cup (dues \cap Units)

Mapped(urls) == UNION { [S -> urls] : S \in SUBSET Units }

Datastore == [sources : Mapped(Dir!Offers), toDelete : SUBSET Units, uids : SUBSET Units,
              failed : BOOLEAN]

Promtail == [service : BOOLEAN, clients : SUBSET Dir!Offers, running : SUBSET Dir!Offers,
             failed : BOOLEAN]

TypeOK ==
  /\ members \subseteq Units
  /\ leader \in members \cup {None}
  /\ external \in External \cup {None}
  /\ related \subseteq Relations
  /\ ingressed \in BOOLEAN
  /\ forwarded \in [Units -> Ingress \cup {None}]
  /\ known \in [Units -> Ingress \cup {None}]
  /\ asked \subseteq Units
  /\ push \in [Relations -> [Units -> Dir!Offers]]
  /\ promtail \subseteq Relations
  /\ host \in [Units -> Dir!Offers]
  /\ exchange \subseteq Units
  /\ pending \in [Units -> SUBSET UnitHooks]
  /\ due \in [Relations -> SUBSET ({"changed"} \cup Units)]
  /\ grafanaDue \subseteq {"changed"} \cup Units
  /\ targets \in [Relations -> Mapped(Dir!Offers \cup {Off})]
  /\ proxy \in [Relations -> Promtail]
  /\ grafana \in Datastore
  /\ changes \in 0..MaxChanges
  /\ basis \in [Relations -> [Units -> [lead : BOOLEAN, recorded : BOOLEAN]]]
  /\ missed \in BOOLEAN

-----------------------------------------------------------------------------
(* A settled application: two settled senders of logs and a settled Grafana. *)
Init ==
  /\ members = Units
  /\ leader \in Units
  /\ external \in External \cup {None}
  /\ related = Early
  /\ ingressed = TRUE
  /\ forwarded = [u \in Units |-> None]
  /\ known = [u \in Units |-> None]
  /\ asked = Units
  /\ push = [r \in Relations |-> [u \in Units |->
               IF r \in Early THEN Dir!Offer(external, u = leader, None, u) ELSE None]]
  /\ promtail = Early
  /\ host = [u \in Units |-> Dir!Offer(external, u = leader, None, u)]
  /\ grafana = SourcesChanged(NoDatastore, Hosts(host, Units, None))
  /\ exchange = grafana.uids
  /\ pending = [u \in Units |-> {}]
  /\ due = [r \in Relations |-> {}]
  /\ grafanaDue = {}
  /\ targets = [r \in Relations |->
                  IF r \in Early \cap Forwarders
                  THEN UpdateLogging(<< >>, push[r], None) ELSE << >>]
  /\ proxy = [r \in Relations |->
                IF r \in Early \ Forwarders
                THEN SetUp(NoProxy, LokiEndpoints(push[r], None), TRUE) ELSE NoProxy]
  /\ changes = 0
  /\ basis = [r \in Relations |-> [u \in Units |-> [lead |-> u = leader, recorded |-> TRUE]]]
  /\ missed = FALSE

-----------------------------------------------------------------------------
(* What a unit writes.                                                      *)

(* update_endpoint on the relations R.                                      *)
UpdateEndpoint(p, u, R, url) ==
  [r \in Relations |-> IF r \in R THEN [p[r] EXCEPT ![u] = url] ELSE p[r]]

(* The library's own relation-changed handler runs before the charm's, in a *)
(* fresh process that knows no custom URL, and writes the host name.        *)
ProcessRelationChanged(p, u, r) == UpdateEndpoint(p, u, {r}, <<"fqdn", u>>)

(* Mutant of RefreshEndpoint: the leadership guard is missing.              *)
RefreshEndpointByAll(p, u, R, v) == UpdateEndpoint(p, u, R, BaseUrl(u, v))

(* _refresh_loki_provider_endpoint, and with an external URL on a unit that *)
(* is not the leader _clear_loki_provider_endpoint.                         *)
RefreshEndpoint(p, u, R, v) == UpdateEndpoint(p, u, R, Offer(u, v))

Based(u, R, seen) ==
  [r \in Relations |-> IF r \in R
                      THEN [basis[r] EXCEPT ![u] = [lead |-> u = leader, recorded |-> seen]]
                      ELSE basis[r]]

(* The full refresh of the endpoint and of the Grafana host.                *)
RefreshAll(u, v, seen) ==
  /\ push' = RefreshEndpoint(push, u, related, v)
  /\ host' = [host EXCEPT ![u] = Offer(u, v)]
  /\ basis' = Based(u, related, seen)

(* Mutant of UpdateExchange: a UID that is gone stays in the payload.       *)
UpdateExchangeGrowing(u) ==
  IF u = leader THEN exchange' = exchange \cup grafana.uids /\ missed' = FALSE
  ELSE UNCHANGED <<exchange, missed>>

(* _update_datasource_exchange: by the leader only.                         *)
UpdateExchange(u) ==
  IF u = leader THEN exchange' = grafana.uids /\ missed' = FALSE
  ELSE UNCHANGED <<exchange, missed>>

(* A changed databag triggers a relation-changed hook at the other end.     *)
NotifyClients ==
  /\ due' = [r \in Relations |->
               IF push'[r] # push[r] \/ (r \in promtail') # (r \in promtail)
               THEN due[r] \cup {"changed"} ELSE due[r]]
  /\ grafanaDue' = IF host' # host THEN grafanaDue \cup {"changed"} ELSE grafanaDue

Ran(u, hook) == pending' = [pending EXCEPT ![u] = @ \ {hook}]

-----------------------------------------------------------------------------
(* The hooks of the units.                                                  *)

(* _reconcile_runtime: every endpoint is refreshed, and the exchange unless *)
(* storage, configuration or readiness end the hook before.  start, config- *)
(* changed, upgrade-charm, the S3 and Alertmanager hooks and those of the   *)
(* peer relation that see another set of addresses.                         *)
RuntimeHook(u) ==
  /\ <<"runtime">> \in pending[u]
  /\ Ran(u, <<"runtime">>)
  /\ RefreshAll(u, View(u), View(u) = known[u])
  /\ UpdateExchange(u) \/ UNCHANGED <<exchange, missed>>
  /\ UNCHANGED <<promtail, targets, proxy, grafana, ingressVars, worldVars, changes>>
  /\ NotifyClients

(* A relation-joined hook of loki_push_api: the leader writes the URL of    *)
(* the Promtail binary.  A relation-changed hook follows.                   *)
PushJoined(u, r) ==
  /\ <<"joined", r>> \in pending[u]
  /\ pending' = [pending EXCEPT ![u] = (@ \ {<<"joined", r>>}) \cup {<<"changed", r>>}]
  /\ promtail' = IF u = leader THEN promtail \cup {r} ELSE promtail
  /\ UNCHANGED <<push, host, exchange>>
  /\ UNCHANGED <<targets, proxy, grafana, ingressVars, worldVars, ghostVars, changes>>
  /\ NotifyClients

(* Mutant of ChangedEndpoint: the host name the library wrote stays.        *)
ChangedEndpointByLibrary(u, r) == ProcessRelationChanged(push, u, r)

(* The library's handler, then _on_loki_alert_rules_changed on that relation. *)
ChangedEndpoint(u, r) == RefreshEndpoint(ProcessRelationChanged(push, u, r), u, {r}, View(u))

PushChanged(u, r) ==
  /\ <<"changed", r>> \in pending[u]
  /\ Ran(u, <<"changed", r>>)
  /\ push' = ChangedEndpoint(u, r)
  /\ basis' = Based(u, {r}, View(u) = known[u])
  /\ UNCHANGED <<promtail, host, exchange, missed>>
  /\ UNCHANGED <<targets, proxy, grafana, ingressVars, worldVars, changes>>
  /\ NotifyClients

(* Mutant of IngressDiffers: only a path that was given counts.             *)
IngressDiffersReady(u, path) == path # None /\ path # known[u]

(* IngressPerUnitRequirer._handle_relation: ready_for_unit or               *)
(* revoked_for_unit is emitted when this unit's path differs from the one   *)
(* stored by the hook before, and only then the charm refreshes.            *)
IngressDiffers(u, path) == path # known[u]

IngressHook(u, hook) ==
  LET path == IF hook = <<"ingress broken">> THEN None ELSE View(u) IN
  /\ hook \in pending[u] \cap {<<"ingress changed">>, <<"ingress broken">>}
  /\ <<"ingress changed">> \in pending[u] => hook = <<"ingress changed">>
  /\ Ran(u, hook)
  /\ known' = [known EXCEPT ![u] = path]
  /\ IF IngressDiffers(u, path) THEN RefreshAll(u, path, TRUE) ELSE UNCHANGED <<push, host, basis>>
  /\ asked' = IF ingressed THEN asked \cup {u} ELSE asked
  /\ UNCHANGED <<promtail, exchange, missed, targets, proxy, grafana, ingressed, forwarded,
                 worldVars, changes>>
  /\ NotifyClients

(* A hook of grafana-source or send-datasource.  The library writes the     *)
(* host of the unit whether it is the leader or not; then the charm passes  *)
(* the UIDs on.                                                             *)
GrafanaHook(u) ==
  /\ <<"grafana source">> \in pending[u]
  /\ Ran(u, <<"grafana source">>)
  /\ host' = [host EXCEPT ![u] = BaseUrl(u, View(u))]
  /\ UpdateExchange(u)
  /\ UNCHANGED <<push, promtail, basis>>
  /\ UNCHANGED <<targets, proxy, grafana, ingressVars, worldVars, changes>>
  /\ NotifyClients

-----------------------------------------------------------------------------
(* The hooks of the other applications.                                     *)

ClientHook(r, hook) ==
  LET entries == Restrict(push[r], Visible(due[r] \ {hook}))
      urls    == LokiEndpoints(entries, None)
  IN /\ r \in related /\ hook \in due[r] /\ ~proxy[r].failed
     /\ due' = [due EXCEPT ![r] = @ \ {hook}]
     /\ IF r \in Forwarders
        THEN /\ targets' = [targets EXCEPT ![r] = UpdateLogging(@, entries, None)]
             /\ UNCHANGED proxy
        ELSE /\ proxy' = [proxy EXCEPT ![r] =
                            IF hook = "changed" THEN ProxyChanged(@, urls, r \in promtail)
                            ELSE ProxyDeparted(@, urls)]
             /\ UNCHANGED targets
     /\ UNCHANGED <<lokiVars, grafanaVars, ingressVars, worldVars, ghostVars, pending, changes>>

(* Grafana shares the UIDs back, which every unit is told of.               *)
GrafanaRuns(hook) ==
  /\ hook \in grafanaDue /\ ~grafana.failed
  /\ grafanaDue' = grafanaDue \ {hook}
  /\ grafana' = IF hook = "changed"
                THEN SourcesChanged(grafana, Hosts(host, Visible(grafanaDue), None))
                ELSE SourceDeparted(grafana, hook)
  /\ pending' = IF grafana'.uids = grafana.uids THEN pending
                ELSE [u \in Units |-> IF u \in members THEN pending[u] \cup {<<"grafana source">>}
                                      ELSE pending[u]]
  /\ UNCHANGED <<lokiVars, clientVars, ingressVars, worldVars, ghostVars, changes>>

-----------------------------------------------------------------------------
(* The surroundings.  Each change but an election that fills the vacant     *)
(* leadership counts against MaxChanges.                                    *)

Change == changes < MaxChanges /\ changes' = changes + 1

Schedule(us, hook) ==
  pending' = [u \in Units |-> IF u \in us \cap members THEN pending[u] \cup {hook} ELSE pending[u]]

SetExternal(e) ==
  /\ Change /\ e # external
  /\ external' = e
  /\ Schedule(members, <<"runtime">>)
  /\ UNCHANGED <<lokiVars, clientVars, grafanaVars, ingressVars, ghostVars,
                 members, leader, related>>

(* A hook of _reconcile_runtime for another reason.                         *)
Reconfigure(u) ==
  /\ Change /\ u \in members
  /\ Schedule({u}, <<"runtime">>)
  /\ UNCHANGED <<lokiVars, clientVars, grafanaVars, ingressVars, worldVars, ghostVars>>

Relate(r) ==
  /\ Change /\ r \notin related
  /\ related' = related \cup {r}
  /\ Schedule(members, <<"joined", r>>)
  /\ due' = [due EXCEPT ![r] = {"changed"}]
  /\ UNCHANGED <<lokiVars, targets, proxy, grafanaVars, ingressVars, ghostVars,
                 members, leader, external>>

(* The client's data changes: its alert rules, for one.                     *)
Republish(r) ==
  /\ Change /\ r \in related
  /\ Schedule(members, <<"changed", r>>)
  /\ UNCHANGED <<lokiVars, clientVars, grafanaVars, ingressVars, worldVars, ghostVars>>

(* leader-elected: the ingress library repeats the unit's requirements and  *)
(* the charm reconciles rules; no endpoint is refreshed.                    *)
Elect(u) ==
  /\ u \in members /\ u # leader
  /\ IF leader = None THEN UNCHANGED changes ELSE Change
  /\ leader' = u
  /\ asked' = IF ingressed THEN asked \cup {u} ELSE asked
  /\ missed' = (missed \/ (exchange # grafana.uids /\ <<"grafana source">> \notin pending[u]))
  /\ UNCHANGED <<lokiVars, clientVars, grafanaVars, ingressed, forwarded, known, members,
                 external, related, basis, pending>>

(* A unit leaves: the others see another set of peer addresses, the clients *)
(* and Grafana get a departed hook.                                         *)
Depart(u) ==
  /\ Change /\ u \in members /\ members # {u}
  /\ members' = members \ {u}
  /\ leader' = IF leader = u THEN None ELSE leader
  /\ pending' = [v \in Units |-> IF v = u THEN {}
                                 ELSE IF v \in members THEN pending[v] \cup {<<"runtime">>}
                                 ELSE pending[v]]
  /\ due' = [r \in Relations |-> IF r \in related THEN due[r] \cup {u} ELSE due[r]]
  /\ grafanaDue' = grafanaDue \cup {u}
  /\ asked' = asked \ {u}
  /\ UNCHANGED <<lokiVars, targets, proxy, grafana, ingressed, forwarded, known, ghostVars,
                 external, related>>

(* Traefik (publish_url, wipe_ingress_data): a path for one unit that asked *)
(* for it, or no path for any.                                              *)
PublishUrl(u, path) ==
  /\ Change /\ ingressed /\ u \in asked /\ forwarded[u] # path
  /\ forwarded' = [forwarded EXCEPT ![u] = path]
  /\ Schedule(members, <<"ingress changed">>)
  /\ UNCHANGED <<lokiVars, clientVars, grafanaVars, worldVars, ghostVars, ingressed, known, asked>>

WipeIngressData ==
  /\ Change /\ ingressed /\ \E u \in Units : forwarded[u] # None
  /\ forwarded' = [u \in Units |-> None]
  /\ Schedule(members, <<"ingress changed">>)
  /\ UNCHANGED <<lokiVars, clientVars, grafanaVars, worldVars, ghostVars, ingressed, known, asked>>

RemoveIngress ==
  /\ Change /\ ingressed
  /\ ingressed' = FALSE
  /\ asked' = {}
  /\ Schedule(members, <<"ingress broken">>)
  /\ UNCHANGED <<lokiVars, clientVars, grafanaVars, worldVars, ghostVars, forwarded, known>>

Surroundings ==
  \/ \E e \in External \cup {None} : SetExternal(e)
  \/ \E u \in Units : Reconfigure(u) \/ Depart(u) \/ Elect(u)
  \/ \E r \in Relations : Relate(r) \/ Republish(r)
  \/ \E u \in Units, path \in Ingress : PublishUrl(u, path)
  \/ WipeIngressData \/ RemoveIngress

UnitStep(u) ==
  \/ RuntimeHook(u) \/ GrafanaHook(u)
  \/ \E r \in Relations : PushJoined(u, r) \/ PushChanged(u, r)
  \/ \E hook \in {<<"ingress changed">>, <<"ingress broken">>} : IngressHook(u, hook)

ClientStep(r) == \E hook \in {"changed"} \cup Units : ClientHook(r, hook)
GrafanaStep   == \E hook \in {"changed"} \cup Units : GrafanaRuns(hook)

Next ==
  \/ Surroundings
  \/ \E u \in Units : UnitStep(u)
  \/ \E r \in Relations : ClientStep(r)
  \/ GrafanaStep

Spec == Init /\ [][Next]_vars

(* Juju runs every hook it has scheduled, and fills a vacant leadership.    *)
FairSpec ==
  /\ Spec
  /\ \A u \in Units : WF_vars(UnitStep(u))
  /\ \A r \in Relations : WF_vars(ClientStep(r))
  /\ WF_vars(GrafanaStep)
  /\ WF_vars(leader = None /\ \E u \in Units : Elect(u))

-----------------------------------------------------------------------------
(* Every entry of the directory is what its unit offers now, unless a hook  *)
(* that will refresh it is scheduled, or the entry was written from one of  *)
(* two things that have changed unnoticed: the unit's leadership, for which *)
(* the charm has no refresh (charm._on_leader_elected), or a path of the    *)
(* ingress the requirer had not recorded, so that the loss of the path is   *)
(* no difference to it (IngressPerUnitRequirer._handle_relation).           *)
Refreshing(u, r) ==
  \/ <<"runtime">> \in pending[u]
  \/ {<<"joined", r>>, <<"changed", r>>} \cap pending[u] # {}
  \/ known[u] # View(u) /\ <<"ingress changed">> \in pending[u]

PublishedIsCurrent ==
  \A u \in members, r \in related :
     \/ push[r][u] = Offer(u, View(u))
     \/ Refreshing(u, r)
     \/ basis[r][u].lead # (u = leader)
     \/ ~basis[r][u].recorded

(* The exchange lists the UIDs Grafana shared, or the leader has yet to run *)
(* the hook that updates it, or an election passed the leadership to a unit *)
(* that had run that hook before (charm._update_datasource_exchange).       *)
ExchangeFollows ==
  \/ exchange = grafana.uids
  \/ leader # None /\ <<"grafana source">> \in pending[leader]
  \/ leader = None
  \/ missed

(* A datasource on the list of those to delete is not listed as a source:   *)
(* Grafana would remove what Loki publishes                                 *)
(* (GrafanaSourceConsumer._get_source_config).                              *)
DeletedNotListed == grafana.toDelete \cap DOMAIN grafana.sources = {}

(* A source that is no longer listed is on the list of those to delete      *)
(* (GrafanaSourceConsumer._sources_to_delete, _remove_source).              *)
NoSourceForgotten ==
  [][DOMAIN grafana.sources \subseteq DOMAIN grafana'.sources \cup grafana'.toDelete]_vars

(* In the end Grafana lists the hosts its units publish, unless a departed  *)
(* hook failed on a unit that was not listed.                               *)
DatasourcesFollow ==
  <>[](grafana.failed \/ grafana.sources = Hosts(host, members, None))

(* In the end a LogForwarder sends to the endpoint of every unit and to no  *)
(* other, if every unit publishes one.                                      *)
ForwardersFollow ==
  \A r \in Forwarders :
    <>[](r \in related /\ (\A u \in members : push[r][u] # None)
           => Enabled(targets[r]) = Restrict(push[r], members))

(* In the end Promtail sends to every published endpoint and to no other,   *)
(* if it could be set up and there is one.                                  *)
PromtailFollows ==
  \A r \in Relations \ Forwarders :
    LET urls == LokiEndpoints(Restrict(push[r], members), None) IN
    <>[](r \in related /\ r \in promtail /\ ~proxy[r].failed /\ urls # {}
           => proxy[r].running = urls)

(* The detailed specification implements the directory.                     *)
ImplementsDirectory == Dir!Spec

(* README.md:443-448: with external-url set, the leader publishes it.       *)
LeaderPublishes ==
  \A r \in Early :
    <>[](external # None => \E u \in members : push[r][u] = <<"external", external>>)

(* The comment before GrafanaSourceConsumer._publish_source_uids in the     *)
(* departed hook: the names shared back are those after the removal.        *)
UidsAreListed ==
  <>[](~grafana.failed => grafana.uids = DOMAIN grafana.sources)
=============================================================================
