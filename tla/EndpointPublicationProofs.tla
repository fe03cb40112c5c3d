---------------------- MODULE EndpointPublicationProofs ----------------------
(***************************************************************************)
(* Theorems about EndpointPublication, for any units, relations, clients   *)
(* and ingress paths, and any number of changes of the surroundings.       *)
(***************************************************************************)
EXTENDS EndpointPublication, Sequences, SequenceTheorems, TLAPS

-----------------------------------------------------------------------------
(***************************************************************************)
(* The operators: endpoints, and the states of the clients.                *)
(***************************************************************************)

LEMMA OfferType ==
  ASSUME NEW ext \in External \cup {None}, NEW l \in BOOLEAN,
         NEW v \in Ingress \cup {None}, NEW u \in Units
  PROVE  /\ Dir!BaseUrl(ext, v, u) \in Dir!Offers
         /\ Dir!Offer(ext, l, v, u) \in Dir!Offers
BY NoneAssumption DEF Dir!BaseUrl, Dir!Offer, Dir!Offers, Dir!Address

LEMMA ViewType ==
  ASSUME TypeOK, NEW u \in Units
  PROVE  View(u) \in Ingress \cup {None}
BY DEF TypeOK, View

LEMMA OffersOfUnit ==
  ASSUME TypeOK, NEW u \in Units, NEW v \in Ingress \cup {None}
  PROVE  Offer(u, v) \in Dir!Offers /\ BaseUrl(u, v) \in Dir!Offers
BY OfferType DEF Offer, BaseUrl, TypeOK

LEMMA MappedFacts ==
  ASSUME NEW urls, NEW f
  PROVE  f \in Mapped(urls) <=> f \in [DOMAIN f -> urls] /\ DOMAIN f \subseteq Units
<1>1. ASSUME f \in Mapped(urls)
      PROVE  f \in [DOMAIN f -> urls] /\ DOMAIN f \subseteq Units
  <2>1. PICK S \in SUBSET Units : f \in [S -> urls]
    BY <1>1 DEF Mapped
  <2> QED
    BY <2>1
<1>2. ASSUME f \in [DOMAIN f -> urls], DOMAIN f \subseteq Units
      PROVE  f \in Mapped(urls)
  BY <1>2 DEF Mapped
<1> QED
  BY <1>1, <1>2

LEMMA EmptyMapped ==
  ASSUME NEW urls
  PROVE  << >> \in Mapped(urls)
<1>1. << >> \in Seq(urls) /\ Len(<< >>) = 0
  BY EmptySeq
<1>2. << >> \in [1..0 -> urls]
  BY <1>1, LenProperties
<1>3. 1..0 = {}
  OBVIOUS
<1> QED
  BY <1>2, <1>3 DEF Mapped

LEMMA RestrictMapped ==
  ASSUME NEW urls, NEW f \in [Units -> urls], NEW S \in SUBSET Units
  PROVE  Restrict(f, S) \in Mapped(urls) /\ DOMAIN Restrict(f, S) = S
<1>1. Restrict(f, S) \in [S -> urls]
  BY DEF Restrict
<1> QED
  BY <1>1 DEF Mapped

LEMMA UpdateLoggingType ==
  ASSUME NEW targets0 \in Mapped(Dir!Offers \cup {Off}), NEW entries \in Mapped(Dir!Offers)
  PROVE  UpdateLogging(targets0, entries, None) \in Mapped(Dir!Offers \cup {Off})
<1> DEFINE active == ReadyEndpoints(entries, None)
<1>1. active \in [DOMAIN active -> Dir!Offers] /\ DOMAIN active \subseteq Units
  BY MappedFacts DEF ReadyEndpoints
<1>2. targets0 \in [DOMAIN targets0 -> Dir!Offers \cup {Off}] /\ DOMAIN targets0 \subseteq Units
  BY MappedFacts
<1>3. CASE DOMAIN active = {}
  BY <1>3 DEF UpdateLogging
<1>4. CASE DOMAIN active # {}
  <2> DEFINE new == [u \in DOMAIN active \cup DOMAIN targets0 |->
                       IF u \in DOMAIN active THEN active[u] ELSE Off]
  <2>1. new \in [DOMAIN active \cup DOMAIN targets0 -> Dir!Offers \cup {Off}]
    BY <1>1
  <2>2. UpdateLogging(targets0, entries, None) = new
    BY <1>4 DEF UpdateLogging
  <2> QED
    BY <1>1, <1>2, <2>1, <2>2 DEF Mapped
<1> QED
  BY <1>3, <1>4

LEMMA LokiEndpointsType ==
  ASSUME NEW entries \in Mapped(Dir!Offers)
  PROVE  LokiEndpoints(entries, None) \in SUBSET Dir!Offers
BY MappedFacts DEF LokiEndpoints, Range

LEMMA PromtailTypes ==
  ASSUME NEW p \in Promtail, NEW urls \in SUBSET Dir!Offers, NEW known0 \in BOOLEAN
  PROVE  /\ SetUp(p, urls, known0) \in Promtail
         /\ ProxyChanged(p, urls, known0) \in Promtail
         /\ ProxyDeparted(p, urls) \in Promtail
<1>1. SetUp(p, urls, known0) \in Promtail
  BY DEF SetUp, Promtail
<1> QED
  BY <1>1 DEF ProxyChanged, ProxyDeparted, Promtail

LEMMA NoProxyType == NoProxy \in Promtail
BY DEF NoProxy, Promtail

LEMMA HostsType ==
  ASSUME TypeOK, NEW us \in SUBSET Units
  PROVE  Hosts(host, us, None) \in Mapped(Dir!Offers)
BY RestrictMapped DEF Hosts, TypeOK

LEMMA SourcesChangedType ==
  ASSUME NEW d \in Datastore, NEW hosts \in Mapped(Dir!Offers)
  PROVE  SourcesChanged(d, hosts) \in Datastore
<1>1. DOMAIN hosts \subseteq Units /\ DOMAIN d.sources \subseteq Units
  BY MappedFacts DEF Datastore
<1> QED
  BY <1>1 DEF SourcesChanged, Datastore

LEMMA SourceDepartedType ==
  ASSUME NEW d \in Datastore, NEW u \in Units
  PROVE  SourceDeparted(d, u) \in Datastore
<1>1. DOMAIN d.sources \subseteq Units
  BY MappedFacts DEF Datastore
<1>2. Restrict(d.sources, DOMAIN d.sources \ {u}) \in Mapped(Dir!Offers)
  <2>1. Restrict(d.sources, DOMAIN d.sources \ {u}) \in [DOMAIN d.sources \ {u} -> Dir!Offers]
    BY MappedFacts DEF Restrict, Datastore
  <2> QED
    BY <1>1, <2>1 DEF Mapped
<1> QED
  BY <1>1, <1>2 DEF SourceDeparted, Datastore

-----------------------------------------------------------------------------
(***************************************************************************)
(* Type correctness.                                                       *)
(***************************************************************************)

LEMMA RanType ==
  ASSUME TypeOK, NEW u \in Units, NEW hook, Ran(u, hook)
  PROVE  pending' \in [Units -> SUBSET UnitHooks]
BY DEF TypeOK, Ran

LEMMA ScheduleType ==
  ASSUME TypeOK, NEW us, NEW hook \in UnitHooks, Schedule(us, hook)
  PROVE  pending' \in [Units -> SUBSET UnitHooks]
BY DEF TypeOK, Schedule

LEMMA NotifyType ==
  ASSUME TypeOK, NotifyClients
  PROVE  /\ due' \in [Relations -> SUBSET ({"changed"} \cup Units)]
         /\ grafanaDue' \subseteq {"changed"} \cup Units
BY DEF TypeOK, NotifyClients

LEMMA BasedType ==
  ASSUME TypeOK, NEW u \in Units, NEW R, NEW seen \in BOOLEAN
  PROVE  Based(u, R, seen) \in [Relations -> [Units -> [lead : BOOLEAN, recorded : BOOLEAN]]]
<1>1. [lead |-> u = leader, recorded |-> seen] \in [lead : BOOLEAN, recorded : BOOLEAN]
  OBVIOUS
<1> QED
  BY <1>1 DEF TypeOK, Based

LEMMA UpdateEndpointType ==
  ASSUME NEW p \in [Relations -> [Units -> Dir!Offers]], NEW u \in Units, NEW R,
         NEW url \in Dir!Offers
  PROVE  UpdateEndpoint(p, u, R, url) \in [Relations -> [Units -> Dir!Offers]]
BY DEF UpdateEndpoint

LEMMA RefreshAllType ==
  ASSUME TypeOK, NEW u \in Units, NEW v \in Ingress \cup {None}, NEW seen \in BOOLEAN,
         RefreshAll(u, v, seen)
  PROVE  /\ push' \in [Relations -> [Units -> Dir!Offers]]
         /\ host' \in [Units -> Dir!Offers]
         /\ basis' \in [Relations -> [Units -> [lead : BOOLEAN, recorded : BOOLEAN]]]
<1>1. push' \in [Relations -> [Units -> Dir!Offers]]
  BY OffersOfUnit, UpdateEndpointType DEF RefreshAll, RefreshEndpoint, TypeOK
<1>2. host' \in [Units -> Dir!Offers]
  BY OffersOfUnit DEF RefreshAll, TypeOK
<1>3. basis' \in [Relations -> [Units -> [lead : BOOLEAN, recorded : BOOLEAN]]]
  BY BasedType DEF RefreshAll
<1> QED
  BY <1>1, <1>2, <1>3

\* The endpoint the library writes first is overwritten in the same hook.
LEMMA ChangedEndpointIs ==
  ASSUME TypeOK, NEW u \in Units, NEW r \in Relations
  PROVE  ChangedEndpoint(u, r) = [push EXCEPT ![r][u] = Offer(u, View(u))]
<1> DEFINE first == ProcessRelationChanged(push, u, r)
<1>1. first = [push EXCEPT ![r][u] = <<"fqdn", u>>]
  BY DEF ProcessRelationChanged, UpdateEndpoint, TypeOK
<1>2. RefreshEndpoint(first, u, {r}, View(u)) =
        [q \in Relations |-> IF q = r THEN [first[q] EXCEPT ![u] = Offer(u, View(u))]
                             ELSE first[q]]
  BY DEF RefreshEndpoint, UpdateEndpoint
<1>3. [first[r] EXCEPT ![u] = Offer(u, View(u))] = [push[r] EXCEPT ![u] = Offer(u, View(u))]
  BY <1>1 DEF TypeOK
<1>4. \A q \in Relations : q # r => first[q] = push[q]
  BY <1>1 DEF TypeOK
<1> HIDE DEF first
<1> QED
  BY <1>2, <1>3, <1>4 DEF ChangedEndpoint, first, TypeOK

LEMMA UpdateExchangeType ==
  ASSUME TypeOK, NEW u, UpdateExchange(u) \/ UNCHANGED <<exchange, missed>>
  PROVE  exchange' \subseteq Units /\ missed' \in BOOLEAN
BY DEF TypeOK, UpdateExchange, Datastore

LEMMA InitType ==
  ASSUME Init
  PROVE  TypeOK
<1>1. \A u \in Units : Dir!Offer(external, u = leader, None, u) \in Dir!Offers
  BY OfferType DEF Init
<1>2. push \in [Relations -> [Units -> Dir!Offers]] /\ host \in [Units -> Dir!Offers]
  BY <1>1 DEF Init, Dir!Offers
<1>3. Hosts(host, Units, None) \in Mapped(Dir!Offers)
  BY <1>2, RestrictMapped DEF Hosts
<1>4. NoDatastore \in Datastore
  <2>1. << >> \in Mapped(Dir!Offers)
    BY EmptyMapped
  <2> QED
    BY <2>1 DEF NoDatastore, Datastore
<1>5. grafana \in Datastore
  <2>1. \A d \in Datastore, hosts \in Mapped(Dir!Offers) : SourcesChanged(d, hosts) \in Datastore
    BY SourcesChangedType
  <2> QED
    BY <1>3, <1>4, <2>1 DEF Init
<1>6. targets \in [Relations -> Mapped(Dir!Offers \cup {Off})]
  <2>1. << >> \in Mapped(Dir!Offers \cup {Off})
    BY EmptyMapped
  <2>2. \A r \in Relations : push[r] \in Mapped(Dir!Offers)
    BY <1>2 DEF Mapped
  <2>3. \A r \in Relations :
          UpdateLogging(<< >>, push[r], None) \in Mapped(Dir!Offers \cup {Off})
    BY <2>1, <2>2, UpdateLoggingType
  <2> QED
    BY <2>1, <2>3 DEF Init
<1>7. proxy \in [Relations -> Promtail]
  <2>1. \A r \in Relations : push[r] \in Mapped(Dir!Offers)
    BY <1>2 DEF Mapped
  <2>2. \A r \in Relations : LokiEndpoints(push[r], None) \in SUBSET Dir!Offers
    BY <2>1, LokiEndpointsType
  <2>3. \A r \in Relations : SetUp(NoProxy, LokiEndpoints(push[r], None), TRUE) \in Promtail
    BY <2>2, NoProxyType, PromtailTypes
  <2> QED
    BY <2>3, NoProxyType DEF Init
<1>8. basis \in [Relations -> [Units -> [lead : BOOLEAN, recorded : BOOLEAN]]]
  BY DEF Init
<1>9. exchange \subseteq Units
  BY <1>5 DEF Init, Datastore
<1> QED
  <2>1. /\ forwarded \in [Units -> Ingress \cup {None}]
        /\ known \in [Units -> Ingress \cup {None}]
        /\ pending \in [Units -> SUBSET UnitHooks]
        /\ due \in [Relations -> SUBSET ({"changed"} \cup Units)]
    BY DEF Init
  <2>2. changes \in 0..MaxChanges
    BY BoundAssumption DEF Init
  <2>3. related \subseteq Relations /\ promtail \subseteq Relations
    BY RelationsAssumption DEF Init
  <2>4. /\ members \subseteq Units /\ leader \in members \cup {None}
        /\ external \in External \cup {None} /\ asked \subseteq Units
        /\ grafanaDue \subseteq {"changed"} \cup Units
        /\ ingressed \in BOOLEAN /\ missed \in BOOLEAN
    BY DEF Init
  <2> QED
    BY <1>2, <1>5, <1>6, <1>7, <1>8, <1>9, <2>1, <2>2, <2>3, <2>4 DEF TypeOK

LEMMA RuntimeHookType ==
  ASSUME TypeOK, NEW u \in Units, RuntimeHook(u)
  PROVE  TypeOK'
<1>1. /\ push' \in [Relations -> [Units -> Dir!Offers]]
      /\ host' \in [Units -> Dir!Offers]
      /\ basis' \in [Relations -> [Units -> [lead : BOOLEAN, recorded : BOOLEAN]]]
  BY ViewType, RefreshAllType DEF RuntimeHook
<1>2. exchange' \subseteq Units /\ missed' \in BOOLEAN
  BY UpdateExchangeType DEF RuntimeHook
<1>3. pending' \in [Units -> SUBSET UnitHooks]
  BY RanType DEF RuntimeHook
<1> QED
  BY <1>1, <1>2, <1>3, NotifyType DEF RuntimeHook, TypeOK, ingressVars, worldVars

LEMMA PushJoinedType ==
  ASSUME TypeOK, NEW u \in Units, NEW r \in Relations, PushJoined(u, r)
  PROVE  TypeOK'
<1>1. pending' \in [Units -> SUBSET UnitHooks]
  BY DEF PushJoined, TypeOK, UnitHooks
<1>2. promtail' \subseteq Relations
  BY DEF PushJoined, TypeOK
<1> QED
  BY <1>1, <1>2, NotifyType DEF PushJoined, TypeOK, ingressVars, worldVars, ghostVars

LEMMA PushChangedType ==
  ASSUME TypeOK, NEW u \in Units, NEW r \in Relations, PushChanged(u, r)
  PROVE  TypeOK'
<1>1. push' \in [Relations -> [Units -> Dir!Offers]]
  <2>1. Offer(u, View(u)) \in Dir!Offers
    BY ViewType, OffersOfUnit
  <2>2. push' = [push EXCEPT ![r][u] = Offer(u, View(u))]
    BY ChangedEndpointIs DEF PushChanged
  <2> QED
    BY <2>1, <2>2 DEF TypeOK
<1>2. basis' \in [Relations -> [Units -> [lead : BOOLEAN, recorded : BOOLEAN]]]
  BY BasedType DEF PushChanged
<1>3. pending' \in [Units -> SUBSET UnitHooks]
  BY RanType DEF PushChanged
<1> QED
  BY <1>1, <1>2, <1>3, NotifyType DEF PushChanged, TypeOK, ingressVars, worldVars

LEMMA IngressHookType ==
  ASSUME TypeOK, NEW u \in Units, NEW hook, IngressHook(u, hook)
  PROVE  TypeOK'
<1> DEFINE path == IF hook = <<"ingress broken">> THEN None ELSE View(u)
<1>1. path \in Ingress \cup {None}
  BY ViewType
<1>2. /\ push' \in [Relations -> [Units -> Dir!Offers]]
      /\ host' \in [Units -> Dir!Offers]
      /\ basis' \in [Relations -> [Units -> [lead : BOOLEAN, recorded : BOOLEAN]]]
  <2>1. CASE IngressDiffers(u, path)
    <3>1. RefreshAll(u, path, TRUE)
      BY <2>1 DEF IngressHook
    <3> QED
      BY <1>1, <3>1, RefreshAllType
  <2>2. CASE ~IngressDiffers(u, path)
    BY <2>2 DEF IngressHook, TypeOK
  <2> QED
    BY <2>1, <2>2
<1>3. pending' \in [Units -> SUBSET UnitHooks]
  BY RanType DEF IngressHook
<1>4. known' \in [Units -> Ingress \cup {None}] /\ asked' \subseteq Units
  BY <1>1 DEF IngressHook, TypeOK
<1> QED
  BY <1>2, <1>3, <1>4, NotifyType DEF IngressHook, TypeOK, worldVars

LEMMA GrafanaHookType ==
  ASSUME TypeOK, NEW u \in Units, GrafanaHook(u)
  PROVE  TypeOK'
<1>1. host' \in [Units -> Dir!Offers]
  BY ViewType, OffersOfUnit DEF GrafanaHook, TypeOK
<1>2. exchange' \subseteq Units /\ missed' \in BOOLEAN
  BY UpdateExchangeType DEF GrafanaHook
<1>3. pending' \in [Units -> SUBSET UnitHooks]
  BY RanType DEF GrafanaHook
<1> QED
  BY <1>1, <1>2, <1>3, NotifyType DEF GrafanaHook, TypeOK, ingressVars, worldVars

LEMMA ClientHookType ==
  ASSUME TypeOK, NEW r \in Relations, NEW hook, ClientHook(r, hook)
  PROVE  TypeOK'
<1> DEFINE entries == Restrict(push[r], Visible(due[r] \ {hook}))
           urls    == LokiEndpoints(entries, None)
<1>1. entries \in Mapped(Dir!Offers)
  <2>1. Visible(due[r] \ {hook}) \in SUBSET Units
    BY DEF Visible, TypeOK
  <2> QED
    BY <2>1, RestrictMapped DEF TypeOK
<1>2. urls \in SUBSET Dir!Offers
  BY <1>1, LokiEndpointsType
<1>3. due' \in [Relations -> SUBSET ({"changed"} \cup Units)]
  BY DEF ClientHook, TypeOK
<1>4. targets' \in [Relations -> Mapped(Dir!Offers \cup {Off})]
  <2>1. UpdateLogging(targets[r], entries, None) \in Mapped(Dir!Offers \cup {Off})
    BY <1>1, UpdateLoggingType DEF TypeOK
  <2> HIDE DEF entries
  <2>2. targets' = targets
           \/ targets' = [targets EXCEPT ![r] = UpdateLogging(targets[r], entries, None)]
    BY DEF ClientHook, entries
  <2> QED
    BY <2>1, <2>2 DEF TypeOK
<1>5. proxy' \in [Relations -> Promtail]
  <2>1. /\ ProxyChanged(proxy[r], urls, r \in promtail) \in Promtail
        /\ ProxyDeparted(proxy[r], urls) \in Promtail
    <3>1. proxy[r] \in Promtail /\ (r \in promtail) \in BOOLEAN
      BY DEF TypeOK
    <3> HIDE DEF urls
    <3> QED
      BY <1>2, <3>1, PromtailTypes
  <2> HIDE DEF urls
  <2>2. \/ proxy' = proxy
        \/ proxy' = [proxy EXCEPT ![r] = ProxyChanged(proxy[r], urls, r \in promtail)]
        \/ proxy' = [proxy EXCEPT ![r] = ProxyDeparted(proxy[r], urls)]
    BY DEF ClientHook, urls
  <2> QED
    BY <2>1, <2>2 DEF TypeOK
<1> QED
  BY <1>3, <1>4, <1>5 DEF ClientHook, TypeOK, lokiVars, grafanaVars, ingressVars, worldVars,
                          ghostVars

LEMMA GrafanaRunsType ==
  ASSUME TypeOK, NEW hook, GrafanaRuns(hook)
  PROVE  TypeOK'
<1>1. grafana' \in Datastore
  <2>1. Visible(grafanaDue) \in SUBSET Units
    BY DEF Visible, TypeOK
  <2>2. hook # "changed" => hook \in Units
    BY DEF GrafanaRuns, TypeOK
  <2> QED
    BY <2>1, <2>2, HostsType, SourcesChangedType, SourceDepartedType DEF GrafanaRuns, TypeOK
<1>2. pending' \in [Units -> SUBSET UnitHooks]
  BY DEF GrafanaRuns, TypeOK, UnitHooks
<1>3. grafanaDue' \subseteq {"changed"} \cup Units
  BY DEF GrafanaRuns, TypeOK
<1> QED
  BY <1>1, <1>2, <1>3 DEF GrafanaRuns, TypeOK, lokiVars, clientVars, ingressVars, worldVars,
                          ghostVars

LEMMA ChangeType ==
  ASSUME TypeOK, Change
  PROVE  changes' \in 0..MaxChanges
BY BoundAssumption DEF TypeOK, Change

LEMMA SurroundingsType ==
  ASSUME TypeOK, Surroundings
  PROVE  TypeOK'
<1> USE DEF lokiVars, clientVars, grafanaVars, ingressVars, worldVars, ghostVars
<1>1. ASSUME NEW e \in External \cup {None}, SetExternal(e)
      PROVE  TypeOK'
  BY <1>1, ChangeType, ScheduleType DEF SetExternal, UnitHooks, TypeOK
<1>2. ASSUME NEW u \in Units, Reconfigure(u)
      PROVE  TypeOK'
  BY <1>2, ChangeType, ScheduleType DEF Reconfigure, UnitHooks, TypeOK
<1>3. ASSUME NEW u \in Units, Depart(u)
      PROVE  TypeOK'
  <2>1. pending' \in [Units -> SUBSET UnitHooks]
    BY <1>3 DEF Depart, TypeOK, UnitHooks
  <2>2. due' \in [Relations -> SUBSET ({"changed"} \cup Units)]
    BY <1>3 DEF Depart, TypeOK
  <2>3. leader' \in members' \cup {None}
    BY <1>3 DEF Depart, TypeOK
  <2> QED
    BY <1>3, <2>1, <2>2, <2>3, ChangeType DEF Depart, TypeOK
<1>4. ASSUME NEW u \in Units, Elect(u)
      PROVE  TypeOK'
  <2>1. changes' \in 0..MaxChanges
    BY <1>4, ChangeType DEF Elect, TypeOK
  <2> QED
    BY <1>4, <2>1 DEF Elect, TypeOK
<1>5. ASSUME NEW r \in Relations, Relate(r)
      PROVE  TypeOK'
  <2>1. due' \in [Relations -> SUBSET ({"changed"} \cup Units)]
    BY <1>5 DEF Relate, TypeOK
  <2>2. pending' \in [Units -> SUBSET UnitHooks]
    BY <1>5, ScheduleType DEF Relate, UnitHooks
  <2> QED
    BY <1>5, <2>1, <2>2, ChangeType DEF Relate, TypeOK
<1>6. ASSUME NEW r \in Relations, Republish(r)
      PROVE  TypeOK'
  <2>1. pending' \in [Units -> SUBSET UnitHooks]
    BY <1>6, ScheduleType DEF Republish, UnitHooks
  <2> QED
    BY <1>6, <2>1, ChangeType DEF Republish, TypeOK
<1>7. ASSUME NEW u \in Units, NEW path \in Ingress, PublishUrl(u, path)
      PROVE  TypeOK'
  BY <1>7, ChangeType, ScheduleType DEF PublishUrl, UnitHooks, TypeOK
<1>8. ASSUME WipeIngressData
      PROVE  TypeOK'
  BY <1>8, ChangeType, ScheduleType DEF WipeIngressData, UnitHooks, TypeOK
<1>9. ASSUME RemoveIngress
      PROVE  TypeOK'
  BY <1>9, ChangeType, ScheduleType DEF RemoveIngress, UnitHooks, TypeOK
<1> QED
  BY <1>1, <1>2, <1>3, <1>4, <1>5, <1>6, <1>7, <1>8, <1>9 DEF Surroundings

LEMMA StutterType ==
  ASSUME TypeOK, UNCHANGED vars
  PROVE  TypeOK'
BY DEF TypeOK, vars, lokiVars, clientVars, grafanaVars, ingressVars, worldVars, ghostVars

LEMMA NextType ==
  ASSUME TypeOK, [Next]_vars
  PROVE  TypeOK'
<1>1. CASE Surroundings
  BY <1>1, SurroundingsType
<1>2. ASSUME NEW u \in Units, UnitStep(u)
      PROVE  TypeOK'
  BY <1>2, RuntimeHookType, GrafanaHookType, PushJoinedType, PushChangedType, IngressHookType
     DEF UnitStep
<1>3. ASSUME NEW r \in Relations, ClientStep(r)
      PROVE  TypeOK'
  BY <1>3, ClientHookType DEF ClientStep
<1>4. CASE GrafanaStep
  BY <1>4, GrafanaRunsType DEF GrafanaStep
<1>5. CASE UNCHANGED vars
  BY <1>5, StutterType
<1> QED
  BY <1>1, <1>2, <1>3, <1>4, <1>5 DEF Next

(* Type correctness.  An endpoint in a databag is always one of the charm's *)
(* own, never the host name the library falls back to                       *)
(* (LokiPushApiProvider._on_logging_relation_changed).                      *)
THEOREM TypeCorrect == Spec => []TypeOK
<1>1. Init => TypeOK
  BY InitType
<1>2. TypeOK /\ [Next]_vars => TypeOK'
  BY NextType
<1> QED
  BY <1>1, <1>2, PTL DEF Spec

-----------------------------------------------------------------------------
(***************************************************************************)
(* The datastore of Grafana.                                               *)
(***************************************************************************)

LEMMA SourcesOfDatastore ==
  ASSUME NEW d \in Datastore, d.toDelete \cap DOMAIN d.sources = {}, NEW e,
         \/ \E hosts \in Mapped(Dir!Offers) : e = SourcesChanged(d, hosts)
         \/ \E u \in Units : e = SourceDeparted(d, u)
  PROVE  /\ e.toDelete \cap DOMAIN e.sources = {}
         /\ DOMAIN d.sources \subseteq DOMAIN e.sources \cup e.toDelete
<1>1. ASSUME NEW hosts \in Mapped(Dir!Offers), e = SourcesChanged(d, hosts)
      PROVE  /\ e.toDelete \cap DOMAIN e.sources = {}
             /\ DOMAIN d.sources \subseteq DOMAIN e.sources \cup e.toDelete
  BY <1>1 DEF SourcesChanged, Datastore
<1>2. ASSUME NEW u \in Units, e = SourceDeparted(d, u)
      PROVE  /\ e.toDelete \cap DOMAIN e.sources = {}
             /\ DOMAIN d.sources \subseteq DOMAIN e.sources \cup e.toDelete
  <2>1. DOMAIN Restrict(d.sources, DOMAIN d.sources \ {u}) = DOMAIN d.sources \ {u}
    BY DEF Restrict
  <2> QED
    BY <1>2, <2>1 DEF SourceDeparted, Datastore
<1> QED
  BY <1>1, <1>2

LEMMA GrafanaStepSources ==
  ASSUME TypeOK, DeletedNotListed, [Next]_vars
  PROVE  /\ DeletedNotListed'
         /\ DOMAIN grafana.sources \subseteq DOMAIN grafana'.sources \cup grafana'.toDelete
<1>1. ASSUME NEW hook, GrafanaRuns(hook)
      PROVE  \/ \E hosts \in Mapped(Dir!Offers) : grafana' = SourcesChanged(grafana, hosts)
             \/ \E u \in Units : grafana' = SourceDeparted(grafana, u)
  <2>1. Visible(grafanaDue) \in SUBSET Units
    BY DEF Visible, TypeOK
  <2>2. Hosts(host, Visible(grafanaDue), None) \in Mapped(Dir!Offers)
    BY <2>1, HostsType
  <2>3. hook # "changed" => hook \in Units
    BY <1>1 DEF GrafanaRuns, TypeOK
  <2> QED
    BY <1>1, <2>2, <2>3 DEF GrafanaRuns
<1>2. CASE GrafanaStep
  <2>1. grafana \in Datastore /\ grafana.toDelete \cap DOMAIN grafana.sources = {}
    BY DEF TypeOK, DeletedNotListed
  <2> QED
    BY <1>1, <1>2, <2>1, SourcesOfDatastore DEF GrafanaStep, DeletedNotListed
<1>3. CASE UNCHANGED grafana
  BY <1>3 DEF DeletedNotListed
<1>4. GrafanaStep \/ UNCHANGED grafana
  BY DEF Next, Surroundings, SetExternal, Reconfigure, Depart, Elect, Relate, Republish,
         PublishUrl, WipeIngressData, RemoveIngress, UnitStep, RuntimeHook, GrafanaHook,
         PushJoined, PushChanged, IngressHook, ClientStep, ClientHook, vars, grafanaVars
<1> QED
  BY <1>2, <1>3, <1>4

LEMMA InitSources ==
  ASSUME Init
  PROVE  DeletedNotListed
BY DEF Init, DeletedNotListed, SourcesChanged, NoDatastore

(* What Grafana is about to delete is not listed: a source that comes back  *)
(* is taken off the list, and one that leaves is taken off the sources, in  *)
(* the same hook (GrafanaSourceConsumer._get_source_config).                *)
THEOREM DeletedStaysUnlisted == Spec => []DeletedNotListed
<1>1. Init => TypeOK /\ DeletedNotListed
  BY InitType, InitSources
<1>2. TypeOK /\ DeletedNotListed /\ [Next]_vars => (TypeOK /\ DeletedNotListed)'
  BY NextType, GrafanaStepSources
<1> QED
  BY <1>1, <1>2, PTL DEF Spec

(* No datasource drops out of sight without being scheduled for deletion    *)
(* (GrafanaSourceConsumer._sources_to_delete, _remove_source).              *)
THEOREM SourcesAreAccounted == Spec => NoSourceForgotten
<1>1. TypeOK /\ DeletedNotListed /\ [Next]_vars
        => [DOMAIN grafana.sources \subseteq DOMAIN grafana'.sources \cup grafana'.toDelete]_vars
  BY GrafanaStepSources
<1> QED
  BY <1>1, TypeCorrect, DeletedStaysUnlisted, PTL DEF Spec, NoSourceForgotten

-----------------------------------------------------------------------------
(***************************************************************************)
(* The exchange.                                                           *)
(***************************************************************************)

LEMMA ExchangeStep ==
  ASSUME TypeOK, ExchangeFollows, [Next]_vars
  PROVE  ExchangeFollows'
<1> USE DEF lokiVars, clientVars, grafanaVars, ingressVars, worldVars, ghostVars
<1>1. ASSUME NEW u \in Units, NEW hook \in UnitHooks \ {<<"grafana source">>}, Ran(u, hook),
             UNCHANGED <<grafana, leader>>,
             UpdateExchange(u) \/ UNCHANGED <<exchange, missed>>
      PROVE  ExchangeFollows'
  <2>1. \A v \in Units : <<"grafana source">> \in pending[v] => <<"grafana source">> \in pending'[v]
    BY <1>1 DEF Ran, TypeOK
  <2>2. leader \in Units \cup {None}
    BY DEF TypeOK
  <2>3. CASE u = leader /\ UpdateExchange(u)
    BY <1>1, <2>3 DEF ExchangeFollows, UpdateExchange
  <2>4. CASE UNCHANGED <<exchange, missed>>
    <3>1. leader # None /\ <<"grafana source">> \in pending[leader]
            => leader' # None /\ <<"grafana source">> \in pending'[leader']
      BY <1>1, <2>1, <2>2
    <3> QED
      BY <1>1, <2>4, <3>1 DEF ExchangeFollows
  <2> QED
    BY <1>1, <2>3, <2>4 DEF UpdateExchange
<1>2. ASSUME NEW u \in Units, RuntimeHook(u)
      PROVE  ExchangeFollows'
  BY <1>1, <1>2 DEF RuntimeHook, UnitHooks
<1>3. ASSUME NEW u \in Units, NEW r \in Relations, PushChanged(u, r)
      PROVE  ExchangeFollows'
  BY <1>1, <1>3 DEF PushChanged, UnitHooks
<1>4. ASSUME NEW u \in Units, NEW hook, IngressHook(u, hook)
      PROVE  ExchangeFollows'
  BY <1>1, <1>4 DEF IngressHook, UnitHooks
<1>5. ASSUME NEW u \in Units, NEW r \in Relations, PushJoined(u, r)
      PROVE  ExchangeFollows'
  BY <1>5 DEF PushJoined, ExchangeFollows, TypeOK
<1>6. ASSUME NEW u \in Units, GrafanaHook(u)
      PROVE  ExchangeFollows'
  <2>1. leader \in Units \cup {None}
    BY DEF TypeOK
  <2> QED
    BY <1>6, <2>1 DEF GrafanaHook, Ran, UpdateExchange, ExchangeFollows, TypeOK
<1>7. ASSUME NEW r \in Relations, NEW hook, ClientHook(r, hook)
      PROVE  ExchangeFollows'
  BY <1>7 DEF ClientHook, ExchangeFollows
<1>8. ASSUME NEW hook, GrafanaRuns(hook)
      PROVE  ExchangeFollows'
  <2>1. CASE grafana'.uids = grafana.uids
    BY <1>8, <2>1 DEF GrafanaRuns, ExchangeFollows
  <2>2. CASE grafana'.uids # grafana.uids
    BY <1>8, <2>2 DEF GrafanaRuns, ExchangeFollows, TypeOK
  <2> QED
    BY <2>1, <2>2
<1>9. CASE Surroundings
  <2>1. ASSUME NEW us, NEW hook, Schedule(us, hook), UNCHANGED <<grafana, leader, exchange, missed>>
        PROVE  ExchangeFollows'
    BY <2>1 DEF Schedule, ExchangeFollows, TypeOK
  <2>2. ASSUME NEW u \in Units, Elect(u)
        PROVE  ExchangeFollows'
    BY <2>2 DEF Elect, ExchangeFollows, TypeOK
  <2>3. ASSUME NEW u \in Units, Depart(u)
        PROVE  ExchangeFollows'
    BY <2>3 DEF Depart, ExchangeFollows, TypeOK
  <2> QED
    BY <1>9, <2>1, <2>2, <2>3
       DEF Surroundings, SetExternal, Reconfigure, Relate, Republish, PublishUrl,
           WipeIngressData, RemoveIngress
<1>10. CASE UNCHANGED vars
  BY <1>10 DEF vars, ExchangeFollows
<1> QED
  BY <1>2, <1>3, <1>4, <1>5, <1>6, <1>7, <1>8, <1>9, <1>10
     DEF Next, UnitStep, ClientStep, GrafanaStep

(* The exchange lists what Grafana shared, or its update is scheduled on    *)
(* the leader, or an election has lost it                                   *)
(* (charm._update_datasource_exchange).                                     *)
THEOREM ExchangeIsFollowed == Spec => []ExchangeFollows
<1>1. Init => TypeOK /\ ExchangeFollows
  BY InitType DEF Init, ExchangeFollows
<1>2. TypeOK /\ ExchangeFollows /\ [Next]_vars => (TypeOK /\ ExchangeFollows)'
  BY NextType, ExchangeStep
<1> QED
  BY <1>1, <1>2, PTL DEF Spec

-----------------------------------------------------------------------------
(***************************************************************************)
(* What is published.  The invariant tells what an entry was written from   *)
(* and what the requirer has recorded, which PublishedIsCurrent compares    *)
(* with the leadership and the ingress of the moment:                       *)
(*   - an entry that was written from a recorded path is the offer made     *)
(*     with the leadership of then and the path that is recorded now;       *)
(*   - a recorded path that is not the one in the databag has its           *)
(*     ingress hook to come;                                                *)
(*   - a relation-broken hook to come means that the relation is gone,      *)
(*     so what the hook records, no path, is what it leaves visible.        *)
(***************************************************************************)
Scheduled(u, r) ==
  <<"runtime">> \in pending[u] \/ {<<"joined", r>>, <<"changed", r>>} \cap pending[u] # {}

FromBasis(u, r) ==
  \/ push[r][u] = Dir!Offer(external, basis[r][u].lead, known[u], u)
  \/ ~basis[r][u].recorded
  \/ Scheduled(u, r)

Recorded(u) == known[u] = View(u) \/ <<"ingress changed">> \in pending[u]

BrokenIsGone(u) == <<"ingress broken">> \in pending[u] => ~ingressed

Sound(u) ==
  /\ BrokenIsGone(u)
  /\ u \in members => Recorded(u) /\ \A r \in related : FromBasis(u, r)

IInv == TypeOK /\ \A u \in Units : Sound(u)

LEMMA HookNames ==
  /\ <<"runtime">> \notin {<<"ingress broken">>, <<"ingress changed">>}
  /\ <<"ingress broken">> # <<"ingress changed">>
  /\ \A r : {<<"ingress broken">>, <<"ingress changed">>, <<"runtime">>}
             \cap {<<"joined", r>>, <<"changed", r>>} = {}
BY SMT

LEMMA InitSound ==
  ASSUME Init, NEW u \in Units
  PROVE  Sound(u)
<1>1. BrokenIsGone(u) /\ Recorded(u)
  BY DEF Init, BrokenIsGone, Recorded, View
<1>2. ASSUME NEW r \in related
      PROVE  FromBasis(u, r)
  BY <1>2, RelationsAssumption DEF Init, FromBasis
<1> QED
  BY <1>1, <1>2 DEF Sound

\* A unit stays sound in a step that leaves its entries alone and takes no hook
\* from it.
LEMMA SoundKept ==
  ASSUME NEW v \in Units, Sound(v), members' \subseteq members,
         UNCHANGED <<related, external, ingressed, forwarded>>,
         known'[v] = known[v],
         \A r \in related : push'[r][v] = push[r][v] /\ basis'[r][v] = basis[r][v],
         pending[v] \subseteq pending'[v],
         <<"ingress broken">> \in pending'[v] => <<"ingress broken">> \in pending[v]
  PROVE  Sound(v)'
<1>1. View(v)' = View(v)
  BY DEF View
<1> QED
  BY <1>1 DEF Sound, BrokenIsGone, Recorded, FromBasis, Scheduled

LEMMA RefreshedSound ==
  ASSUME TypeOK, NEW u \in Units, NEW v \in Ingress \cup {None}, NEW seen \in BOOLEAN,
         RefreshAll(u, v, seen), seen => v = known'[u], UNCHANGED <<external, leader, related>>
  PROVE  \A r \in related' : FromBasis(u, r)'
<1> SUFFICES ASSUME NEW r \in related
             PROVE  FromBasis(u, r)'
  OBVIOUS
<1>1. push'[r][u] = Offer(u, v)
  BY DEF RefreshAll, RefreshEndpoint, UpdateEndpoint, TypeOK
<1>2. basis'[r][u] = [lead |-> u = leader, recorded |-> seen]
  BY DEF RefreshAll, Based, TypeOK
<1> QED
  BY <1>1, <1>2 DEF FromBasis, Offer

LEMMA RefreshedOthers ==
  ASSUME TypeOK, NEW u \in Units, NEW v, NEW seen, RefreshAll(u, v, seen), NEW w \in Units \ {u},
         NEW r \in related
  PROVE  push'[r][w] = push[r][w] /\ basis'[r][w] = basis[r][w]
<1>1. r \in Relations
  BY DEF TypeOK
<1>2. push'[r] = [push[r] EXCEPT ![u] = Offer(u, v)]
  BY <1>1 DEF RefreshAll, RefreshEndpoint, UpdateEndpoint
<1>3. basis'[r] = [basis[r] EXCEPT ![u] = [lead |-> u = leader, recorded |-> seen]]
  BY <1>1 DEF RefreshAll, Based
<1> QED
  BY <1>1, <1>2, <1>3 DEF TypeOK

LEMMA RuntimeHookSound ==
  ASSUME IInv, NEW u \in Units, RuntimeHook(u)
  PROVE  \A v \in Units : Sound(v)'
<1> USE DEF ingressVars, worldVars
<1>1. TypeOK
  BY DEF IInv
<1>2. ASSUME NEW v \in Units \ {u}
      PROVE  Sound(v)'
  <2>1. \A r \in related : push'[r][v] = push[r][v] /\ basis'[r][v] = basis[r][v]
    BY <1>1, RefreshedOthers DEF RuntimeHook
  <2>2. pending'[v] = pending[v]
    BY <1>1 DEF RuntimeHook, Ran, TypeOK
  <2> QED
    BY <2>1, <2>2, SoundKept DEF RuntimeHook, IInv
<1>3. Sound(u)'
  <2>1. \A r \in related' : FromBasis(u, r)'
    <3>1. View(u) \in Ingress \cup {None} /\ (View(u) = known[u]) \in BOOLEAN
      BY <1>1, ViewType
    <3>2. /\ RefreshAll(u, View(u), View(u) = known[u])
          /\ UNCHANGED <<known, external, leader, related>>
      BY DEF RuntimeHook
    <3> QED
      BY <1>1, <3>1, <3>2, RefreshedSound
  <2>2. \A hook \in {<<"ingress broken">>, <<"ingress changed">>} :
          hook \in pending'[u] <=> hook \in pending[u]
    <3>1. pending'[u] = pending[u] \ {<<"runtime">>}
      BY <1>1 DEF RuntimeHook, Ran, TypeOK
    <3> QED
      BY <3>1, HookNames
  <2>3. View(u)' = View(u)
    BY <2>2 DEF RuntimeHook, View
  <2> QED
    BY <2>1, <2>2, <2>3 DEF Sound, BrokenIsGone, Recorded, RuntimeHook, IInv
<1> QED
  BY <1>2, <1>3

LEMMA IngressHookSound ==
  ASSUME IInv, NEW u \in Units, NEW hook, IngressHook(u, hook)
  PROVE  \A v \in Units : Sound(v)'
<1> USE DEF worldVars
<1> DEFINE path == IF hook = <<"ingress broken">> THEN None ELSE View(u)
<1>1. TypeOK /\ path \in Ingress \cup {None}
  BY ViewType DEF IInv
<1>2. ASSUME NEW v \in Units \ {u}
      PROVE  Sound(v)'
  <2>1. \A r \in related : push'[r][v] = push[r][v] /\ basis'[r][v] = basis[r][v]
    <3>1. CASE IngressDiffers(u, path)
      <4>1. RefreshAll(u, path, TRUE)
        BY <3>1 DEF IngressHook
      <4> QED
        BY <1>1, <4>1, RefreshedOthers
    <3>2. CASE ~IngressDiffers(u, path)
      BY <3>2 DEF IngressHook
    <3> QED
      BY <3>1, <3>2
  <2>2. pending'[v] = pending[v] /\ known'[v] = known[v]
    BY <1>1 DEF IngressHook, Ran, TypeOK
  <2> QED
    BY <2>1, <2>2, SoundKept DEF IngressHook, IInv
<1>3. Sound(u)'
  <2>1. known'[u] = path
    BY <1>1 DEF IngressHook, TypeOK
  <2>2. pending'[u] = pending[u] \ {hook}
    BY <1>1 DEF IngressHook, Ran, TypeOK
  <2>3. \A r \in related' : u \in members => FromBasis(u, r)'
    <3>1. CASE IngressDiffers(u, path)
      <4>1. RefreshAll(u, path, TRUE) /\ UNCHANGED <<external, leader, related>>
        BY <3>1 DEF IngressHook
      <4> QED
        BY <1>1, <2>1, <4>1, RefreshedSound
    <3>2. CASE ~IngressDiffers(u, path)
      <4>1. known'[u] = known[u]
        <5>1. path = known[u]
          BY <3>2 DEF IngressDiffers
        <5> HIDE DEF path
        <5> QED
          BY <2>1, <5>1
      <4>2. UNCHANGED <<push, basis, external, related, members>>
        BY <3>2 DEF IngressHook
      <4>3. \A r \in related : Scheduled(u, r) => Scheduled(u, r)'
        <5>1. hook \in {<<"ingress changed">>, <<"ingress broken">>}
          BY DEF IngressHook
        <5> QED
          BY <2>2, <5>1, HookNames DEF Scheduled
      <4> QED
        BY <4>1, <4>2, <4>3 DEF FromBasis, Sound, IInv
    <3> QED
      BY <3>1, <3>2
  <2>4. Sound(u) /\ UNCHANGED <<ingressed, forwarded, members>>
    BY DEF IInv, IngressHook
  <2>5. View(u)' = path
    <3>1. CASE hook = <<"ingress broken">>
      <4>1. ~ingressed
        BY <2>4, <3>1 DEF Sound, BrokenIsGone, IngressHook
      <4> QED
        BY <2>2, <2>4, <3>1, <4>1 DEF View
    <3>2. CASE hook = <<"ingress changed">>
      BY <2>2, <2>4, <3>2 DEF View
    <3> QED
      BY <3>1, <3>2 DEF IngressHook
  <2> QED
    BY <2>1, <2>2, <2>3, <2>4, <2>5 DEF Sound, BrokenIsGone, Recorded
<1> QED
  BY <1>2, <1>3

LEMMA PushChangedSound ==
  ASSUME IInv, NEW u \in Units, NEW r \in Relations, PushChanged(u, r)
  PROVE  \A v \in Units : Sound(v)'
<1> USE DEF ingressVars, worldVars
<1>1. TypeOK
  BY DEF IInv
<1>2. push' = [push EXCEPT ![r][u] = Offer(u, View(u))]
  BY <1>1, ChangedEndpointIs DEF PushChanged
<1>3. basis' = [q \in Relations |->
                  IF q = r
                  THEN [basis[q] EXCEPT ![u] = [lead |-> u = leader, recorded |-> View(u) = known[u]]]
                  ELSE basis[q]]
  BY DEF PushChanged, Based
<1>4. related \subseteq Relations
  BY <1>1 DEF TypeOK
<1>5. ASSUME NEW v \in Units \ {u}
      PROVE  Sound(v)'
  <2>1. \A q \in related : push'[q][v] = push[q][v] /\ basis'[q][v] = basis[q][v]
    BY <1>1, <1>2, <1>3, <1>4 DEF TypeOK
  <2>2. pending'[v] = pending[v]
    BY <1>1 DEF PushChanged, Ran, TypeOK
  <2> QED
    BY <2>1, <2>2, SoundKept DEF PushChanged, IInv
<1>6. Sound(u)'
  <2>1. pending'[u] = pending[u] \ {<<"changed", r>>}
    BY <1>1 DEF PushChanged, Ran, TypeOK
  <2>2. UNCHANGED <<known, external, related, members, ingressed, forwarded>> /\ Sound(u)
    BY DEF PushChanged, IInv
  <2>3. View(u)' = View(u)
    BY <2>1, <2>2 DEF View
  <2>4. FromBasis(u, r)'
    BY <1>1, <1>2, <1>3, <2>2 DEF FromBasis, Offer, TypeOK
  <2>5. ASSUME NEW q \in related, q # r, FromBasis(u, q)
        PROVE  FromBasis(u, q)'
    <3>1. push'[q][u] = push[q][u] /\ basis'[q][u] = basis[q][u]
      BY <1>1, <1>2, <1>3, <1>4, <2>5 DEF TypeOK
    <3>2. Scheduled(u, q) => Scheduled(u, q)'
      BY <2>1, <2>5 DEF Scheduled
    <3> QED
      BY <2>2, <2>5, <3>1, <3>2 DEF FromBasis
  <2> QED
    BY <2>1, <2>2, <2>3, <2>4, <2>5 DEF Sound, BrokenIsGone, Recorded
<1> QED
  BY <1>5, <1>6

LEMMA PushJoinedSound ==
  ASSUME IInv, NEW u \in Units, NEW r \in Relations, PushJoined(u, r)
  PROVE  \A v \in Units : Sound(v)'
<1> USE DEF ingressVars, worldVars, ghostVars
<1>1. TypeOK
  BY DEF IInv
<1>2. ASSUME NEW v \in Units \ {u}
      PROVE  Sound(v)'
  <2>1. pending'[v] = pending[v]
    BY <1>1 DEF PushJoined, TypeOK
  <2> QED
    BY <2>1, SoundKept DEF PushJoined, IInv
<1>3. Sound(u)'
  <2>1. pending'[u] = (pending[u] \ {<<"joined", r>>}) \cup {<<"changed", r>>}
    BY <1>1 DEF PushJoined, TypeOK
  <2>2. /\ UNCHANGED <<push, basis, known, external, related, members, ingressed, forwarded>>
        /\ Sound(u)
    BY DEF PushJoined, IInv
  <2>3. View(u)' = View(u)
    BY <2>1, <2>2 DEF View
  <2>4. \A q \in related : Scheduled(u, q) => Scheduled(u, q)'
    BY <2>1 DEF Scheduled
  <2>5. \A q \in related : FromBasis(u, q) => FromBasis(u, q)'
    BY <2>2, <2>4 DEF FromBasis
  <2> QED
    BY <2>1, <2>2, <2>3, <2>5 DEF Sound, BrokenIsGone, Recorded
<1> QED
  BY <1>2, <1>3

LEMMA GrafanaHookSound ==
  ASSUME IInv, NEW u \in Units, GrafanaHook(u)
  PROVE  \A v \in Units : Sound(v)'
<1> USE DEF ingressVars, worldVars
<1> SUFFICES ASSUME NEW v \in Units
             PROVE  Sound(v)'
  OBVIOUS
<1>1. \A hook \in UnitHooks \ {<<"grafana source">>} :
        hook \in pending'[v] <=> hook \in pending[v]
  BY DEF GrafanaHook, Ran, IInv, TypeOK
<1>2. UNCHANGED <<push, basis, known, external, related, members, ingressed, forwarded>> /\ Sound(v)
  BY DEF GrafanaHook, IInv
<1>3. View(v)' = View(v)
  BY <1>1, <1>2 DEF View, UnitHooks
<1>4. \A q \in related : Scheduled(v, q) => Scheduled(v, q)'
  <2>1. related \subseteq Relations
    BY DEF IInv, TypeOK
  <2> QED
    BY <1>1, <2>1 DEF Scheduled, UnitHooks
<1>5. \A q \in related : FromBasis(v, q) => FromBasis(v, q)'
  BY <1>2, <1>4 DEF FromBasis
<1> QED
  BY <1>1, <1>2, <1>3, <1>5 DEF Sound, BrokenIsGone, Recorded, UnitHooks

LEMMA OtherHooksSound ==
  ASSUME IInv, \/ \E r \in Relations : ClientStep(r)
               \/ GrafanaStep
               \/ UNCHANGED vars
  PROVE  \A v \in Units : Sound(v)'
<1> USE DEF lokiVars, ingressVars, worldVars, ghostVars
<1> SUFFICES ASSUME NEW v \in Units
             PROVE  Sound(v)'
  OBVIOUS
<1>1. UNCHANGED <<push, basis, known, external, related, members, ingressed, forwarded>>
  BY DEF ClientStep, ClientHook, GrafanaStep, GrafanaRuns, vars
<1>2. \/ pending'[v] = pending[v]
      \/ pending'[v] = pending[v] \cup {<<"grafana source">>}
  BY DEF ClientStep, ClientHook, GrafanaStep, GrafanaRuns, vars, IInv, TypeOK
<1>3. <<"grafana source">> # <<"ingress broken">>
  BY SMT
<1> QED
  BY <1>1, <1>2, <1>3, SoundKept DEF IInv

LEMMA ScheduleIs ==
  ASSUME TypeOK, NEW us, NEW hook, Schedule(us, hook), NEW v \in Units
  PROVE  pending'[v] = IF v \in us \cap members THEN pending[v] \cup {hook} ELSE pending[v]
BY DEF TypeOK, Schedule

LEMMA SurroundingsSound ==
  ASSUME IInv, Surroundings
  PROVE  \A v \in Units : Sound(v)'
<1> USE DEF lokiVars, clientVars, grafanaVars, ingressVars, worldVars, ghostVars
<1> SUFFICES ASSUME NEW v \in Units
             PROVE  Sound(v)'
  OBVIOUS
<1>0. TypeOK /\ Sound(v)
  BY DEF IInv
<1>1. ASSUME NEW e \in External \cup {None}, SetExternal(e)
      PROVE  Sound(v)'
  <2>1. pending'[v] = IF v \in members THEN pending[v] \cup {<<"runtime">>} ELSE pending[v]
    BY <1>0, <1>1, ScheduleIs DEF SetExternal
  <2>2. UNCHANGED <<members, known, ingressed, forwarded>>
    BY <1>1 DEF SetExternal
  <2>3. View(v)' = View(v)
    BY <2>1, <2>2, HookNames DEF View
  <2>4. v \in members => \A r \in related' : FromBasis(v, r)'
    BY <2>1 DEF FromBasis, Scheduled
  <2> QED
    BY <1>0, <2>1, <2>2, <2>3, <2>4, HookNames DEF Sound, BrokenIsGone, Recorded
<1>2. ASSUME NEW u \in Units, Reconfigure(u)
      PROVE  Sound(v)'
  <2>1. pending'[v] = IF v \in {u} \cap members THEN pending[v] \cup {<<"runtime">>} ELSE pending[v]
    BY <1>0, <1>2, ScheduleIs DEF Reconfigure
  <2> QED
    BY <1>0, <1>2, <2>1, HookNames, SoundKept DEF Reconfigure
<1>3. ASSUME NEW u \in Units, Depart(u)
      PROVE  Sound(v)'
  <2>1. CASE v = u
    <3>1. pending'[v] = {} /\ v \notin members'
      BY <1>3, <2>1 DEF Depart
    <3> QED
      BY <3>1 DEF Sound, BrokenIsGone
  <2>2. CASE v # u
    <3>1. pending'[v] = pending[v] \/ pending'[v] = pending[v] \cup {<<"runtime">>}
      BY <1>3, <2>2 DEF Depart
    <3> QED
      BY <1>0, <1>3, <3>1, HookNames, SoundKept DEF Depart
  <2> QED
    BY <2>1, <2>2
<1>4. ASSUME NEW u \in Units, Elect(u)
      PROVE  Sound(v)'
  BY <1>0, <1>4, SoundKept DEF Elect
<1>5. ASSUME NEW r \in Relations, Relate(r)
      PROVE  Sound(v)'
  <2>1. pending'[v] = IF v \in members THEN pending[v] \cup {<<"joined", r>>} ELSE pending[v]
    BY <1>0, <1>5, ScheduleIs DEF Relate
  <2>2. /\ UNCHANGED <<members, known, ingressed, forwarded, push, basis, external>>
        /\ related' = related \cup {r}
    BY <1>5 DEF Relate
  <2>3. <<"joined", r>> \notin {<<"ingress broken">>, <<"ingress changed">>}
    BY HookNames
  <2>4. View(v)' = View(v)
    BY <2>1, <2>2, <2>3 DEF View
  <2>5. v \in members => FromBasis(v, r)'
    BY <2>1 DEF FromBasis, Scheduled
  <2>6. \A q \in related : FromBasis(v, q) => FromBasis(v, q)'
    BY <2>1, <2>2 DEF FromBasis, Scheduled
  <2> QED
    BY <1>0, <2>1, <2>2, <2>3, <2>4, <2>5, <2>6 DEF Sound, BrokenIsGone, Recorded
<1>6. ASSUME NEW r \in Relations, Republish(r)
      PROVE  Sound(v)'
  <2>1. pending'[v] = IF v \in members THEN pending[v] \cup {<<"changed", r>>} ELSE pending[v]
    BY <1>0, <1>6, ScheduleIs DEF Republish
  <2>2. <<"changed", r>> # <<"ingress broken">>
    BY HookNames
  <2> QED
    BY <1>0, <1>6, <2>1, <2>2, SoundKept DEF Republish
<1>7. ASSUME Schedule(members, <<"ingress changed">>),
             UNCHANGED <<members, ingressed, known, push, basis, external, related>>
      PROVE  Sound(v)'
  <2>1. pending'[v] = IF v \in members THEN pending[v] \cup {<<"ingress changed">>} ELSE pending[v]
    BY <1>0, <1>7, ScheduleIs
  <2>2. \A r \in related : FromBasis(v, r) => FromBasis(v, r)'
    BY <1>7, <2>1 DEF FromBasis, Scheduled
  <2> QED
    BY <1>0, <1>7, <2>1, <2>2, HookNames DEF Sound, BrokenIsGone, Recorded
<1>8. ASSUME RemoveIngress
      PROVE  Sound(v)'
  <2>1. pending'[v] = IF v \in members THEN pending[v] \cup {<<"ingress broken">>} ELSE pending[v]
    BY <1>0, <1>8, ScheduleIs DEF RemoveIngress
  <2>2. /\ UNCHANGED <<members, known, forwarded, push, basis, external, related>>
        /\ ingressed /\ ~ingressed'
    BY <1>8 DEF RemoveIngress
  <2>3. v \in members => View(v)' = View(v)
    BY <2>1, <2>2 DEF View
  <2>4. \A r \in related : FromBasis(v, r) => FromBasis(v, r)'
    BY <2>1, <2>2 DEF FromBasis, Scheduled
  <2> QED
    BY <1>0, <2>1, <2>2, <2>3, <2>4 DEF Sound, BrokenIsGone, Recorded
<1> QED
  BY <1>1, <1>2, <1>3, <1>4, <1>5, <1>6, <1>7, <1>8
     DEF Surroundings, PublishUrl, WipeIngressData

LEMMA NextSound ==
  ASSUME IInv, [Next]_vars
  PROVE  IInv'
<1>1. TypeOK'
  BY NextType DEF IInv
<1>2. \A v \in Units : Sound(v)'
  <2>1. ASSUME NEW u \in Units, UnitStep(u)
        PROVE  \A v \in Units : Sound(v)'
    BY <2>1, RuntimeHookSound, GrafanaHookSound, PushJoinedSound, PushChangedSound,
       IngressHookSound DEF UnitStep
  <2> QED
    BY <2>1, OtherHooksSound, SurroundingsSound DEF Next
<1> QED
  BY <1>1, <1>2 DEF IInv

LEMMA SoundIsCurrent ==
  ASSUME IInv
  PROVE  PublishedIsCurrent
<1> SUFFICES ASSUME NEW u \in members, NEW r \in related,
                    ~Refreshing(u, r), basis[r][u].lead = (u = leader), basis[r][u].recorded
             PROVE  push[r][u] = Offer(u, View(u))
  BY DEF PublishedIsCurrent
<1>1. u \in Units
  BY DEF IInv, TypeOK
<1>2. Recorded(u) /\ FromBasis(u, r)
  BY <1>1 DEF IInv, Sound
<1>3. ~Scheduled(u, r)
  BY DEF Refreshing, Scheduled
<1>4. known[u] = View(u)
  BY <1>2 DEF Refreshing, Recorded
<1> QED
  BY <1>2, <1>3, <1>4 DEF FromBasis, Offer

(* Every published endpoint is what its unit offers now, or a hook of that  *)
(* unit will refresh it, or its leadership has changed since or it was      *)
(* written from a path that was never recorded: there is no other way to    *)
(* stale data (charm._refresh_loki_provider_endpoint and its callers).      *)
THEOREM PublishedStaysCurrent == Spec => []PublishedIsCurrent
<1>1. Init => IInv
  BY InitType, InitSound DEF IInv
<1>2. IInv /\ [Next]_vars => IInv'
  BY NextSound
<1>3. IInv => PublishedIsCurrent
  BY SoundIsCurrent
<1> QED
  BY <1>1, <1>2, <1>3, PTL DEF Spec

-----------------------------------------------------------------------------
(***************************************************************************)
(* The directory.                                                          *)
(***************************************************************************)

LEMMA SurroundingsOfDirectory ==
  ASSUME TypeOK
  PROVE  Dir!Surroundings
BY ViewType DEF TypeOK, Dir!Surroundings

LEMMA RefreshAllPublishes ==
  ASSUME TypeOK, NEW u \in Units, NEW v, NEW seen, RefreshAll(u, v, seen),
         UNCHANGED <<external, leader>>, View(u)' = v
  PROVE  Dir!Publish(u, related)
BY DEF RefreshAll, RefreshEndpoint, UpdateEndpoint, Offer, Dir!Publish

LEMMA StepOfDirectory ==
  ASSUME IInv, [Next]_vars
  PROVE  push' = push \/ \E u \in Units, R \in SUBSET Relations : Dir!Publish(u, R)
<1> USE DEF lokiVars, clientVars, grafanaVars, ingressVars, worldVars, ghostVars
<1>1. TypeOK /\ related \in SUBSET Relations
  BY DEF IInv, TypeOK
<1>2. ASSUME NEW u \in Units, RuntimeHook(u)
      PROVE  Dir!Publish(u, related)
  <2>1. pending'[u] = pending[u] \ {<<"runtime">>}
    BY <1>1, <1>2 DEF RuntimeHook, Ran, TypeOK
  <2>2. View(u)' = View(u)
    BY <1>2, <2>1, HookNames DEF RuntimeHook, View
  <2> QED
    BY <1>1, <1>2, <2>2, RefreshAllPublishes DEF RuntimeHook
<1>3. ASSUME NEW u \in Units, NEW r \in Relations, PushChanged(u, r)
      PROVE  Dir!Publish(u, {r})
  <2>1. pending'[u] = pending[u] \ {<<"changed", r>>}
    BY <1>1, <1>3 DEF PushChanged, Ran, TypeOK
  <2>2. View(u)' = View(u)
    BY <1>3, <2>1, HookNames DEF PushChanged, View
  <2>3. push' = [push EXCEPT ![r][u] = Offer(u, View(u))]
    BY <1>1, <1>3, ChangedEndpointIs DEF PushChanged
  <2> QED
    BY <1>1, <1>3, <2>2, <2>3 DEF PushChanged, Offer, Dir!Publish, TypeOK
<1>4. ASSUME NEW u \in Units, NEW hook, IngressHook(u, hook)
      PROVE  push' = push \/ Dir!Publish(u, related)
  <2> DEFINE path == IF hook = <<"ingress broken">> THEN None ELSE View(u)
  <2>1. View(u)' = path
    <3>1. /\ hook \in {<<"ingress changed">>, <<"ingress broken">>}
          /\ hook \in pending[u]
          /\ UNCHANGED <<ingressed, forwarded>>
          /\ pending'[u] = pending[u] \ {hook}
      BY <1>1, <1>4 DEF IngressHook, Ran, TypeOK
    <3>2. CASE hook = <<"ingress broken">>
      <4>1. ~ingressed
        BY <3>1, <3>2 DEF IInv, Sound, BrokenIsGone
      <4> QED
        BY <3>1, <3>2, <4>1 DEF View
    <3>3. CASE hook = <<"ingress changed">>
      BY <3>1, <3>3 DEF View
    <3> QED
      BY <3>1, <3>2, <3>3
  <2>2. CASE IngressDiffers(u, path)
    <3>1. RefreshAll(u, path, TRUE) /\ UNCHANGED <<external, leader>>
      BY <1>4, <2>2 DEF IngressHook
    <3> QED
      BY <1>1, <2>1, <3>1, RefreshAllPublishes
  <2>3. CASE ~IngressDiffers(u, path)
    BY <1>4, <2>3 DEF IngressHook
  <2> QED
    BY <2>2, <2>3
<1>5. CASE Surroundings
  BY <1>5 DEF Surroundings, SetExternal, Reconfigure, Depart, Elect, Relate, Republish,
              PublishUrl, WipeIngressData, RemoveIngress
<1>6. ASSUME NEW u \in Units, UnitStep(u)
      PROVE  push' = push \/ \E w \in Units, R \in SUBSET Relations : Dir!Publish(w, R)
  BY <1>1, <1>2, <1>3, <1>4, <1>6 DEF UnitStep, GrafanaHook, PushJoined
<1>7. ASSUME NEW r \in Relations, ClientStep(r)
      PROVE  push' = push
  BY <1>7 DEF ClientStep, ClientHook
<1>8. CASE GrafanaStep
  BY <1>8 DEF GrafanaStep, GrafanaRuns
<1>9. CASE UNCHANGED vars
  BY <1>9 DEF vars
<1> QED
  BY <1>5, <1>6, <1>7, <1>8, <1>9 DEF Next

(* The application keeps its directory: whatever changes around it, entries *)
(* change only when their own unit writes what it offers at that moment;    *)
(* the hooks of other units, of the clients and of the ingress leave no     *)
(* trace in it.                                                             *)
THEOREM DirectoryIsImplemented == Spec => ImplementsDirectory
<1>1. Init => Dir!Init
  BY InitType, SurroundingsOfDirectory DEF Dir!Init, TypeOK
<1>2. Init => IInv
  BY InitType, InitSound DEF IInv
<1>3. IInv /\ [Next]_vars => IInv'
  BY NextSound
<1>4. IInv => Dir!Surroundings
  BY SurroundingsOfDirectory DEF IInv
<1>5. IInv /\ [Next]_vars /\ Dir!Surroundings' => Dir!Next
  BY StepOfDirectory DEF Dir!Next
<1> QED
  BY <1>1, <1>2, <1>3, <1>4, <1>5, PTL DEF Spec, ImplementsDirectory, Dir!Spec
=============================================================================
