---------------------------- MODULE LogClients ----------------------------
(***************************************************************************)
(* The senders of logs (LogForwarder and LogProxyConsumer in               *)
(* lib/charms/loki_k8s/v1/loki_push_api.py) as functions of their state to *)
(* their state.  `entries' is the endpoint each unit of the relation has   *)
(* published, or `none'.                                                   *)
(***************************************************************************)
EXTENDS Functions

(***************************************************************************)
(* Log forwarding by Pebble.  A target is the URL of a unit, or Off after  *)
(* it was disabled; a target is never removed from the plan.               *)
(***************************************************************************)
Off == <<"off">>

(* is_ready and _extract_urls: the endpoints of all units, or none at all   *)
(* when there is no unit or one of them has published none.                 *)
ReadyEndpoints(entries, none) ==
  IF none \in Range(entries) THEN << >> ELSE entries

Enabled(targets) == Restrict(targets, { u \in DOMAIN targets : targets[u] # Off })

(* Mutant of UpdateLogging: an inactive endpoint is not disabled.           *)
UpdateLoggingEnableOnly(targets, entries, none) ==
  LET active == ReadyEndpoints(entries, none) IN
  [u \in DOMAIN active \cup DOMAIN targets |->
     IF u \in DOMAIN active THEN active[u] ELSE targets[u]]

(* _update_logging with disable_inactive_endpoints and enable_endpoints:    *)
(* without endpoints it returns before anything is disabled.                *)
UpdateLogging(targets, entries, none) ==
  LET active == ReadyEndpoints(entries, none) IN
  IF DOMAIN active = {} THEN targets
  ELSE [u \in DOMAIN active \cup DOMAIN targets |->
          IF u \in DOMAIN active THEN active[u] ELSE Off]

(***************************************************************************)
(* Promtail in the workload container.                                     *)
(*   service  the Pebble layer has been added                              *)
(*   clients  the URLs in the config file                                  *)
(*   running  the URLs the running process was started with                *)
(*   failed   a hook raised on a service Pebble does not know              *)
(***************************************************************************)
NoProxy == [service |-> FALSE, clients |-> {}, running |-> {}, failed |-> FALSE]

(* ConsumerBase.loki_endpoints: what is published, each URL once.           *)
LokiEndpoints(entries, none) == Range(entries) \ {none}

(* _setup_promtail: nothing before the provider has told where the binary   *)
(* is, and no start without a client.                                       *)
SetUp(p, urls, promtailKnown) ==
  IF ~promtailKnown THEN p
  ELSE [p EXCEPT !.service = TRUE, !.clients = urls,
                 !.running = IF urls = {} THEN @ ELSE urls]

(* Mutant of ProxyChanged: only a proxy that is not set up reads the URLs.  *)
ProxyChangedSetUpOnly(p, urls, promtailKnown) ==
  IF p.service THEN p ELSE SetUp(p, urls, promtailKnown)

(* _on_relation_changed: without a client the config is written and the     *)
(* running process left as it is.                                           *)
ProxyChanged(p, urls, promtailKnown) ==
  IF ~p.service THEN SetUp(p, urls, promtailKnown)
  ELSE [p EXCEPT !.clients = urls, !.running = IF urls = {} THEN @ ELSE urls]

(* _on_relation_departed: the file is written, and the service restarted    *)
(* or stopped, which raises when it was never set up.                       *)
ProxyDeparted(p, urls) ==
  [p EXCEPT !.clients = urls,
            !.running = IF p.service THEN urls ELSE @,
            !.failed  = ~p.service]
=============================================================================
