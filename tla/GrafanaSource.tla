--------------------------- MODULE GrafanaSource ---------------------------
(***************************************************************************)
(* The consumer of the grafana-source relation (GrafanaSourceConsumer in   *)
(* lib/charms/grafana_k8s/v0/grafana_source.py), on the leader of Grafana, *)
(* as functions of its datastore to its datastore.  A source has a name    *)
(* that is unique to its unit, so the unit stands for it:                  *)
(*   sources   the URL of every listed unit                                *)
(*   toDelete  the units whose datasource is to be deleted                 *)
(*   uids      the units whose datasource UID is shared back to Loki       *)
(*   failed    a departed hook raised; Juju retries it before any other    *)
(***************************************************************************)
EXTENDS Functions

NoDatastore == [sources |-> << >>, toDelete |-> {}, uids |-> {}, failed |-> FALSE]

(* _relation_hosts: the units of the relation with a non-empty host.        *)
Hosts(host, units, none) == Restrict(host, { u \in units : host[u] # none })

(* Mutant of SourcesChanged: a source that comes back stays on the list of  *)
(* sources to delete.                                                       *)
SourcesChangedStillDeleting(d, hosts) ==
  [d EXCEPT !.sources  = hosts,
            !.toDelete = @ \cup (DOMAIN d.sources \ DOMAIN hosts),
            !.uids     = DOMAIN hosts]

(* Mutant of SourcesChanged: a stale source is dropped and never deleted.   *)
SourcesChangedForgetting(d, hosts) ==
  [d EXCEPT !.sources = hosts, !.toDelete = @ \ DOMAIN hosts, !.uids = DOMAIN hosts]

(* _on_grafana_source_relation_changed with _get_source_config and          *)
(* _sources_to_delete: a listed source is taken off the list of sources to  *)
(* delete, a source no longer listed is put on it, and the names of the     *)
(* listed sources are shared back.                                          *)
SourcesChanged(d, hosts) ==
  [d EXCEPT !.sources  = hosts,
            !.toDelete = (@ \ DOMAIN hosts) \cup (DOMAIN d.sources \ DOMAIN hosts),
            !.uids     = DOMAIN hosts]

(* Mutant of SourceDeparted: the unit that left stays listed.               *)
SourceDepartedStillListed(d, u) ==
  IF DOMAIN d.sources = {} THEN d
  ELSE [d EXCEPT !.toDelete = @ \cup {u}, !.uids = DOMAIN d.sources]

(* _remove_source_from_datastore: nothing when no source is stored, an      *)
(* IndexError when the unit that left is not among the stored ones, and     *)
(* otherwise one source moved to the list of sources to delete.  The names  *)
(* shared back are those of before the removal.                             *)
SourceDeparted(d, u) ==
  CASE DOMAIN d.sources = {} -> d
    [] DOMAIN d.sources # {} /\ u \notin DOMAIN d.sources -> [d EXCEPT !.failed = TRUE]
    [] OTHER -> [d EXCEPT !.sources  = Restrict(@, DOMAIN @ \ {u}),
                          !.toDelete = @ \cup {u},
                          !.uids     = DOMAIN d.sources]
=============================================================================
