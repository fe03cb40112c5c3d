--------------------------- MODULE ConfigBuilder ---------------------------
(***************************************************************************)
(* The Loki configuration that src/src/config_builder.py builds, section   *)
(* by section.  Sections whose content never depends on the settings       *)
(* (query_range, chunk_store_config, frontend, querier) are left out.      *)
(*                                                                         *)
(* settings: s3, members (a sequence), version (a sequence of numbers),    *)
(* alertmanager, uid and external, each possibly None; migrations (a       *)
(* sequence of a date, possibly None, and a schema version), data_dir,     *)
(* retention, reporting and tls.                                           *)
(***************************************************************************)
EXTENDS Naturals, Sequences, SequencesExt

CONSTANT None

(***************************************************************************)
(* The workload's version: ruler storage needs Loki 3.4.                   *)
(***************************************************************************)
VersionTuple(version) ==
  [i \in 1..3 |-> IF i <= Len(version) THEN version[i] ELSE 0]

Earlier(v, w) ==
  \E i \in 1..3 : v[i] < w[i] /\ \A j \in 1..(i - 1) : v[j] = w[j]

TooOld(version) == version # None /\ Earlier(VersionTuple(version), <<3, 4, 0>>)

(***************************************************************************)
(* Sections.                                                               *)
(***************************************************************************)
Store(settings) == IF settings.s3 = None THEN "filesystem" ELSE "s3"
Dir(settings, name) == <<settings.data_dir, name>>

Common(settings) ==
  [kvstore |-> IF settings.members = None THEN "inmemory" ELSE "memberlist",
   storage |-> IF settings.s3 # None THEN None
               ELSE [chunks |-> Dir(settings, "chunks"), rules |-> Dir(settings, "rules")]]

Memberlist(settings) ==
  IF settings.members \in {None, <<>>} THEN None ELSE settings.members

RulerStorage(settings) ==
  [backend |-> Store(settings),
   client |-> IF settings.s3 = None THEN Dir(settings, "rules") ELSE settings.s3]

Period(settings, date, schema) ==
  [from |-> date, object_store |-> Store(settings), schema |-> schema]

Initially(settings) == <<Period(settings, "2020-10-24", "v13")>>

(* Mutant of SchemaConfig: a migration keeps its chunks on the filesystem. *)
SchemaConfigLocal(settings) ==
  FoldLeft(LAMBDA periods, m :
             IF m.date = None THEN periods
             ELSE Append(periods, [from |-> m.date, object_store |-> "filesystem",
                                   schema |-> m.version]),
           Initially(settings), settings.migrations)

(* The initial schema and, for each migration with a date, its own.        *)
SchemaConfig(settings) ==
  FoldLeft(LAMBDA periods, m :
             IF m.date = None THEN periods
             ELSE Append(periods, Period(settings, m.date, m.version)),
           Initially(settings), settings.migrations)

StorageConfig(settings) ==
  [store |-> Store(settings),
   client |-> IF settings.s3 = None THEN Dir(settings, "chunks") ELSE settings.s3]

(* A delete request store is named only while something is ever deleted.   *)
Compactor(settings) ==
  [retention_enabled |-> settings.retention # 0,
   working_directory |-> Dir(settings, "compactor"),
   delete_request_store |-> IF settings.retention = 0 THEN None ELSE Store(settings)]

Ruler(settings) ==
  [enable_api |-> TRUE, rule_path |-> Dir(settings, "ruler-tmp"),
   alertmanager |-> settings.alertmanager,
   enable_alertmanager_v2 |-> settings.alertmanager # None,
   datasource_uid |-> settings.uid, external_url |-> settings.external]

Server(settings) == [http_listen_port |-> 3100, tls |-> settings.tls]

(* build, and its ValueError for a Loki that is too old.                   *)
Build(settings) ==
  IF TooOld(settings.version) THEN None
  ELSE [auth_enabled |-> FALSE, common |-> Common(settings),
        wal |-> Dir(settings, "chunks") \o <<"wal">>,
        schema_config |-> SchemaConfig(settings), server |-> Server(settings),
        storage_config |-> StorageConfig(settings),
        limits |-> <<settings.rate, settings.burst, settings.retention>>,
        compactor |-> Compactor(settings), ruler_storage |-> RulerStorage(settings),
        memberlist |-> Memberlist(settings), ruler |-> Ruler(settings),
        analytics |-> IF settings.reporting THEN None ELSE FALSE]

(* _override_has_ruler_contract: what the charm asks of a configuration    *)
(* before it writes rules through its Loki.                                *)
HasRulerContract(config) ==
  /\ config.auth_enabled = FALSE
  /\ config.server.http_listen_port = 3100
  /\ config.ruler.enable_api = TRUE
  /\ config.ruler.rule_path # None
  /\ config.ruler_storage.backend # None
=============================================================================
