----------------------------- MODULE Addresses -----------------------------
(***************************************************************************)
(* Addresses that relations hand to the charm: Alertmanager units          *)
(* (src/src/charm.py and alertmanager_dispatch.py under lib/charms) and    *)
(* the S3 endpoint.                                                        *)
(***************************************************************************)
EXTENDS Naturals, Sequences, FiniteSets, FiniteSetsExt

CONSTANTS
  Absent,  \* a part, a field or a relation that is not there
  Gone,    \* the data of a unit that has departed: reading it is a KeyError
  Number   \* the texts that are ports (0 to 65535), each with its number

(***************************************************************************)
(* Alertmanager.  A URL is its scheme, its address (host, port and path)   *)
(* and the rest, which an address has no room for (a user, a query, the    *)
(* brackets of an IPv6 host), or Absent.  A unit's data has a url (v1), or *)
(* an address and possibly a scheme (v0), or both.                         *)
(***************************************************************************)
NoData == [url |-> Absent, public_address |-> Absent, scheme |-> Absent]

(* What a provider of the current library writes: the v0 fields are made   *)
(* from the url and have no rest.                                          *)
Provided(url) == [url |-> url, public_address |-> url.address, scheme |-> url.scheme]

AddressV0(data) ==
  [scheme |-> IF data.scheme = Absent THEN "http" ELSE data.scheme,
   address |-> data.public_address, rest |-> Absent]

(* get_cluster_info, of one unit: v1, then v0, then nothing.               *)
UnitUrl(data) ==
  IF data.url # Absent THEN {data.url}
  ELSE IF data.public_address # Absent THEN {AddressV0(data)}
  ELSE {}

(* get_cluster_info: Gone when it raises.                                  *)
ClusterInfo(units) ==
  IF \E u \in DOMAIN units : units[u] = Gone THEN Gone
  ELSE UNION {UnitUrl(units[u]) : u \in DOMAIN units}

(* Mutant of SkippingGone: the older schema is tried first.                *)
SkippingGoneOldFirst(units) ==
  LET there == {u \in DOMAIN units : units[u] # Gone}
      old == {u \in there : units[u].public_address # Absent}
      current == {u \in there \ old : units[u].url # Absent}
  IN  {units[u].url : u \in current} \cup {AddressV0(units[u]) : u \in old}

(* _alertmanager_urls_skipping_gone_units, which parses the data itself.   *)
SkippingGone(units) ==
  LET there == {u \in DOMAIN units : units[u] # Gone}
      current == {u \in there : units[u].url # Absent}
      old == {u \in there \ current : units[u].public_address # Absent}
  IN  {units[u].url : u \in current} \cup {AddressV0(units[u]) : u \in old}

(* _alertmanager_urls                                                      *)
AlertmanagerUrls(units) ==
  IF ClusterInfo(units) = Gone THEN SkippingGone(units) ELSE ClusterInfo(units)

(***************************************************************************)
(* The S3 endpoint: a text in lower case, as the sequence of its           *)
(* delimiters and of the names between them.  A host in brackets is one    *)
(* name, and no other name has brackets; "?" begins a query or a fragment  *)
(* with more than slashes in it; there is no white space or control        *)
(* character within the text, and no ";" after a slash.                    *)
(***************************************************************************)
Required == {"endpoint", "bucket", "access-key", "secret-key", "region"}

Delimiters == {":", "/", "@", "?"}

(* "://" in text                                                           *)
Marked(text) ==
  \E i \in 1..Len(text) : i + 2 <= Len(text) /\ text[i] = ":"
                            /\ text[i + 1] = "/" /\ text[i + 2] = "/"

(* text.startswith(scheme + "://")                                         *)
Begins(text, scheme) ==
  Len(text) >= 4 /\ text[1] = scheme /\ text[2] = ":" /\ text[3] = "/" /\ text[4] = "/"

(* text.rstrip("/")                                                        *)
Stripped(text) == SubSeq(text, 1, Max({0} \cup {i \in DOMAIN text : text[i] # "/"}))

(* What urlparse is given.                                                 *)
Url(text) ==
  IF Marked(Stripped(text)) THEN Stripped(text)
  ELSE <<"http", ":", "/", "/">> \o Stripped(text)

DefaultPort(scheme) == IF scheme = "https" THEN 443 ELSE 80

(* What stands after the scheme is a host and possibly a port: no user, no *)
(* path, no query.  The port may be left empty.                            *)
Plain(at) ==
  /\ Len(at) \in 1..3
  /\ at[1] \notin Delimiters
  /\ Len(at) >= 2 => at[2] = ":"
  /\ Len(at) = 3 => at[3] \in DOMAIN Number

(* Mutant of Endpoint: the default port ignores the scheme.                *)
EndpointPlain(text) ==
  LET at == SubSeq(Url(text), 5, Len(Url(text))) IN
  IF ~(Begins(Url(text), "http") \/ Begins(Url(text), "https")) \/ ~Plain(at) THEN Absent
  ELSE [host |-> at[1],
        port |-> IF Len(at) = 3 /\ Number[at[3]] # 0 THEN Number[at[3]] ELSE 80]

(* _normalize_s3_endpoint; Absent when it raises.                          *)
Endpoint(text) ==
  LET at == SubSeq(Url(text), 5, Len(Url(text))) IN
  IF ~(Begins(Url(text), "http") \/ Begins(Url(text), "https")) \/ ~Plain(at) THEN Absent
  ELSE [host |-> at[1],
        port |-> IF Len(at) = 3 /\ Number[at[3]] # 0 THEN Number[at[3]]
                 ELSE DefaultPort(Url(text)[1])]

(* _s3_is_insecure, which looks at the text as the relation has it.        *)
Insecure(text) == ~Marked(text) \/ Begins(text, "http")

(* _s3_relation_details and _storage_backend_state: the status that holds   *)
(* the configuration back, or the storage to use (Absent for local).       *)
Backend(relation, planned) ==
  IF relation = Absent
  THEN [status |-> IF planned > 1 THEN "waiting" ELSE "ready", s3 |-> Absent]
  ELSE IF ~(Required \subseteq relation.given) THEN [status |-> "waiting", s3 |-> Absent]
  ELSE IF relation.path \/ Endpoint(relation.endpoint) = Absent
  THEN [status |-> "blocked", s3 |-> Absent]
  ELSE [status |-> "ready",
        s3 |-> [endpoint |-> Endpoint(relation.endpoint),
                insecure |-> Insecure(relation.endpoint)]]
=============================================================================
