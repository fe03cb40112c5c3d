---------------------------- MODULE RuleFormats ----------------------------
(***************************************************************************)
(* The rule documents of src/src/rule_reconciler.py as values: what of a   *)
(* relation's payload is accepted, how the accepted snapshots are cached,  *)
(* and when two groups count as the same.                                  *)
(*                                                                         *)
(* A document is a sequence of groups with its measures: size (bytes of    *)
(* its JSON), depth and nodes.  A text carries a document either as JSON   *)
(* or compressed; compression takes a text to a ratio-th of its size.      *)
(***************************************************************************)
EXTENDS Naturals, Sequences, FiniteSets, SequencesExt, FiniteSetsExt

CONSTANTS
  MaxValue,      \* MAX_RELATION_VALUE_BYTES and MAX_CACHE_VALUE_BYTES
  MaxDocument,   \* MAX_RULE_BYTES
  MaxCache,      \* MAX_CACHE_DECODED_BYTES
  MaxDepth,      \* MAX_DOCUMENT_DEPTH
  MaxNodes,      \* MAX_DOCUMENT_NODES
  MaxCacheNodes, \* MAX_CACHE_NODES
  MaxGroups,     \* MAX_TOTAL_GROUPS
  MaxRules,      \* MAX_TOTAL_RULES
  MaxName,       \* MAX_GROUP_NAME_BYTES
  Width(_),      \* the bytes of a part of a group name
  Spaces,        \* the parts that are white space, or empty
  Unprintable,   \* the parts with a character that cannot be printed
  Batch,         \* MAX_MUTATION_API_OPERATIONS
  Rejected,      \* InvalidRuleSnapshotError, InvalidRuleCacheError
  Unset          \* None, and a field that is not there

-----------------------------------------------------------------------------
(***************************************************************************)
(* Validation of one document.  A group name is the sequence of its parts  *)
(* between underscores.  A rule says which of alert and record it names,   *)
(* and of what sort that name, the expression and the fields are: "other"  *)
(* is no text, of labels and annotations a mapping with something in it    *)
(* that is no text, and "scalar" is no mapping.                            *)
(***************************************************************************)
Fields == {"absent", "null", "texts", "other", "scalar"}

Rules == [named : SUBSET {"alert", "record"},
          title : {"text", "blank", "other"},
          expr : {"text", "blank", "missing", "other"},
          labels : Fields, annotations : Fields,
          waits : {"absent", "text", "other"}]

(* waits: `for' and `keep_firing_for'.                                     *)
ValidRule(rule) ==
  /\ Cardinality(rule.named) = 1 /\ rule.title = "text"
  /\ rule.expr = "text"
  /\ {rule.labels, rule.annotations} \subseteq {"absent", "null", "texts"}
  /\ rule.waits # "other"

Bytes(name) == FoldLeft(LAMBDA sum, part : sum + 1 + Width(part), 0, name) - 1

ValidName(name) ==
  /\ ~(Len(name) <= 1 /\ Range(name) \subseteq Spaces)
  /\ Range(name) \cap Unprintable = {}
  /\ Bytes(name) <= MaxName

ValidGroup(group) ==
  /\ ValidName(group.name)
  /\ \A i \in DOMAIN group.rules : ValidRule(group.rules[i])

Bounded(document, nodes) == document.depth <= MaxDepth /\ document.nodes <= nodes

Text(document, form, ratio) ==
  [form |-> form, document |-> document,
   bytes |-> IF form = "xz" THEN document.size \div ratio ELSE document.size]

(* parse_rule_groups: the groups of a text, or its rejection.              *)
Parse(text) ==
  IF /\ text.bytes < MaxValue
     /\ text.form = "xz" => text.document.size <= MaxDocument
     /\ Bounded(text.document, MaxNodes)
     /\ \A i \in DOMAIN text.document.groups : ValidGroup(text.document.groups[i])
  THEN text.document.groups
  ELSE Rejected

-----------------------------------------------------------------------------
(***************************************************************************)
(* The snapshots: a function from relation ids to accepted documents.      *)
(***************************************************************************)
Positions(snapshots) ==
  UNION {{<<r, i>> : i \in DOMAIN snapshots[r].groups} : r \in DOMAIN snapshots}

GroupAt(snapshots, p) == snapshots[p[1]].groups[p[2]]

(* merge_rule_groups: all groups (in an order that is a function of them,  *)
(* so here a set) when their names are unique in the namespace and the     *)
(* aggregate is within its limits.                                         *)
Merge(snapshots) ==
  LET at == Positions(snapshots)
      Rule(p) == Len(GroupAt(snapshots, p).rules)
  IN  IF /\ \A p, q \in at :
              GroupAt(snapshots, p).name = GroupAt(snapshots, q).name => p = q
         /\ Cardinality(at) <= MaxGroups
         /\ MapThenSumSet(Rule, at) <= MaxRules
      THEN {GroupAt(snapshots, p) : p \in at}
      ELSE Rejected

(* The cache document nests the groups of each relation one level deeper   *)
(* than a payload does, next to the version and the accepted groups.       *)
CacheDocument(snapshots, version, accepted) ==
  [snapshots |-> snapshots, version |-> version, accepted |-> accepted,
   size |-> 1 + MapThenSumSet(LAMBDA r : snapshots[r].size, DOMAIN snapshots),
   depth |-> 1 + Max({0} \cup {snapshots[r].depth : r \in DOMAIN snapshots}),
   nodes |-> 3 + MapThenSumSet(LAMBDA r : snapshots[r].nodes, DOMAIN snapshots)]

(* _encode_cache: the cached text ("xz:" is the one byte more).            *)
Encode(snapshots, ratio) ==
  LET document == CacheDocument(snapshots, 2, Unset)
      text == [Text(document, "xz", ratio) EXCEPT !.bytes = 1 + @]
  IN  IF /\ Merge(snapshots) # Rejected
         /\ Bounded(document, MaxCacheNodes)
         /\ document.size <= MaxCache
         /\ text.bytes < MaxValue
      THEN text
      ELSE Rejected

(* Mutant of Recoded: always the JSON form.                                *)
RecodedPlain(snapshot, ratio) == Parse(Text(snapshot, "json", ratio))

(* _validate_cached_snapshot: the groups once more as a payload, in the    *)
(* form that fits a relation value.                                        *)
Recoded(snapshot, ratio) ==
  Parse(Text(snapshot, IF snapshot.size < MaxValue THEN "json" ELSE "xz", ratio))

(* _decode_cache, of the current version and of version 1, which spelt the *)
(* accepted groups out.                                                    *)
Decode(text, ratio) ==
  LET document == text.document
      groups == IF document.version = 2 /\ document.accepted = Unset
                THEN Merge(document.snapshots) ELSE document.accepted
  IN  IF /\ text.bytes < MaxValue
         /\ document.size <= MaxCache
         /\ Bounded(document, MaxCacheNodes)
         /\ document.version \in {1, 2}
         /\ \A r \in DOMAIN document.snapshots :
              Recoded(document.snapshots[r], ratio) # Rejected
         /\ Merge(document.snapshots) # Rejected
         /\ groups = Merge(document.snapshots)
      THEN document.snapshots
      ELSE Rejected

-----------------------------------------------------------------------------
(***************************************************************************)
(* When the ruler already holds a group.  A duration is a sequence of      *)
(* tokens <<number, unit>>, or Unset; milliseconds are left out.           *)
(***************************************************************************)
Seconds == [s |-> 1, m |-> 60, h |-> 3600, d |-> 86400, w |-> 604800, y |-> 31536000]

(* _duration_value                                                         *)
DurationValue(duration) ==
  FoldLeft(LAMBDA sum, token : sum + token[1] * Seconds[token[2]], 0, duration)

(* Mutant of Normalized: a zero duration is kept.                          *)
NormalizedWithZero(duration) ==
  IF duration = Unset THEN Unset ELSE <<DurationValue(duration)>>

(* _normalize_durations: a zero duration is the same as none.              *)
Normalized(duration) ==
  IF duration = Unset \/ DurationValue(duration) = 0 THEN Unset
  ELSE <<DurationValue(duration)>>

(* _canonical, of a rule with a duration and labels.                       *)
Canonical(rule) ==
  [wait |-> Normalized(rule.wait),
   labels |-> IF rule.labels = "texts" THEN "texts" ELSE "absent"]

-----------------------------------------------------------------------------
(***************************************************************************)
(* Requests to the ruler.  An attempt has `work' mutations to send; its     *)
(* fault is the number of the mutation that fails, or Unset.               *)
(***************************************************************************)

(* Mutant of Granted: the read is forgotten.                               *)
GrantedForBatch == Batch

(* operations_remaining of a fresh budget: the read and a full batch.      *)
Granted == 1 + Batch

(* The read, and the mutations of one batch up to the one that fails.      *)
Attempt(try) ==
  1 + Min({try.work, Batch} \cup (IF try.fault = Unset THEN {} ELSE {try.fault}))

(* request_timeout refuses the request after the last one granted.         *)
Trips(try) == Attempt(try) > Granted

Fails(try) == Trips(try) \/ (try.fault # Unset /\ try.fault <= Min({try.work, Batch}))

Pending(try) == ~Fails(try) /\ try.work > Batch

(* replace_namespace: an attempt, and another to restore what was there.   *)
ReplaceRequests(first, recovery) ==
  Attempt(first) + IF Fails(first) THEN Attempt(recovery) ELSE 0

Restored(recovery) == ~Fails(recovery) /\ ~Pending(recovery)

(* reconcile: the accepted groups are replayed when the candidate failed   *)
(* and was not undone, or was applied and could not be persisted.          *)
ReconcileRequests(tries, persists) ==
  ReplaceRequests(tries[1], tries[2])
    + IF \/ Fails(tries[1]) /\ ~Restored(tries[2])
         \/ ~Fails(tries[1]) /\ ~Pending(tries[1]) /\ ~persists
      THEN ReplaceRequests(tries[3], tries[4]) ELSE 0
=============================================================================
