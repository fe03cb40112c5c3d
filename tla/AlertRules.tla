----------------------------- MODULE AlertRules -----------------------------
(***************************************************************************)
(* The rule files of a related charm and the document it publishes from    *)
(* them (AlertRules and ConsumerBase of                                    *)
(* lib/charms/loki_k8s/v1/loki_push_api.py).                               *)
(*                                                                         *)
(* A text that ends up in a group name is the sequence of its parts        *)
(* between underscores.  A file has a directory relative to the root, a    *)
(* stem, a suffix and what the YAML holds: groups, each with a name and    *)
(* rules ("official"), one rule ("single"), or neither.                    *)
(***************************************************************************)
EXTENDS Sequences, SequencesExt

CONSTANT Raised \* KeyError, TypeError or AttributeError

NoTopology == <<>>

(* Mutant of GroupName: the topology is left to the labels.                *)
GroupNameByPath(topology, dir, name) == dir \o name \o <<"alerts">>

(* _group_name: the stem of an official file has no part in it.            *)
GroupName(topology, dir, name) == topology \o dir \o name \o <<"alerts">>

(* With a topology a rule whose expression is not a text, or whose labels  *)
(* are there but no mapping, raises.                                       *)
Annotable(rule, topology) ==
  topology # NoTopology =>
    rule.expr \in {"text", "blank"} /\ rule.labels \notin {"null", "scalar"}

(* Topology labels never replace a label of the rule's own.                *)
Annotated(rule) ==
  [rule EXCEPT !.labels = IF @ = "absent" THEN "texts" ELSE @]

Read(file) ==
  IF file.form = "official" THEN file.groups
  ELSE IF file.form = "single" THEN <<[name |-> file.stem, rules |-> <<file.rule>>]>>
  ELSE <<>>

(* _from_file                                                              *)
FromFile(file, topology) ==
  LET groups == Read(file) IN
  IF \E i \in DOMAIN groups : \E j \in DOMAIN groups[i].rules :
       ~Annotable(groups[i].rules[j], topology)
  THEN Raised
  ELSE [i \in DOMAIN groups |->
          [name |-> GroupName(topology, file.dir, groups[i].name),
           rules |-> [j \in DOMAIN groups[i].rules |-> Annotated(groups[i].rules[j])]]]

(* _multi_suffix_glob                                                      *)
Picked(file, recursive) ==
  file.suffix \in {"rule", "rules"} /\ (recursive \/ file.dir = <<>>)

(* The body of the loop in _from_dir, for one more file.                   *)
Extended(groups, file, topology, recursive) ==
  LET more == FromFile(file, topology) IN
  IF groups = Raised \/ ~Picked(file, recursive) THEN groups
  ELSE IF more = Raised THEN Raised
  ELSE groups \o more

(* _from_dir, as_dict: the groups.                                         *)
FromDir(files, topology, recursive) ==
  FoldLeft(LAMBDA groups, file : Extended(groups, file, topology, recursive), <<>>, files)

Relabelled(rule, extra) == [rule EXCEPT !.labels = IF @ = "other" THEN @ ELSE extra]

(* _inject_extra_labels_to_alert_rules, when there are extra labels.       *)
Injected(groups, extra) ==
  IF groups = Raised \/ extra = "absent" THEN groups
  ELSE IF \E i \in DOMAIN groups : \E j \in DOMAIN groups[i].rules :
            groups[i].rules[j].labels \in {"null", "scalar"}
  THEN Raised
  ELSE [i \in DOMAIN groups |->
          [name |-> groups[i].name,
           rules |-> [j \in DOMAIN groups[i].rules |-> Relabelled(groups[i].rules[j], extra)]]]

(* skip_alert_topology_labeling: the application publishes without it.     *)
TopologyUsed(app) == IF app.skip THEN NoTopology ELSE app.topology

(* _handle_alert_rules of the leader: the groups that are published.       *)
Sent(app) ==
  Injected(FromDir(IF app.forward THEN app.files ELSE <<>>, TopologyUsed(app), app.recursive),
           app.extra)
=============================================================================
