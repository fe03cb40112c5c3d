-------------------------- MODULE MCRuleReconciler --------------------------
(***************************************************************************)
(* Documents, capacities and environment budgets with which TLC explores   *)
(* RuleReconciler.                                                         *)
(***************************************************************************)
EXTENDS RuleReconciler

a1 == [name |-> "a", body |-> 1]
a2 == [name |-> "a", body |-> 2]
b1 == [name |-> "b", body |-> 1]
c1 == [name |-> "c", body |-> 1]
c2 == [name |-> "c", body |-> 2]
d1 == [name |-> "d", body |-> 1]
e1 == [name |-> "e", body |-> 1]

NoEvents == [e \in Events |-> 0]

MCDocuments == {{}, {a1}, {a1, b1}, {a2}, {b1}, {c1}, {c2}}

\* The greater body is the longer one.
MCBytes == [d \in Documents |-> MapThenSumSet(LAMBDA g : g.body, d)]

\* Both sources may publish everything: names collide, limits are exceeded.
MCInitial == [r \in Sources |-> IF r = 1 THEN {a1} ELSE {c1}]
MCAnyOffer == [r \in Sources |-> {{}, {a1, b1}, {a2}, {c2}}]

\* The rule store is lost, a group is altered, more groups than can be read.
MCForeign == {{}, {a2, b1}, {a1, b1, c1, d1, e1}}

\* The first source renames its group, the other is new.
MCLateInitial == [r \in Sources |-> IF r = 1 THEN {a1} ELSE {}]
MCOwnOffers ==
  [r \in Sources |-> IF r = 1 THEN {{b1}} ELSE {{c2}}]

\* One source that renames its only group again and again.
MCRenames == [r \in Sources |-> {{b1}, {c1}}]

\* Failures of the ruler, and changes behind the charm's back.
MCFailures ==
  [NoEvents EXCEPT !["publish"] = 2, !["corrupt"] = 1, !["fault"] = 2,
                   !["slow"] = 1, !["tamper"] = 1]

\* Everything that stops.
MCQuiet ==
  [NoEvents EXCEPT !["publish"] = 2, !["relation"] = 1, !["fault"] = 1,
                   !["election"] = 1, !["corrupt"] = 1]

MCTwoSlices == [NoEvents EXCEPT !["publish"] = 2, !["slow"] = 2]
=============================================================================
