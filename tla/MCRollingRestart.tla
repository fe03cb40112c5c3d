-------------------------- MODULE MCRollingRestart --------------------------
(***************************************************************************)
(* Environment budgets with which TLC explores RollingRestart.  The units  *)
(* are numbers, because their order decides who restarts first; they are   *)
(* therefore not symmetric.                                                *)
(***************************************************************************)
EXTENDS RollingRestart

NoEvents == [e \in Events |-> 0]

\* One change among everything that can drop its restart.
MCAnything ==
  [NoEvents EXCEPT !["change"] = 1, !["edit"] = 1, !["reboot"] = 1,
                   !["election"] = 1, !["error"] = 1, !["depart"] = 1]

\* One rollout under one leader, with failures.
MCOneRollout ==
  [NoEvents EXCEPT !["change"] = 1, !["fault"] = 1, !["timeout"] = 1]

\* One rollout under one leader, while processes stay up.
MCCanary ==
  [NoEvents EXCEPT !["change"] = 1, !["timeout"] = 2, !["error"] = 1,
                   !["outage"] = 1]

\* Overlapping rollouts (one of the changes is rejected, and one never becomes
\* ready until the next corrects it), with recoverable failures.
MCRecoverable ==
  [NoEvents EXCEPT !["change"] = 4, !["election"] = 1, !["timeout"] = 1,
                   !["depart"] = 1]

\* Two changes and nothing else.
MCTwoChanges == [NoEvents EXCEPT !["change"] = 2]
=============================================================================
