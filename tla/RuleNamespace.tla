--------------------------- MODULE RuleNamespace ---------------------------
(***************************************************************************)
(* What a reconciliation promises to those who read the ruler and to the   *)
(* applications that own its groups: a transaction on one namespace.  It   *)
(* cannot be atomic, because the ruler knows only requests for one group,  *)
(* but it goes name by name from what was there to what is wanted, or      *)
(* back, and it is accepted only when it is complete.  How groups are      *)
(* chosen, batched, retried and replayed is left to RuleReconciler.        *)
(***************************************************************************)
CONSTANTS
  Units,
  Names,
  Groups  \* what may be in a namespace: records with a name in Names

VARIABLES
  ruler,    \* the groups of the namespace
  accepted, \* the groups that were accepted last
  txn,      \* the transaction of each unit
  stale     \* open transactions behind whose back the namespace changed

vars == <<ruler, accepted, txn, stale>>

Closed == [state |-> "closed", from |-> {}, to |-> {}]

IsOpen(u) == txn[u].state # "closed"

At(n, groups) == {g \in groups : g.name = n}

\* The namespace with what `groups' have under one name.
Put(n, groups) == {g \in ruler : g.name # n} \cup At(n, groups)

Init ==
  /\ ruler \in SUBSET Groups
  /\ accepted = ruler
  /\ txn = [u \in Units |-> Closed]
  /\ stale = {}

Move(u, t) == txn' = [txn EXCEPT ![u] = t]

\* Who else has a transaction open is behind, once u has changed something.
Marked(u) ==
  stale' = {v \in Units : IsOpen(v)' /\ (v \in stale \/ (ruler' # ruler /\ v # u))}

Complete(u, t) == u \notin stale => ruler' = t.to

\* A transaction begins with what it reads, whatever it wants; perhaps there is
\* nothing to do.
Open(u) ==
  /\ ~IsOpen(u)
  /\ txn'[u].to \in SUBSET Groups
  /\ LET t == [state |-> "applying", from |-> ruler, to |-> txn'[u].to]
     IN  \/ Move(u, t)
         \/ t.to = ruler /\ Move(u, [t EXCEPT !.state = "applied"])
  /\ Marked(u)
  /\ UNCHANGED <<ruler, accepted>>

\* One request: some name becomes what it is in groups.  Unless somebody else
\* interferes, it is never one that is right already, and nothing is removed
\* before everything else is there.
Request(u, groups) ==
  \E n \in Names :
    /\ ruler' = Put(n, groups)
    /\ u \notin stale => ruler' # ruler /\ (At(n, groups) # {} \/ groups \subseteq ruler)

\* Forward, one request or none: the transaction goes on, is complete, turns
\* back, or is left for another time.
Apply(u) ==
  /\ txn[u].state = "applying"
  /\ \/ UNCHANGED ruler
     \/ Request(u, txn[u].to)
  /\ \/ Move(u, txn[u])
     \/ Complete(u, txn[u]) /\ Move(u, [txn[u] EXCEPT !.state = "applied"])
     \/ Move(u, [txn[u] EXCEPT !.state = "restoring"])
     \/ Move(u, Closed)
  /\ Marked(u)
  /\ UNCHANGED accepted

\* Backward; there is no way forward from here.
Restore(u) ==
  /\ txn[u].state = "restoring"
  /\ \/ UNCHANGED ruler
     \/ Request(u, txn[u].from)
  /\ Move(u, txn[u]) \/ Move(u, Closed)
  /\ Marked(u)
  /\ UNCHANGED accepted

\* What is accepted is all there.
Commit(u) ==
  /\ txn[u].state = "applied"
  /\ u \notin stale => ruler = txn[u].to
  /\ accepted' = txn[u].to
  /\ Move(u, Closed)
  /\ Marked(u)
  /\ UNCHANGED ruler

Forsake(u) ==
  /\ txn[u].state = "applied"
  /\ Move(u, Closed)
  /\ Marked(u)
  /\ UNCHANGED <<ruler, accepted>>

\* The record of what was accepted is lost.
Forget ==
  /\ accepted' = {}
  /\ UNCHANGED <<ruler, txn, stale>>

\* Somebody outside writes to the namespace.
Interfere ==
  /\ ruler' \in SUBSET Groups
  /\ stale' = {u \in Units : IsOpen(u)}
  /\ UNCHANGED <<accepted, txn>>

Next ==
  \/ \E u \in Units : Open(u) \/ Apply(u) \/ Restore(u) \/ Commit(u) \/ Forsake(u)
  \/ Forget \/ Interfere

Spec == Init /\ [][Next]_vars

-----------------------------------------------------------------------------
\* While a transaction is open and alone, whatever has a name in the namespace is
\* as it was found or as it is wanted: nothing is lost and nothing made up on the
\* way, forward or back.
OldOrNew ==
  \A u \in Units : IsOpen(u) /\ u \notin stale =>
    \A n \in Names :
      At(n, ruler) \in {At(n, txn[u].from), At(n, txn[u].to)}
=============================================================================
