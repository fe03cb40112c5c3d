------------------------- MODULE EndpointDirectory -------------------------
(***************************************************************************)
(* What the application promises to the applications that send it logs.    *)
(* The directory has one entry per relation and unit.  Whoever is leader,  *)
(* what `external-url' says and what the ingress forwards may change at    *)
(* any time; the directory changes only when a unit publishes, and then    *)
(* the unit writes what it has to offer at that moment: with an external   *)
(* URL the leader offers that URL and the other units nothing, without one *)
(* each unit offers the URL of its ingress or else its own address.        *)
(***************************************************************************)
CONSTANTS Units, Relations, External, Ingress, None

VARIABLES
  leader,    \* the leader, or None between a departure and the election
  external,  \* the option external-url, or None
  view,      \* the ingress URL each unit can read, or None
  entry      \* the endpoint of each relation and unit, or None

Address(u) == <<"address", u>>

(* charm._external_url_base, on the unit u that reads the ingress URL v,    *)
(* and what the leadership guard of the refreshing functions makes of it.   *)
BaseUrl(ext, v, u) ==
  CASE ext # None -> <<"external", ext>>
    [] ext = None /\ v # None -> <<"ingress", u, v>>
    [] OTHER -> Address(u)

Offer(ext, isLeader, v, u) ==
  IF ext # None /\ ~isLeader THEN None ELSE BaseUrl(ext, v, u)

Offers == {None} \cup { <<"external", e>> : e \in External }
                 \cup { Address(u) : u \in Units }
                 \cup UNION { { <<"ingress", u, v>> : v \in Ingress } : u \in Units }

Surroundings ==
  /\ leader \in Units \cup {None}
  /\ external \in External \cup {None}
  /\ view \in [Units -> Ingress \cup {None}]

Init ==
  /\ Surroundings
  /\ entry \in [Relations -> [Units -> Offers]]

(* u publishes in the relations R what it offers when the hook ends.        *)
Publish(u, R) ==
  entry' = [r \in Relations |->
              IF r \in R
              THEN [entry[r] EXCEPT ![u] = Offer(external', u = leader', view'[u], u)]
              ELSE entry[r]]

Next ==
  /\ Surroundings'
  /\ \/ UNCHANGED entry
     \/ \E u \in Units, R \in SUBSET Relations : Publish(u, R)

Spec == Init /\ [][Next]_<<leader, external, view, entry>>
=============================================================================
