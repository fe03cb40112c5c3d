----------------------- MODULE MCEndpointPublication -----------------------
(***************************************************************************)
(* Two units, the relation of a LogForwarder that has settled before the   *)
(* behaviour starts and that of a Promtail that may join, one external URL *)
(* and one path of the ingress.                                            *)
(***************************************************************************)
EXTENDS EndpointPublication, TLC

(* The units are interchangeable; only the run without liveness uses this.  *)
UnitSymmetry == Permutations(Units)
=============================================================================
