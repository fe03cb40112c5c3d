---------------------------- MODULE MCUnitStatus ----------------------------
(***************************************************************************)
(* Instances of UnitStatus for TLC: a plain config, one that is refused,   *)
(* and an override without the ruler contract.                             *)
(***************************************************************************)
EXTENDS UnitStatus

CONSTANTS Plain, Unsupported, Override

MCConfigs == {Plain, Unsupported, Override}
MCRefused == {Unsupported}
MCLegacy == {Override}
=============================================================================
