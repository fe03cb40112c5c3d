-------------------------- MODULE MCDataDirectory --------------------------
(* Two data, up to three attachments and two interrupted hooks.             *)
EXTENDS DataDirectory
=============================================================================
