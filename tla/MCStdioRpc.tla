----------------------------- MODULE MCStdioRpc -----------------------------
(***************************************************************************)
(* Instances of StdioRpc for TLC.  Three request ids are enough for a call *)
(* to be hit by the leftovers of two earlier ones.                         *)
(***************************************************************************)
EXTENDS StdioRpc

OneWayNoise == {"notice", "garbage"}
Notices == {"notice"}
=============================================================================
