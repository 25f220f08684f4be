-------------------------- MODULE MCMcpServerHealth --------------------------
(***************************************************************************)
(* Instances of McpServerHealth for TLC.                                   *)
(***************************************************************************)
EXTENDS McpServerHealth

CONSTANTS s1, s2, r1, r2, q1, q2

OneServer == {s1}
TwoServers == {s1, s2}
OneRun == {r1}
TwoRuns == {r1, r2}
OneRequest == {q1}

AllOps == {"create", "check", "probe", "delete"}
Lifecycle == {"create", "delete"}
=============================================================================
