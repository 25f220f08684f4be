----------------------------- MODULE MCHttpRpc -----------------------------
(***************************************************************************)
(* Two calls that may overlap on one HTTP client.                          *)
(***************************************************************************)
EXTENDS HttpRpc
=============================================================================
