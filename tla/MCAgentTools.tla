---------------------------- MODULE MCAgentTools ----------------------------
(***************************************************************************)
(* Instances of AgentTools for TLC.                                        *)
(***************************************************************************)
EXTENDS AgentTools
CONSTANTS stdio, http, search, ticket, nameless

\* A tool without a description: null, which is no string.
Unlistable == {[server |-> http, name |-> nameless, kind |-> "tool"]}

\* Two servers that use one name, once for a prompt and once for a tool.
SmallCatalogue ==
    {[server |-> stdio, name |-> search, kind |-> "tool"],
     [server |-> stdio, name |-> ticket, kind |-> "prompt"],
     [server |-> http, name |-> ticket, kind |-> "tool"]} \cup Unlistable
=============================================================================
