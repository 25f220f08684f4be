------------------------------- MODULE McpRpc -------------------------------
(***************************************************************************)
(* What a JSON-RPC client of an MCP server promises to the code that calls *)
(* it, whatever the transport: every request gets a fresh id, a call ends  *)
(* at most once, and it ends with a result or with a server error only if  *)
(* the server really answered that request.  Anything else is a failure    *)
(* raised to the caller or a timeout.  The stdio client implements this    *)
(* (module StdioRpc); the HTTP client offers the same methods.             *)
(***************************************************************************)
EXTENDS Naturals

CONSTANT MaxRequests   \* bound: request ids given out in one session

VARIABLES
    call,      \* call[i]: "none", "open", or how the call with id i ended
    answered   \* ids of the requests the server has answered

vars == <<call, answered>>

Ids == 1..MaxRequests
Endings == {"result", "error", "failed", "timeout"}

Init ==
    /\ call = [i \in Ids |-> "none"]
    /\ answered = {}

\* A caller issues request i: ids are handed out in order and never reused.
Open(i) ==
    /\ call[i] = "none"
    /\ \A j \in Ids : j < i => call[j] # "none"
    /\ call' = [call EXCEPT ![i] = "open"]
    /\ UNCHANGED answered

\* The server answers request i, perhaps after the caller has given up.
Answer(i) ==
    /\ call[i] # "none"
    /\ i \notin answered
    /\ answered' = answered \cup {i}
    /\ UNCHANGED call

\* The call with id i ends, once; only an answer ends it with an answer.
End(i, how) ==
    /\ call[i] = "open"
    /\ how \in {"result", "error"} => i \in answered
    /\ call' = [call EXCEPT ![i] = how]
    /\ UNCHANGED answered

Next ==
    \E i \in Ids :
        \/ Open(i)
        \/ Answer(i)
        \/ \E how \in Endings : End(i, how)

Spec == Init /\ [][Next]_vars
=============================================================================
