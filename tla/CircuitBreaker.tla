--------------------------- MODULE CircuitBreaker ---------------------------
(***************************************************************************)
(* What the documentation of the MCP health monitor promises for one       *)
(* server row: failed checks in a row are counted, a passed check resets   *)
(* the count, the Threshold-th failure in a row makes the server inactive, *)
(* and no check takes it out of that state again.  Module McpServerHealth  *)
(* implements this as long as nothing but the periodic task checks the     *)
(* servers; with more actors it does not (see there).                      *)
(***************************************************************************)
EXTENDS Naturals

CONSTANTS Servers, Threshold

VARIABLE row   \* row[s]: status of server s and its failed checks in a row

Blank == [status |-> "none", failures |-> 0]

Init == row = [s \in Servers |-> Blank]

Register(s) ==
    /\ row[s].status = "none"
    /\ row' = [row EXCEPT ![s].status = "inactive"]

\* The discovery that follows registration decides the first status.
Activate(s, status) ==
    /\ row[s] = [status |-> "inactive", failures |-> 0]
    /\ row' = [row EXCEPT ![s].status = status]

Pass(s) ==
    /\ row[s].status \in {"active", "error"}
    /\ row' = [row EXCEPT ![s] = [status |-> "active", failures |-> 0]]

Fail(s) ==
    /\ row[s].status \in {"active", "error"}
    /\ row[s].failures + 1 < Threshold
    /\ row' = [row EXCEPT ![s] = [status |-> "error", failures |-> @.failures + 1]]

Trip(s) ==
    /\ row[s].status \in {"active", "error"}
    /\ row[s].failures + 1 = Threshold
    /\ row' = [row EXCEPT ![s] = [status |-> "inactive", failures |-> Threshold]]

Remove(s) ==
    /\ row[s].status # "none"
    /\ row' = [row EXCEPT ![s] = [status |-> "deleted", failures |-> 0]]

Next ==
    \E s \in Servers :
        \/ Register(s) \/ Pass(s) \/ Fail(s) \/ Trip(s) \/ Remove(s)
        \/ \E status \in {"active", "error"} : Activate(s, status)

Spec == Init /\ [][Next]_row
=============================================================================
