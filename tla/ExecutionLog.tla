---------------------------- MODULE ExecutionLog ----------------------------
(***************************************************************************)
(* What agent_test_executions promises to its readers: a log of attempts   *)
(* for each task.  Attempts are numbered in the order they begin, and of   *)
(* each the log says nothing while it is under way; then it says once, and *)
(* for good, how it ended.  Retries, repeated messages, commits that raise *)
(* and time limits change nothing about that.  Module AgentTask implements *)
(* it, with the rows of its database as the log.                           *)
(***************************************************************************)
EXTENDS Naturals, Sequences

CONSTANT Tasks

VARIABLE log   \* log[t][n]: what is said of the n-th attempt of task t

Endings == {"success", "failed", "lost"}

Init == log = [t \in Tasks |-> <<>>]

Begin(t) == log' = [log EXCEPT ![t] = Append(@, {})]

End(t, n) ==
    /\ log[t][n] = {}
    /\ \E ending \in Endings : log' = [log EXCEPT ![t][n] = {ending}]

Next ==
    \E t \in Tasks :
        \/ Begin(t)
        \/ \E n \in 1..Len(log[t]) : End(t, n)

Spec == Init /\ [][Next]_log
=============================================================================
