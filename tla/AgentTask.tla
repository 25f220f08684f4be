------------------------------ MODULE AgentTask ------------------------------
(***************************************************************************)
(* Agent executions: from the agent webhook, through the Celery broker, to *)
(* the row of agent_test_executions that reports them.                     *)
(*                                                                         *)
(* A worker's child process runs the task execute_agent: it loads the      *)
(* agent, checks it and the budget, borrows an MCP bridge from a pool of   *)
(* its own process, lets the agent work, gives the bridge back (finally),  *)
(* and stores a row.  An exception stores a "failed" row and is retried    *)
(* with a new message.  Messages are acknowledged late, and go back to the *)
(* queue when the worker is lost, so an execution may be repeated.         *)
(*                                                                         *)
(* The soft time limit is a signal to the child.  As a rule it finds the   *)
(* event loop waiting in select(): the exception then leaves               *)
(* run_until_complete and the coroutine stays where it was, its finally    *)
(* clauses not run.  If it finds Python code of the task running, the      *)
(* nearest handler there gets it.  The hard limit kills the child, and the *)
(* task is acknowledged as failed.                                         *)
(***************************************************************************)
EXTENDS Naturals, FiniteSets

CONSTANTS
    Tasks,       \* webhook requests, each of which becomes one Celery task
    Workers,     \* child processes of the workers
    NoJob,       \* not a job: the child is idle
    MaxRetries,  \* max_retries (3 in the code)
    MaxFaults    \* bound: lost workers, failed commits and time limits

ASSUME AgentTaskAssumption ==
    /\ NoJob \notin [task : Tasks, retries : Nat, id : Nat,
                     ending : {"none", "success", "failed", "raised"},
                     limited : BOOLEAN]
    /\ MaxRetries \in Nat /\ MaxFaults \in Nat

VARIABLES
    agent,    \* agents.status: only an "active" agent accepts work
    queue,    \* messages in the broker: how many for a task and a retry number
    result,   \* what the result backend says of a task
    pc,       \* where a child stands
    job,      \* the message a child holds, and what it knows of its attempt
    pool,     \* _mcp_bridge_pool of a child: the attempts whose bridge it keeps
    rows,     \* agent_test_executions
    faults,   \* faults so far
    starts,   \* history: attempts of a task; numbers its execution ids
    losses,   \* history: of those, lost with their worker
    gone,     \* history: attempts that ended without storing a row
    troubled, \* history: tasks a time limit or a failed commit hit
    cut       \* history: attempts a time limit hit

childVars == <<pc, job, pool>>
historyVars == <<starts, losses, gone, troubled, cut>>
vars == <<agent, queue, result, childVars, rows, faults, historyVars>>

Retries == 0..MaxRetries
Attempt == [task : Tasks, id : Nat]
Job == [task : Tasks, retries : Retries, id : Nat,
        ending : {"none", "success", "failed", "raised"}, limited : BOOLEAN]
ExecutionRow == [attempt : Attempt, status : {"success", "failed"}]
Awaiting == {"load", "check", "tools", "open", "invoke", "cleanup", "save"}
Steps == Awaiting \cup {"savefail", "raise", "return", "ack"}

TypeOK ==
    /\ agent \in {"active", "suspended"}
    /\ queue \in [Tasks -> [Retries -> Nat]]
    /\ result \in [Tasks -> {"none", "queued", "started", "retry",
                             "success", "failure"}]
    /\ pc \in [Workers -> Steps \cup {"idle"}]
    /\ job \in [Workers -> Job \cup {NoJob}]
    /\ \A w \in Workers : pc[w] = "idle" <=> job[w] = NoJob
    /\ pool \in [Workers -> SUBSET Attempt]
    /\ rows \subseteq ExecutionRow
    /\ faults \in Nat
    /\ starts \in [Tasks -> Nat]
    /\ losses \in [Tasks -> Nat]
    /\ gone \subseteq Attempt
    /\ troubled \subseteq Tasks
    /\ cut \subseteq Attempt

Init ==
    /\ agent = "active"
    /\ queue = [t \in Tasks |-> [r \in Retries |-> 0]]
    /\ result = [t \in Tasks |-> "none"]
    /\ pc = [w \in Workers |-> "idle"]
    /\ job = [w \in Workers |-> NoJob]
    /\ pool = [w \in Workers |-> {}]
    /\ rows = {}
    /\ faults = 0
    /\ starts = [t \in Tasks |-> 0]
    /\ losses = [t \in Tasks |-> 0]
    /\ gone = {}
    /\ troubled = {}
    /\ cut = {}

-----------------------------------------------------------------------------
(* The API.                                                                *)

\* PUT on the agent; the code compares its status with "active" only.  (DELETE
\* sets the status of a response object and writes nothing: no action.)
UpdateAgent ==
    /\ agent' = IF agent = "active" THEN "suspended" ELSE "active"
    /\ UNCHANGED <<queue, result, childVars, rows, faults, historyVars>>

\* The agent webhook: a task is sent for an active agent.
Trigger(t) ==
    /\ result[t] = "none"
    /\ agent = "active"
    /\ queue' = [queue EXCEPT ![t][0] = @ + 1]
    /\ result' = [result EXCEPT ![t] = "queued"]
    /\ UNCHANGED <<agent, childVars, rows, faults, historyVars>>

-----------------------------------------------------------------------------
(* An attempt, step by step.                                               *)

AttemptOf(w) == [task |-> job[w].task, id |-> job[w].id]

\* The child takes a message.
Start(w) ==
    /\ pc[w] = "idle"
    /\ \E t \in Tasks, r \in Retries :
        /\ queue[t][r] > 0
        /\ queue' = [queue EXCEPT ![t][r] = @ - 1]
        /\ result' = [result EXCEPT ![t] = "started"]
        /\ starts' = [starts EXCEPT ![t] = @ + 1]
        /\ job' = [job EXCEPT ![w] = [task |-> t, retries |-> r, id |-> starts[t] + 1,
                                      ending |-> "none", limited |-> FALSE]]
        /\ pc' = [pc EXCEPT ![w] = "load"]
    /\ UNCHANGED <<agent, pool, rows, faults, losses, gone, troubled, cut>>

Goto(w, step) ==
    /\ pc' = [pc EXCEPT ![w] = step]
    /\ UNCHANGED job

\* The service has its answer, or an exception it hands on ("raised").
EndWith(w, ending) ==
    /\ pc' = [pc EXCEPT ![w] = "cleanup"]
    /\ job' = [job EXCEPT ![w].ending = ending]

OnlyChild == UNCHANGED <<agent, queue, result, rows, faults, historyVars>>

\* The row of the agent is there (nothing deletes agents) unless it cannot be
\* read.
LoadAgent(w) ==
    /\ pc[w] = "load"
    /\ Goto(w, "check") \/ Goto(w, "savefail")
    /\ UNCHANGED pool
    /\ OnlyChild

\* The status, then the budget: a budget that is used up is the one error
\* that AgentExecutionService raises, every other one becomes its answer.
CheckAgent(w) ==
    /\ pc[w] = "check"
    /\ IF agent # "active"
       THEN EndWith(w, "failed")
       ELSE \/ Goto(w, "tools")
            \/ EndWith(w, "raised")
            \/ EndWith(w, "failed")
    /\ UNCHANGED pool
    /\ OnlyChild

\* Without MCP tools, or without active servers, no bridge is needed.
GetBridge(w) ==
    /\ pc[w] = "tools"
    /\ \/ Goto(w, "invoke") /\ UNCHANGED pool
       \/ /\ pool' = [pool EXCEPT ![w] = @ \cup {AttemptOf(w)}]
          /\ Goto(w, "open")
    /\ OnlyChild

\* Sessions are opened and tools loaded, or the conversion fails.
OpenSessions(w) ==
    /\ pc[w] = "open"
    /\ Goto(w, "invoke") \/ EndWith(w, "failed")
    /\ UNCHANGED pool
    /\ OnlyChild

\* The agent works, tools and all.
InvokeAgent(w) ==
    /\ pc[w] = "invoke"
    /\ EndWith(w, "success") \/ EndWith(w, "failed")
    /\ UNCHANGED pool
    /\ OnlyChild

\* Broken variant of Cleanup: it follows the answer, where an error skips it.
CleanupOnSuccess(w) ==
    /\ pc[w] = "cleanup"
    /\ pool' = [pool EXCEPT ![w] =
                   IF job[w].ending = "success" THEN @ \ {AttemptOf(w)} ELSE @]
    /\ Goto(w, IF job[w].ending = "raised" THEN "savefail" ELSE "save")
    /\ OnlyChild

\* Broken variant of Cleanup: it waits for a bridge that may not be there.
CleanupWaiting(w) ==
    /\ pc[w] = "cleanup"
    /\ AttemptOf(w) \in pool[w]
    /\ pool' = [pool EXCEPT ![w] = @ \ {AttemptOf(w)}]
    /\ Goto(w, IF job[w].ending = "raised" THEN "savefail" ELSE "save")
    /\ OnlyChild

\* The finally clause: cleanup_mcp_bridge drops the bridge from the pool,
\* even if closing it fails.
Cleanup(w) ==
    /\ pc[w] = "cleanup"
    /\ pool' = [pool EXCEPT ![w] = @ \ {AttemptOf(w)}]
    /\ Goto(w, IF job[w].ending = "raised" THEN "savefail" ELSE "save")
    /\ OnlyChild

Fault ==
    /\ faults < MaxFaults
    /\ faults' = faults + 1

Stored(a) == \E r \in rows : r.attempt = a
Trouble(w) == troubled' = troubled \cup {job[w].task}
Cut(w) == Trouble(w) /\ cut' = cut \cup {AttemptOf(w)}

\* Broken variant of Save: an exception follows the commit.
SaveThenRaise(w) ==
    /\ pc[w] = "save"
    /\ rows' = rows \cup {[attempt |-> AttemptOf(w), status |-> job[w].ending]}
    /\ Goto(w, "savefail")
    /\ UNCHANGED <<agent, queue, result, pool, faults, historyVars>>

\* The row of an attempt with an answer, good or bad.
Save(w) ==
    /\ pc[w] = "save"
    /\ rows' = rows \cup {[attempt |-> AttemptOf(w), status |-> job[w].ending]}
    /\ Goto(w, "return")
    /\ UNCHANGED <<agent, queue, result, pool, faults, historyVars>>

\* The commit raises, whether it took effect or not.
SaveRaises(w) ==
    /\ pc[w] = "save"
    /\ Fault
    /\ rows' \in {rows, rows \cup {[attempt |-> AttemptOf(w), status |-> job[w].ending]}}
    /\ Goto(w, "savefail")
    /\ Trouble(w)
    /\ UNCHANGED <<agent, queue, result, pool, starts, losses, gone, cut>>

\* Broken variant of SaveFailed: no row is written.
SaveFailedSkipped(w) ==
    /\ pc[w] = "savefail"
    /\ Goto(w, "raise")
    /\ UNCHANGED <<agent, queue, result, pool, rows, faults, historyVars>>

\* Broken variant of SaveFailed: the failed row gets an id of its own.
SaveFailedAnew(w) ==
    /\ pc[w] = "savefail"
    /\ rows' = rows \cup {[attempt |-> AttemptOf(w), status |-> "failed"]}
    /\ Goto(w, "raise")
    /\ UNCHANGED <<agent, queue, result, pool, faults, historyVars>>

\* _save_failed_execution stores a row under the same execution id: a key
\* that is taken is an error, and errors are logged and dropped here.
SaveFailed(w) ==
    /\ pc[w] = "savefail"
    /\ rows' = IF Stored(AttemptOf(w)) THEN rows
               ELSE rows \cup {[attempt |-> AttemptOf(w), status |-> "failed"]}
    /\ Goto(w, "raise")
    /\ UNCHANGED <<agent, queue, result, pool, faults, historyVars>>

\* The failed row cannot be stored either.
SaveFailedRaises(w) ==
    /\ pc[w] = "savefail"
    /\ Fault
    /\ gone' = gone \cup {AttemptOf(w)}
    /\ Goto(w, "raise")
    /\ Trouble(w)
    /\ UNCHANGED <<agent, queue, result, pool, rows, starts, losses, cut>>

Publish(t, r, n) == queue' = [queue EXCEPT ![t][r] = @ + n]

\* Broken variant of Raise: the retry does not count.
RaiseUncounted(w) ==
    /\ pc[w] = "raise"
    /\ Publish(job[w].task, job[w].retries, 1)
    /\ result' = [result EXCEPT ![job[w].task] = "retry"]
    /\ Goto(w, "ack")
    /\ UNCHANGED <<agent, pool, rows, faults, historyVars>>

\* Broken variant of Raise: autoretry_for and a retry of the task's own.
RaiseTwice(w) ==
    /\ pc[w] = "raise"
    /\ IF job[w].retries < MaxRetries
       THEN /\ Publish(job[w].task, job[w].retries + 1, 2)
            /\ result' = [result EXCEPT ![job[w].task] = "retry"]
       ELSE /\ result' = [result EXCEPT ![job[w].task] = "failure"]
            /\ UNCHANGED queue
    /\ Goto(w, "ack")
    /\ UNCHANGED <<agent, pool, rows, faults, historyVars>>

\* autoretry_for: a new message with the next retry number, or the end.
Raise(w) ==
    /\ pc[w] = "raise"
    /\ IF job[w].retries < MaxRetries
       THEN /\ Publish(job[w].task, job[w].retries + 1, 1)
            /\ result' = [result EXCEPT ![job[w].task] = "retry"]
       ELSE /\ result' = [result EXCEPT ![job[w].task] = "failure"]
            /\ UNCHANGED queue
    /\ Goto(w, "ack")
    /\ UNCHANGED <<agent, pool, rows, faults, historyVars>>

\* The task returns; an agent that failed is no failure of its task.
Return(w) ==
    /\ pc[w] = "return"
    /\ result' = [result EXCEPT ![job[w].task] = "success"]
    /\ Goto(w, "ack")
    /\ UNCHANGED <<agent, queue, pool, rows, faults, historyVars>>

\* Broken variant of Ack: the child keeps the job it has finished.
AckKeepingJob(w) ==
    /\ pc[w] = "ack"
    /\ pc' = [pc EXCEPT ![w] = "idle"]
    /\ UNCHANGED <<agent, queue, result, job, pool, rows, faults, historyVars>>

\* Acknowledged late: only now the broker forgets the message.
Ack(w) ==
    /\ pc[w] = "ack"
    /\ pc' = [pc EXCEPT ![w] = "idle"]
    /\ job' = [job EXCEPT ![w] = NoJob]
    /\ UNCHANGED <<agent, queue, result, pool, rows, faults, historyVars>>

-----------------------------------------------------------------------------
(* Lost workers and time limits.                                           *)

\* A child process ends, and its memory with it.
EndChild(w) ==
    /\ pc' = [pc EXCEPT ![w] = "idle"]
    /\ job' = [job EXCEPT ![w] = NoJob]
    /\ pool' = [pool EXCEPT ![w] = {}]
    /\ gone' = gone \cup {AttemptOf(w)}

\* task_reject_on_worker_lost: the message is in the queue again.
LoseWorker(w) ==
    /\ pc[w] # "idle"
    /\ Fault
    /\ EndChild(w)
    /\ Publish(job[w].task, job[w].retries, 1)
    /\ losses' = [losses EXCEPT ![job[w].task] = @ + 1]
    /\ UNCHANGED <<agent, result, rows, starts, troubled, cut>>

Limited(w, step, ending) ==
    /\ pc' = [pc EXCEPT ![w] = step]
    /\ job' = [job EXCEPT ![w].limited = TRUE, ![w].ending = ending]

\* The signal finds the loop waiting: the coroutine is abandoned.  A commit
\* may have been on its way, and a bridge without sessions may be dropped
\* when the abandoned coroutine is collected.
SoftLimitWaiting(w) ==
    /\ pc[w] \in Awaiting
    /\ ~job[w].limited
    /\ Fault
    /\ Limited(w, "savefail", job[w].ending)
    /\ \/ UNCHANGED rows
       \/ /\ pc[w] = "save"
          /\ rows' = rows \cup {[attempt |-> AttemptOf(w), status |-> job[w].ending]}
    /\ \/ UNCHANGED pool
       \/ /\ pc[w] = "open"
          /\ pool' = [pool EXCEPT ![w] = @ \ {AttemptOf(w)}]
    /\ Cut(w)
    /\ UNCHANGED <<agent, queue, result, starts, losses, gone>>

\* The signal finds the service's code running: the service answers with an
\* error; what loads tools, or cleans up, drops the exception and goes on.
SoftLimitRunning(w) ==
    /\ pc[w] \in {"check", "tools", "open", "invoke", "cleanup"}
    /\ ~job[w].limited
    /\ Fault
    /\ \/ pc[w] = "open" /\ Limited(w, "invoke", "none")
       \/ pc[w] = "cleanup" /\ Limited(w, "cleanup", job[w].ending)
       \/ pc[w] # "cleanup" /\ Limited(w, "cleanup", "failed")
    /\ Cut(w)
    /\ UNCHANGED <<agent, queue, result, pool, rows, starts, losses, gone>>

\* The signal finds the failed row on its way.
SoftLimitSaving(w) ==
    /\ pc[w] = "savefail"
    /\ ~job[w].limited
    /\ Fault
    /\ Limited(w, "raise", job[w].ending)
    /\ gone' = gone \cup {AttemptOf(w)}
    /\ Cut(w)
    /\ UNCHANGED <<agent, queue, result, pool, rows, starts, losses>>

\* One minute after the soft limit the child is killed, and the message
\* acknowledged: acks_on_failure_or_timeout.
HardLimit(w) ==
    /\ pc[w] \notin {"idle", "ack"}
    /\ job[w].limited
    /\ EndChild(w)
    /\ result' = [result EXCEPT ![job[w].task] = "failure"]
    /\ UNCHANGED <<agent, queue, rows, faults, starts, losses, troubled, cut>>

-----------------------------------------------------------------------------
Work(w) ==
    \/ Start(w) \/ LoadAgent(w) \/ CheckAgent(w) \/ GetBridge(w)
    \/ OpenSessions(w) \/ InvokeAgent(w) \/ Cleanup(w)
    \/ Save(w) \/ SaveFailed(w) \/ Raise(w) \/ Return(w) \/ Ack(w)

Next ==
    \/ UpdateAgent
    \/ \E t \in Tasks : Trigger(t)
    \/ \E w \in Workers :
        \/ Work(w) \/ SaveRaises(w) \/ SaveFailedRaises(w) \/ LoseWorker(w)
        \/ SoftLimitWaiting(w) \/ SoftLimitRunning(w) \/ SoftLimitSaving(w)
        \/ HardLimit(w)

Spec == Init /\ [][Next]_vars

\* Children take messages and go on with what they do; every wait of an
\* attempt has a timeout, of its own or the time limits'.
FairSpec == Spec /\ \A w \in Workers : WF_vars(Work(w))

-----------------------------------------------------------------------------
(* Properties.                                                             *)

Holds(w, t) == job[w] # NoJob /\ job[w].task = t
Works(w, t) == Holds(w, t) /\ pc[w] # "ack"
InQueue(t) == \E r \in Retries : queue[t][r] > 0
Settled(t) == result[t] # "none" /\ ~InQueue(t) /\ \A w \in Workers : ~Holds(w, t)
Unfinished(w) == pc[w] \notin {"idle", "raise", "return", "ack"}
Running(w) == IF Unfinished(w) THEN {AttemptOf(w)} ELSE {}
Borrowing(w) == IF pc[w] \in {"open", "invoke", "cleanup"} THEN {AttemptOf(w)} ELSE {}

\* No attempt vanishes (execute_agent stores a row when it returns and when
\* it raises): each attempt ever started is under way, has its row, or
\* ended with its process, or in a row that could not be stored.
AttemptsAccounted ==
    \A t \in Tasks : \A n \in 1..starts[t] :
        LET a == [task |-> t, id |-> n]
        IN  Stored(a) \/ a \in gone \/ \E w \in Workers : a \in Running(w)

\* One execution id, one row: the failed row that an exception stores never
\* contradicts a row that was stored before it (execute_agent passes the
\* same execution_id to both).
OneVerdict ==
    \A r1, r2 \in rows : r1.attempt = r2.attempt => r1 = r2

\* What the database says of an attempt; one without a row is lost with its
\* process, or in a commit that raised.
Entry(a) ==
    LET told == {s \in {"success", "failed"} : [attempt |-> a, status |-> s] \in rows}
    IN  IF told = {} /\ a \in gone THEN {"lost"} ELSE told

Log == [t \in Tasks |-> [n \in 1..starts[t] |-> Entry([task |-> t, id |-> n])]]

ExecutionLog == INSTANCE ExecutionLog WITH log <- Log

\* The rows are a log of the attempts: each begins after the one before, ends
\* once, and keeps its ending whatever is repeated, retried, cut short or lost
\* (_execute_agent_async and _save_failed_execution between them).
ImplementsExecutionLog == ExecutionLog!Spec

\* max_retries bounds the attempts of a task; only a lost worker starts the
\* count again, since a message that comes back keeps its retry number
\* (task_reject_on_worker_lost with task_acks_late).
RetriesBounded ==
    \A t \in Tasks : starts[t] <= (MaxRetries + 1) * (1 + losses[t])

\* Unless a worker was lost, no two attempts of a task run at the same time
\* or wait in the queue: the retry replaces the message that is about to be
\* acknowledged.
NoParallelAttempts ==
    \A t \in Tasks : losses[t] = 0 =>
        /\ \A w1, w2 \in Workers : Works(w1, t) /\ Works(w2, t) => w1 = w2
        /\ \A r1, r2 \in Retries :
               queue[t][r1] > 0 /\ queue[t][r2] > 0 => r1 = r2 /\ queue[t][r1] = 1
        /\ \A w \in Workers : Works(w, t) => ~InQueue(t)

\* A task whose agent has succeeded is not given to the agent again, unless
\* a worker was lost, a commit raised or a time limit struck: the tools the
\* agent called have had their effect (autoretry_for retries everything).
RerunHasCause ==
    [][\A t \in Tasks :
          /\ starts'[t] > starts[t]
          /\ \E r \in rows : r.attempt.task = t /\ r.status = "success"
          => losses[t] > 0 \/ t \in troubled]_vars

\* A bridge in the pool whose attempt does not use it any more is one of an
\* attempt that a time limit hit: cleanup_mcp_bridge runs in the finally clause
\* of every other ending, errors, commits that raise and lost workers included.
LeakNeedsLimit ==
    \A w \in Workers : \A a \in pool[w] : a \in Borrowing(w) \/ a \in cut

\* Whatever happens to workers and commits, a task that was accepted comes
\* to rest: acknowledged, with no retry outstanding.
TaskSettles ==
    \A t \in Tasks : (result[t] = "queued") ~> [](Settled(t))
=============================================================================
