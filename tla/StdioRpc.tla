------------------------------ MODULE StdioRpc ------------------------------
(***************************************************************************)
(* MCPStdioClient: JSON-RPC 2.0 over the pipes of one MCP server process.  *)
(*                                                                         *)
(* A call (_send_and_wait) registers a Future under a fresh id, writes the *)
(* request, spawns ONE background task (_read_responses) and waits for the *)
(* Future under a timeout.  The task reads ONE line of stdout and hands it *)
(* to whichever pending request the line's id names; an exception in the   *)
(* task is given to EVERY pending request.  The tasks share one asyncio    *)
(* StreamReader, which knows a single sleeping coroutine (_waiter) and     *)
(* raises RuntimeError in one that comes while another sleeps.  So a call  *)
(* and the task it spawned are not tied together: a task may consume       *)
(* another call's answer, a late answer or a line that answers nothing,    *)
(* and may outlive its call.                                               *)
(*                                                                         *)
(* A task that was woken clears _waiter once more when it RESUMES, in the  *)
(* finally of StreamReader._wait_for_data.  If another task has gone to    *)
(* sleep between the wake-up and that moment, it is forgotten: neither a   *)
(* line nor EOF wakes it any more.  Nothing but the stream refers to such  *)
(* a task, so the garbage collector may destroy it, and the finally it     *)
(* runs then forgets the sleeper of that moment.                           *)
(*                                                                         *)
(* One call is identified by its request id; the task it spawned is named  *)
(* by the same id.                                                         *)
(***************************************************************************)
EXTENDS Naturals, Sequences, FiniteSets

CONSTANTS
    MaxRequests,   \* bound: request ids given out in one session
    Concurrency,   \* calls the users of one client keep in progress at once
    Noise,         \* kinds of stdout lines that answer no request
    MaxNoise       \* bound: lines of each such kind

NoiseKinds == {"notice", "garbage", "request"}

ASSUME StdioRpcAssumption ==
    /\ MaxRequests \in Nat
    /\ Concurrency \in Nat \ {0}
    /\ Noise \subseteq NoiseKinds
    /\ MaxNoise \in Nat

VARIABLES
    requestId,   \* _request_id: the last id handed out
    pending,     \* the keys of _pending_requests
    future,      \* future[i]: state of the asyncio.Future of request i
    call,        \* call[i]: where _send_and_wait of request i stands, or how it ended
    reader,      \* reader[i]: the _read_responses task spawned by request i
    waiter,      \* StreamReader._waiter: the sleeping task it knows, 0 if none
    stdout,      \* complete lines in the StreamReader's buffer
    alive,       \* the server process runs (its stdout is at EOF otherwise)
    closed,      \* _closed
    written,     \* requests that reached the server's stdin
    answered,    \* requests the server has answered
    noise        \* noise[k]: lines of kind k the server has sent

clientVars == <<requestId, pending, future, call>>
streamVars == <<reader, waiter, stdout>>
serverVars == <<alive, written, answered, noise>>
vars == <<clientVars, streamVars, serverVars, closed>>

Ids == 1..MaxRequests
Endings == {"result", "error", "failed", "timeout"}
InProgress == {"sending", "waiting"}

\* A line of stdout: a response, or a line that answers nothing (a notification
\* without id, a line that cannot be read as JSON-RPC or exceeds the stream's
\* limit, or a request of the server's own, whose id the server chose).
Line == [kind : {"result", "error"} \cup NoiseKinds, id : 0..MaxRequests]

\* A task is spawned ("ready"), sleeps in readline ("blocked"), has been woken and
\* is to resume ("woken"), and ends ("done"), unless the garbage collector destroys
\* it in its sleep ("destroyed").
ReaderStates == {"none", "ready", "blocked", "woken", "done", "destroyed"}

TypeOK ==
    /\ requestId \in 0..MaxRequests
    /\ pending \subseteq Ids
    /\ future \in [Ids -> {"none", "unset", "result", "error", "failed", "cancelled"}]
    /\ call \in [Ids -> {"none"} \cup InProgress \cup Endings]
    /\ reader \in [Ids -> ReaderStates]
    /\ waiter \in 0..MaxRequests
    /\ stdout \in Seq(Line)
    /\ alive \in BOOLEAN
    /\ closed \in BOOLEAN
    /\ written \subseteq Ids
    /\ answered \subseteq Ids
    /\ noise \in [NoiseKinds -> Nat]

Init ==
    /\ requestId = 0
    /\ pending = {}
    /\ future = [i \in Ids |-> "none"]
    /\ call = [i \in Ids |-> "none"]
    /\ reader = [i \in Ids |-> "none"]
    /\ waiter = 0
    /\ stdout = <<>>
    /\ alive = TRUE
    /\ closed = FALSE
    /\ written = {}
    /\ answered = {}
    /\ noise = [k \in NoiseKinds |-> 0]

Open == {i \in Ids : call[i] \in InProgress}

-----------------------------------------------------------------------------
(* The caller: _send_and_wait.                                             *)

\* Up to the await in _send_request: a fresh id, its Future in
\* _pending_requests, and the request line handed to the process's stdin.
StartCall(i) ==
    /\ ~closed
    /\ Cardinality(Open) < Concurrency
    /\ i = requestId + 1
    /\ requestId' = i
    /\ pending' = pending \cup {i}
    /\ future' = [future EXCEPT ![i] = "unset"]
    /\ call' = [call EXCEPT ![i] = "sending"]
    /\ written' = IF alive THEN written \cup {i} ELSE written
    /\ UNCHANGED <<streamVars, alive, answered, noise, closed>>

\* Broken variant of Drained: no task is spawned while another one reads.
DrainedSharing(i) ==
    /\ call[i] = "sending"
    /\ call' = [call EXCEPT ![i] = "waiting"]
    /\ reader' = IF \E j \in Ids : reader[j] \in {"ready", "blocked", "woken"}
                 THEN reader ELSE [reader EXCEPT ![i] = "ready"]
    /\ UNCHANGED <<requestId, pending, future, waiter, stdout, serverVars, closed>>

\* drain() returned: spawn the reading task and start the timed wait.
Drained(i) ==
    /\ call[i] = "sending"
    /\ call' = [call EXCEPT ![i] = "waiting"]
    /\ reader' = [reader EXCEPT ![i] = "ready"]
    /\ UNCHANGED <<requestId, pending, future, waiter, stdout, serverVars, closed>>

\* Every way out of _send_and_wait runs its finally: the id leaves the table.
EndCall(i, how) ==
    /\ call' = [call EXCEPT ![i] = how]
    /\ pending' = pending \ {i}

\* drain() raised: the process is gone.
SendFails(i) ==
    /\ call[i] = "sending"
    /\ ~alive
    /\ EndCall(i, "failed")
    /\ UNCHANGED <<requestId, future, streamVars, serverVars, closed>>

\* Broken variant of Complete: the Future is read without waiting for it.
CompleteUnset(i) ==
    /\ call[i] = "waiting"
    /\ future[i] # "cancelled"
    /\ EndCall(i, future[i])
    /\ UNCHANGED <<requestId, future, streamVars, serverVars, closed>>

\* wait_for returned because the Future is done: a result, a server error
\* (raised as MCPError) or the exception a reading task stored in it.
Complete(i) ==
    /\ call[i] = "waiting"
    /\ future[i] \in {"result", "error", "failed"}
    /\ EndCall(i, future[i])
    /\ UNCHANGED <<requestId, future, streamVars, serverVars, closed>>

\* Broken variant of Timeout: the wait is bounded by the server's life only.
TimeoutAtExit(i) ==
    /\ call[i] = "waiting"
    /\ future[i] = "unset"
    /\ ~alive
    /\ future' = [future EXCEPT ![i] = "cancelled"]
    /\ EndCall(i, "timeout")
    /\ UNCHANGED <<requestId, streamVars, serverVars, closed>>

\* wait_for gave up first: it cancels the Future.  The reading task is not.
Timeout(i) ==
    /\ call[i] = "waiting"
    /\ future[i] = "unset"
    /\ future' = [future EXCEPT ![i] = "cancelled"]
    /\ EndCall(i, "timeout")
    /\ UNCHANGED <<requestId, streamVars, serverVars, closed>>

-----------------------------------------------------------------------------
(* The reading tasks: _read_responses and the readline under it.           *)

\* The exception handler of _read_responses: every pending Future not done
\* yet gets the exception, whoever's line or task caused it.
FailPending ==
    future' = [i \in Ids |->
                 IF i \in pending /\ future[i] = "unset" THEN "failed" ELSE future[i]]

\* Broken variants of Dispatch: a line resolves whatever is pending; a line that
\* matches no pending request is an error.
DispatchAny(line) ==
    future' = [i \in Ids |->
                 IF i \in pending /\ future[i] = "unset" THEN "result" ELSE future[i]]
DispatchStrict(line) ==
    IF line.id \in pending /\ future[line.id] = "unset"
    THEN future' = [future EXCEPT ![line.id] =
                        IF line.kind = "error" THEN "error" ELSE "result"]
    ELSE FailPending

\* A parsed line resolves the Future its id names, if that one is pending and
\* not done; any other line is dropped.
Dispatch(line) ==
    IF line.id \in pending /\ future[line.id] = "unset"
    THEN future' = [future EXCEPT ![line.id] =
                        IF line.kind = "error" THEN "error" ELSE "result"]
    ELSE UNCHANGED future

Running(i) == reader[i] \in {"ready", "woken"}

\* _waiter as task i finds it: a task that was woken has cleared it on resuming,
\* whoever sleeps there by now.
Slot(i) == IF reader[i] = "woken" THEN 0 ELSE waiter

\* A complete line is buffered: consume it, then finish.
ReadLine(i) ==
    /\ Running(i)
    /\ stdout # <<>>
    /\ stdout' = Tail(stdout)
    /\ waiter' = Slot(i)
    /\ reader' = [reader EXCEPT ![i] = "done"]
    /\ IF Head(stdout).kind = "garbage" THEN FailPending ELSE Dispatch(Head(stdout))
    /\ UNCHANGED <<requestId, pending, call, serverVars, closed>>

\* Nothing buffered, and the stream is at EOF (EOFError) or another task
\* sleeps in readline (RuntimeError).
ReadFails(i) ==
    /\ Running(i)
    /\ stdout = <<>>
    /\ ~alive \/ Slot(i) # 0
    /\ waiter' = Slot(i)
    /\ reader' = [reader EXCEPT ![i] = "done"]
    /\ FailPending
    /\ UNCHANGED <<requestId, pending, call, stdout, serverVars, closed>>

\* Broken variant of ReadBlocks: the task sleeps without a look at the buffer.
ReadBlocksBlind(i) ==
    /\ Running(i)
    /\ alive
    /\ Slot(i) = 0
    /\ waiter' = i
    /\ reader' = [reader EXCEPT ![i] = "blocked"]
    /\ UNCHANGED <<clientVars, stdout, serverVars, closed>>

\* Nothing buffered: sleep until data or EOF comes.
ReadBlocks(i) ==
    /\ Running(i)
    /\ stdout = <<>>
    /\ alive
    /\ Slot(i) = 0
    /\ waiter' = i
    /\ reader' = [reader EXCEPT ![i] = "blocked"]
    /\ UNCHANGED <<clientVars, stdout, serverVars, closed>>

\* The garbage collector finds a sleeping task the stream does not know: nothing
\* else refers to it.  Closing its coroutine runs the finally of _wait_for_data.
Collect(i) ==
    /\ reader[i] = "blocked"
    /\ waiter # i
    /\ waiter' = 0
    /\ reader' = [reader EXCEPT ![i] = "destroyed"]
    /\ UNCHANGED <<clientVars, stdout, serverVars, closed>>

RunReader(i) == ReadLine(i) \/ ReadFails(i) \/ ReadBlocks(i)

\* StreamReader._wakeup_waiter, called when data or EOF is fed.
WakeWaiter ==
    /\ waiter' = 0
    /\ reader' = IF waiter = 0 THEN reader ELSE [reader EXCEPT ![waiter] = "woken"]

-----------------------------------------------------------------------------
(* The server process, as the client sees it.                              *)

Feed(line) ==
    /\ stdout' = Append(stdout, line)
    /\ WakeWaiter

\* The server answers a request it got, in any order and however late.
Answer(i, kind) ==
    /\ alive
    /\ i \in written \ answered
    /\ answered' = answered \cup {i}
    /\ Feed([kind |-> kind, id |-> i])
    /\ UNCHANGED <<clientVars, alive, written, noise, closed>>

\* The server sends a line that answers no request of the client.
SendNoise(kind, id) ==
    /\ alive
    /\ noise[kind] < MaxNoise
    /\ kind = "request" <=> id # 0
    /\ noise' = [noise EXCEPT ![kind] = @ + 1]
    /\ Feed([kind |-> kind, id |-> id])
    /\ UNCHANGED <<clientVars, alive, written, answered, closed>>

\* Part of a line arrives: the sleeping task is woken, to find no newline and to
\* go to sleep again.
Chunk ==
    /\ alive
    /\ waiter # 0
    /\ WakeWaiter
    /\ UNCHANGED <<clientVars, stdout, serverVars, closed>>

\* The process ends, by itself or by a signal: stdout is at EOF.
Exit ==
    /\ alive
    /\ alive' = FALSE
    /\ WakeWaiter
    /\ UNCHANGED <<clientVars, stdout, written, answered, noise, closed>>

\* close(): further calls are refused and the process gets SIGTERM.
Close ==
    /\ ~closed
    /\ closed' = TRUE
    /\ UNCHANGED <<clientVars, streamVars, serverVars>>

\* Broken variant of Reap: close() lets a task that still reads go first.
ReapIdle == closed /\ waiter = 0 /\ Exit

\* The end of close(): SIGTERM is honoured, or SIGKILL follows.
Reap == closed /\ Exit

-----------------------------------------------------------------------------
Caller(i) == StartCall(i) \/ Drained(i) \/ SendFails(i) \/ Complete(i) \/ Timeout(i)

Server ==
    \/ \E i \in Ids, kind \in {"result", "error"} : Answer(i, kind)
    \/ \E kind \in Noise, id \in 0..MaxRequests : SendNoise(kind, id)
    \/ Chunk
    \/ Exit

Next == (\E i \in Ids : Caller(i) \/ RunReader(i) \/ Collect(i)) \/ Server \/ Close

\* drain() ends when the process has: the pipe is broken or its buffer dropped.
DrainGone(i) == ~alive /\ (Drained(i) \/ SendFails(i))

\* The event loop runs what is ready and the timers of wait_for and of close()
\* expire.  The server owes nothing: it need not answer, and as long as it runs it
\* need not even read its stdin (drain() has no timeout).
Fairness ==
    /\ \A i \in Ids : WF_vars(RunReader(i)) /\ WF_vars(DrainGone(i))
    /\ \A i \in Ids : WF_vars(Complete(i) \/ Timeout(i))
    /\ WF_vars(Reap)

Spec == Init /\ [][Next]_vars
FairSpec == Spec /\ Fairness

-----------------------------------------------------------------------------
(* Properties.                                                             *)

Live(i) == reader[i] \in {"ready", "blocked", "woken"}
Unresolved(i) == call[i] = "waiting" /\ future[i] = "unset"
TimedOutBefore(i) == \E j \in Ids : j < i /\ call[j] = "timeout"
TimedOutUpTo(i) == call[i] = "timeout" \/ TimedOutBefore(i)

\* Task i lost its place in the stream to a task that was woken before it slept,
\* or to one that was destroyed: it sleeps, and no line and no EOF will wake it.
Overtaken(i) == (reader[i] = "blocked" /\ waiter # i) \/ reader[i] = "destroyed"

\* The table of pending requests holds exactly the calls in progress: no way
\* out of _send_and_wait (answer, error, exception, timeout, broken pipe) leaves
\* an entry that a late line could resolve or an exception could reach.
PendingExact == pending = Open

\* The sleeper the stream knows of is a task that does sleep, and while it sleeps
\* nothing is there to be read.
SleeperInOrder == waiter # 0 => reader[waiter] = "blocked" /\ stdout = <<>> /\ alive

\* A caller that makes its calls one after the other has no task asleep that lines
\* and EOF pass by, unless the call that spawned it, or one before, timed out (the
\* timed-out call's task lives on and is the one that overtakes); and the sleeper
\* the stream knows of does not sleep through data.
NoLostWakeup ==
    /\ SleeperInOrder
    /\ \A i \in Ids : Overtaken(i) => TimedOutUpTo(i)

\* A caller that makes its calls one after the other gets an exception other
\* than a server error or a timeout only if the server ended, sent a line that
\* cannot be read, or let an earlier call time out (its task is still asleep
\* in readline when the next one starts).
FailureHasCause ==
    \A i \in Ids : call[i] = "failed" =>
        ~alive \/ noise["garbage"] > 0 \/ TimedOutBefore(i)

\* A line of noise, a call given up, an exception handed round and a task that was
\* overtaken are what sets the number of reading tasks apart from the number of
\* answers they owe.
Disturbed ==
    \/ \E k \in NoiseKinds : noise[k] > 0
    \/ \E j \in Ids : call[j] \in {"timeout", "failed"} \/ future[j] = "failed"
    \/ \E j \in Ids : Overtaken(j)

\* The next line or EOF reaches this task.
Listens(i) == Running(i) \/ waiter = i

\* While a call waits, a task that the next line or EOF will reach reads or is about
\* to be spawned, unless the stream lost step before: a line that answered nothing
\* used up a task, a call was given up, an exception was handed to the calls in
\* progress, or a task was overtaken in its sleep (two overlapping calls and a line
\* that arrives in two parts are enough for that).
WaitingIsServed ==
    \A i \in Ids : Unresolved(i) =>
        Disturbed \/ \E j \in Ids : Listens(j) \/ call[j] = "sending"

\* The stdio client keeps the promise of module McpRpc: one ending per call, and
\* an answer only where the server gave one.
Rpc == INSTANCE McpRpc WITH
           call <- [i \in Ids |-> IF call[i] \in InProgress THEN "open" ELSE call[i]]
ImplementsMcpRpc == Rpc!Spec

\* Every wait ends, however the server behaves and whatever the other tasks read.
EveryWaitEnds == \A i \in Ids : call[i] = "waiting" ~> call[i] \in Endings

\* close() does not leave the server process behind, nor a call hanging.
CloseSettles == closed ~> [](~alive /\ Open = {})

-----------------------------------------------------------------------------
(* Inductive strengthenings, used by the proofs.                           *)

\* Ids are handed out in order; a call gets its Future before it sends and its
\* task after.
CallOrder ==
    \A i \in Ids :
        /\ call[i] = "none" <=> i > requestId
        /\ call[i] \in {"none", "sending"} => reader[i] = "none"

\* A response in the buffer, or in a Future, is one the server gave to a request
\* it received; a line that answers nothing has no id of the client's (the server
\* sends no requests of its own).
Provenance ==
    /\ answered \subseteq written
    /\ written \subseteq 1..requestId
    /\ \A i \in Ids : future[i] \in {"result", "error"} => i \in answered
    /\ \A n \in 1..Len(stdout) :
           stdout[n].id \in Ids =>
               stdout[n].kind \in {"result", "error"} /\ stdout[n].id \in answered

\* As long as nothing is disturbed, a line in the buffer is the one answer to a
\* call that still waits for it, and the tasks that are done are as many as the
\* Futures that have their answer.
Resolved == {i \in Ids : future[i] \in {"result", "error"}}
Spent == {i \in Ids : reader[i] = "done"}
InStep ==
    /\ answered \subseteq written /\ written \subseteq 1..requestId
    /\ Resolved \subseteq answered
    /\ \A n \in 1..Len(stdout) :
           /\ stdout[n].kind \in {"result", "error"}
           /\ stdout[n].id \in answered /\ future[stdout[n].id] = "unset"
    /\ \A m, n \in 1..Len(stdout) : stdout[m].id = stdout[n].id => m = n
    /\ \A i \in Ids :
           /\ future[i] \in {"none", "unset", "result", "error"}
           /\ future[i] = "none" <=> call[i] = "none"
           /\ call[i] \in {"result", "error"} => future[i] = call[i]
           /\ reader[i] = "none" <=> call[i] \in {"none", "sending"}
    /\ Cardinality(Resolved) = Cardinality(Spent)

\* What may make a call of a sequential caller fail.
Cause(i) == ~alive \/ noise["garbage"] > 0 \/ TimedOutBefore(i)

\* One call at a time: a task that outlives its call, or that was overtaken, goes
\* back to a call that timed out, as does what such a task put into the Future of
\* the call in progress before it had a task of its own; an exception there has a
\* cause.
Leftovers ==
    /\ \A i \in Ids : call[i] \in InProgress => i = requestId
    /\ \A n \in 1..Len(stdout) : stdout[n].kind = "garbage" => noise["garbage"] > 0
    /\ \A i \in Ids : Live(i) /\ ~Unresolved(i) => TimedOutUpTo(i)
    /\ \A i \in Ids : Overtaken(i) => TimedOutUpTo(i)
    /\ \A i \in Ids : call[i] = "sending" /\ future[i] # "unset" => TimedOutBefore(i)
    /\ \A i \in Ids : call[i] \in InProgress /\ future[i] = "failed" => Cause(i)
=============================================================================
