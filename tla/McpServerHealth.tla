--------------------------- MODULE McpServerHealth ---------------------------
(***************************************************************************)
(* The health of registered MCP servers: the status and the failure count  *)
(* of each mcp_servers row, and everyone who writes them.                  *)
(*                                                                         *)
(*   - the periodic task (mcp_health_check_task) selects the rows that are *)
(*     active or in error ONCE, then checks them one after the other;      *)
(*   - POST /health-check checks one row, whatever its status;             *)
(*   - POST /discover and GET /health connect to the server and set the    *)
(*     row's status only;                                                  *)
(*   - POST and DELETE on the collection create and delete rows.           *)
(*                                                                         *)
(* Each works in a database session of its own that does not expire what   *)
(* it has loaded: between the SELECT and the UPDATE it waits for the       *)
(* server, and the UPDATE then writes the attributes that differ from what *)
(* was LOADED, whatever the row holds by now.  A rollback, on the other    *)
(* hand, expires everything, and an expired attribute cannot be read in an *)
(* async session (MissingGreenlet): the check, and the run, end there.     *)
(*                                                                         *)
(* A check is counted only after its metric went into the database.  In    *)
(* this code base it never does: the metric's tenant_id is a UUID in       *)
(* MCPHealthMetric and a String(100) in mcp_servers and                    *)
(* mcp_server_metrics.  A tenant id that does not read as a UUID raises    *)
(* ValidationError where the metric is built, and one that does is refused *)
(* by the database driver.  MetricFates says which of these the model      *)
(* takes: {"invalid", "refused"} is the code as it stands, "stored" is     *)
(* what the code after the insert is written for, and with all three the   *)
(* behaviours include those of both.                                       *)
(***************************************************************************)
EXTENDS Naturals, FiniteSets

CONSTANTS
    Servers,
    NoServer,      \* not a server
    Runs,          \* runs of the periodic task that may overlap
    Requests,      \* API requests that may be served at the same time
    Ops,           \* kinds of API requests made
    CheckConnects, \* check_server_health's probe gets as far as the server
    MetricFates,   \* what the types of tenant_id make of a check's metric
    MaxOps,        \* bound: API requests on existing servers
    MaxFaults      \* bound: killed sessions and inserts refused for other reasons

Sessions == Runs \cup Requests
Threshold == 3

ASSUME McpServerHealthAssumption ==
    /\ NoServer \notin Servers
    /\ Runs \cap Requests = {}
    /\ Ops \subseteq {"create", "check", "probe", "delete"}
    /\ CheckConnects \in BOOLEAN
    /\ MetricFates \subseteq {"stored", "refused", "invalid"}
    /\ MaxOps \in Nat /\ MaxFaults \in Nat

VARIABLES
    row,     \* mcp_servers: status and consecutive_failures of each server
    pc,      \* where a session stands
    todo,    \* servers a session has selected and not finished
    at,      \* the server whose check a session has measured and not stored
    seen,    \* what a session has loaded of its servers' rows
    ops,     \* API requests made
    faults,  \* faults so far
    fails,   \* history: failed checks stored, counted up to Threshold
    streak   \* history: of those, since the last success, up to Threshold

sessionVars == <<pc, todo, at, seen>>
historyVars == <<fails, streak>>
vars == <<row, sessionVars, ops, faults, historyVars>>

Selected == {"active", "error"}
Present == Selected \cup {"inactive"}
Row == [status : Present \cup {"none", "deleted"}, failures : Nat]
Blank == [status |-> "none", failures |-> 0]
Deleted == [status |-> "deleted", failures |-> 0]
Exists(s) == row[s].status \in Present

TypeOK ==
    /\ row \in [Servers -> Row]
    /\ pc \in [Sessions -> {"idle", "checking", "passed", "failed", "reset",
                            "probing", "aborted"}]
    /\ todo \in [Sessions -> SUBSET Servers]
    /\ at \in [Sessions -> Servers \cup {NoServer}]
    /\ \A a \in Sessions : pc[a] \in {"passed", "failed", "reset"} => at[a] \in todo[a]
    /\ seen \in [Sessions -> [Servers -> Row]]
    /\ ops \in Nat
    /\ faults \in Nat
    /\ fails \in [Servers -> 0..Threshold]
    /\ streak \in [Servers -> 0..Threshold]

Init ==
    /\ row = [s \in Servers |-> Blank]
    /\ pc = [a \in Sessions |-> "idle"]
    /\ todo = [a \in Sessions |-> {}]
    /\ at = [a \in Sessions |-> NoServer]
    /\ seen = [a \in Sessions |-> [s \in Servers |-> Blank]]
    /\ ops = 0
    /\ faults = 0
    /\ fails = [s \in Servers |-> 0]
    /\ streak = [s \in Servers |-> 0]

-----------------------------------------------------------------------------
(* Sessions.                                                               *)

Free(a) == pc[a] \in {"idle", "aborted"}

\* Load the rows of some servers, as the table "rows" has them.
Load(a, step, servers, rows) ==
    /\ pc' = [pc EXCEPT ![a] = step]
    /\ todo' = [todo EXCEPT ![a] = servers]
    /\ seen' = [seen EXCEPT ![a] =
                   [s \in Servers |-> IF s \in servers THEN rows[s] ELSE Blank]]
    /\ UNCHANGED at

\* The session ends ("idle"), or an exception ends it ("aborted").
EndSession(a, how) ==
    /\ pc' = [pc EXCEPT ![a] = how]
    /\ todo' = [todo EXCEPT ![a] = {}]
    /\ at' = [at EXCEPT ![a] = NoServer]
    /\ seen' = [seen EXCEPT ![a] = [s \in Servers |-> Blank]]

\* Broken variant of NextServer: the finished server stays current.
NextServerStuck(a, s) ==
    /\ todo' = [todo EXCEPT ![a] = @ \ {s}]
    /\ UNCHANGED <<pc, at, seen>>

\* Server s is finished: go on with the next one selected, if any.
NextServer(a, s) ==
    IF todo[a] = {s}
    THEN EndSession(a, "idle")
    ELSE /\ pc' = [pc EXCEPT ![a] = "checking"]
         /\ todo' = [todo EXCEPT ![a] = @ \ {s}]
         /\ at' = [at EXCEPT ![a] = NoServer]
         /\ UNCHANGED seen

\* The UPDATE of a commit: only attributes that differ from what was loaded.
Flush(stored, loaded, assigned) ==
    [status |-> IF assigned.status # loaded.status
                THEN assigned.status ELSE stored.status,
     failures |-> IF assigned.failures # loaded.failures
                  THEN assigned.failures ELSE stored.failures]

-----------------------------------------------------------------------------
(* check_server_health, for the periodic task and POST /health-check.      *)

\* The probe of check_server_health.  In this code base it raises TypeError
\* before it connects (MCPStdioClient takes no command=): CheckConnects is FALSE.
CheckOutcomes == IF CheckConnects THEN BOOLEAN ELSE {FALSE}

\* Broken variant of StartRun: the task selects every server that is there.
StartRunAll(a) ==
    LET selected == {s \in Servers : Exists(s)} IN
    /\ a \in Runs
    /\ Free(a)
    /\ selected # {}
    /\ Load(a, "checking", selected, row)
    /\ UNCHANGED <<row, ops, faults, historyVars>>

\* One run of the periodic task starts: the only SELECT it makes.
StartRun(a) ==
    LET selected == {s \in Servers : row[s].status \in Selected} IN
    /\ a \in Runs
    /\ Free(a)
    /\ selected # {}
    /\ Load(a, "checking", selected, row)
    /\ UNCHANGED <<row, ops, faults, historyVars>>

\* The server was probed and the metric inserted.
Measure(a, s, ok) ==
    /\ pc[a] = "checking"
    /\ s \in todo[a]
    /\ Exists(s)
    /\ "stored" \in MetricFates
    /\ ok \in CheckOutcomes
    /\ pc' = [pc EXCEPT ![a] = IF ok THEN "passed" ELSE "failed"]
    /\ at' = [at EXCEPT ![a] = s]
    /\ UNCHANGED <<row, todo, seen, ops, faults, historyVars>>

\* The metric cannot be built: the error leaves check_server_health.  The loop of
\* the task logs it and goes on to the next server, the request answers 400.
MeasureInvalid(a, s) ==
    /\ pc[a] = "checking"
    /\ s \in todo[a]
    /\ "invalid" \in MetricFates
    /\ NextServer(a, s)
    /\ UNCHANGED <<row, ops, faults, historyVars>>

\* Unless the types have it refused, the insert of a metric fails for want of the
\* row it refers to, or by a fault of the database.
RefusedByTypes == "refused" \in MetricFates
RefusedByFault(s) == "stored" \in MetricFates /\ Exists(s) /\ faults < MaxFaults
RefusedAsGone(s) == "stored" \in MetricFates /\ ~Exists(s)

\* The insert of the metric failed and record_metric rolled the session back.  A
\* failed check then reads the expired failure count and raises, and so does the
\* error handler of the loop (expired name); a passed check only assigns.
MeasureUnrecorded(a, s, ok) ==
    /\ pc[a] = "checking"
    /\ s \in todo[a]
    /\ ok \in CheckOutcomes
    /\ \/ (RefusedByTypes \/ RefusedAsGone(s)) /\ UNCHANGED faults
       \/ RefusedByFault(s) /\ faults' = faults + 1
    /\ \/ /\ ok
          /\ pc' = [pc EXCEPT ![a] = "reset"]
          /\ at' = [at EXCEPT ![a] = s]
          /\ UNCHANGED <<todo, seen>>
       \/ /\ ~ok
          /\ EndSession(a, "aborted")
    /\ UNCHANGED <<row, ops, historyVars>>

Checked(s, ok) ==
    /\ fails' = IF ok \/ fails[s] = Threshold THEN fails ELSE [fails EXCEPT ![s] = @ + 1]
    /\ streak' = [streak EXCEPT ![s] =
                     IF ok THEN 0 ELSE IF @ = Threshold THEN @ ELSE @ + 1]

Passed == [status |-> "active", failures |-> 0]

\* Broken variants of Failed: a failure counts twice; the breaker opens early.
FailedTwice(loaded) ==
    LET n == loaded.failures + 2 IN
    [status |-> IF n >= Threshold THEN "inactive" ELSE "error", failures |-> n]
FailedEarly(loaded) ==
    LET n == loaded.failures + 1 IN
    [status |-> IF n + 1 >= Threshold THEN "inactive" ELSE "error", failures |-> n]

\* The failure branch: count on from the LOADED count, and trip at Threshold.
Failed(loaded) ==
    LET n == loaded.failures + 1 IN
    [status |-> IF n >= Threshold THEN "inactive" ELSE "error", failures |-> n]

\* Broken variant of StorePass: a passed check keeps the failure count.
StorePassCounting(a) ==
    /\ pc[a] = "passed"
    /\ Exists(at[a])
    /\ row' = [row EXCEPT ![at[a]].status = "active"]
    /\ Checked(at[a], TRUE)
    /\ NextServer(a, at[a])
    /\ UNCHANGED <<ops, faults>>

StorePass(a) ==
    /\ pc[a] = "passed"
    /\ Exists(at[a])
    /\ row' = [row EXCEPT ![at[a]] = Flush(@, seen[a][at[a]], Passed)]
    /\ Checked(at[a], TRUE)
    /\ NextServer(a, at[a])
    /\ UNCHANGED <<ops, faults>>

StoreFail(a) ==
    /\ pc[a] = "failed"
    /\ Exists(at[a])
    /\ row' = [row EXCEPT ![at[a]] =
                  Flush(@, seen[a][at[a]], Failed(seen[a][at[a]]))]
    /\ Checked(at[a], FALSE)
    /\ NextServer(a, at[a])
    /\ UNCHANGED <<ops, faults>>

\* After a rollback the old values are unknown: every assigned attribute is
\* written, and the log line after the commit raises on the expired id.
StoreReset(a) ==
    /\ pc[a] = "reset"
    /\ Exists(at[a])
    /\ row' = [row EXCEPT ![at[a]] = Passed]
    /\ Checked(at[a], TRUE)
    /\ EndSession(a, "aborted")
    /\ UNCHANGED <<ops, faults>>

\* The row was deleted after the metric went in: the UPDATE matches no row, the
\* commit raises, and so does the error handler of the loop (expired name).
StoreGone(a) ==
    /\ pc[a] \in {"passed", "failed", "reset"}
    /\ ~Exists(at[a])
    /\ EndSession(a, "aborted")
    /\ UNCHANGED <<row, ops, faults, historyVars>>

-----------------------------------------------------------------------------
(* The other API requests.                                                 *)

Request(a, op) ==
    /\ a \in Requests
    /\ op \in Ops
    /\ Free(a)

\* create_server: the row is inactive until its first discovery ends.
Create(a, s) ==
    /\ Request(a, "create")
    /\ row[s].status = "none"
    /\ row' = [row EXCEPT ![s].status = "inactive"]
    /\ Load(a, "probing", {s}, row')
    /\ UNCHANGED <<ops, faults, historyVars>>

\* The other requests name a row that exists.
OnServer(a, s, op) ==
    /\ Request(a, op)
    /\ Exists(s)
    /\ ops < MaxOps
    /\ ops' = ops + 1
    /\ UNCHANGED <<faults, historyVars>>

PostCheck(a, s) ==
    /\ OnServer(a, s, "check")
    /\ Load(a, "checking", {s}, row)
    /\ UNCHANGED row

\* discover_capabilities and check_health, up to the connection to the server.
BeginProbe(a, s) ==
    /\ OnServer(a, s, "probe")
    /\ Load(a, "probing", {s}, row)
    /\ UNCHANGED row

Delete(a, s) ==
    /\ OnServer(a, s, "delete")
    /\ row' = [row EXCEPT ![s] = Deleted]
    /\ UNCHANGED sessionVars

\* Their end: the status is set, the failure count is not touched.  A row deleted
\* meanwhile makes the commit raise.
EndProbe(a, s, ok) ==
    /\ pc[a] = "probing"
    /\ todo[a] = {s}
    /\ IF Exists(s)
       THEN /\ row' = [row EXCEPT ![s] = Flush(@, seen[a][s],
                          [seen[a][s] EXCEPT !.status = IF ok THEN "active" ELSE "error"])]
            /\ streak' = IF ok THEN [streak EXCEPT ![s] = 0] ELSE streak
            /\ EndSession(a, "idle")
       ELSE /\ EndSession(a, "aborted")
            /\ UNCHANGED <<row, streak>>
    /\ UNCHANGED <<ops, faults, fails>>

\* A time limit, a crash or a client that went away ends a session.
Kill(a) ==
    /\ ~Free(a)
    /\ faults < MaxFaults
    /\ faults' = faults + 1
    /\ EndSession(a, "idle")
    /\ UNCHANGED <<row, ops, historyVars>>

-----------------------------------------------------------------------------
Check(a) ==
    \/ \E s \in Servers, ok \in BOOLEAN : Measure(a, s, ok) \/ MeasureUnrecorded(a, s, ok)
    \/ \E s \in Servers : MeasureInvalid(a, s)
    \/ StorePass(a) \/ StoreFail(a) \/ StoreReset(a) \/ StoreGone(a)

Api(a, s) ==
    \/ Create(a, s) \/ PostCheck(a, s) \/ BeginProbe(a, s) \/ Delete(a, s)
    \/ \E ok \in BOOLEAN : EndProbe(a, s, ok)

Next ==
    \E a \in Sessions :
        \/ StartRun(a)
        \/ Check(a)
        \/ \E s \in Servers : Api(a, s)
        \/ Kill(a)

Spec == Init /\ [][Next]_vars

\* Beat starts a run every 30 seconds, and a check ends within its timeout.
Fairness == \A a \in Runs : WF_vars(StartRun(a)) /\ WF_vars(Check(a))
FairSpec == Spec /\ Fairness

-----------------------------------------------------------------------------
(* Properties.                                                             *)

Covered(s, r) == fails[s] = Threshold \/ r.failures <= fails[s]

\* Overlapping checks lose counts and never invent them: the failure count in a
\* row, and in every stale copy of it, is covered by checks that did fail.
CountIsEarned ==
    \A s \in Servers :
        /\ Covered(s, row[s])
        /\ \A a \in Sessions : Covered(s, seen[a][s])

\* However checks, discoveries and deletions overlap, the breaker does not open
\* before three checks of that server have failed.
TripIsEarned ==
    [][\A s \in Servers :
          row[s].status \in Selected /\ row'[s].status = "inactive" =>
              fails'[s] = Threshold]_vars

\* Where only the periodic task checks, one run at a time, the rows go through
\* the states of module CircuitBreaker, in spite of killed runs, lost metrics and
\* rows deleted under a check.
Breaker == INSTANCE CircuitBreaker
ImplementsBreaker == Breaker!Spec

\* "Triggers circuit breaker after 3 consecutive failures (status='inactive')"
\* (docstring of mcp_health_check_task): a server whose checks all fail ends up
\* inactive for good (or deleted) once the API requests stop.
FailingServerTrips ==
    \A s \in Servers :
        row[s].status # "none" ~> [](row[s].status \in {"inactive", "deleted"})

\* Under the conditions of ImplementsBreaker the failures that open the breaker are
\* consecutive: no check and no discovery succeeded between them.  (A discovery by
\* request keeps the failure count of the server it reactivates.)
TripNeedsStreak ==
    [][\A s \in Servers :
          row[s].status \in Selected /\ row'[s].status = "inactive" =>
              streak'[s] = Threshold]_vars

\* "Inactive servers are excluded from health checks until manually reactivated."
\* (docstring of mcp_health_check_task): under the same conditions a server that has
\* tripped leaves that state by deletion only.
TrippedStaysOut ==
    [][\A s \in Servers :
          row[s].status = "inactive" /\ row[s].failures >= Threshold =>
              row'[s] = row[s] \/ row'[s].status = "deleted"]_vars
-----------------------------------------------------------------------------
(* Inductive strengthening, used by the proofs.                            *)

\* Where only the periodic task checks, one run at a time, each row has one
\* session that may write it: the request that registered the server and is at its
\* first discovery, or the run that selected the server.  What that session has
\* loaded is what the row holds, unless the row is deleted.
Unprobed == [status |-> "inactive", failures |-> 0]
SoleWriter ==
    /\ \A s \in Servers :
           /\ row[s].status = "none" => row[s] = Blank
           /\ row[s].status \in Selected => row[s].failures < Threshold
           /\ row[s].failures <= streak[s]
    /\ \A a \in Sessions : Free(a) => todo[a] = {}
    /\ \A a \in Requests :
           /\ pc[a] \in {"idle", "probing", "aborted"}
           /\ \A s \in todo[a] :
                  /\ seen[a][s] = Unprobed
                  /\ row[s] = Unprobed \/ row[s].status = "deleted"
    /\ \A a, b \in Requests : a # b => todo[a] \cap todo[b] = {}
    /\ \A a \in Runs :
           /\ pc[a] # "probing"
           /\ \A s \in todo[a] :
                  \/ row[s] = seen[a][s] /\ row[s].status \in Selected
                  \/ row[s].status = "deleted"
=============================================================================
