--------------------------- MODULE AgentTask_proofs ---------------------------
(***************************************************************************)
(* Proofs about AgentTask: for any tasks, children, retries and faults.    *)
(*                                                                         *)
(* The steps of a child fall into three kinds: it takes a message (Start), *)
(* it moves on with its attempt (Moved), or it lets go of it (Ended).  The *)
(* invariant is shown to survive each kind, and each action to be of one.  *)
(***************************************************************************)
EXTENDS AgentTask, Sequences, FiniteSetTheorems, TLAPS

Busy(w) == pc[w] # "idle"

\* An attempt on its way to be stored has a verdict.
VerdictKnown ==
    \A w \in Workers :
        /\ pc[w] = "cleanup" => job[w].ending # "none"
        /\ pc[w] = "save" => job[w].ending \in {"success", "failed"}

\* Execution ids: handed out in order, each held by one child.
IdsInOrder ==
    /\ \A w \in Workers : Busy(w) => job[w].id \in 1..starts[job[w].task]
    /\ \A r \in rows : r.attempt.id <= starts[r.attempt.task]
    /\ \A v, w \in Workers : Busy(v) /\ Busy(w) /\ AttemptOf(v) = AttemptOf(w) => v = w

NotStoredYet == \A w \in Workers : pc[w] \in Awaiting => ~Stored(AttemptOf(w))

\* A task that was not triggered is nowhere.
Untriggered ==
    \A t \in Tasks : result[t] = "none" =>
        /\ \A r \in Retries : queue[t][r] = 0
        /\ \A w \in Workers : ~Holds(w, t)
        /\ \A x \in rows : x.attempt.task # t

Smooth(t) == losses[t] = 0 /\ t \notin troubled
Succeeded(t) == \E r \in rows : r.attempt.task = t /\ r.status = "success"

\* After a success all that is left of the attempt is to return.
SuccessEnds ==
    \A t \in Tasks : Smooth(t) /\ Succeeded(t) =>
        /\ ~InQueue(t)
        /\ \A w \in Workers : Works(w, t) => pc[w] = "return"

Inv ==
    /\ TypeOK /\ VerdictKnown
    /\ IdsInOrder /\ NotStoredYet /\ OneVerdict
    /\ AttemptsAccounted /\ LeakNeedsLimit
    /\ Untriggered /\ NoParallelAttempts /\ SuccessEnds

-----------------------------------------------------------------------------
(* The kinds of steps.                                                     *)

\* The other children are left alone.
OthersKeep(w) ==
    \A v \in Workers \ {w} : pc'[v] = pc[v] /\ job'[v] = job[v] /\ pool'[v] = pool[v]

\* Child w goes on with its attempt.
Moved(w) ==
    /\ pc[w] \in Steps \ {"ack"} /\ pc'[w] \in Steps
    /\ OthersKeep(w)
    /\ /\ job'[w].task = job[w].task /\ job'[w].retries = job[w].retries
       /\ job'[w].id = job[w].id
    /\ UNCHANGED <<starts, losses>>
    /\ gone \subseteq gone' /\ troubled \subseteq troubled' /\ cut \subseteq cut'
    /\ \A t \in Tasks : result'[t] = "none" => result[t] = "none"
    /\ pc'[w] \in Awaiting => pc[w] \in Awaiting
    /\ \/ rows' = rows
       \/ /\ ~Stored(AttemptOf(w)) /\ pc'[w] \notin Awaiting
          /\ \E s \in {"success", "failed"} :
                /\ rows' = rows \cup {[attempt |-> AttemptOf(w), status |-> s]}
                /\ s = "success" => pc'[w] = "return" \/ job[w].task \in troubled'
    /\ Unfinished(w) =>
           Unfinished(w)' \/ AttemptOf(w) \in gone' \/ \E r \in rows' : r.attempt = AttemptOf(w)
    /\ \/ queue' = queue
       \/ /\ pc[w] = "raise" /\ pc'[w] = "ack" /\ job[w].retries < MaxRetries
          /\ Publish(job[w].task, job[w].retries + 1, 1)
    /\ pc[w] = "return" => pc'[w] = "ack"
    /\ \A a \in pool'[w] : a \in Borrowing(w)' \/ a \in cut'

\* Child w lets go of its attempt.
Ended(w) ==
    /\ Busy(w) /\ pc'[w] = "idle" /\ job'[w] = NoJob
    /\ OthersKeep(w)
    /\ UNCHANGED <<starts, rows, troubled, cut>>
    /\ gone \subseteq gone'
    /\ \A t \in Tasks : result'[t] = "none" => result[t] = "none"
    /\ Unfinished(w) => AttemptOf(w) \in gone'
    /\ pool'[w] \subseteq pool[w] /\ (pool'[w] = {} \/ pc[w] = "ack")
    /\ \/ UNCHANGED <<queue, losses>>
       \/ /\ Publish(job[w].task, job[w].retries, 1)
          /\ losses' = [losses EXCEPT ![job[w].task] = @ + 1]

\* A child holds a job exactly when it is busy.
LEMMA BusyHolds ==
  ASSUME TypeOK, NEW w \in Workers, Busy(w)
  PROVE  job[w] \in Job /\ job[w] # NoJob
  BY DEF TypeOK, Busy

-----------------------------------------------------------------------------
(* Types and verdicts.                                                     *)

LEMMA NoJobIsNone == NoJob \notin Job
  BY AgentTaskAssumption DEF Job, Retries

TypesAndVerdicts == TypeOK /\ VerdictKnown

\* Steps within an attempt: where the child stands, and what it knows.
SameAttempt(w) ==
    /\ job' \in [Workers -> Job \cup {NoJob}]
    /\ job'[w] \in Job
    /\ job'[w].task = job[w].task /\ job'[w].retries = job[w].retries /\ job'[w].id = job[w].id
    /\ \A v \in Workers \ {w} : job'[v] = job[v]

At(w, step) ==
    /\ pc' \in [Workers -> Steps \cup {"idle"}]
    /\ pc'[w] = step
    /\ \A v \in Workers \ {w} : pc'[v] = pc[v]

Endings == {"none", "success", "failed", "raised"}

LEMMA GotoFacts ==
  ASSUME TypeOK, NEW w \in Workers, Busy(w), NEW step \in Steps, Goto(w, step)
  PROVE  SameAttempt(w) /\ At(w, step) /\ job'[w].ending = job[w].ending
  <1>1. job[w] \in Job
    BY BusyHolds
  <1>2. SameAttempt(w) /\ job'[w].ending = job[w].ending
    BY <1>1 DEF Goto, SameAttempt, TypeOK
  <1>3. At(w, step)
    BY DEF Goto, At, TypeOK
  <1> QED BY <1>2, <1>3

LEMMA EndWithFacts ==
  ASSUME TypeOK, NEW w \in Workers, Busy(w), NEW e \in Endings, EndWith(w, e)
  PROVE  SameAttempt(w) /\ At(w, "cleanup") /\ job'[w].ending = e
  <1>1. job[w] \in Job
    BY BusyHolds
  <1>2. job'[w] = [job[w] EXCEPT !.ending = e] /\ \A v \in Workers \ {w} : job'[v] = job[v]
    BY DEF EndWith, TypeOK
  <1>3. job'[w] \in Job /\ job'[w].ending = e /\ job'[w].task = job[w].task
        /\ job'[w].retries = job[w].retries /\ job'[w].id = job[w].id
    BY <1>1, <1>2 DEF Job, Endings
  <1>4. job' \in [Workers -> Job \cup {NoJob}]
    <2>1. job' = [job EXCEPT ![w] = [job[w] EXCEPT !.ending = e]]
      BY DEF EndWith, TypeOK
    <2>2. [job[w] EXCEPT !.ending = e] \in Job
      BY <1>2, <1>3
    <2> QED BY <2>1, <2>2 DEF TypeOK
  <1>5. At(w, "cleanup")
    BY DEF EndWith, At, TypeOK, Steps, Awaiting
  <1> QED BY <1>2, <1>3, <1>4, <1>5 DEF SameAttempt

LEMMA LimitedFacts ==
  ASSUME TypeOK, NEW w \in Workers, Busy(w), NEW e \in Endings, NEW step \in Steps,
         Limited(w, step, e)
  PROVE  SameAttempt(w) /\ At(w, step) /\ job'[w].ending = e
  <1>1. job[w] \in Job
    BY BusyHolds
  <1>2. job'[w] = [job[w] EXCEPT !.limited = TRUE, !.ending = e]
        /\ \A v \in Workers \ {w} : job'[v] = job[v]
    BY DEF Limited, TypeOK
  <1>3. job'[w] \in Job /\ job'[w].ending = e /\ job'[w].task = job[w].task
        /\ job'[w].retries = job[w].retries /\ job'[w].id = job[w].id
    BY <1>1, <1>2 DEF Job, Endings
  <1>4. job' \in [Workers -> Job \cup {NoJob}]
    <2>1. job' = [job EXCEPT ![w] = [job[w] EXCEPT !.limited = TRUE, !.ending = e]]
      BY DEF Limited, TypeOK
    <2>2. [job[w] EXCEPT !.limited = TRUE, !.ending = e] \in Job
      BY <1>2, <1>3
    <2> QED BY <2>1, <2>2 DEF TypeOK
  <1>5. At(w, step)
    BY DEF Limited, At, TypeOK
  <1> QED BY <1>2, <1>3, <1>4, <1>5 DEF SameAttempt

-----------------------------------------------------------------------------
(* Each action of a child that goes on is a Moved, and keeps the types.    *)

Verdict(w) ==
    /\ pc[w] = "cleanup" => job[w].ending # "none"
    /\ pc[w] = "save" => job[w].ending \in {"success", "failed"}

Leaks(w) == \A a \in pool[w] : a \in Borrowing(w) \/ a \in cut

Good(w) == TypeOK' /\ Moved(w) /\ Verdict(w)'

LEMMA ChildTypes ==
  ASSUME TypeOK, NEW w \in Workers, SameAttempt(w), NEW step \in Steps, At(w, step)
  PROVE  /\ pc' \in [Workers -> Steps \cup {"idle"}]
         /\ job' \in [Workers -> Job \cup {NoJob}]
         /\ \A v \in Workers : pc'[v] = "idle" <=> job'[v] = NoJob
         /\ AttemptOf(w)' = AttemptOf(w) /\ AttemptOf(w) \in Attempt
  <1>1. step # "idle" /\ NoJob \notin Job
    BY NoJobIsNone DEF Steps, Awaiting
  <1>2. pc'[w] # "idle" /\ job'[w] # NoJob
    BY <1>1 DEF SameAttempt, At
  <1>3. job'[w] \in Job /\ AttemptOf(w)' = AttemptOf(w)
    BY DEF SameAttempt, AttemptOf
  <1>4. AttemptOf(w) \in Attempt
    BY <1>3 DEF SameAttempt, AttemptOf, Attempt, Job
  <1> QED BY <1>2, <1>3, <1>4 DEF SameAttempt, At, TypeOK

\* The steps that only move the child, and perhaps its pool.
LEMMA ChildOnly ==
  ASSUME TypeOK, NEW w \in Workers, pc[w] \in Steps \ {"ack", "return"},
         NEW step \in Steps, SameAttempt(w), At(w, step),
         OnlyChild,
         pool' \in [Workers -> SUBSET Attempt], \A v \in Workers \ {w} : pool'[v] = pool[v],
         step \in Awaiting => pc[w] \in Awaiting,
         step \notin {"raise", "return", "ack"},
         \A a \in pool'[w] : a \in Borrowing(w)' \/ a \in cut',
         Verdict(w)'
  PROVE  Good(w)
  <1>1. UNCHANGED <<agent, queue, result, rows, faults>>
        /\ UNCHANGED <<starts, losses, gone, troubled, cut>>
    BY DEF OnlyChild, historyVars
  <1>2. TypeOK'
    BY <1>1, ChildTypes DEF TypeOK
  <1>3. Unfinished(w)'
    BY DEF Unfinished, At, Steps, Awaiting
  <1>4. Moved(w)
    BY <1>1, <1>3 DEF Moved, OthersKeep, SameAttempt, At
  <1> QED BY <1>2, <1>4 DEF Good

LEMMA LoadAgentGood ==
  ASSUME TypeOK, NEW w \in Workers, Leaks(w), LoadAgent(w) PROVE Good(w)
  <1>0. pc[w] = "load" /\ OnlyChild /\ UNCHANGED pool /\ Busy(w)
    BY DEF LoadAgent, Busy
  <1>1. PICK step \in {"check", "savefail"} : Goto(w, step)
    BY DEF LoadAgent
  <1>2. step \in Steps /\ SameAttempt(w) /\ At(w, step)
    BY <1>0, <1>1, GotoFacts DEF Steps, Awaiting
  <1>3. \A a \in pool'[w] : a \in Borrowing(w)' \/ a \in cut'
    BY <1>0 DEF Leaks, Borrowing, OnlyChild, historyVars
  <1>4. Verdict(w)'
    BY <1>1, <1>2 DEF Verdict, At
  <1> QED BY <1>0, <1>1, <1>2, <1>3, <1>4, ChildOnly DEF TypeOK, Steps, Awaiting

LEMMA CheckAgentGood ==
  ASSUME TypeOK, NEW w \in Workers, Leaks(w), CheckAgent(w) PROVE Good(w)
  <1>0. pc[w] = "check" /\ OnlyChild /\ UNCHANGED pool /\ Busy(w)
    BY DEF CheckAgent, Busy
  <1>1. Goto(w, "tools") \/ EndWith(w, "raised") \/ EndWith(w, "failed")
    BY DEF CheckAgent
  <1>2. PICK step \in {"tools", "cleanup"} : SameAttempt(w) /\ At(w, step) /\ Verdict(w)'
    BY <1>0, <1>1, GotoFacts, EndWithFacts DEF Steps, Awaiting, Endings, Verdict, At
  <1>3. \A a \in pool'[w] : a \in Borrowing(w)' \/ a \in cut'
    BY <1>0 DEF Leaks, Borrowing, OnlyChild, historyVars
  <1> QED BY <1>0, <1>2, <1>3, ChildOnly DEF TypeOK, Steps, Awaiting

LEMMA GetBridgeGood ==
  ASSUME TypeOK, NEW w \in Workers, Leaks(w), GetBridge(w) PROVE Good(w)
  <1>0. pc[w] = "tools" /\ OnlyChild /\ Busy(w) /\ UNCHANGED cut
    BY DEF GetBridge, Busy, OnlyChild, historyVars
  <1>1. \A a \in pool[w] : a \in cut
    BY <1>0 DEF Leaks, Borrowing
  <1>2. CASE Goto(w, "invoke") /\ UNCHANGED pool
    <2>1. SameAttempt(w) /\ At(w, "invoke") /\ Verdict(w)'
      BY <1>0, <1>2, GotoFacts DEF Steps, Awaiting, Verdict, At
    <2> QED BY <1>0, <1>1, <1>2, <2>1, ChildOnly DEF TypeOK, Steps, Awaiting
  <1>3. CASE pool' = [pool EXCEPT ![w] = @ \cup {AttemptOf(w)}] /\ Goto(w, "open")
    <2>1. SameAttempt(w) /\ At(w, "open") /\ Verdict(w)'
      BY <1>0, <1>3, GotoFacts DEF Steps, Awaiting, Verdict, At
    <2>2. "open" \in Steps /\ "open" \in Awaiting
      BY DEF Steps, Awaiting
    <2>3. AttemptOf(w)' = AttemptOf(w) /\ AttemptOf(w) \in Attempt
      BY <2>1, <2>2, ChildTypes
    <2>4. /\ pool' \in [Workers -> SUBSET Attempt]
          /\ \A v \in Workers \ {w} : pool'[v] = pool[v]
          /\ pool'[w] = pool[w] \cup {AttemptOf(w)}
      BY <1>3, <2>3 DEF TypeOK
    <2>5. AttemptOf(w) \in Borrowing(w)'
      BY <2>1, <2>3 DEF Borrowing, At
    <2> QED BY <1>0, <1>1, <2>1, <2>2, <2>4, <2>5, ChildOnly DEF TypeOK, Steps, Awaiting
  <1> QED BY <1>2, <1>3 DEF GetBridge

\* A step between the states in which a bridge is borrowed.
LEMMA StillBorrowing ==
  ASSUME TypeOK, NEW w \in Workers, Leaks(w), OnlyChild, UNCHANGED pool,
         pc[w] \in {"open", "invoke"},
         NEW step \in {"invoke", "cleanup"}, SameAttempt(w), At(w, step), Verdict(w)'
  PROVE  Good(w)
  <1>1. step \in Steps /\ step \in Awaiting
    BY DEF Steps, Awaiting
  <1>2. AttemptOf(w)' = AttemptOf(w)
    BY <1>1, ChildTypes
  <1>3. Borrowing(w)' = {AttemptOf(w)} /\ Borrowing(w) = {AttemptOf(w)}
    BY <1>2 DEF Borrowing, At
  <1>4. \A a \in pool'[w] : a \in Borrowing(w)' \/ a \in cut'
    BY <1>3 DEF Leaks, OnlyChild, historyVars
  <1> QED BY <1>1, <1>4, ChildOnly DEF TypeOK, Steps, Awaiting

LEMMA OpenSessionsGood ==
  ASSUME TypeOK, NEW w \in Workers, Leaks(w), OpenSessions(w) PROVE Good(w)
  <1>0. pc[w] = "open" /\ OnlyChild /\ UNCHANGED pool /\ Busy(w)
    BY DEF OpenSessions, Busy
  <1>1. Goto(w, "invoke") \/ EndWith(w, "failed")
    BY DEF OpenSessions
  <1>2. PICK step \in {"invoke", "cleanup"} : SameAttempt(w) /\ At(w, step) /\ Verdict(w)'
    BY <1>0, <1>1, GotoFacts, EndWithFacts DEF Steps, Awaiting, Endings, Verdict, At
  <1> QED BY <1>0, <1>2, StillBorrowing

LEMMA InvokeAgentGood ==
  ASSUME TypeOK, NEW w \in Workers, Leaks(w), InvokeAgent(w) PROVE Good(w)
  <1>0. pc[w] = "invoke" /\ OnlyChild /\ UNCHANGED pool /\ Busy(w)
    BY DEF InvokeAgent, Busy
  <1>1. EndWith(w, "success") \/ EndWith(w, "failed")
    BY DEF InvokeAgent
  <1>2. SameAttempt(w) /\ At(w, "cleanup") /\ Verdict(w)'
    BY <1>0, <1>1, EndWithFacts DEF Endings, Verdict, At
  <1> QED BY <1>0, <1>2, StillBorrowing

LEMMA CleanupGood ==
  ASSUME TypeOK, NEW w \in Workers, Leaks(w), Verdict(w), Cleanup(w) PROVE Good(w)
  <1>0. pc[w] = "cleanup" /\ OnlyChild /\ Busy(w) /\ UNCHANGED cut
    BY DEF Cleanup, Busy, OnlyChild, historyVars
  <1>1. PICK step \in {"savefail", "save"} :
          Goto(w, step) /\ (job[w].ending # "raised" <=> step = "save")
    BY DEF Cleanup
  <1>2. step \in Steps /\ SameAttempt(w) /\ At(w, step) /\ job'[w].ending = job[w].ending
    BY <1>0, <1>1, GotoFacts DEF Steps, Awaiting
  <1>3. /\ pool' \in [Workers -> SUBSET Attempt]
        /\ \A v \in Workers \ {w} : pool'[v] = pool[v]
        /\ pool'[w] = pool[w] \ {AttemptOf(w)}
    BY DEF Cleanup, TypeOK
  <1>4. \A a \in pool'[w] : a \in Borrowing(w)' \/ a \in cut'
    BY <1>0, <1>3 DEF Leaks, Borrowing
  <1>5. job[w].ending \in Endings
    BY <1>0, BusyHolds DEF Job, Endings
  <1>6. Verdict(w)'
    BY <1>0, <1>1, <1>2, <1>5 DEF Verdict, At, Endings
  <1> QED BY <1>0, <1>1, <1>2, <1>3, <1>4, <1>6, ChildOnly DEF Steps, Awaiting

\* What the verdict of an attempt is stored as.
LEMMA RowTypes ==
  ASSUME TypeOK, NEW w \in Workers, Busy(w), NEW s \in {"success", "failed"}
  PROVE  [attempt |-> AttemptOf(w), status |-> s] \in ExecutionRow /\ job[w].task \in Tasks
  BY BusyHolds DEF AttemptOf, Attempt, ExecutionRow, Job

LEMMA TaskTypes ==
  ASSUME TypeOK, NEW w \in Workers, Busy(w)
  PROVE  job[w].task \in Tasks /\ AttemptOf(w) \in Attempt
         /\ troubled \cup {job[w].task} \subseteq Tasks
         /\ gone \cup {AttemptOf(w)} \subseteq Attempt
         /\ cut \cup {AttemptOf(w)} \subseteq Attempt
  BY BusyHolds DEF AttemptOf, Attempt, Job, TypeOK

LEMMA SaveGood ==
  ASSUME TypeOK, NEW w \in Workers, Leaks(w), Verdict(w), ~Stored(AttemptOf(w)), Save(w)
  PROVE  Good(w)
  <1>0. /\ pc[w] = "save" /\ Busy(w) /\ Goto(w, "return") /\ "return" \in Steps
        /\ UNCHANGED <<agent, queue, result, pool, faults>>
        /\ UNCHANGED <<starts, losses, gone, troubled, cut>>
    BY DEF Save, Busy, historyVars, Steps
  <1>1. SameAttempt(w) /\ At(w, "return")
    BY <1>0, GotoFacts
  <1>2. job[w].ending \in {"success", "failed"}
    BY <1>0 DEF Verdict
  <1>3. rows' = rows \cup {[attempt |-> AttemptOf(w), status |-> job[w].ending]}
    BY DEF Save
  <1>4. TypeOK'
    BY <1>0, <1>1, <1>2, <1>3, RowTypes, ChildTypes DEF TypeOK
  <1>5. \A a \in pool'[w] : a \in Borrowing(w)' \/ a \in cut'
    BY <1>0 DEF Leaks, Borrowing
  <1>6. \E r \in rows' : r.attempt = AttemptOf(w)
    <2> DEFINE row == [attempt |-> AttemptOf(w), status |-> job[w].ending]
    <2>1. row \in rows' /\ row.attempt = AttemptOf(w)
      BY <1>3
    <2> QED BY <2>1
  <1>7. Moved(w)
    BY <1>0, <1>1, <1>2, <1>3, <1>5, <1>6
       DEF Moved, OthersKeep, SameAttempt, At, Awaiting, Steps
  <1> QED BY <1>1, <1>4, <1>7 DEF Good, Verdict, At

LEMMA SaveRaisesGood ==
  ASSUME TypeOK, NEW w \in Workers, Leaks(w), Verdict(w), ~Stored(AttemptOf(w)), SaveRaises(w)
  PROVE  Good(w)
  <1>0. /\ pc[w] = "save" /\ Busy(w) /\ Goto(w, "savefail") /\ "savefail" \in Steps
        /\ faults' = faults + 1 /\ troubled' = troubled \cup {job[w].task}
        /\ UNCHANGED <<agent, queue, result, pool, starts, losses, gone, cut>>
    BY DEF SaveRaises, Busy, Steps, Fault, Trouble
  <1>1. SameAttempt(w) /\ At(w, "savefail")
    BY <1>0, GotoFacts
  <1>2. job[w].ending \in {"success", "failed"}
    BY <1>0 DEF Verdict
  <1>3. rows' = rows \/ rows' = rows \cup {[attempt |-> AttemptOf(w), status |-> job[w].ending]}
    BY DEF SaveRaises
  <1>4. TypeOK'
    <2>1. troubled' \subseteq Tasks /\ faults' \in Nat
      BY <1>0, TaskTypes DEF TypeOK
    <2>2. rows' \subseteq ExecutionRow
      BY <1>0, <1>2, <1>3, RowTypes DEF TypeOK
    <2> QED BY <1>0, <1>1, <2>1, <2>2, ChildTypes DEF TypeOK
  <1>5. \A a \in pool'[w] : a \in Borrowing(w)' \/ a \in cut'
    BY <1>0 DEF Leaks, Borrowing
  <1>6. Unfinished(w)'
    BY <1>1 DEF Unfinished, At
  <1>7. Moved(w)
    BY <1>0, <1>1, <1>2, <1>3, <1>5, <1>6
       DEF Moved, OthersKeep, SameAttempt, At, Awaiting, Steps
  <1> QED BY <1>1, <1>4, <1>7 DEF Good, Verdict, At

LEMMA SaveFailedGood ==
  ASSUME TypeOK, NEW w \in Workers, Leaks(w), SaveFailed(w) PROVE Good(w)
  <1>0. /\ pc[w] = "savefail" /\ Busy(w) /\ Goto(w, "raise") /\ "raise" \in Steps
        /\ UNCHANGED <<agent, queue, result, pool, faults>>
        /\ UNCHANGED <<starts, losses, gone, troubled, cut>>
    BY DEF SaveFailed, Busy, historyVars, Steps
  <1>1. SameAttempt(w) /\ At(w, "raise")
    BY <1>0, GotoFacts
  <1>2. \/ Stored(AttemptOf(w)) /\ rows' = rows
        \/ /\ ~Stored(AttemptOf(w))
           /\ rows' = rows \cup {[attempt |-> AttemptOf(w), status |-> "failed"]}
    BY DEF SaveFailed
  <1>3. \E r \in rows' : r.attempt = AttemptOf(w)
    <2>1. CASE Stored(AttemptOf(w)) /\ rows' = rows
      BY <2>1 DEF Stored
    <2>2. CASE rows' = rows \cup {[attempt |-> AttemptOf(w), status |-> "failed"]}
      <3> DEFINE row == [attempt |-> AttemptOf(w), status |-> "failed"]
      <3>1. row \in rows' /\ row.attempt = AttemptOf(w)
        BY <2>2
      <3> QED BY <3>1
    <2> QED BY <1>2, <2>1, <2>2
  <1>4. TypeOK'
    BY <1>0, <1>1, <1>2, RowTypes, ChildTypes DEF TypeOK
  <1>5. \A a \in pool'[w] : a \in Borrowing(w)' \/ a \in cut'
    BY <1>0 DEF Leaks, Borrowing
  <1>6. Moved(w)
    BY <1>0, <1>1, <1>2, <1>3, <1>5 DEF Moved, OthersKeep, SameAttempt, At, Awaiting, Steps
  <1> QED BY <1>1, <1>4, <1>6 DEF Good, Verdict, At

\* The failed row is lost: in a fault of the database, or under the soft limit.
LEMMA RowLost ==
  ASSUME TypeOK, NEW w \in Workers, Leaks(w), pc[w] = "savefail",
         SameAttempt(w), At(w, "raise"),
         faults' = faults + 1, gone' = gone \cup {AttemptOf(w)},
         troubled' = troubled \cup {job[w].task}, cut' \in {cut, cut \cup {AttemptOf(w)}},
         UNCHANGED <<agent, queue, result, pool, rows, starts, losses>>
  PROVE  Good(w)
  <1>1. "raise" \in Steps /\ Busy(w)
    BY DEF Steps, Busy
  <1>2. TypeOK'
    <2>1. troubled' \subseteq Tasks /\ gone' \subseteq Attempt /\ cut' \subseteq Attempt
         /\ faults' \in Nat
      BY <1>1, TaskTypes DEF TypeOK
    <2> QED BY <1>1, <2>1, ChildTypes DEF TypeOK
  <1>3. \A a \in pool'[w] : a \in Borrowing(w)' \/ a \in cut'
    BY DEF Leaks, Borrowing
  <1>4. Moved(w)
    BY <1>3 DEF Moved, OthersKeep, SameAttempt, At, Awaiting, Steps
  <1> QED BY <1>2, <1>4 DEF Good, Verdict, At

LEMMA SaveFailedRaisesGood ==
  ASSUME TypeOK, NEW w \in Workers, Leaks(w), SaveFailedRaises(w) PROVE Good(w)
  <1>1. SameAttempt(w) /\ At(w, "raise")
    BY GotoFacts DEF SaveFailedRaises, Busy, Steps
  <1> QED BY <1>1, RowLost DEF SaveFailedRaises, Fault, Trouble

LEMMA SoftLimitSavingGood ==
  ASSUME TypeOK, NEW w \in Workers, Leaks(w), SoftLimitSaving(w) PROVE Good(w)
  <1>1. job[w].ending \in Endings
    BY BusyHolds DEF SoftLimitSaving, Busy, Job, Endings
  <1>2. SameAttempt(w) /\ At(w, "raise")
    BY <1>1, LimitedFacts DEF SoftLimitSaving, Busy, Steps
  <1> QED BY <1>2, RowLost DEF SoftLimitSaving, Fault, Trouble, Cut

LEMMA RaiseGood ==
  ASSUME TypeOK, NEW w \in Workers, Leaks(w), Raise(w) PROVE Good(w)
  <1>0. /\ pc[w] = "raise" /\ Busy(w) /\ Goto(w, "ack") /\ "ack" \in Steps
        /\ UNCHANGED <<agent, pool, rows, faults>>
        /\ UNCHANGED <<starts, losses, gone, troubled, cut>>
    BY DEF Raise, Busy, historyVars, Steps
  <1>1. SameAttempt(w) /\ At(w, "ack")
    BY <1>0, GotoFacts
  <1>2. job[w] \in Job
    BY <1>0, BusyHolds
  <1>3. /\ result' \in [Tasks -> {"none", "queued", "started", "retry", "success", "failure"}]
        /\ \A t \in Tasks : result'[t] = "none" => result[t] = "none"
    BY <1>2 DEF Raise, TypeOK, Job
  <1>4. \/ queue' = queue
        \/ job[w].retries < MaxRetries /\ Publish(job[w].task, job[w].retries + 1, 1)
    BY DEF Raise
  <1>5. queue' \in [Tasks -> [Retries -> Nat]]
    <2>1. CASE queue' = queue
      BY <2>1 DEF TypeOK
    <2>2. CASE job[w].retries < MaxRetries /\ Publish(job[w].task, job[w].retries + 1, 1)
      <3>1. job[w].task \in Tasks /\ job[w].retries + 1 \in Retries
        BY <1>2, <2>2, AgentTaskAssumption DEF Job, Retries
      <3> QED BY <2>2, <3>1 DEF Publish, TypeOK
    <2> QED BY <1>4, <2>1, <2>2
  <1>6. TypeOK'
    BY <1>0, <1>1, <1>3, <1>5, ChildTypes DEF TypeOK
  <1>7. \A a \in pool'[w] : a \in Borrowing(w)' \/ a \in cut'
    BY <1>0 DEF Leaks, Borrowing
  <1>8. ~Unfinished(w)
    BY <1>0 DEF Unfinished
  <1>9. Moved(w)
    BY <1>0, <1>1, <1>3, <1>4, <1>7, <1>8
       DEF Moved, OthersKeep, SameAttempt, At, Awaiting, Steps
  <1> QED BY <1>1, <1>6, <1>9 DEF Good, Verdict, At

LEMMA ReturnGood ==
  ASSUME TypeOK, NEW w \in Workers, Leaks(w), Return(w) PROVE Good(w)
  <1>0. /\ pc[w] = "return" /\ Busy(w) /\ Goto(w, "ack") /\ "ack" \in Steps
        /\ UNCHANGED <<agent, queue, pool, rows, faults>>
        /\ UNCHANGED <<starts, losses, gone, troubled, cut>>
    BY DEF Return, Busy, historyVars, Steps
  <1>1. SameAttempt(w) /\ At(w, "ack")
    BY <1>0, GotoFacts
  <1>2. /\ result' \in [Tasks -> {"none", "queued", "started", "retry", "success", "failure"}]
        /\ \A t \in Tasks : result'[t] = "none" => result[t] = "none"
    BY <1>0, BusyHolds DEF Return, TypeOK, Job
  <1>3. TypeOK'
    BY <1>0, <1>1, <1>2, ChildTypes DEF TypeOK
  <1>4. \A a \in pool'[w] : a \in Borrowing(w)' \/ a \in cut'
    BY <1>0 DEF Leaks, Borrowing
  <1>5. ~Unfinished(w)
    BY <1>0 DEF Unfinished
  <1>6. Moved(w)
    BY <1>0, <1>1, <1>2, <1>4, <1>5 DEF Moved, OthersKeep, SameAttempt, At, Awaiting, Steps
  <1> QED BY <1>1, <1>3, <1>6 DEF Good, Verdict, At

LEMMA SoftLimitWaitingGood ==
  ASSUME TypeOK, NEW w \in Workers, Leaks(w), Verdict(w),
         pc[w] = "save" => ~Stored(AttemptOf(w)),
         SoftLimitWaiting(w)
  PROVE  Good(w)
  <1>0. /\ pc[w] \in Awaiting /\ Busy(w) /\ "savefail" \in Steps /\ pc[w] \in Steps \ {"ack", "return"}
        /\ Limited(w, "savefail", job[w].ending)
        /\ faults' = faults + 1 /\ troubled' = troubled \cup {job[w].task}
        /\ cut' = cut \cup {AttemptOf(w)}
        /\ UNCHANGED <<agent, queue, result, starts, losses, gone>>
    BY DEF SoftLimitWaiting, Busy, Steps, Fault, Trouble, Cut, Awaiting
  <1>1. job[w].ending \in Endings
    BY <1>0, BusyHolds DEF Job, Endings
  <1>2. SameAttempt(w) /\ At(w, "savefail") /\ AttemptOf(w) \in Attempt
    BY <1>0, <1>1, LimitedFacts, ChildTypes
  <1>3. \/ rows' = rows
        \/ /\ ~Stored(AttemptOf(w)) /\ job[w].ending \in {"success", "failed"}
           /\ rows' = rows \cup {[attempt |-> AttemptOf(w), status |-> job[w].ending]}
    BY DEF SoftLimitWaiting, Verdict
  <1>4. /\ pool' \in [Workers -> SUBSET Attempt]
        /\ pool'[w] \subseteq pool[w] /\ \A v \in Workers \ {w} : pool'[v] = pool[v]
    BY <1>2 DEF SoftLimitWaiting, TypeOK
  <1>5. \A a \in pool'[w] : a \in Borrowing(w)' \/ a \in cut'
    BY <1>0, <1>4 DEF Leaks, Borrowing, AttemptOf
  <1>6. TypeOK'
    <2>1. troubled' \subseteq Tasks /\ cut' \subseteq Attempt /\ faults' \in Nat
      BY <1>0, TaskTypes DEF TypeOK
    <2>2. rows' \subseteq ExecutionRow
      BY <1>0, <1>3, RowTypes DEF TypeOK
    <2> QED BY <1>0, <1>2, <1>4, <2>1, <2>2, ChildTypes DEF TypeOK
  <1>7. Unfinished(w)'
    BY <1>2 DEF Unfinished, At
  <1>8. Moved(w)
    BY <1>0, <1>2, <1>3, <1>4, <1>5, <1>7
       DEF Moved, OthersKeep, SameAttempt, At, Awaiting, Steps
  <1> QED BY <1>2, <1>6, <1>8 DEF Good, Verdict, At

LEMMA SoftLimitRunningGood ==
  ASSUME TypeOK, NEW w \in Workers, Leaks(w), Verdict(w), SoftLimitRunning(w)
  PROVE  Good(w)
  <1>0. /\ pc[w] \in {"check", "tools", "open", "invoke", "cleanup"} /\ Busy(w)
        /\ pc[w] \in Steps \ {"ack", "return"} /\ pc[w] \in Awaiting
        /\ faults' = faults + 1 /\ troubled' = troubled \cup {job[w].task}
        /\ cut' = cut \cup {AttemptOf(w)}
        /\ UNCHANGED <<agent, queue, result, pool, rows, starts, losses, gone>>
    BY DEF SoftLimitRunning, Busy, Steps, Fault, Trouble, Cut, Awaiting
  <1>1. job[w].ending \in Endings
    BY <1>0, BusyHolds DEF Job, Endings
  <1>2. PICK step \in {"invoke", "cleanup"} : SameAttempt(w) /\ At(w, step) /\ Verdict(w)'
    BY <1>0, <1>1, LimitedFacts DEF SoftLimitRunning, Steps, Awaiting, Endings, Verdict, At
  <1>3. step \in Steps
    BY DEF Steps, Awaiting
  <1>4. \A a \in pool'[w] : a \in Borrowing(w)' \/ a \in cut'
    BY <1>0 DEF Leaks, Borrowing, AttemptOf
  <1>5. TypeOK'
    <2>1. troubled' \subseteq Tasks /\ cut' \subseteq Attempt /\ faults' \in Nat
      BY <1>0, TaskTypes DEF TypeOK
    <2> QED BY <1>0, <1>2, <1>3, <2>1, ChildTypes DEF TypeOK
  <1>6. Unfinished(w)'
    BY <1>2 DEF Unfinished, At
  <1>7. Moved(w)
    BY <1>0, <1>2, <1>3, <1>4, <1>6 DEF Moved, OthersKeep, SameAttempt, At, Awaiting, Steps
  <1> QED BY <1>2, <1>5, <1>7 DEF Good

-----------------------------------------------------------------------------
(* Each action that takes a child from its attempt is an Ended.            *)

LEMMA IdleTypes ==
  ASSUME TypeOK, NEW w \in Workers,
         pc' = [pc EXCEPT ![w] = "idle"], job' = [job EXCEPT ![w] = NoJob]
  PROVE  /\ pc' \in [Workers -> Steps \cup {"idle"}]
         /\ job' \in [Workers -> Job \cup {NoJob}]
         /\ \A v \in Workers : pc'[v] = "idle" <=> job'[v] = NoJob
         /\ pc'[w] = "idle" /\ job'[w] = NoJob
         /\ \A v \in Workers \ {w} : pc'[v] = pc[v] /\ job'[v] = job[v]
  BY DEF TypeOK

LEMMA AckEnded ==
  ASSUME TypeOK, NEW w \in Workers, Ack(w) PROVE TypeOK' /\ Ended(w)
  <1>0. /\ pc[w] = "ack" /\ pc' = [pc EXCEPT ![w] = "idle"] /\ job' = [job EXCEPT ![w] = NoJob]
        /\ UNCHANGED <<agent, queue, result, pool, rows, faults>>
        /\ UNCHANGED <<starts, losses, gone, troubled, cut>>
    BY DEF Ack, historyVars
  <1>1. TypeOK'
    BY <1>0, IdleTypes DEF TypeOK
  <1>2. Ended(w)
    BY <1>0, IdleTypes DEF Ended, Busy, OthersKeep, Unfinished
  <1> QED BY <1>1, <1>2

LEMMA EndChildFacts ==
  ASSUME TypeOK, NEW w \in Workers, Busy(w), EndChild(w)
  PROVE  /\ pool' \in [Workers -> SUBSET Attempt] /\ pool'[w] = {}
         /\ gone' = gone \cup {AttemptOf(w)} /\ gone' \subseteq Attempt
         /\ OthersKeep(w) /\ pc'[w] = "idle" /\ job'[w] = NoJob
         /\ pc' \in [Workers -> Steps \cup {"idle"}]
         /\ job' \in [Workers -> Job \cup {NoJob}]
         /\ \A v \in Workers : pc'[v] = "idle" <=> job'[v] = NoJob
  <1>1. pool' \in [Workers -> SUBSET Attempt] /\ pool'[w] = {}
        /\ \A v \in Workers \ {w} : pool'[v] = pool[v]
    BY DEF EndChild, TypeOK
  <1>2. gone' = gone \cup {AttemptOf(w)} /\ gone' \subseteq Attempt
    BY TaskTypes DEF EndChild
  <1> QED BY <1>1, <1>2, IdleTypes DEF EndChild, OthersKeep

LEMMA LoseWorkerEnded ==
  ASSUME TypeOK, NEW w \in Workers, LoseWorker(w) PROVE TypeOK' /\ Ended(w)
  <1>0. /\ Busy(w) /\ EndChild(w) /\ faults' = faults + 1
        /\ Publish(job[w].task, job[w].retries, 1)
        /\ losses' = [losses EXCEPT ![job[w].task] = @ + 1]
        /\ UNCHANGED <<agent, result, rows, starts, troubled, cut>>
    BY DEF LoseWorker, Busy, Fault
  <1>1. job[w].task \in Tasks /\ job[w].retries \in Retries
    BY <1>0, BusyHolds DEF Job
  <1>2. queue' \in [Tasks -> [Retries -> Nat]] /\ losses' \in [Tasks -> Nat]
    BY <1>0, <1>1 DEF Publish, TypeOK
  <1>3. TypeOK'
    BY <1>0, <1>2, EndChildFacts DEF TypeOK
  <1>4. Ended(w)
    BY <1>0, EndChildFacts DEF Ended
  <1> QED BY <1>3, <1>4

LEMMA HardLimitEnded ==
  ASSUME TypeOK, NEW w \in Workers, HardLimit(w) PROVE TypeOK' /\ Ended(w)
  <1>0. /\ Busy(w) /\ EndChild(w)
        /\ result' = [result EXCEPT ![job[w].task] = "failure"]
        /\ UNCHANGED <<agent, queue, rows, faults, starts, losses, troubled, cut>>
    BY DEF HardLimit, Busy
  <1>1. job[w].task \in Tasks
    BY <1>0, TaskTypes
  <1>2. /\ result' \in [Tasks -> {"none", "queued", "started", "retry", "success", "failure"}]
        /\ \A t \in Tasks : result'[t] = "none" => result[t] = "none"
    BY <1>0, <1>1 DEF TypeOK
  <1>3. TypeOK'
    BY <1>0, <1>2, EndChildFacts DEF TypeOK
  <1>4. Ended(w)
    BY <1>0, <1>2, EndChildFacts DEF Ended
  <1> QED BY <1>3, <1>4

-----------------------------------------------------------------------------
(* The invariant survives a child that goes on.                            *)

\* Whose message a child holds is the same before and after.
LEMMA MovedHolds ==
  ASSUME TypeOK, TypeOK', NEW w \in Workers, Moved(w)
  PROVE  /\ \A v \in Workers, t \in Tasks : Holds(v, t)' <=> Holds(v, t)
         /\ \A v \in Workers : AttemptOf(v)' = AttemptOf(v) /\ (Busy(v)' <=> Busy(v))
         /\ \A v \in Workers, t \in Tasks : Works(v, t)' => Works(v, t)
         /\ Works(w, job[w].task) /\ job[w].task \in Tasks
  <1>1. Busy(w) /\ Busy(w)' /\ pc[w] # "ack"
    BY DEF Moved, Busy, Steps, Awaiting
  <1>2. job[w] # NoJob /\ job'[w] # NoJob
    BY <1>1 DEF TypeOK, Busy
  <1>3. \A v \in Workers, t \in Tasks : Holds(v, t)' <=> Holds(v, t)
    BY <1>2 DEF Moved, OthersKeep, Holds
  <1>4. \A v \in Workers : AttemptOf(v)' = AttemptOf(v) /\ (Busy(v)' <=> Busy(v))
    BY <1>1 DEF Moved, OthersKeep, AttemptOf, Busy
  <1>5. \A v \in Workers, t \in Tasks : Works(v, t)' => Works(v, t)
    BY <1>1, <1>3 DEF Works, Moved, OthersKeep
  <1>6. Works(w, job[w].task)
    BY <1>1, <1>2 DEF Works, Holds
  <1> QED BY <1>1, <1>3, <1>4, <1>5, <1>6, TaskTypes

LEMMA MovedIds ==
  ASSUME Inv, TypeOK', NEW w \in Workers, Moved(w)
  PROVE  IdsInOrder' /\ NotStoredYet' /\ OneVerdict'
  <1>0. TypeOK /\ Busy(w)
    BY DEF Inv, Moved, Busy, Steps, Awaiting
  <1>1. \A v \in Workers : AttemptOf(v)' = AttemptOf(v) /\ (Busy(v)' <=> Busy(v))
    BY <1>0, MovedHolds
  <1>2. \A v \in Workers : job'[v].id = job[v].id /\ job'[v].task = job[v].task
    BY DEF Moved, OthersKeep
  <1>3. PICK s \in {"success", "failed"} :
          \/ rows' = rows
          \/ /\ ~Stored(AttemptOf(w)) /\ pc'[w] \notin Awaiting
             /\ rows' = rows \cup {[attempt |-> AttemptOf(w), status |-> s]}
    BY DEF Moved
  <1>4. AttemptOf(w).task = job[w].task /\ AttemptOf(w).id = job[w].id
    BY DEF AttemptOf
  <1>5. IdsInOrder'
    <2>1. \A v \in Workers : Busy(v)' => job'[v].id \in 1..starts'[job'[v].task]
      BY <1>1, <1>2 DEF Inv, IdsInOrder, Moved
    <2>2. \A r \in rows' : r.attempt.id <= starts'[r.attempt.task]
      <3> SUFFICES ASSUME NEW r \in rows' PROVE r.attempt.id <= starts[r.attempt.task]
        BY DEF Moved
      <3>1. CASE r \in rows
        BY <3>1 DEF Inv, IdsInOrder
      <3>2. CASE r = [attempt |-> AttemptOf(w), status |-> s]
        <4>1. job[w].id <= starts[job[w].task]
          BY <1>0, TaskTypes DEF Inv, IdsInOrder, TypeOK
        <4> QED BY <3>2, <1>4, <4>1
      <3> QED BY <1>3, <3>1, <3>2
    <2>3. \A u, v \in Workers : Busy(u)' /\ Busy(v)' /\ AttemptOf(u)' = AttemptOf(v)' => u = v
      BY <1>1 DEF Inv, IdsInOrder
    <2> QED BY <2>1, <2>2, <2>3 DEF IdsInOrder
  <1>6. NotStoredYet'
    <2> SUFFICES ASSUME NEW v \in Workers, pc'[v] \in Awaiting, NEW r \in rows',
                        r.attempt = AttemptOf(v)
                 PROVE  FALSE
      BY <1>1 DEF NotStoredYet, Stored
    <2>1. pc[v] \in Awaiting /\ Busy(v)
      BY DEF Moved, OthersKeep, Busy, Awaiting
    <2>2. ~Stored(AttemptOf(v))
      BY <2>1 DEF Inv, NotStoredYet
    <2>3. r \notin rows
      BY <2>2 DEF Stored
    <2>4. pc'[w] \notin Awaiting /\ r.attempt = AttemptOf(w)
      BY <1>3, <2>3
    <2>5. v = w
      BY <1>0, <2>1, <2>4 DEF Inv, IdsInOrder
    <2> QED BY <2>4, <2>5
  <1>7. OneVerdict'
    <2> SUFFICES ASSUME NEW r1 \in rows', NEW r2 \in rows', r1.attempt = r2.attempt
                 PROVE  r1 = r2
      BY DEF OneVerdict
    <2> DEFINE row == [attempt |-> AttemptOf(w), status |-> s]
    <2>1. CASE r1 \in rows /\ r2 \in rows
      BY <2>1 DEF Inv, OneVerdict
    <2>2. \A r \in rows : r.attempt = AttemptOf(w) => rows' = rows
      BY <1>3 DEF Stored
    <2>3. row.attempt = AttemptOf(w)
      OBVIOUS
    <2>4. (r1 \in rows \/ r1 = row) /\ (r2 \in rows \/ r2 = row)
      BY <1>3
    <2> HIDE DEF row
    <2> QED BY <2>1, <2>2, <2>3, <2>4
  <1> QED BY <1>5, <1>6, <1>7

LEMMA MovedAccounts ==
  ASSUME Inv, TypeOK', NEW w \in Workers, Moved(w)
  PROVE  AttemptsAccounted' /\ LeakNeedsLimit'
  <1>0. TypeOK /\ \A v \in Workers : AttemptOf(v)' = AttemptOf(v)
    BY MovedHolds DEF Inv
  <1>1. AttemptsAccounted'
    <2> SUFFICES ASSUME NEW t \in Tasks, NEW n \in 1..starts'[t]
                 PROVE  LET a == [task |-> t, id |-> n]
                        IN  Stored(a)' \/ a \in gone' \/ \E v \in Workers : a \in Running(v)'
      BY DEF AttemptsAccounted
    <2> DEFINE a == [task |-> t, id |-> n]
    <2>1. Stored(a) \/ a \in gone \/ \E v \in Workers : a \in Running(v)
      BY DEF Inv, AttemptsAccounted, Moved
    <2>2. CASE Stored(a)
      BY <2>2 DEF Stored, Moved
    <2>3. CASE a \in gone
      BY <2>3 DEF Moved
    <2>4. ASSUME NEW v \in Workers, a \in Running(v), v # w PROVE a \in Running(v)'
      BY <2>4, <1>0 DEF Running, Unfinished, Moved, OthersKeep
    <2>5. CASE a \in Running(w)
      <3>1. Unfinished(w) /\ a = AttemptOf(w)
        BY <2>5 DEF Running
      <3>2. Unfinished(w)' \/ a \in gone' \/ \E r \in rows' : r.attempt = a
        BY <3>1 DEF Moved
      <3> QED BY <3>1, <3>2, <1>0 DEF Running, Stored
    <2> QED BY <2>1, <2>2, <2>3, <2>4, <2>5
  <1>2. LeakNeedsLimit'
    <2> SUFFICES ASSUME NEW v \in Workers, NEW a \in pool'[v]
                 PROVE  a \in Borrowing(v)' \/ a \in cut'
      BY DEF LeakNeedsLimit
    <2>1. CASE v = w
      BY <2>1 DEF Moved
    <2>2. CASE v # w
      <3>1. pool'[v] = pool[v] /\ Borrowing(v)' = Borrowing(v)
        BY <2>2, <1>0 DEF Moved, OthersKeep, Borrowing
      <3> QED BY <3>1 DEF Inv, LeakNeedsLimit, Moved
    <2> QED BY <2>1, <2>2
  <1> QED BY <1>1, <1>2

LEMMA MovedTasks ==
  ASSUME Inv, TypeOK', NEW w \in Workers, Moved(w)
  PROVE  Untriggered' /\ NoParallelAttempts' /\ SuccessEnds'
  <1> DEFINE tw == job[w].task
  <1>0. /\ TypeOK /\ tw \in Tasks /\ Works(w, tw) /\ Holds(w, tw)
        /\ \A v \in Workers, t \in Tasks : Holds(v, t)' <=> Holds(v, t)
        /\ \A v \in Workers, t \in Tasks : Works(v, t)' => Works(v, t)
    BY MovedHolds DEF Inv, Works
  <1>q. \A t \in Tasks \ {tw} : queue'[t] = queue[t]
    BY DEF Moved, Publish, Inv, TypeOK
  <1>r. ASSUME queue' # queue
        PROVE  /\ pc[w] = "raise" /\ pc'[w] = "ack" /\ job[w].retries + 1 \in Retries
               /\ queue'[tw][job[w].retries + 1] = queue[tw][job[w].retries + 1] + 1
               /\ \A r \in Retries \ {job[w].retries + 1} : queue'[tw][r] = queue[tw][r]
    <2>1. /\ pc[w] = "raise" /\ pc'[w] = "ack" /\ job[w].retries < MaxRetries
          /\ Publish(tw, job[w].retries + 1, 1)
      BY <1>r DEF Moved
    <2>2. job[w].retries + 1 \in Retries
      BY <2>1, <1>0, BusyHolds, AgentTaskAssumption DEF Job, Retries, Busy
    <2> QED BY <2>1, <2>2, <1>0 DEF Publish, TypeOK, Works
  <1>1. Untriggered'
    <2> SUFFICES ASSUME NEW t \in Tasks, result'[t] = "none"
                 PROVE  /\ \A r \in Retries : queue'[t][r] = 0
                        /\ \A v \in Workers : ~Holds(v, t)'
                        /\ \A x \in rows' : x.attempt.task # t
      BY DEF Untriggered
    <2>1. result[t] = "none"
      BY DEF Moved
    <2>2. t # tw
      BY <2>1, <1>0 DEF Inv, Untriggered
    <2>3. \A x \in rows' : x \in rows \/ x.attempt.task = tw
      BY DEF Moved, AttemptOf
    <2> QED BY <2>1, <2>2, <2>3, <1>0, <1>q DEF Inv, Untriggered
  <1>2. NoParallelAttempts'
    <2> SUFFICES ASSUME NEW t \in Tasks, losses'[t] = 0
                 PROVE  /\ \A v1, v2 \in Workers : Works(v1, t)' /\ Works(v2, t)' => v1 = v2
                        /\ \A r1, r2 \in Retries :
                             queue'[t][r1] > 0 /\ queue'[t][r2] > 0 => r1 = r2 /\ queue'[t][r1] = 1
                        /\ \A v \in Workers : Works(v, t)' => ~InQueue(t)'
      BY DEF NoParallelAttempts
    <2>0. /\ \A v1, v2 \in Workers : Works(v1, t) /\ Works(v2, t) => v1 = v2
          /\ \A r1, r2 \in Retries :
               queue[t][r1] > 0 /\ queue[t][r2] > 0 => r1 = r2 /\ queue[t][r1] = 1
          /\ \A v \in Workers : Works(v, t) => ~InQueue(t)
      BY DEF Inv, NoParallelAttempts, Moved
    <2>1. CASE queue'[t] = queue[t]
      BY <2>0, <2>1, <1>0 DEF InQueue
    <2>2. CASE queue'[t] # queue[t]
      <3>1. t = tw /\ queue' # queue
        BY <2>2, <1>q
      <3>2. \A r \in Retries : ~(queue[t][r] > 0)
        BY <3>1, <2>0, <1>0 DEF InQueue
      <3>3. \A r \in Retries : queue[t][r] = 0
        BY <3>2, <1>0 DEF TypeOK
      <3>4. \A v \in Workers : ~Works(v, t)'
        <4> SUFFICES ASSUME NEW v \in Workers, Works(v, t)' PROVE FALSE
          OBVIOUS
        <4>1. Works(v, t) /\ Works(w, t)
          BY <3>1, <1>0
        <4>2. v = w
          BY <4>1, <2>0
        <4>3. ~Works(w, t)'
          BY <3>1, <1>r DEF Works
        <4> QED BY <4>2, <4>3
      <3>5. \A r \in Retries : queue'[t][r] > 0 => r = job[w].retries + 1 /\ queue'[t][r] = 1
        BY <3>1, <3>3, <1>r
      <3> QED BY <2>0, <3>4, <3>5, <1>0
    <2> QED BY <2>1, <2>2
  <1>3. SuccessEnds'
    <2> SUFFICES ASSUME NEW t \in Tasks, losses'[t] = 0, t \notin troubled', Succeeded(t)'
                 PROVE  ~InQueue(t)' /\ \A v \in Workers : Works(v, t)' => pc'[v] = "return"
      BY DEF SuccessEnds, Smooth
    <2>0. losses[t] = 0 /\ t \notin troubled
      BY DEF Moved
    <2>1. CASE Succeeded(t)
      <3>1. ~InQueue(t) /\ \A v \in Workers : Works(v, t) => pc[v] = "return"
        BY <2>0, <2>1 DEF Inv, SuccessEnds, Smooth
      <3>2. CASE t # tw
        <4>1. ~Works(w, t)
          BY <3>2 DEF Works, Holds
        <4> QED BY <3>1, <3>2, <4>1, <1>0, <1>q DEF InQueue, Moved, OthersKeep
      <3>3. CASE t = tw
        <4>1. pc[w] = "return" /\ pc'[w] = "ack"
          BY <3>1, <3>3, <1>0 DEF Moved
        <4>2. queue' = queue
          BY <4>1, <1>r
        <4>3. \A v \in Workers : Works(v, t)' => v # w
          BY <4>1 DEF Works
        <4> QED BY <3>1, <4>2, <4>3, <1>0 DEF InQueue, Moved, OthersKeep
      <3> QED BY <3>2, <3>3
    <2>2. CASE ~Succeeded(t)
      <3>1. t = tw /\ pc'[w] = "return"
        <4>1. PICK r \in rows' : r.attempt.task = t /\ r.status = "success"
          BY DEF Succeeded
        <4>2. r \notin rows
          BY <4>1, <2>2 DEF Succeeded
        <4>3. r = [attempt |-> AttemptOf(w), status |-> "success"]
              /\ (pc'[w] = "return" \/ tw \in troubled')
          BY <4>1, <4>2 DEF Moved
        <4>4. r.attempt.task = tw
          BY <4>3 DEF AttemptOf
        <4> QED BY <4>1, <4>3, <4>4
      <3>2. queue' = queue
        BY <3>1 DEF Moved
      <3>3. \A v \in Workers : Works(v, t) => v = w
        BY <3>1, <2>0, <1>0 DEF Inv, NoParallelAttempts
      <3>4. ~InQueue(t)
        BY <3>1, <2>0, <1>0 DEF Inv, NoParallelAttempts
      <3> QED BY <3>1, <3>2, <3>3, <3>4, <1>0 DEF InQueue
    <2> QED BY <2>1, <2>2
  <1> QED BY <1>1, <1>2, <1>3

LEMMA MovedStep ==
  ASSUME Inv, NEW w \in Workers, Good(w) PROVE Inv'
  <1>1. TypeOK' /\ Moved(w) /\ Verdict(w)'
    BY DEF Good
  <1>2. VerdictKnown'
    BY <1>1 DEF Inv, VerdictKnown, Verdict, Moved, OthersKeep
  <1> QED BY <1>1, <1>2, MovedIds, MovedAccounts, MovedTasks DEF Inv

-----------------------------------------------------------------------------
(* The invariant survives a child that lets go, or takes a message.        *)

LEMMA EndedStep ==
  ASSUME Inv, NEW w \in Workers, TypeOK', Ended(w) PROVE Inv'
  <1> DEFINE tw == job[w].task
  <1>0. /\ TypeOK /\ Busy(w) /\ job[w] \in Job /\ job[w] # NoJob /\ tw \in Tasks
        /\ job[w].retries \in Retries
    BY BusyHolds, TaskTypes DEF Inv, Ended, Job
  <1>1. \A v \in Workers : Busy(v)' => v # w /\ Busy(v) /\ AttemptOf(v)' = AttemptOf(v)
    BY DEF Ended, OthersKeep, Busy, AttemptOf
  <1>2. \A v \in Workers, t \in Tasks : Holds(v, t)' <=> v # w /\ Holds(v, t)
    BY DEF Ended, OthersKeep, Holds
  <1>3. \A v \in Workers, t \in Tasks : Works(v, t)' => v # w /\ Works(v, t)
    BY <1>2 DEF Ended, OthersKeep, Works
  <1>4. /\ \A t \in Tasks : losses'[t] = 0 => losses[t] = 0 /\ queue'[t] = queue[t]
        /\ \A t \in Tasks \ {tw} : queue'[t] = queue[t]
    <2>1. CASE UNCHANGED <<queue, losses>>
      BY <2>1
    <2>2. CASE Publish(tw, job[w].retries, 1) /\ losses' = [losses EXCEPT ![tw] = @ + 1]
      BY <2>2, <1>0 DEF Publish, TypeOK
    <2> QED BY <2>1, <2>2 DEF Ended
  <1>5. VerdictKnown'
    <2> SUFFICES ASSUME NEW v \in Workers, Busy(v)' PROVE Verdict(v)'
      BY DEF VerdictKnown, Verdict, Busy
    <2>1. v # w
      BY <1>1
    <2> QED BY <2>1 DEF Inv, VerdictKnown, Verdict, Ended, OthersKeep
  <1>6. IdsInOrder'
    <2>1. \A v \in Workers : Busy(v)' => job'[v].id \in 1..starts'[job'[v].task]
      BY <1>1 DEF Inv, IdsInOrder, Ended, OthersKeep
    <2>2. \A r \in rows' : r.attempt.id <= starts'[r.attempt.task]
      BY DEF Inv, IdsInOrder, Ended
    <2>3. \A u, v \in Workers : Busy(u)' /\ Busy(v)' /\ AttemptOf(u)' = AttemptOf(v)' => u = v
      BY <1>1 DEF Inv, IdsInOrder
    <2> QED BY <2>1, <2>2, <2>3 DEF IdsInOrder
  <1>7. NotStoredYet' /\ OneVerdict'
    <2>1. ASSUME NEW v \in Workers, pc'[v] \in Awaiting PROVE ~Stored(AttemptOf(v))'
      <3>1. v # w /\ AttemptOf(v)' = AttemptOf(v)
        BY <2>1, <1>1 DEF Busy, Awaiting
      <3>2. ~Stored(AttemptOf(v))
        BY <2>1, <3>1 DEF Inv, NotStoredYet, Ended, OthersKeep
      <3> QED BY <3>1, <3>2 DEF Stored, Ended
    <2>2. OneVerdict'
      BY DEF Inv, OneVerdict, Ended
    <2> QED BY <2>1, <2>2 DEF NotStoredYet
  <1>8. AttemptsAccounted'
    <2> SUFFICES ASSUME NEW t \in Tasks, NEW n \in 1..starts'[t]
                 PROVE  LET a == [task |-> t, id |-> n]
                        IN  Stored(a)' \/ a \in gone' \/ \E v \in Workers : a \in Running(v)'
      BY DEF AttemptsAccounted
    <2> DEFINE a == [task |-> t, id |-> n]
    <2>1. Stored(a) \/ a \in gone \/ \E v \in Workers : a \in Running(v)
      BY DEF Inv, AttemptsAccounted, Ended
    <2>2. CASE Stored(a)
      BY <2>2 DEF Stored, Ended
    <2>3. CASE a \in gone
      BY <2>3 DEF Ended
    <2>4. ASSUME NEW v \in Workers, a \in Running(v), v # w PROVE a \in Running(v)'
      BY <2>4 DEF Running, Unfinished, Ended, OthersKeep, AttemptOf
    <2>5. CASE a \in Running(w)
      BY <2>5 DEF Running, Ended
    <2> QED BY <2>1, <2>2, <2>3, <2>4, <2>5
  <1>9. LeakNeedsLimit'
    <2> SUFFICES ASSUME NEW v \in Workers, NEW a \in pool'[v]
                 PROVE  a \in Borrowing(v)' \/ a \in cut'
      BY DEF LeakNeedsLimit
    <2>1. CASE v = w
      <3>1. pc[w] = "ack" /\ a \in pool[w]
        BY <2>1 DEF Ended
      <3>2. Borrowing(w) = {}
        BY <3>1 DEF Borrowing
      <3> QED BY <2>1, <3>1, <3>2 DEF Inv, LeakNeedsLimit, Ended
    <2>2. CASE v # w
      <3>1. pool'[v] = pool[v] /\ Borrowing(v)' = Borrowing(v) /\ cut' = cut
        BY <2>2 DEF Ended, OthersKeep, Borrowing, AttemptOf
      <3> QED BY <3>1 DEF Inv, LeakNeedsLimit
    <2> QED BY <2>1, <2>2
  <1>10. Untriggered'
    <2> SUFFICES ASSUME NEW t \in Tasks, result'[t] = "none"
                 PROVE  /\ \A r \in Retries : queue'[t][r] = 0
                        /\ \A v \in Workers : ~Holds(v, t)'
                        /\ \A x \in rows' : x.attempt.task # t
      BY DEF Untriggered
    <2>1. result[t] = "none"
      BY DEF Ended
    <2>2. ~Holds(w, t)
      BY <2>1 DEF Inv, Untriggered
    <2>3. t # tw
      BY <2>2, <1>0 DEF Holds
    <2> QED BY <2>1, <2>3, <1>2, <1>4 DEF Inv, Untriggered, Ended
  <1>11. NoParallelAttempts'
    <2> SUFFICES ASSUME NEW t \in Tasks, losses'[t] = 0
                 PROVE  /\ \A v1, v2 \in Workers : Works(v1, t)' /\ Works(v2, t)' => v1 = v2
                        /\ \A r1, r2 \in Retries :
                             queue'[t][r1] > 0 /\ queue'[t][r2] > 0 => r1 = r2 /\ queue'[t][r1] = 1
                        /\ \A v \in Workers : Works(v, t)' => ~InQueue(t)'
      BY DEF NoParallelAttempts
    <2>1. losses[t] = 0 /\ queue'[t] = queue[t]
      BY <1>4
    <2>2. InQueue(t)' <=> InQueue(t)
      BY <2>1 DEF InQueue
    <2> QED BY <2>1, <2>2, <1>3 DEF Inv, NoParallelAttempts
  <1>12. SuccessEnds'
    <2> SUFFICES ASSUME NEW t \in Tasks, losses'[t] = 0, t \notin troubled', Succeeded(t)'
                 PROVE  ~InQueue(t)' /\ \A v \in Workers : Works(v, t)' => pc'[v] = "return"
      BY DEF SuccessEnds, Smooth
    <2>1. losses[t] = 0 /\ queue'[t] = queue[t] /\ t \notin troubled /\ Succeeded(t)
      BY <1>4 DEF Ended, Succeeded
    <2>2. ~InQueue(t) /\ \A v \in Workers : Works(v, t) => pc[v] = "return"
      BY <2>1 DEF Inv, SuccessEnds, Smooth
    <2> QED BY <2>1, <2>2, <1>3 DEF InQueue, Ended, OthersKeep
  <1> QED BY <1>5, <1>6, <1>7, <1>8, <1>9, <1>10, <1>11, <1>12 DEF Inv

LEMMA StartTypes ==
  ASSUME TypeOK, NEW w \in Workers, Start(w)
  PROVE  TypeOK'
  <1>1. PICK t \in Tasks, r \in Retries :
          /\ queue[t][r] > 0
          /\ queue' = [queue EXCEPT ![t][r] = @ - 1]
          /\ result' = [result EXCEPT ![t] = "started"]
          /\ starts' = [starts EXCEPT ![t] = @ + 1]
          /\ job' = [job EXCEPT ![w] = [task |-> t, retries |-> r, id |-> starts[t] + 1,
                                        ending |-> "none", limited |-> FALSE]]
          /\ pc' = [pc EXCEPT ![w] = "load"]
    BY DEF Start
  <1> DEFINE j == [task |-> t, retries |-> r, id |-> starts[t] + 1,
                   ending |-> "none", limited |-> FALSE]
  <1>2. starts[t] + 1 \in Nat /\ queue[t][r] - 1 \in Nat
    BY <1>1 DEF TypeOK
  <1>3. j \in Job
    BY <1>2 DEF Job
  <1>4. queue' \in [Tasks -> [Retries -> Nat]]
    BY <1>1, <1>2 DEF TypeOK
  <1>5. starts' \in [Tasks -> Nat] /\ result' \in [Tasks -> {"none", "queued", "started",
                                                     "retry", "success", "failure"}]
    BY <1>1, <1>2 DEF TypeOK
  <1> HIDE DEF j
  <1>6. /\ job' \in [Workers -> Job \cup {NoJob}]
        /\ pc' \in [Workers -> Steps \cup {"idle"}]
        /\ job'[w] = j /\ pc'[w] = "load"
        /\ \A v \in Workers \ {w} : job'[v] = job[v] /\ pc'[v] = pc[v]
    <2>1. job' = [job EXCEPT ![w] = j]
      BY <1>1 DEF j
    <2> QED BY <2>1, <1>1, <1>3 DEF TypeOK, Steps, Awaiting
  <1>7. \A v \in Workers : pc'[v] = "idle" <=> job'[v] = NoJob
    BY <1>3, <1>6, NoJobIsNone DEF TypeOK
  <1> QED BY <1>4, <1>5, <1>6, <1>7 DEF Start, TypeOK

\* A child that takes a message begins an attempt that no row, no child and
\* no set knows yet, and the message is not there any more.
LEMMA StartFacts ==
  ASSUME TypeOK, NEW w \in Workers, Start(w)
  PROVE  \E t \in Tasks, r \in Retries :
            /\ queue[t][r] > 0 /\ queue'[t][r] = queue[t][r] - 1
            /\ \A q \in Retries \ {r} : queue'[t][q] = queue[t][q]
            /\ \A u \in Tasks \ {t} : queue'[u] = queue[u] /\ starts'[u] = starts[u]
                                      /\ result'[u] = result[u]
            /\ starts'[t] = starts[t] + 1 /\ result'[t] = "started"
            /\ pc[w] = "idle" /\ pc'[w] = "load"
            /\ job'[w].task = t /\ job'[w].id = starts[t] + 1 /\ job'[w] # NoJob
            /\ job'[w].retries = r
            /\ AttemptOf(w)' = [task |-> t, id |-> starts[t] + 1]
            /\ \A v \in Workers \ {w} : job'[v] = job[v] /\ pc'[v] = pc[v]
                                        /\ AttemptOf(v)' = AttemptOf(v)
            /\ UNCHANGED <<agent, pool, rows, faults, losses, gone, troubled, cut>>
  <1>1. PICK t \in Tasks, r \in Retries :
          /\ queue[t][r] > 0
          /\ queue' = [queue EXCEPT ![t][r] = @ - 1]
          /\ result' = [result EXCEPT ![t] = "started"]
          /\ starts' = [starts EXCEPT ![t] = @ + 1]
          /\ job' = [job EXCEPT ![w] = [task |-> t, retries |-> r, id |-> starts[t] + 1,
                                        ending |-> "none", limited |-> FALSE]]
          /\ pc' = [pc EXCEPT ![w] = "load"]
    BY DEF Start
  <1>2. /\ pc'[w] = "load" /\ job'[w].task = t /\ job'[w].id = starts[t] + 1
        /\ job'[w].retries = r
        /\ \A v \in Workers \ {w} : job'[v] = job[v] /\ pc'[v] = pc[v]
    BY <1>1 DEF TypeOK
  <1>3. job'[w] # NoJob
    BY <1>2, StartTypes DEF TypeOK
  <1>4. AttemptOf(w)' = [task |-> t, id |-> starts[t] + 1]
        /\ \A v \in Workers \ {w} : AttemptOf(v)' = AttemptOf(v)
    BY <1>2 DEF AttemptOf
  <1>5. /\ queue'[t][r] = queue[t][r] - 1
        /\ \A q \in Retries \ {r} : queue'[t][q] = queue[t][q]
        /\ \A u \in Tasks \ {t} : queue'[u] = queue[u] /\ starts'[u] = starts[u]
                                  /\ result'[u] = result[u]
        /\ starts'[t] = starts[t] + 1 /\ result'[t] = "started"
    BY <1>1 DEF TypeOK
  <1>6. queue[t][r] > 0 /\ pc[w] = "idle"
        /\ UNCHANGED <<agent, pool, rows, faults, losses, gone, troubled, cut>>
    BY <1>1 DEF Start
  <1> QED BY <1>2, <1>3, <1>4, <1>5, <1>6

LEMMA StartStep ==
  ASSUME Inv, NEW w \in Workers, Start(w) PROVE Inv'
  <1>0. TypeOK /\ TypeOK'
    BY StartTypes DEF Inv
  <1>1. PICK t \in Tasks, r \in Retries :
          /\ queue[t][r] > 0 /\ queue'[t][r] = queue[t][r] - 1
          /\ \A q \in Retries \ {r} : queue'[t][q] = queue[t][q]
          /\ \A u \in Tasks \ {t} : queue'[u] = queue[u] /\ starts'[u] = starts[u]
                                    /\ result'[u] = result[u]
          /\ starts'[t] = starts[t] + 1 /\ result'[t] = "started"
          /\ pc[w] = "idle" /\ pc'[w] = "load"
          /\ job'[w].task = t /\ job'[w].id = starts[t] + 1 /\ job'[w] # NoJob
          /\ AttemptOf(w)' = [task |-> t, id |-> starts[t] + 1]
          /\ \A v \in Workers \ {w} : job'[v] = job[v] /\ pc'[v] = pc[v]
                                      /\ AttemptOf(v)' = AttemptOf(v)
          /\ UNCHANGED <<agent, pool, rows, faults, losses, gone, troubled, cut>>
    BY <1>0, StartFacts
  <1>2. starts[t] \in Nat /\ \A u \in Tasks : starts[u] \in Nat /\ starts[u] <= starts'[u]
    BY <1>0, <1>1 DEF TypeOK
  <1>3. job[w] = NoJob
    BY <1>0, <1>1 DEF TypeOK
  <1> DEFINE b == [task |-> t, id |-> starts[t] + 1]
  <1>4. VerdictKnown'
    BY <1>1 DEF Inv, VerdictKnown
  <1>5. \A v \in Workers \ {w} : Busy(v)' => Busy(v) /\ AttemptOf(v) # b
    <2> SUFFICES ASSUME NEW v \in Workers \ {w}, Busy(v)'
                 PROVE  Busy(v) /\ AttemptOf(v) # b
      OBVIOUS
    <2>1. Busy(v)
      BY <1>1 DEF Busy
    <2>2. job[v].id \in 1..starts[job[v].task] /\ job[v].task \in Tasks
      BY <1>0, <2>1, TaskTypes DEF Inv, IdsInOrder
    <2> QED BY <2>1, <2>2, <1>2 DEF AttemptOf
  <1>6. IdsInOrder'
    <2>1. ASSUME NEW v \in Workers, Busy(v)' PROVE job'[v].id \in 1..starts'[job'[v].task]
      <3>1. CASE v = w
        BY <3>1, <1>1, <1>2
      <3>2. CASE v # w
        <4>1. Busy(v) /\ job'[v] = job[v]
          BY <3>2, <2>1, <1>1, <1>5
        <4>2. job[v].id \in 1..starts[job[v].task] /\ job[v].task \in Tasks
          BY <1>0, <4>1, TaskTypes DEF Inv, IdsInOrder
        <4>3. starts'[job[v].task] \in Nat
          BY <1>0, <4>2 DEF TypeOK
        <4> QED BY <4>1, <4>2, <4>3, <1>2
      <3> QED BY <3>1, <3>2
    <2>2. ASSUME NEW x \in rows' PROVE x.attempt.id <= starts'[x.attempt.task]
      <3>1. x.attempt.id <= starts[x.attempt.task] /\ x.attempt.task \in Tasks
            /\ x.attempt.id \in Nat
        BY <1>0, <1>1 DEF Inv, IdsInOrder, TypeOK, ExecutionRow, Attempt
      <3>2. starts'[x.attempt.task] \in Nat
        BY <1>0, <3>1 DEF TypeOK
      <3> QED BY <3>1, <3>2, <1>2
    <2>3. ASSUME NEW u \in Workers, NEW v \in Workers, Busy(u)', Busy(v)',
                 AttemptOf(u)' = AttemptOf(v)'
          PROVE  u = v
      BY <2>3, <1>1, <1>5 DEF Inv, IdsInOrder
    <2> QED BY <2>1, <2>2, <2>3 DEF IdsInOrder
  <1>7. NotStoredYet'
    <2> SUFFICES ASSUME NEW v \in Workers, pc'[v] \in Awaiting PROVE ~Stored(AttemptOf(v))'
      BY DEF NotStoredYet
    <2>1. CASE v = w
      <3> SUFFICES ASSUME NEW x \in rows, x.attempt = b PROVE FALSE
        BY <2>1, <1>1 DEF Stored
      <3>1. x.attempt.id <= starts[x.attempt.task]
        BY DEF Inv, IdsInOrder
      <3> QED BY <3>1, <1>2
    <2>2. CASE v # w
      <3>1. ~Stored(AttemptOf(v)) /\ AttemptOf(v)' = AttemptOf(v)
        BY <2>2, <1>1 DEF Inv, NotStoredYet
      <3> QED BY <3>1, <1>1 DEF Stored
    <2> QED BY <2>1, <2>2
  <1>8. OneVerdict'
    BY <1>1 DEF Inv, OneVerdict
  <1>9. AttemptsAccounted'
    <2> SUFFICES ASSUME NEW u \in Tasks, NEW n \in 1..starts'[u]
                 PROVE  LET a == [task |-> u, id |-> n]
                        IN  Stored(a)' \/ a \in gone' \/ \E v \in Workers : a \in Running(v)'
      BY DEF AttemptsAccounted
    <2> DEFINE a == [task |-> u, id |-> n]
    <2>1. CASE u = t /\ n = starts[t] + 1
      BY <2>1, <1>1 DEF Running, Unfinished
    <2>2. CASE ~(u = t /\ n = starts[t] + 1)
      <3>1. n \in 1..starts[u]
        BY <2>2, <1>1, <1>2
      <3>2. Stored(a) \/ a \in gone \/ \E v \in Workers : a \in Running(v)
        BY <3>1 DEF Inv, AttemptsAccounted
      <3>3. ASSUME NEW v \in Workers, a \in Running(v) PROVE a \in Running(v)'
        <4>1. v # w
          BY <3>3, <1>1 DEF Running, Unfinished
        <4> QED BY <3>3, <4>1, <1>1 DEF Running, Unfinished
      <3> QED BY <3>2, <3>3, <1>1 DEF Stored
    <2> QED BY <2>1, <2>2
  <1>10. LeakNeedsLimit'
    <2> SUFFICES ASSUME NEW v \in Workers, NEW a \in pool'[v]
                 PROVE  a \in Borrowing(v)' \/ a \in cut'
      BY DEF LeakNeedsLimit
    <2>1. a \in Borrowing(v) \/ a \in cut
      BY <1>1 DEF Inv, LeakNeedsLimit
    <2>2. a \in Borrowing(v) => v # w
      BY <1>1 DEF Borrowing
    <2> QED BY <2>1, <2>2, <1>1 DEF Borrowing
  <1>11. \A u \in Tasks : InQueue(u)' => InQueue(u)
    <2> SUFFICES ASSUME NEW u \in Tasks, NEW q \in Retries, queue'[u][q] > 0
                 PROVE  InQueue(u)
      BY DEF InQueue
    <2>1. CASE u # t
      BY <2>1, <1>1 DEF InQueue
    <2>2. CASE u = t
      BY <2>2, <1>1 DEF InQueue
    <2> QED BY <2>1, <2>2
  <1>12. InQueue(t) /\ \A v \in Workers, u \in Tasks : Holds(v, u)' <=>
                          (v = w /\ u = t) \/ (v # w /\ Holds(v, u))
    BY <1>1 DEF InQueue, Holds
  <1>13. \A v \in Workers, u \in Tasks : Works(v, u)' <=>
                          (v = w /\ u = t) \/ (v # w /\ Works(v, u))
    BY <1>1, <1>12 DEF Works
  <1>14. result[t] # "none"
    <2> SUFFICES ASSUME result[t] = "none" PROVE FALSE
      OBVIOUS
    <2>1. queue[t][r] = 0
      BY DEF Inv, Untriggered
    <2> QED BY <2>1, <1>1
  <1>15. Untriggered'
    <2> SUFFICES ASSUME NEW u \in Tasks, result'[u] = "none"
                 PROVE  /\ \A q \in Retries : queue'[u][q] = 0
                        /\ \A v \in Workers : ~Holds(v, u)'
                        /\ \A x \in rows' : x.attempt.task # u
      BY DEF Untriggered
    <2>1. u # t
      BY <1>1
    <2>2. result[u] = "none" /\ queue'[u] = queue[u]
      BY <2>1, <1>1
    <2> QED BY <2>1, <2>2, <1>1, <1>12 DEF Inv, Untriggered
  <1>16. NoParallelAttempts'
    <2> SUFFICES ASSUME NEW u \in Tasks, losses'[u] = 0
                 PROVE  /\ \A v1, v2 \in Workers : Works(v1, u)' /\ Works(v2, u)' => v1 = v2
                        /\ \A r1, r2 \in Retries :
                             queue'[u][r1] > 0 /\ queue'[u][r2] > 0 => r1 = r2 /\ queue'[u][r1] = 1
                        /\ \A v \in Workers : Works(v, u)' => ~InQueue(u)'
      BY DEF NoParallelAttempts
    <2>0. /\ \A v1, v2 \in Workers : Works(v1, u) /\ Works(v2, u) => v1 = v2
          /\ \A r1, r2 \in Retries :
               queue[u][r1] > 0 /\ queue[u][r2] > 0 => r1 = r2 /\ queue[u][r1] = 1
          /\ \A v \in Workers : Works(v, u) => ~InQueue(u)
      BY <1>1 DEF Inv, NoParallelAttempts
    <2>1. CASE u # t
      BY <2>0, <2>1, <1>1, <1>11, <1>13
    <2>2. CASE u = t
      <3>1. \A v \in Workers : ~Works(v, t)
        BY <2>0, <2>2, <1>12
      <3>2. \A q \in Retries : queue[t][q] \in Nat /\ queue'[t][q] \in Nat
        BY <1>0 DEF TypeOK
      <3>3. \A q \in Retries : ~(queue'[t][q] > 0)
        <4> SUFFICES ASSUME NEW q \in Retries, queue'[t][q] > 0 PROVE FALSE
          OBVIOUS
        <4>1. q = r => queue[t][q] = 1
          BY <2>0, <2>2, <1>1
        <4>2. q # r => queue[t][q] > 0
          BY <1>1
        <4> QED BY <4>1, <4>2, <3>2, <2>0, <2>2, <1>1
      <3>4. ~InQueue(t)'
        BY <3>3 DEF InQueue
      <3> QED BY <2>2, <3>1, <3>3, <3>4, <1>13
    <2> QED BY <2>1, <2>2
  <1>17. SuccessEnds'
    <2> SUFFICES ASSUME NEW u \in Tasks, losses'[u] = 0, u \notin troubled', Succeeded(u)'
                 PROVE  ~InQueue(u)' /\ \A v \in Workers : Works(v, u)' => pc'[v] = "return"
      BY DEF SuccessEnds, Smooth
    <2>1. Smooth(u) /\ Succeeded(u)
      BY <1>1 DEF Smooth, Succeeded
    <2>2. ~InQueue(u) /\ \A v \in Workers : Works(v, u) => pc[v] = "return"
      BY <2>1 DEF Inv, SuccessEnds
    <2>3. u # t
      BY <2>2, <1>12
    <2> QED BY <2>2, <2>3, <1>1, <1>11, <1>13
  <1> QED BY <1>0, <1>4, <1>6, <1>7, <1>8, <1>9, <1>10, <1>15, <1>16, <1>17 DEF Inv

-----------------------------------------------------------------------------
(* The API, the start, and the invariant.                                  *)

\* A change that leaves the children, their rows and their history alone.
LEMMA ApiStep ==
  ASSUME Inv, TypeOK', UNCHANGED <<childVars, rows, historyVars>>,
         \A t \in Tasks : \/ queue'[t] = queue[t] /\ (result'[t] = "none" => result[t] = "none")
                          \/ /\ result[t] = "none" /\ result'[t] # "none"
                             /\ \A r \in Retries \ {0} : queue'[t][r] = 0
                             /\ queue'[t][0] = 1
  PROVE  Inv'
  <1>0. UNCHANGED <<pc, job, pool>> /\ UNCHANGED <<starts, losses, gone, troubled, cut>>
    BY DEF childVars, historyVars
  <1>1. \A w \in Workers : AttemptOf(w)' = AttemptOf(w) /\ Busy(w)' = Busy(w)
                           /\ Running(w)' = Running(w) /\ Borrowing(w)' = Borrowing(w)
    BY <1>0 DEF AttemptOf, Busy, Running, Unfinished, Borrowing
  <1>2. \A w \in Workers, t \in Tasks : (Holds(w, t)' <=> Holds(w, t))
                                        /\ (Works(w, t)' <=> Works(w, t))
    BY <1>0 DEF Holds, Works
  <1>3. VerdictKnown' /\ OneVerdict'
    BY <1>0 DEF Inv, VerdictKnown, OneVerdict
  <1>4. IdsInOrder'
    BY <1>0, <1>1 DEF Inv, IdsInOrder
  <1>5. NotStoredYet'
    BY <1>0, <1>1 DEF Inv, NotStoredYet, Stored
  <1>6. AttemptsAccounted'
    BY <1>0, <1>1 DEF Inv, AttemptsAccounted, Stored
  <1>7. LeakNeedsLimit'
    BY <1>0, <1>1 DEF Inv, LeakNeedsLimit
  <1>8. ASSUME NEW t \in Tasks, queue'[t] # queue[t]
        PROVE  /\ result[t] = "none" /\ result'[t] # "none"
               /\ \A r \in Retries \ {0} : queue'[t][r] = 0
               /\ queue'[t][0] = 1
               /\ \A w \in Workers : ~Holds(w, t) /\ ~Works(w, t)
    <2>1. result[t] = "none" /\ result'[t] # "none"
          /\ (\A r \in Retries \ {0} : queue'[t][r] = 0) /\ queue'[t][0] = 1
      BY <1>8
    <2> QED BY <2>1 DEF Inv, Untriggered, Works
  <1>9. Untriggered'
    BY <1>2, <1>8 DEF Inv, Untriggered
  <1>10. NoParallelAttempts'
    <2> SUFFICES ASSUME NEW t \in Tasks, losses'[t] = 0
                 PROVE  /\ \A v1, v2 \in Workers : Works(v1, t)' /\ Works(v2, t)' => v1 = v2
                        /\ \A r1, r2 \in Retries :
                             queue'[t][r1] > 0 /\ queue'[t][r2] > 0 => r1 = r2 /\ queue'[t][r1] = 1
                        /\ \A v \in Workers : Works(v, t)' => ~InQueue(t)'
      BY DEF NoParallelAttempts
    <2>1. CASE queue'[t] = queue[t]
      <3>1. InQueue(t)' <=> InQueue(t)
        BY <2>1 DEF InQueue
      <3> QED BY <2>1, <3>1, <1>0, <1>2 DEF Inv, NoParallelAttempts
    <2>2. CASE queue'[t] # queue[t]
      <3>1. \A r \in Retries : queue'[t][r] > 0 => r = 0 /\ queue'[t][r] = 1
        BY <1>8, <2>2
      <3> QED BY <3>1, <1>2, <1>8, <2>2
    <2> QED BY <2>1, <2>2
  <1>11. SuccessEnds'
    <2> SUFFICES ASSUME NEW t \in Tasks, Smooth(t), Succeeded(t)
                 PROVE  ~InQueue(t)' /\ \A v \in Workers : Works(v, t)' => pc'[v] = "return"
      BY <1>0 DEF SuccessEnds, Smooth, Succeeded
    <2>1. ~InQueue(t) /\ \A v \in Workers : Works(v, t) => pc[v] = "return"
      BY DEF Inv, SuccessEnds
    <2>2. queue'[t] = queue[t]
      <3> SUFFICES ASSUME queue'[t] # queue[t] PROVE FALSE
        OBVIOUS
      <3>1. result[t] = "none"
        BY <1>8
      <3>2. PICK x \in rows : x.attempt.task = t
        BY DEF Succeeded
      <3> QED BY <3>1, <3>2 DEF Inv, Untriggered
    <2> QED BY <2>1, <2>2, <1>0, <1>2 DEF InQueue
  <1> QED BY <1>3, <1>4, <1>5, <1>6, <1>7, <1>9, <1>10, <1>11 DEF Inv

LEMMA InitInv == Init => Inv
  <1> SUFFICES ASSUME Init PROVE Inv
    OBVIOUS
  <1>1. TypeOK
    BY DEF Init, TypeOK, Steps, Awaiting, Retries
  <1>2. \A w \in Workers, t \in Tasks : ~Holds(w, t) /\ ~Works(w, t)
    BY DEF Init, Holds, Works
  <1>3. VerdictKnown /\ IdsInOrder /\ NotStoredYet
    BY DEF Init, VerdictKnown, IdsInOrder, NotStoredYet, Busy, Awaiting
  <1>4. OneVerdict /\ AttemptsAccounted /\ LeakNeedsLimit
    BY DEF Init, OneVerdict, AttemptsAccounted, LeakNeedsLimit
  <1>5. Untriggered /\ SuccessEnds
    BY <1>2 DEF Init, Untriggered, SuccessEnds, Succeeded
  <1>6. NoParallelAttempts
    BY <1>2 DEF Init, NoParallelAttempts
  <1> QED BY <1>1, <1>3, <1>4, <1>5, <1>6 DEF Inv

LEMMA UpdateAgentStep == ASSUME Inv, UpdateAgent PROVE Inv'
  <1>1. TypeOK'
    BY DEF Inv, TypeOK, UpdateAgent, childVars, historyVars
  <1> QED BY <1>1, ApiStep DEF UpdateAgent

LEMMA TriggerStep == ASSUME Inv, NEW t \in Tasks, Trigger(t) PROVE Inv'
  <1>0. TypeOK /\ 0 \in Retries /\ result[t] = "none"
        /\ UNCHANGED <<agent, pc, job, pool, rows, faults, starts, losses, gone, troubled, cut>>
    BY AgentTaskAssumption DEF Inv, Retries, Trigger, childVars, historyVars
  <1>1. \A r \in Retries : queue[t][r] = 0
    BY <1>0 DEF Inv, Untriggered
  <1>2. /\ queue' \in [Tasks -> [Retries -> Nat]]
        /\ \A u \in Tasks \ {t} : queue'[u] = queue[u] /\ result'[u] = result[u]
        /\ \A r \in Retries \ {0} : queue'[t][r] = 0
        /\ queue'[t][0] = 1 /\ result'[t] # "none"
    BY <1>0, <1>1 DEF Trigger, TypeOK
  <1>3. TypeOK'
    BY <1>0, <1>2 DEF TypeOK, Trigger
  <1> QED BY <1>0, <1>2, <1>3, ApiStep DEF Trigger

\* What the actions of a child need of the invariant.
LEMMA ChildFacts ==
  ASSUME Inv, NEW w \in Workers
  PROVE  /\ TypeOK /\ Leaks(w) /\ Verdict(w)
         /\ pc[w] \in Awaiting => ~Stored(AttemptOf(w))
  BY DEF Inv, LeakNeedsLimit, Leaks, VerdictKnown, Verdict, NotStoredYet

LEMMA ChildKinds ==
  ASSUME Inv, NEW w \in Workers,
         \/ Work(w) \/ SaveRaises(w) \/ SaveFailedRaises(w) \/ LoseWorker(w)
         \/ SoftLimitWaiting(w) \/ SoftLimitRunning(w) \/ SoftLimitSaving(w)
         \/ HardLimit(w)
  PROVE  Start(w) \/ Good(w) \/ (TypeOK' /\ Ended(w))
  <1>0. TypeOK /\ Leaks(w) /\ Verdict(w) /\ (pc[w] \in Awaiting => ~Stored(AttemptOf(w)))
    BY ChildFacts
  <1>1. CASE LoadAgent(w)
    BY <1>1, <1>0, LoadAgentGood
  <1>2. CASE CheckAgent(w)
    BY <1>2, <1>0, CheckAgentGood
  <1>3. CASE GetBridge(w)
    BY <1>3, <1>0, GetBridgeGood
  <1>4. CASE OpenSessions(w)
    BY <1>4, <1>0, OpenSessionsGood
  <1>5. CASE InvokeAgent(w)
    BY <1>5, <1>0, InvokeAgentGood
  <1>6. CASE Cleanup(w)
    BY <1>6, <1>0, CleanupGood
  <1>7. CASE Save(w)
    BY <1>7, <1>0, SaveGood DEF Save, Awaiting
  <1>8. CASE SaveFailed(w)
    BY <1>8, <1>0, SaveFailedGood
  <1>9. CASE Raise(w)
    BY <1>9, <1>0, RaiseGood
  <1>10. CASE Return(w)
    BY <1>10, <1>0, ReturnGood
  <1>11. CASE SaveRaises(w)
    BY <1>11, <1>0, SaveRaisesGood DEF SaveRaises, Awaiting
  <1>12. CASE SaveFailedRaises(w)
    BY <1>12, <1>0, SaveFailedRaisesGood
  <1>13. CASE SoftLimitWaiting(w)
    BY <1>13, <1>0, SoftLimitWaitingGood DEF Awaiting
  <1>14. CASE SoftLimitRunning(w)
    BY <1>14, <1>0, SoftLimitRunningGood
  <1>15. CASE SoftLimitSaving(w)
    BY <1>15, <1>0, SoftLimitSavingGood
  <1>16. CASE Ack(w)
    BY <1>16, <1>0, AckEnded
  <1>17. CASE LoseWorker(w)
    BY <1>17, <1>0, LoseWorkerEnded
  <1>18. CASE HardLimit(w)
    BY <1>18, <1>0, HardLimitEnded
  <1> QED BY <1>1, <1>2, <1>3, <1>4, <1>5, <1>6, <1>7, <1>8, <1>9, <1>10, <1>11, <1>12,
            <1>13, <1>14, <1>15, <1>16, <1>17, <1>18 DEF Work

LEMMA ChildStep ==
  ASSUME Inv, NEW w \in Workers,
         \/ Work(w) \/ SaveRaises(w) \/ SaveFailedRaises(w) \/ LoseWorker(w)
         \/ SoftLimitWaiting(w) \/ SoftLimitRunning(w) \/ SoftLimitSaving(w)
         \/ HardLimit(w)
  PROVE  Inv'
  BY ChildKinds, StartStep, MovedStep, EndedStep

LEMMA UnchangedStep == ASSUME Inv, UNCHANGED vars PROVE Inv'
  <1>1. UNCHANGED <<agent, queue, result, childVars, rows, faults, historyVars>>
    BY DEF vars
  <1>2. TypeOK'
    BY <1>1 DEF Inv, TypeOK, childVars, historyVars
  <1> QED BY <1>1, <1>2, ApiStep

LEMMA NextInv == ASSUME Inv, [Next]_vars PROVE Inv'
  <1>1. CASE UpdateAgent
    BY <1>1, UpdateAgentStep
  <1>2. CASE \E t \in Tasks : Trigger(t)
    BY <1>2, TriggerStep
  <1>3. ASSUME NEW w \in Workers,
               \/ Work(w) \/ SaveRaises(w) \/ SaveFailedRaises(w) \/ LoseWorker(w)
               \/ SoftLimitWaiting(w) \/ SoftLimitRunning(w) \/ SoftLimitSaving(w)
               \/ HardLimit(w)
        PROVE  Inv'
    BY <1>3, ChildStep
  <1>4. CASE UNCHANGED vars
    BY <1>4, UnchangedStep
  <1> QED BY <1>1, <1>2, <1>3, <1>4 DEF Next

LEMMA Invariance == Spec => []Inv
  <1>1. Inv /\ [Next]_vars => Inv'
    BY NextInv
  <1> QED BY InitInv, <1>1, PTL DEF Spec

-----------------------------------------------------------------------------
(* The attempts a task may still make.  A message, or a child that holds   *)
(* one, is a slot with the retry numbers it may yet use: a message its own *)
(* and those above it, a child only those above, its attempt being counted *)
(* already.                                                                *)

Slot(x, i) == {x} \X (i..MaxRetries)

Waiting(t) == UNION {UNION {Slot(<<"queue", r, k>>, r) : k \in 1..queue[t][r]} : r \in Retries}

Underway(t) == UNION {Slot(<<"child", w>>, job[w].retries + 1) :
                        w \in {v \in Workers : Works(v, t)}}

Chances(t) == Waiting(t) \cup Underway(t)

\* Attempts made and attempts possible: a lost worker allows another round.
BudgetOf(t) ==
    /\ IsFiniteSet(Chances(t))
    /\ starts[t] + Cardinality(Chances(t)) <= (MaxRetries + 1) * (1 + losses[t])
    /\ result[t] = "none" => starts[t] = 0

Budget == \A t \in Tasks : BudgetOf(t)

\* A chance is one of a message in the queue, or one of a child at work.
InSlots(t, c) ==
    \/ \E r \in Retries : \E k \in 1..queue[t][r] : c \in Slot(<<"queue", r, k>>, r)
    \/ \E w \in Workers : Works(w, t) /\ c \in Slot(<<"child", w>>, job[w].retries + 1)

LEMMA ChancesAreInSlots ==
  ASSUME NEW t \in Tasks, NEW c
  PROVE  (c \in Chances(t) <=> InSlots(t, c)) /\ (c \in Chances(t)' <=> InSlots(t, c)')
  BY DEF Chances, Waiting, Underway, InSlots, Slot

\* A slot that begins at number i holds the numbers from i on.
LEMMA SlotSize ==
  ASSUME NEW x, NEW i \in 0..(MaxRetries + 1)
  PROVE  IsFiniteSet(Slot(x, i)) /\ Cardinality(Slot(x, i)) = MaxRetries + 1 - i
  <1>1. i \in Int /\ MaxRetries \in Int /\ MaxRetries + 1 - i \in Nat
    BY AgentTaskAssumption
  <1>2. IsFiniteSet(i..MaxRetries) /\ Cardinality(i..MaxRetries) = MaxRetries + 1 - i
    BY <1>1, FS_Interval
  <1>3. IsFiniteSet({x}) /\ Cardinality({x}) = 1
    BY FS_Singleton
  <1>4. /\ IsFiniteSet({x} \X (i..MaxRetries))
        /\ Cardinality({x} \X (i..MaxRetries)) = Cardinality({x}) * Cardinality(i..MaxRetries)
    BY <1>2, <1>3, FS_Product
  <1> QED BY <1>1, <1>2, <1>3, <1>4 DEF Slot

\* Exchanging some elements of a finite set for others.
LEMMA Exchange ==
  ASSUME NEW S, IsFiniteSet(S), NEW A \in SUBSET S, NEW B, IsFiniteSet(B),
         NEW T \in SUBSET ((S \ A) \cup B)
  PROVE  /\ IsFiniteSet(T) /\ Cardinality(T) \in Nat
         /\ Cardinality(T) <= Cardinality(S) - Cardinality(A) + Cardinality(B)
  <1>1. IsFiniteSet(A) /\ S \cap A = A
    BY FS_Subset
  <1>2. IsFiniteSet(S \ A) /\ Cardinality(S \ A) = Cardinality(S) - Cardinality(A)
    BY <1>1, FS_Difference
  <1>3. IsFiniteSet((S \ A) \cap B)
    BY <1>2, FS_Intersection
  <1>4. /\ IsFiniteSet((S \ A) \cup B)
        /\ Cardinality((S \ A) \cup B)
             = Cardinality(S \ A) + Cardinality(B) - Cardinality((S \ A) \cap B)
    BY <1>2, FS_Union
  <1>5. IsFiniteSet(T) /\ Cardinality(T) <= Cardinality((S \ A) \cup B)
    BY <1>4, FS_Subset
  <1>6. /\ Cardinality(T) \in Nat /\ Cardinality(S) \in Nat /\ Cardinality(A) \in Nat
        /\ Cardinality(B) \in Nat /\ Cardinality((S \ A) \cap B) \in Nat
    BY <1>1, <1>3, <1>5, FS_CardinalityType
  <1> QED BY <1>2, <1>4, <1>5, <1>6

LEMMA Rounds ==
  ASSUME NEW l \in Nat
  PROVE  /\ (MaxRetries + 1) * (1 + (l + 1)) = (MaxRetries + 1) * (1 + l) + (MaxRetries + 1)
         /\ MaxRetries + 1 <= (MaxRetries + 1) * (1 + l)
         /\ (MaxRetries + 1) * (1 + l) \in Nat
  BY AgentTaskAssumption

\* Chances that go by keep the budget.
LEMMA FewerChances ==
  ASSUME TypeOK, NEW t \in Tasks, BudgetOf(t), Chances(t)' \subseteq Chances(t),
         starts'[t] = starts[t], losses'[t] = losses[t],
         result'[t] = "none" => result[t] = "none"
  PROVE  BudgetOf(t)'
  <1>1. /\ IsFiniteSet(Chances(t)')
        /\ Cardinality(Chances(t)') <= Cardinality(Chances(t))
    BY FS_Subset DEF BudgetOf
  <1>2. Cardinality(Chances(t)) \in Nat /\ Cardinality(Chances(t)') \in Nat
    BY <1>1, FS_CardinalityType DEF BudgetOf
  <1>3. starts[t] \in Nat /\ losses[t] \in Nat /\ (MaxRetries + 1) * (1 + losses[t]) \in Nat
    BY Rounds DEF TypeOK
  <1> QED BY <1>1, <1>2, <1>3 DEF BudgetOf

\* An exchange of slots keeps the budget if it makes up for what was started
\* and lost.
LEMMA SlotsExchanged ==
  ASSUME TypeOK, NEW t \in Tasks, BudgetOf(t),
         NEW A \in SUBSET Chances(t), IsFiniteSet(A), NEW B, IsFiniteSet(B),
         Chances(t)' \subseteq (Chances(t) \ A) \cup B,
         NEW s \in Nat, NEW l \in {0, 1},
         starts'[t] = starts[t] + s, losses'[t] = losses[t] + l,
         s + Cardinality(B) <= Cardinality(A) + l * (MaxRetries + 1),
         result'[t] # "none"
  PROVE  BudgetOf(t)'
  <1>1. /\ IsFiniteSet(Chances(t)')
        /\ Cardinality(Chances(t)')
             <= Cardinality(Chances(t)) - Cardinality(A) + Cardinality(B)
    BY Exchange DEF BudgetOf
  <1>2. /\ Cardinality(Chances(t)) \in Nat /\ Cardinality(Chances(t)') \in Nat
        /\ Cardinality(A) \in Nat /\ Cardinality(B) \in Nat
    BY <1>1, FS_CardinalityType DEF BudgetOf
  <1>3. starts[t] \in Nat /\ losses[t] \in Nat /\ MaxRetries \in Nat
    BY AgentTaskAssumption DEF TypeOK
  <1>4. (MaxRetries + 1) * (1 + losses'[t])
          = (MaxRetries + 1) * (1 + losses[t]) + l * (MaxRetries + 1)
    BY <1>3, Rounds
  <1>5. (MaxRetries + 1) * (1 + losses[t]) \in Nat /\ l * (MaxRetries + 1) \in Nat
    BY <1>3, Rounds
  <1>6. starts'[t] + Cardinality(Chances(t)') <= (MaxRetries + 1) * (1 + losses'[t])
    <2> DEFINE R == (MaxRetries + 1) * (1 + losses[t])
               E == l * (MaxRetries + 1)
    <2>1. starts[t] + Cardinality(Chances(t)) <= R
      BY DEF BudgetOf
    <2>2. R \in Nat /\ E \in Nat /\ s + Cardinality(B) <= Cardinality(A) + E
      BY <1>5
    <2> HIDE DEF R, E
    <2>3. starts[t] + s + Cardinality(Chances(t)') <= R + E
      BY <2>1, <2>2, <1>1, <1>2, <1>3
    <2> QED BY <2>3, <1>4 DEF R, E
  <1> QED BY <1>1, <1>6 DEF BudgetOf

\* Slots share no chance, and a child's slot is no message's.
LEMMA SlotsApart ==
  ASSUME NEW x, NEW y, NEW i, NEW j, NEW c \in Slot(x, i), c \in Slot(y, j)
  PROVE  x = y
  BY DEF Slot

LEMMA SlotNames ==
  /\ \A w, r, k : <<"child", w>> # <<"queue", r, k>>
  /\ \A v, w : <<"child", v>> = <<"child", w>> => v = w
  /\ \A r, k, q, l : <<"queue", r, k>> = <<"queue", q, l>> => r = q /\ k = l
  OBVIOUS

\* No new message, and no child new to the task: no new chance.
LEMMA KeptSlots ==
  ASSUME TypeOK, TypeOK', NEW t \in Tasks,
         \A r \in Retries : queue'[t][r] <= queue[t][r],
         \A v \in Workers : Works(v, t)' => Works(v, t) /\ job'[v].retries = job[v].retries
  PROVE  Chances(t)' \subseteq Chances(t)
  <1> SUFFICES ASSUME NEW c, InSlots(t, c)' PROVE InSlots(t, c)
    BY ChancesAreInSlots
  <1>1. \A r \in Retries : 1..queue'[t][r] \subseteq 1..queue[t][r]
    BY DEF TypeOK
  <1> QED BY <1>1 DEF InSlots

LEMMA MovedBudget ==
  ASSUME Inv, Budget, NEW w \in Workers, Good(w) PROVE Budget'
  <1> PICK tw \in Tasks, r \in Retries : job[w].task = tw /\ job[w].retries = r
    BY BusyHolds DEF Inv, Good, Moved, Busy, Steps, Awaiting, Job
  <1>0. /\ TypeOK /\ TypeOK' /\ Moved(w) /\ Works(w, tw) /\ Holds(w, tw)
        /\ \A v \in Workers, t \in Tasks : Works(v, t)' => Works(v, t)
    BY BusyHolds, NoJobIsNone DEF Inv, Good, Moved, OthersKeep, Busy, Steps, Awaiting, Job,
       Works, Holds, TypeOK
  <1>1. /\ \A v \in Workers : job'[v].retries = job[v].retries
        /\ starts' = starts /\ losses' = losses
        /\ \A t \in Tasks : result'[t] = "none" => result[t] = "none"
    BY <1>0 DEF Moved, OthersKeep
  <1>2. ASSUME NEW t \in Tasks, queue'[t] = queue[t] PROVE BudgetOf(t)'
    <2>1. \A q \in Retries : queue'[t][q] <= queue[t][q]
      BY <1>0, <1>2 DEF TypeOK
    <2>2. Chances(t)' \subseteq Chances(t)
      BY <1>0, <1>1, <2>1, KeptSlots
    <2> QED BY <1>0, <1>1, <2>2, FewerChances DEF Budget
  <1>3. CASE queue' = queue
    BY <1>2, <1>3 DEF Budget
  <1>4. CASE pc[w] = "raise" /\ pc'[w] = "ack" /\ r < MaxRetries /\ Publish(tw, r + 1, 1)
    <2> PICK n : n = queue[tw][r + 1]
      OBVIOUS
    <2> DEFINE A == Slot(<<"child", w>>, r + 1)
               B == Slot(<<"queue", r + 1, n + 1>>, r + 1)
    <2>1. /\ r + 1 \in Retries /\ r + 1 \in 0..(MaxRetries + 1) /\ n \in Nat
          /\ queue'[tw][r + 1] = n + 1
          /\ \A q \in Retries \ {r + 1} : queue'[tw][q] = queue[tw][q]
          /\ \A t \in Tasks \ {tw} : queue'[t] = queue[t]
      BY <1>0, <1>4, AgentTaskAssumption DEF Publish, TypeOK, Retries
    <2>2. /\ IsFiniteSet(A) /\ IsFiniteSet(B) /\ Cardinality(A) = Cardinality(B)
          /\ Cardinality(B) \in Nat
      BY <2>1, SlotSize, FS_CardinalityType
    <2>3. A \subseteq Chances(tw)
      BY <1>0, ChancesAreInSlots DEF InSlots
    <2>4. ~Works(w, tw)'
      BY <1>4 DEF Works
    <2>5. ASSUME NEW c, InSlots(tw, c)' PROVE c \in B \/ (InSlots(tw, c) /\ c \notin A)
      <3>1. ASSUME NEW q \in Retries, NEW k \in 1..queue'[tw][q], c \in Slot(<<"queue", q, k>>, q),
                   c \notin B
            PROVE  InSlots(tw, c) /\ c \notin A
        <4>1. queue[tw][q] \in Nat
          BY <1>0 DEF TypeOK
        <4>2. k \in 1..queue[tw][q]
          BY <2>1, <3>1, <4>1
        <4>3. c \notin A
          BY <3>1, SlotsApart, SlotNames
        <4> QED BY <3>1, <4>2, <4>3 DEF InSlots
      <3>2. ASSUME NEW v \in Workers, Works(v, tw)', c \in Slot(<<"child", v>>, job'[v].retries + 1)
            PROVE  InSlots(tw, c) /\ c \notin A
        <4>1. v # w
          BY <2>4, <3>2
        <4>2. c \notin A
          BY <3>2, <4>1, SlotsApart, SlotNames
        <4> QED BY <1>0, <1>1, <3>2, <4>2 DEF InSlots
      <3> QED BY <2>5, <3>1, <3>2 DEF InSlots
    <2>6. Chances(tw)' \subseteq (Chances(tw) \ A) \cup B
      BY <2>5, ChancesAreInSlots
    <2>7. result'[tw] # "none"
      BY <1>0, <1>1 DEF Inv, Untriggered
    <2>8. starts'[tw] = starts[tw] + 0 /\ losses'[tw] = losses[tw] + 0
      BY <1>0, <1>1 DEF TypeOK
    <2>9. 0 + Cardinality(B) <= Cardinality(A) + 0 * (MaxRetries + 1)
      BY <2>2, AgentTaskAssumption
    <2> HIDE DEF A, B
    <2>10. BudgetOf(tw)'
      BY <1>0, <2>2, <2>3, <2>6, <2>7, <2>8, <2>9, SlotsExchanged DEF Budget
    <2> QED BY <1>2, <2>1, <2>10 DEF Budget
  <1> QED BY <1>0, <1>3, <1>4 DEF Moved

LEMMA EndedBudget ==
  ASSUME Inv, Budget, NEW w \in Workers, TypeOK', Ended(w) PROVE Budget'
  <1> PICK tw \in Tasks, r \in Retries : job[w].task = tw /\ job[w].retries = r
    BY BusyHolds DEF Inv, Ended, Job
  <1>0. /\ TypeOK /\ Holds(w, tw)
        /\ \A v \in Workers, t \in Tasks :
               Works(v, t)' => Works(v, t) /\ job'[v].retries = job[v].retries
    BY BusyHolds DEF Inv, Ended, OthersKeep, Job, Works, Holds
  <1>1. starts' = starts /\ \A t \in Tasks : result'[t] = "none" => result[t] = "none"
    BY DEF Ended
  <1>2. ASSUME NEW t \in Tasks, queue'[t] = queue[t], losses'[t] = losses[t] PROVE BudgetOf(t)'
    <2>1. \A q \in Retries : queue'[t][q] <= queue[t][q]
      BY <1>0, <1>2 DEF TypeOK
    <2>2. Chances(t)' \subseteq Chances(t)
      BY <1>0, <1>1, <2>1, KeptSlots
    <2> QED BY <1>0, <1>1, <1>2, <2>2, FewerChances DEF Budget
  <1>3. CASE UNCHANGED <<queue, losses>>
    BY <1>2, <1>3 DEF Budget
  <1>4. CASE Publish(tw, r, 1) /\ losses' = [losses EXCEPT ![tw] = @ + 1]
    <2> PICK n : n = queue[tw][r]
      OBVIOUS
    <2> DEFINE B == Slot(<<"queue", r, n + 1>>, r)
    <2>1. /\ r \in 0..(MaxRetries + 1) /\ n \in Nat /\ queue'[tw][r] = n + 1
          /\ \A q \in Retries \ {r} : queue'[tw][q] = queue[tw][q]
          /\ \A t \in Tasks \ {tw} : queue'[t] = queue[t] /\ losses'[t] = losses[t]
          /\ losses'[tw] = losses[tw] + 1
      BY <1>0, <1>4, AgentTaskAssumption DEF Publish, TypeOK, Retries
    <2>2. IsFiniteSet(B) /\ Cardinality(B) = MaxRetries + 1 - r
      BY <2>1, SlotSize
    <2>3. ASSUME NEW c, InSlots(tw, c)' PROVE c \in B \/ InSlots(tw, c)
      <3>1. ASSUME NEW q \in Retries, NEW k \in 1..queue'[tw][q], c \in Slot(<<"queue", q, k>>, q),
                   c \notin B
            PROVE  InSlots(tw, c)
        <4>1. queue[tw][q] \in Nat
          BY <1>0 DEF TypeOK
        <4>2. k \in 1..queue[tw][q]
          BY <2>1, <3>1, <4>1
        <4> QED BY <3>1, <4>2 DEF InSlots
      <3> QED BY <1>0, <2>3, <3>1 DEF InSlots
    <2>4. Chances(tw)' \subseteq (Chances(tw) \ {}) \cup B
      BY <2>3, ChancesAreInSlots
    <2>5. result'[tw] # "none"
      BY <1>0, <1>1 DEF Inv, Untriggered
    <2>6. starts'[tw] = starts[tw] + 0
      BY <1>0, <1>1 DEF TypeOK
    <2>7. 0 + Cardinality(B) <= Cardinality({}) + 1 * (MaxRetries + 1)
      BY <2>1, <2>2, FS_EmptySet, AgentTaskAssumption
    <2> HIDE DEF B
    <2>8. BudgetOf(tw)'
      BY <1>0, <2>1, <2>2, <2>4, <2>5, <2>6, <2>7, FS_EmptySet, SlotsExchanged DEF Budget
    <2> QED BY <1>2, <2>1, <2>8 DEF Budget
  <1> QED BY <1>3, <1>4 DEF Ended

LEMMA StartBudget ==
  ASSUME Inv, Budget, NEW w \in Workers, Start(w) PROVE Budget'
  <1>0. TypeOK /\ TypeOK'
    BY StartTypes DEF Inv
  <1>1. PICK t \in Tasks, r \in Retries :
          /\ queue[t][r] > 0 /\ queue'[t][r] = queue[t][r] - 1
          /\ \A q \in Retries \ {r} : queue'[t][q] = queue[t][q]
          /\ \A u \in Tasks \ {t} : queue'[u] = queue[u] /\ starts'[u] = starts[u]
                                    /\ result'[u] = result[u]
          /\ starts'[t] = starts[t] + 1 /\ result'[t] = "started"
          /\ job'[w].task = t /\ job'[w].retries = r
          /\ \A v \in Workers \ {w} : job'[v] = job[v] /\ pc'[v] = pc[v]
          /\ losses' = losses
    BY <1>0, StartFacts
  <1>2. /\ \A v \in Workers, u \in Tasks : (v # w \/ u # t) /\ Works(v, u)' =>
               Works(v, u) /\ job'[v].retries = job[v].retries
    BY <1>1 DEF Works, Holds
  <1>3. ASSUME NEW u \in Tasks \ {t} PROVE BudgetOf(u)'
    <2>1. \A q \in Retries : queue'[u][q] <= queue[u][q]
      BY <1>0, <1>1 DEF TypeOK
    <2>2. Chances(u)' \subseteq Chances(u)
      BY <1>0, <1>2, <2>1, KeptSlots
    <2> QED BY <1>0, <1>1, <2>2, FewerChances DEF Budget
  <1> PICK n : n = queue[t][r]
    OBVIOUS
  <1> DEFINE A == Slot(<<"queue", r, n>>, r)
             B == Slot(<<"child", w>>, r + 1)
  <1>4. r \in 0..(MaxRetries + 1) /\ r + 1 \in 0..(MaxRetries + 1) /\ n \in Nat /\ n \in 1..n
    BY <1>0, <1>1, AgentTaskAssumption DEF TypeOK, Retries
  <1>5. /\ IsFiniteSet(A) /\ Cardinality(A) = MaxRetries + 1 - r
        /\ IsFiniteSet(B) /\ Cardinality(B) = MaxRetries + 1 - (r + 1)
    BY <1>4, SlotSize
  <1>6. A \subseteq Chances(t)
    BY <1>4, ChancesAreInSlots DEF InSlots
  <1>7. ASSUME NEW c, InSlots(t, c)' PROVE c \in B \/ (InSlots(t, c) /\ c \notin A)
    <2>1. ASSUME NEW q \in Retries, NEW k \in 1..queue'[t][q], c \in Slot(<<"queue", q, k>>, q)
          PROVE  InSlots(t, c) /\ c \notin A
      <3>1. queue[t][q] \in Nat /\ k \in 1..queue[t][q] /\ (q # r \/ k # n)
        BY <1>0, <1>1, <1>4, <2>1 DEF TypeOK
      <3>2. c \notin A
        BY <2>1, <3>1, SlotsApart, SlotNames
      <3> QED BY <2>1, <3>1, <3>2 DEF InSlots
    <2>2. ASSUME NEW v \in Workers, Works(v, t)', c \in Slot(<<"child", v>>, job'[v].retries + 1),
                 c \notin B
          PROVE  InSlots(t, c) /\ c \notin A
      <3>1. v # w
        BY <1>1, <2>2
      <3>2. c \notin A
        BY <2>2, SlotsApart, SlotNames
      <3> QED BY <1>2, <2>2, <3>1, <3>2 DEF InSlots
    <2> QED BY <1>7, <2>1, <2>2 DEF InSlots
  <1>8. Chances(t)' \subseteq (Chances(t) \ A) \cup B
    BY <1>7, ChancesAreInSlots
  <1>9. /\ losses'[t] = losses[t] + 0 /\ result'[t] # "none"
        /\ 1 + Cardinality(B) <= Cardinality(A) + 0 * (MaxRetries + 1)
    BY <1>0, <1>1, <1>4, <1>5, AgentTaskAssumption DEF TypeOK
  <1> HIDE DEF A, B
  <1>10. BudgetOf(t)'
    BY <1>0, <1>1, <1>5, <1>6, <1>8, <1>9, SlotsExchanged DEF Budget
  <1> QED BY <1>3, <1>10 DEF Budget

LEMMA TriggerBudget ==
  ASSUME Inv, Budget, NEW t \in Tasks, Trigger(t) PROVE Budget'
  <1>0. /\ TypeOK /\ TypeOK' /\ 0 \in Retries /\ 0 \in 0..(MaxRetries + 1)
        /\ result[t] = "none" /\ MaxRetries \in Nat
        /\ UNCHANGED <<pc, job, starts, losses>>
    <2>1. TypeOK /\ TypeOK'
      BY TriggerStep DEF Inv
    <2>2. 0 \in Retries /\ 0 \in 0..(MaxRetries + 1) /\ MaxRetries \in Nat
      BY AgentTaskAssumption DEF Retries
    <2> QED BY <2>1, <2>2 DEF Trigger, childVars, historyVars
  <1>1. /\ \A u \in Tasks \ {t} : queue'[u] = queue[u] /\ result'[u] = result[u]
        /\ \A r \in Retries : queue'[t][r] = IF r = 0 THEN 1 ELSE 0
        /\ result'[t] # "none"
    BY <1>0 DEF Trigger, TypeOK, Inv, Untriggered
  <1>2. \A v \in Workers, u \in Tasks :
           Works(v, u)' => Works(v, u) /\ job'[v].retries = job[v].retries
    BY <1>0 DEF Works, Holds
  <1>3. ASSUME NEW u \in Tasks \ {t} PROVE BudgetOf(u)'
    <2>1. \A q \in Retries : queue'[u][q] <= queue[u][q]
      BY <1>0, <1>1 DEF TypeOK
    <2>2. Chances(u)' \subseteq Chances(u)
      BY <1>0, <1>2, <2>1, KeptSlots
    <2> QED BY <1>0, <1>1, <2>2, FewerChances DEF Budget
  <1> DEFINE B == Slot(<<"queue", 0, 1>>, 0)
  <1>4. IsFiniteSet(B) /\ Cardinality(B) = MaxRetries + 1
    BY <1>0, SlotSize
  <1>5. ASSUME NEW c, InSlots(t, c)' PROVE c \in B
    <2>1. \A v \in Workers : ~Works(v, t)'
      BY <1>0, <1>2 DEF Inv, Untriggered, Works
    <2>2. \A r \in Retries : \A k \in 1..queue'[t][r] : r = 0 /\ k = 1
      BY <1>1
    <2> QED BY <1>5, <2>1, <2>2 DEF InSlots
  <1>6. Chances(t)' \subseteq B
    BY <1>5, ChancesAreInSlots
  <1> HIDE DEF B
  <1>7. /\ IsFiniteSet(Chances(t)') /\ Cardinality(Chances(t)') <= MaxRetries + 1
        /\ Cardinality(Chances(t)') \in Nat
    BY <1>4, <1>6, FS_Subset, FS_CardinalityType
  <1>8. starts'[t] = 0 /\ losses'[t] \in Nat
    BY <1>0 DEF Budget, BudgetOf, TypeOK
  <1>9. BudgetOf(t)'
    BY <1>0, <1>1, <1>7, <1>8, Rounds DEF BudgetOf
  <1> QED BY <1>3, <1>9 DEF Budget

LEMMA InitBudget == Init => Budget
  <1> SUFFICES ASSUME Init, NEW t \in Tasks PROVE BudgetOf(t)
    BY DEF Budget
  <1>1. starts[t] = 0 /\ losses[t] = 0 /\ MaxRetries \in Nat
    BY AgentTaskAssumption DEF Init
  <1>2. \A c : ~InSlots(t, c)
    BY DEF Init, InSlots, Works, Holds
  <1>3. Chances(t) = {}
    BY <1>2, ChancesAreInSlots
  <1> QED BY <1>1, <1>3, FS_EmptySet DEF BudgetOf

LEMMA NextBudget == ASSUME Inv, Budget, [Next]_vars PROVE Budget'
  <1>1. CASE UNCHANGED <<queue, result, pc, job, starts, losses>>
    <2>1. TypeOK /\ TypeOK'
      BY NextInv DEF Inv
    <2>2. \A t \in Tasks : Chances(t)' = Chances(t)
      BY <1>1 DEF Chances, Waiting, Underway, Works, Holds
    <2> QED BY <1>1, <2>1, <2>2, FewerChances DEF Budget
  <1>2. CASE UpdateAgent
    BY <1>1, <1>2 DEF UpdateAgent, childVars, historyVars
  <1>3. CASE \E t \in Tasks : Trigger(t)
    BY <1>3, TriggerBudget
  <1>4. ASSUME NEW w \in Workers,
               \/ Work(w) \/ SaveRaises(w) \/ SaveFailedRaises(w) \/ LoseWorker(w)
               \/ SoftLimitWaiting(w) \/ SoftLimitRunning(w) \/ SoftLimitSaving(w)
               \/ HardLimit(w)
        PROVE  Budget'
    BY <1>4, ChildKinds, StartBudget, MovedBudget, EndedBudget
  <1>5. CASE UNCHANGED vars
    BY <1>1, <1>5 DEF vars, childVars, historyVars
  <1> QED BY <1>2, <1>3, <1>4, <1>5 DEF Next

-----------------------------------------------------------------------------
(* Giving up.  A retry number is earned by as many attempts, and a child   *)
(* that may be killed has met a time limit.                                *)

Earned ==
    /\ \A t \in Tasks, r \in Retries : queue[t][r] > 0 => starts[t] >= r
    /\ \A w \in Workers : Busy(w) => starts[job[w].task] > job[w].retries

LimitsKnown == \A w \in Workers : Busy(w) /\ job[w].limited => AttemptOf(w) \in cut

\* A task is reported as failed only when its retries are used up, or when one
\* of its attempts has met a time limit.
GivenUpLate ==
    \A t \in Tasks : result[t] = "failure" =>
        starts[t] > MaxRetries \/ \E a \in cut : a.task = t

ChildActs(w) ==
    \/ Work(w) \/ SaveRaises(w) \/ SaveFailedRaises(w) \/ LoseWorker(w)
    \/ SoftLimitWaiting(w) \/ SoftLimitRunning(w) \/ SoftLimitSaving(w)
    \/ HardLimit(w)

LEMMA EarnedStep ==
  ASSUME Inv, Earned, NEW w \in Workers, ChildActs(w) PROVE Earned'
  <1>0. TypeOK /\ TypeOK'
    BY ChildStep DEF Inv, ChildActs
  <1>1. CASE Start(w)
    <2>1. PICK t \in Tasks, r \in Retries :
            /\ queue[t][r] > 0 /\ queue'[t][r] = queue[t][r] - 1
            /\ \A q \in Retries \ {r} : queue'[t][q] = queue[t][q]
            /\ \A u \in Tasks \ {t} : queue'[u] = queue[u] /\ starts'[u] = starts[u]
            /\ starts'[t] = starts[t] + 1
            /\ job'[w].task = t /\ job'[w].retries = r
            /\ \A v \in Workers \ {w} : job'[v] = job[v] /\ pc'[v] = pc[v]
      BY <1>0, <1>1, StartFacts
    <2>2. \A u \in Tasks : starts[u] \in Nat /\ starts'[u] >= starts[u]
      <3>1. \A u \in Tasks : starts[u] \in Nat
        BY <1>0 DEF TypeOK
      <3> QED BY <2>1, <3>1
    <2>3. ASSUME NEW u \in Tasks, NEW q \in Retries, queue'[u][q] > 0 PROVE starts'[u] >= q
      <3>1. queue[u][q] > 0
        <4>1. CASE u = t /\ q = r
          BY <2>1, <4>1
        <4>2. CASE u # t \/ q # r
          BY <2>1, <2>3, <4>2
        <4> QED BY <4>1, <4>2
      <3> QED BY <2>2, <3>1, <1>0 DEF Earned, TypeOK, Retries
    <2>4. ASSUME NEW v \in Workers, Busy(v)' PROVE starts'[job'[v].task] > job'[v].retries
      <3>1. CASE v = w
        <4>1. starts[t] >= r
          BY <2>1 DEF Earned
        <4> QED BY <2>1, <2>2, <3>1, <4>1, AgentTaskAssumption DEF Retries
      <3>2. CASE v # w
        <4>1. Busy(v) /\ job'[v] = job[v]
          BY <2>1, <2>4, <3>2 DEF Busy
        <4>2. job[v] \in Job /\ starts[job[v].task] > job[v].retries
          BY <1>0, <4>1, BusyHolds DEF Earned
        <4> QED BY <2>2, <4>1, <4>2, <1>0, AgentTaskAssumption DEF Job, Retries, TypeOK
      <3> QED BY <3>1, <3>2
    <2> QED BY <2>3, <2>4 DEF Earned
  <1>2. CASE Good(w)
    <2>1. Moved(w) /\ Busy(w) /\ job[w] \in Job /\ starts' = starts
      BY <1>0, <1>2, BusyHolds DEF Good, Moved, Busy, Steps, Awaiting
    <2>2. \A v \in Workers : Busy(v)' => Busy(v) /\ job'[v].task = job[v].task
                                        /\ job'[v].retries = job[v].retries
      BY <2>1 DEF Moved, OthersKeep, Busy
    <2>3. starts[job[w].task] > job[w].retries
      BY <2>1 DEF Earned
    <2>4. ASSUME NEW t \in Tasks, NEW q \in Retries, queue'[t][q] > 0 PROVE starts[t] >= q
      <3>1. CASE queue' = queue
        BY <2>4, <3>1 DEF Earned
      <3>2. CASE Publish(job[w].task, job[w].retries + 1, 1)
        <4>1. queue[t][q] > 0 \/ (t = job[w].task /\ q = job[w].retries + 1)
          BY <1>0, <2>4, <3>2 DEF Publish, TypeOK
        <4> QED BY <1>0, <2>1, <2>3, <4>1, AgentTaskAssumption DEF Earned, Job, Retries, TypeOK
      <3> QED BY <2>1, <3>1, <3>2 DEF Moved
    <2> QED BY <2>1, <2>2, <2>4 DEF Earned
  <1>3. CASE TypeOK' /\ Ended(w)
    <2>1. Ended(w) /\ Busy(w) /\ job[w] \in Job /\ starts' = starts
      BY <1>0, <1>3, BusyHolds DEF Ended
    <2>2. \A v \in Workers : Busy(v)' => Busy(v) /\ job'[v] = job[v]
      BY <2>1 DEF Ended, OthersKeep, Busy
    <2>3. starts[job[w].task] > job[w].retries
      BY <2>1 DEF Earned
    <2>4. ASSUME NEW t \in Tasks, NEW q \in Retries, queue'[t][q] > 0 PROVE starts[t] >= q
      <3>1. CASE queue' = queue
        BY <2>4, <3>1 DEF Earned
      <3>2. CASE Publish(job[w].task, job[w].retries, 1)
        <4>1. queue[t][q] > 0 \/ (t = job[w].task /\ q = job[w].retries)
          BY <1>0, <2>4, <3>2 DEF Publish, TypeOK
        <4> QED BY <1>0, <2>1, <2>3, <4>1, AgentTaskAssumption DEF Earned, Job, Retries, TypeOK
      <3> QED BY <2>1, <3>1, <3>2 DEF Ended
    <2> QED BY <2>1, <2>2, <2>4 DEF Earned
  <1> QED BY <1>1, <1>2, <1>3, ChildKinds DEF ChildActs

\* A job that is marked as limited was so before, or the limit strikes now.
LEMMA LimitsStep ==
  ASSUME Inv, LimitsKnown, NEW w \in Workers, ChildActs(w) PROVE LimitsKnown'
  <1>0. TypeOK /\ TypeOK' /\ cut \subseteq cut'
    <2>1. TypeOK /\ TypeOK'
      BY ChildStep DEF Inv, ChildActs
    <2> QED BY <2>1, ChildKinds DEF ChildActs, Good, Moved, Ended, Start
  <1>1. ASSUME NEW v \in Workers \ {w}, Busy(v)', job'[v].limited PROVE AttemptOf(v) \in cut'
    <2>1. Busy(v) /\ job'[v] = job[v]
      BY <1>0, <1>1, ChildKinds, StartFacts
         DEF ChildActs, Good, Moved, Ended, OthersKeep, Busy
    <2> QED BY <1>0, <1>1, <2>1 DEF LimitsKnown
  <1>2. ASSUME NEW v \in Workers \ {w} PROVE AttemptOf(v)' = AttemptOf(v)
    <2>1. CASE Start(w)
      BY <1>0, <2>1, StartFacts
    <2>2. CASE Good(w) \/ Ended(w)
      BY <2>2 DEF Good, Moved, Ended, OthersKeep, AttemptOf
    <2> QED BY <2>1, <2>2, ChildKinds DEF ChildActs
  <1>3. ASSUME Busy(w)', job'[w].limited PROVE AttemptOf(w)' \in cut'
    <2>1. CASE Start(w)
      BY <1>0, <1>3, <2>1 DEF Start, TypeOK
    <2>2. CASE Good(w)
      <3>1. Busy(w) /\ job[w] \in Job /\ AttemptOf(w)' = AttemptOf(w)
        BY <1>0, <2>2, BusyHolds DEF Good, Moved, Busy, Steps, Awaiting, AttemptOf
      <3>2. CASE job[w].limited
        BY <1>0, <3>1, <3>2 DEF LimitsKnown
      <3>3. CASE cut' = cut \cup {AttemptOf(w)}
        BY <3>1, <3>3
      <3>4. CASE job'[w].limited = job[w].limited
        BY <1>3, <3>2, <3>4
      <3>5. CASE \/ SoftLimitWaiting(w) \/ SoftLimitRunning(w) \/ SoftLimitSaving(w)
        BY <3>3, <3>5 DEF SoftLimitWaiting, SoftLimitRunning, SoftLimitSaving, Cut
      <3>6. CASE \E step \in Steps : Goto(w, step)
        BY <3>4, <3>6 DEF Goto
      <3>7. CASE \E e \in Endings : EndWith(w, e)
        BY <1>0, <3>1, <3>4, <3>7 DEF EndWith, TypeOK, Job
      <3>8. CASE Ack(w) \/ LoseWorker(w) \/ HardLimit(w)
        BY <1>0, <1>3, <3>8 DEF Ack, LoseWorker, HardLimit, EndChild, TypeOK, Busy
      <3> QED BY <2>1, <3>5, <3>6, <3>7, <3>8
              DEF ChildActs, Work, LoadAgent, CheckAgent, GetBridge, OpenSessions, InvokeAgent,
                  Cleanup, Save, SaveFailed, Raise, Return, SaveRaises, SaveFailedRaises,
                  Steps, Awaiting, Endings
    <2>3. CASE Ended(w)
      BY <1>3, <2>3 DEF Ended, Busy
    <2> QED BY <2>1, <2>2, <2>3, ChildKinds DEF ChildActs
  <1> QED BY <1>1, <1>2, <1>3 DEF LimitsKnown

\* A task fails in two ways: its last retry raises, or its child is killed.
LEMMA FailureStep ==
  ASSUME Inv, NEW w \in Workers, ChildActs(w), NEW t \in Tasks,
         result'[t] = "failure", result[t] # "failure"
  PROVE  Busy(w) /\ t = job[w].task /\ (job[w].limited \/ job[w].retries >= MaxRetries)
  <1>1. TypeOK
    BY DEF Inv
  <1>2. CASE Start(w)
    BY <1>1, <1>2, StartFacts
  <1>3. CASE Raise(w)
    <2>1. Busy(w) /\ job[w] \in Job
      BY <1>1, <1>3, BusyHolds DEF Raise, Busy
    <2>2. job[w].retries \in Nat /\ MaxRetries \in Nat /\ result \in [Tasks ->
             {"none", "queued", "started", "retry", "success", "failure"}]
      BY <1>1, <2>1, AgentTaskAssumption DEF TypeOK, Job, Retries
    <2>3. CASE job[w].retries < MaxRetries
      BY <1>3, <2>2, <2>3 DEF Raise
    <2>4. CASE ~(job[w].retries < MaxRetries)
      BY <1>3, <2>1, <2>2, <2>4 DEF Raise
    <2> QED BY <2>3, <2>4
  <1>4. CASE Return(w)
    BY <1>1, <1>4 DEF Return, TypeOK
  <1>5. CASE HardLimit(w)
    BY <1>1, <1>5 DEF HardLimit, TypeOK, Busy
  <1>6. CASE UNCHANGED result
    BY <1>6
  <1> QED BY <1>2, <1>3, <1>4, <1>5, <1>6
          DEF ChildActs, Work, LoadAgent, CheckAgent, GetBridge, OpenSessions, InvokeAgent,
              Cleanup, Save, SaveFailed, Ack, SaveRaises, SaveFailedRaises, LoseWorker,
              SoftLimitWaiting, SoftLimitRunning, SoftLimitSaving, OnlyChild

LEMMA GivenUpStep ==
  ASSUME Inv, Earned, LimitsKnown, GivenUpLate, NEW w \in Workers, ChildActs(w)
  PROVE  GivenUpLate'
  <1> SUFFICES ASSUME NEW t \in Tasks, result'[t] = "failure"
               PROVE  starts'[t] > MaxRetries \/ \E a \in cut' : a.task = t
    BY DEF GivenUpLate
  <1>1. /\ TypeOK /\ TypeOK' /\ MaxRetries \in Nat /\ cut \subseteq cut'
        /\ starts[t] \in Nat /\ starts'[t] \in Nat /\ starts'[t] >= starts[t]
    <2>1. TypeOK /\ TypeOK' /\ starts[t] \in Nat /\ starts'[t] \in Nat /\ MaxRetries \in Nat
      BY ChildStep, AgentTaskAssumption DEF Inv, ChildActs, TypeOK
    <2>2. CASE Start(w)
      <3>1. PICK u \in Tasks : starts'[u] = starts[u] + 1
                               /\ \A x \in Tasks \ {u} : starts'[x] = starts[x]
        BY <2>1, <2>2, StartFacts
      <3> QED BY <2>1, <2>2, <3>1 DEF Start, TypeOK
    <2>3. CASE Good(w) \/ Ended(w)
      BY <2>1, <2>3 DEF Good, Moved, Ended
    <2> QED BY <2>1, <2>2, <2>3, ChildKinds DEF ChildActs
  <1>2. CASE result[t] = "failure"
    <2>1. CASE starts[t] > MaxRetries
      BY <1>1, <2>1
    <2>2. CASE \E a \in cut : a.task = t
      BY <1>1, <2>2
    <2> QED BY <1>2, <2>1, <2>2 DEF GivenUpLate
  <1>3. CASE result[t] # "failure"
    <2>1. Busy(w) /\ t = job[w].task /\ (job[w].limited \/ job[w].retries >= MaxRetries)
      BY <1>3, FailureStep
    <2>2. CASE job[w].limited
      BY <1>1, <2>1, <2>2 DEF LimitsKnown, AttemptOf
    <2>3. CASE job[w].retries >= MaxRetries
      <3>1. starts[t] > job[w].retries /\ job[w].retries \in Nat
        BY <1>1, <2>1, BusyHolds DEF Earned, Job, Retries
      <3> QED BY <1>1, <2>3, <3>1
    <2> QED BY <2>1, <2>2, <2>3
  <1> QED BY <1>2, <1>3

GivenUpInv == Earned /\ LimitsKnown /\ GivenUpLate

LEMMA InitGivenUp == Init => GivenUpInv
  BY AgentTaskAssumption DEF Init, GivenUpInv, Earned, LimitsKnown, GivenUpLate, Busy, Retries

LEMMA NextGivenUp == ASSUME Inv, GivenUpInv, [Next]_vars PROVE GivenUpInv'
  <1>0. TypeOK /\ TypeOK'
    BY NextInv DEF Inv
  <1>1. CASE UNCHANGED <<queue, result, pc, job, starts, cut>>
    BY <1>1 DEF GivenUpInv, Earned, LimitsKnown, GivenUpLate, Busy, AttemptOf
  <1>2. CASE UpdateAgent
    BY <1>1, <1>2 DEF UpdateAgent, childVars, historyVars
  <1>3. ASSUME NEW t \in Tasks, Trigger(t) PROVE GivenUpInv'
    <2>1. UNCHANGED <<pc, job, starts, cut>>
      BY <1>3 DEF Trigger, childVars, historyVars
    <2>2. \A u \in Tasks : result'[u] = "failure" => result[u] = "failure"
      BY <1>0, <1>3 DEF Trigger, TypeOK
    <2>3. \A u \in Tasks, q \in Retries : queue'[u][q] > 0 => queue[u][q] > 0 \/ q = 0
      BY <1>0, <1>3 DEF Trigger, TypeOK
    <2> QED BY <1>0, <2>1, <2>2, <2>3
            DEF GivenUpInv, Earned, LimitsKnown, GivenUpLate, Busy, AttemptOf, TypeOK
  <1>4. ASSUME NEW w \in Workers, ChildActs(w) PROVE GivenUpInv'
    BY <1>4, EarnedStep, LimitsStep, GivenUpStep DEF GivenUpInv
  <1>5. CASE UNCHANGED vars
    BY <1>1, <1>5 DEF vars, childVars, historyVars
  <1> QED BY <1>2, <1>3, <1>4, <1>5 DEF Next, ChildActs

-----------------------------------------------------------------------------
(* The rows as a log.  An attempt whose child is not through with it has   *)
(* no ending yet, and no attempt gets an ending before it begins.          *)

OpenEntries ==
    /\ \A w \in Workers : Unfinished(w) => AttemptOf(w) \notin gone
    /\ \A a \in gone : a.id <= starts[a.task]

\* What a child other than one that begins does to the entries: it stores a row
\* while it is busy with its attempt, or it is through with it.
Tells(w) ==
    /\ starts' = starts
    /\ rows' = rows \/ Unfinished(w)
    /\ \/ gone' = gone
       \/ gone' = gone \cup {AttemptOf(w)} /\ rows' = rows /\ ~Unfinished(w)'
    /\ Unfinished(w)' => Unfinished(w)

LEMMA ChildTells ==
  ASSUME TypeOK, TypeOK', NEW w \in Workers, ChildActs(w), ~Start(w)
  PROVE  Tells(w)
  <1>1. pc \in [Workers -> Steps \cup {"idle"}]
    BY DEF TypeOK
  <1>2. CASE LoadAgent(w) \/ CheckAgent(w) \/ GetBridge(w) \/ OpenSessions(w)
             \/ InvokeAgent(w) \/ Cleanup(w)
    BY <1>1, <1>2 DEF LoadAgent, CheckAgent, GetBridge, OpenSessions, InvokeAgent, Cleanup,
       OnlyChild, historyVars, Tells, Unfinished
  <1>3. CASE Save(w) \/ SaveRaises(w) \/ SaveFailed(w) \/ SaveFailedRaises(w)
    BY <1>1, <1>3 DEF Save, SaveRaises, SaveFailed, SaveFailedRaises, historyVars, Tells,
       Unfinished, Goto
  <1>4. CASE Raise(w) \/ Return(w) \/ Ack(w)
    BY <1>1, <1>4 DEF Raise, Return, Ack, historyVars, Tells, Unfinished, Goto
  <1>5. CASE LoseWorker(w) \/ HardLimit(w)
    BY <1>1, <1>5 DEF LoseWorker, HardLimit, EndChild, Tells, Unfinished
  <1>6. CASE SoftLimitWaiting(w)
    BY <1>1, <1>6 DEF SoftLimitWaiting, Tells, Unfinished, Awaiting
  <1>7. CASE SoftLimitRunning(w)
    BY <1>1, <1>7 DEF SoftLimitRunning, Tells, Unfinished
  <1>8. CASE SoftLimitSaving(w)
    BY <1>1, <1>8 DEF SoftLimitSaving, Limited, Tells, Unfinished
  <1> QED BY <1>2, <1>3, <1>4, <1>5, <1>6, <1>7, <1>8 DEF ChildActs, Work

\* A child keeps its attempt from Start to the end, and shares it with no other.
LEMMA SameAttempts ==
  ASSUME Inv, NEW w \in Workers, ChildActs(w), ~Start(w)
  PROVE  /\ Busy(w) /\ AttemptOf(w) \in Attempt
         /\ AttemptOf(w).id \in 1..starts[AttemptOf(w).task]
         /\ Busy(w)' => AttemptOf(w)' = AttemptOf(w)
         /\ \A v \in Workers \ {w} :
               /\ AttemptOf(v)' = AttemptOf(v) /\ Unfinished(v)' = Unfinished(v)
               /\ Unfinished(v) => AttemptOf(v) # AttemptOf(w)
  <1>1. Good(w) \/ Ended(w)
    BY ChildKinds DEF ChildActs
  <1>2. TypeOK /\ Busy(w)
    BY <1>1 DEF Inv, Good, Moved, Ended, Busy, Steps, Awaiting
  <1>3. AttemptOf(w) \in Attempt /\ AttemptOf(w).id \in 1..starts[AttemptOf(w).task]
    BY <1>2, TaskTypes DEF Inv, IdsInOrder, AttemptOf
  <1>4. Busy(w)' => AttemptOf(w)' = AttemptOf(w)
    BY <1>1 DEF Good, Moved, Ended, Busy, AttemptOf
  <1>5. \A v \in Workers \ {w} : AttemptOf(v)' = AttemptOf(v) /\ Unfinished(v)' = Unfinished(v)
    BY <1>1 DEF Good, Moved, Ended, OthersKeep, AttemptOf, Unfinished
  <1>6. \A v \in Workers \ {w} : Unfinished(v) => AttemptOf(v) # AttemptOf(w)
    BY <1>2 DEF Inv, IdsInOrder, Unfinished, Busy
  <1> QED BY <1>2, <1>3, <1>4, <1>5, <1>6

LEMMA InitOpen == Init => OpenEntries
  BY DEF Init, OpenEntries, Unfinished

LEMMA ChildOpen ==
  ASSUME Inv, OpenEntries, NEW w \in Workers, ChildActs(w) PROVE OpenEntries'
  <1>0. TypeOK /\ TypeOK'
    BY ChildStep DEF Inv, ChildActs
  <1>1. CASE Start(w)
    <2>1. PICK t \in Tasks :
            /\ \A u \in Tasks \ {t} : starts'[u] = starts[u]
            /\ starts'[t] = starts[t] + 1
            /\ AttemptOf(w)' = [task |-> t, id |-> starts[t] + 1]
            /\ \A v \in Workers \ {w} : pc'[v] = pc[v] /\ AttemptOf(v)' = AttemptOf(v)
            /\ gone' = gone
      BY <1>0, <1>1, StartFacts
    <2>2. ASSUME NEW a \in gone
          PROVE  a.id <= starts'[a.task] /\ a # [task |-> t, id |-> starts[t] + 1]
      <3>1. /\ a.task \in Tasks /\ a.id \in Nat /\ a.id <= starts[a.task]
            /\ starts[a.task] \in Nat /\ starts[t] \in Nat
        BY <1>0 DEF TypeOK, Attempt, OpenEntries
      <3>2. CASE a.task = t
        BY <2>1, <3>1, <3>2
      <3>3. CASE a.task # t
        BY <2>1, <3>1, <3>3
      <3> QED BY <3>2, <3>3
    <2>3. \A v \in Workers \ {w} : Unfinished(v)' => AttemptOf(v)' \notin gone'
      BY <2>1 DEF OpenEntries, Unfinished
    <2>4. AttemptOf(w)' \notin gone'
      BY <2>1, <2>2
    <2> QED BY <2>1, <2>2, <2>3, <2>4 DEF OpenEntries
  <1>2. CASE ~Start(w)
    <2>1. Tells(w)
      BY <1>0, <1>2, ChildTells
    <2>2. \A v \in Workers \ {w} : Unfinished(v)' => AttemptOf(v)' \notin gone'
      BY <1>2, <2>1, SameAttempts DEF Tells, OpenEntries
    <2>3. Unfinished(w)' => AttemptOf(w)' \notin gone'
      <3>1. Unfinished(w)' => Busy(w)'
        BY DEF Unfinished, Busy
      <3> QED BY <1>2, <2>1, <3>1, SameAttempts DEF Tells, OpenEntries
    <2>4. \A a \in gone' : a.id <= starts'[a.task]
      <3>1. AttemptOf(w).id <= starts[AttemptOf(w).task]
        BY <1>2, <1>0, SameAttempts DEF TypeOK, Attempt
      <3> QED BY <2>1, <3>1 DEF Tells, OpenEntries
    <2> QED BY <2>2, <2>3, <2>4 DEF OpenEntries
  <1> QED BY <1>1, <1>2

LEMMA NextOpen == ASSUME Inv, OpenEntries, [Next]_vars PROVE OpenEntries'
  <1>1. CASE UNCHANGED <<pc, job, gone, starts>>
    BY <1>1 DEF OpenEntries, Unfinished, AttemptOf
  <1>2. CASE UpdateAgent \/ (\E t \in Tasks : Trigger(t)) \/ UNCHANGED vars
    BY <1>1, <1>2 DEF UpdateAgent, Trigger, vars, childVars, historyVars
  <1>3. ASSUME NEW w \in Workers, ChildActs(w) PROVE OpenEntries'
    BY <1>3, ChildOpen
  <1> QED BY <1>2, <1>3 DEF Next, ChildActs

\* An entry is empty as long as there is neither a row nor an end without one.
LEMMA EmptyEntry ==
  ASSUME TypeOK, NEW a \in Attempt
  PROVE  Entry(a) = {} <=> (~Stored(a) /\ a \notin gone)
  <1>1. ASSUME NEW r \in rows, r.attempt = a
        PROVE  \E s \in {"success", "failed"} : [attempt |-> a, status |-> s] \in rows
    <2>1. r = [attempt |-> r.attempt, status |-> r.status] /\ r.status \in {"success", "failed"}
      BY DEF TypeOK, ExecutionRow
    <2> QED BY <1>1, <2>1
  <1>2. Stored(a) <=> \E s \in {"success", "failed"} : [attempt |-> a, status |-> s] \in rows
    BY <1>1 DEF Stored
  <1> QED BY <1>2 DEF Entry

\* Only the child's own entry changes, from nothing to one ending.
LEMMA EntryStep ==
  ASSUME Inv, OpenEntries, NEW w \in Workers, ChildActs(w), ~Start(w),
         NEW b \in Attempt, b = AttemptOf(w)
  PROVE  /\ \A a \in Attempt : a # b => Entry(a)' = Entry(a)
         /\ \/ Entry(b)' = Entry(b)
            \/ /\ Entry(b) = {}
               /\ \E e \in ExecutionLog!Endings : Entry(b)' = {e}
  <1>0. TypeOK /\ TypeOK' /\ Tells(w)
    BY ChildStep, ChildTells DEF Inv, ChildActs
  <1>1. CASE rows' = rows /\ gone' = gone
    BY <1>1 DEF Entry
  <1>2. CASE rows' = rows /\ gone' = gone \cup {b}
    <2>1. \A a \in Attempt : a # b => Entry(a)' = Entry(a)
      BY <1>2 DEF Entry
    <2>2. Entry(b)' = Entry(b) \/ (Entry(b) = {} /\ Entry(b)' = {"lost"})
      BY <1>2 DEF Entry
    <2> QED BY <2>1, <2>2 DEF ExecutionLog!Endings
  <1>3. CASE rows' # rows
    <2>1. /\ gone' = gone /\ Unfinished(w) /\ b \notin gone
      BY <1>0, <1>3 DEF Tells, OpenEntries
    <2>2. Good(w)
      BY <1>3, ChildKinds DEF ChildActs, Ended
    <2>3. /\ ~Stored(b)
          /\ \E s \in {"success", "failed"} :
                rows' = rows \cup {[attempt |-> b, status |-> s]}
      BY <1>3, <2>2 DEF Good, Moved
    <2>4. PICK s \in {"success", "failed"} : rows' = rows \cup {[attempt |-> b, status |-> s]}
      BY <2>3
    <2>5. \A a, q : a # b => ([attempt |-> a, status |-> q] \in rows'
                                <=> [attempt |-> a, status |-> q] \in rows)
      BY <2>4
    <2>6. \A a \in Attempt : a # b => Entry(a)' = Entry(a)
      BY <2>1, <2>5 DEF Entry
    <2>7. \A q : [attempt |-> b, status |-> q] \in rows' <=> q = s
      BY <2>3, <2>4 DEF Stored
    <2>8. Entry(b)' = {s}
      BY <2>1, <2>7 DEF Entry
    <2>9. Entry(b) = {}
      BY <1>0, <2>1, <2>3, EmptyEntry
    <2> QED BY <2>6, <2>8, <2>9 DEF ExecutionLog!Endings
  <1> QED BY <1>0, <1>1, <1>2, <1>3 DEF Tells

\* Nothing is said yet of the number that the next attempt of a task will have.
LEMMA BeginStep ==
  ASSUME Inv, OpenEntries, NEW w \in Workers, Start(w)
  PROVE  \E t \in Tasks : ExecutionLog!Begin(t)
  <1>0. TypeOK
    BY DEF Inv
  <1>1. PICK t \in Tasks :
          /\ \A u \in Tasks \ {t} : starts'[u] = starts[u]
          /\ starts'[t] = starts[t] + 1
          /\ rows' = rows /\ gone' = gone
    BY <1>0, StartFacts
  <1>2. \A a : Entry(a)' = Entry(a)
    BY <1>1 DEF Entry
  <1> DEFINE k == starts[t]
             a == [task |-> t, id |-> k + 1]
  <1>3. k \in Nat /\ a \in Attempt /\ a.task = t /\ a.id = k + 1
    BY <1>0 DEF TypeOK, Attempt
  <1>4. ~Stored(a)
    BY <1>3 DEF Inv, IdsInOrder, Stored
  <1>5. a \notin gone
    BY <1>3 DEF OpenEntries
  <1>6. Entry(a) = {}
    BY <1>0, <1>3, <1>4, <1>5, EmptyEntry
  <1>7. /\ Log' = [u \in Tasks |-> [n \in 1..starts'[u] |-> Entry([task |-> u, id |-> n])]]
        /\ Log = [u \in Tasks |-> [n \in 1..starts[u] |-> Entry([task |-> u, id |-> n])]]
    BY <1>2 DEF Log
  <1>8. Log[t] = [n \in 1..k |-> Entry([task |-> t, id |-> n])]
    BY <1>7
  <1>9. Append(Log[t], {}) = [n \in 1..(k + 1) |-> Entry([task |-> t, id |-> n])]
    <2> DEFINE E(n) == Entry([task |-> t, id |-> n])
    <2>1. E(k + 1) = {}
      BY <1>6
    <2>2. Log[t] = [n \in 1..k |-> E(n)]
      BY <1>8
    <2> HIDE DEF E
    <2>3. Log[t] \in Seq({E(n) : n \in 1..k}) /\ Len(Log[t]) = k
      BY <1>3, <2>2
    <2>4. Append(Log[t], {}) = [n \in 1..(k + 1) |-> IF n \in 1..k THEN E(n) ELSE {}]
      BY <1>3, <2>2, <2>3
    <2>5. [n \in 1..(k + 1) |-> IF n \in 1..k THEN E(n) ELSE {}] = [n \in 1..(k + 1) |-> E(n)]
      BY <1>3, <2>1
    <2> QED BY <2>4, <2>5 DEF E
  <1>10. Log' = [Log EXCEPT ![t] = Append(@, {})]
    <2>1. Log'[t] = Append(Log[t], {})
      BY <1>1, <1>7, <1>9
    <2>2. \A u \in Tasks \ {t} : Log'[u] = Log[u]
      BY <1>1, <1>7
    <2> QED BY <1>7, <2>1, <2>2
  <1> QED BY <1>10 DEF ExecutionLog!Begin

LEMMA EndStep ==
  ASSUME TypeOK, NEW t \in Tasks, NEW n \in 1..starts[t], starts' = starts,
         Entry([task |-> t, id |-> n]) = {},
         NEW e \in ExecutionLog!Endings, Entry([task |-> t, id |-> n])' = {e},
         \A a \in Attempt : a # [task |-> t, id |-> n] => Entry(a)' = Entry(a)
  PROVE  n \in 1..Len(Log[t]) /\ ExecutionLog!End(t, n)
  <1>1. /\ Log' = [u \in Tasks |-> [m \in 1..starts[u] |-> Entry([task |-> u, id |-> m])']]
        /\ Log = [u \in Tasks |-> [m \in 1..starts[u] |-> Entry([task |-> u, id |-> m])]]
        /\ starts[t] \in Nat
    BY DEF Log, TypeOK
  <1>2. Log[t] = [m \in 1..starts[t] |-> Entry([task |-> t, id |-> m])]
    BY <1>1
  <1>3. Len(Log[t]) = starts[t] /\ Log[t][n] = {}
    BY <1>1, <1>2
  <1>4. \A u \in Tasks : \A m \in 1..starts[u] :
           Entry([task |-> u, id |-> m])' =
               IF u = t /\ m = n THEN {e} ELSE Entry([task |-> u, id |-> m])
    <2> SUFFICES ASSUME NEW u \in Tasks, NEW m \in 1..starts[u]
                 PROVE  Entry([task |-> u, id |-> m])' =
                            IF u = t /\ m = n THEN {e} ELSE Entry([task |-> u, id |-> m])
      OBVIOUS
    <2>1. [task |-> u, id |-> m] \in Attempt
      BY DEF Attempt, TypeOK
    <2>2. u = t /\ m = n <=> [task |-> u, id |-> m] = [task |-> t, id |-> n]
      OBVIOUS
    <2> QED BY <2>1, <2>2
  <1>5. Log'[t] = [Log[t] EXCEPT ![n] = {e}]
    BY <1>1, <1>2, <1>4
  <1>6. \A u \in Tasks \ {t} : Log'[u] = Log[u]
    BY <1>1, <1>4
  <1>7. Log' = [Log EXCEPT ![t][n] = {e}]
    BY <1>1, <1>5, <1>6
  <1> QED BY <1>3, <1>7 DEF ExecutionLog!End

LEMMA LogStep == ASSUME Inv, OpenEntries, [Next]_vars PROVE [ExecutionLog!Next]_Log
  <1>1. CASE UNCHANGED <<starts, rows, gone>>
    BY <1>1 DEF Log, Entry
  <1>2. CASE UpdateAgent \/ (\E t \in Tasks : Trigger(t)) \/ UNCHANGED vars
    BY <1>1, <1>2 DEF UpdateAgent, Trigger, vars, childVars, historyVars
  <1>3. ASSUME NEW w \in Workers, ChildActs(w) PROVE [ExecutionLog!Next]_Log
    <2>1. CASE Start(w)
      BY <2>1, BeginStep DEF ExecutionLog!Next
    <2>2. CASE ~Start(w)
      <3>0. TypeOK /\ starts' = starts
        BY <1>3, <2>2, ChildStep, ChildTells DEF Inv, ChildActs, Tells
      <3> PICK t \in Tasks : \E n \in 1..starts[t] : AttemptOf(w) = [task |-> t, id |-> n]
        BY <1>3, <2>2, SameAttempts DEF Attempt
      <3> PICK n \in 1..starts[t] : AttemptOf(w) = [task |-> t, id |-> n]
        OBVIOUS
      <3>1. [task |-> t, id |-> n] \in Attempt
        BY <3>0 DEF Attempt, TypeOK
      <3>2. /\ \A a \in Attempt : a # [task |-> t, id |-> n] => Entry(a)' = Entry(a)
            /\ \/ Entry([task |-> t, id |-> n])' = Entry([task |-> t, id |-> n])
               \/ /\ Entry([task |-> t, id |-> n]) = {}
                  /\ \E e \in ExecutionLog!Endings : Entry([task |-> t, id |-> n])' = {e}
        BY <1>3, <2>2, <3>1, EntryStep
      <3>3. CASE Entry([task |-> t, id |-> n])' = Entry([task |-> t, id |-> n])
        <4>1. \A a \in Attempt : Entry(a)' = Entry(a)
          BY <3>2, <3>3
        <4>2. ASSUME NEW u \in Tasks, NEW m \in 1..starts[u]
              PROVE  Entry([task |-> u, id |-> m])' = Entry([task |-> u, id |-> m])
          <5>1. [task |-> u, id |-> m] \in Attempt
            BY <3>0 DEF Attempt, TypeOK
          <5> QED BY <4>1, <5>1
        <4> QED BY <3>0, <4>2 DEF Log
      <3>4. CASE /\ Entry([task |-> t, id |-> n]) = {}
                 /\ \E e \in ExecutionLog!Endings : Entry([task |-> t, id |-> n])' = {e}
        BY <3>0, <3>2, <3>4, EndStep DEF ExecutionLog!Next
      <3> QED BY <3>2, <3>3, <3>4
    <2> QED BY <2>1, <2>2
  <1> QED BY <1>2, <1>3 DEF Next, ChildActs

-----------------------------------------------------------------------------
(* The theorems.                                                           *)

\* Every variable keeps its type, whatever children, tasks and faults do.
THEOREM TypeCorrect == Spec => []TypeOK
  <1>1. Inv => TypeOK
    BY DEF Inv
  <1> QED BY Invariance, <1>1, PTL

\* execute_agent loses no attempt: each is under way, has its row, or ended
\* with its process or in a row that could not be stored.
THEOREM AttemptsAreAccounted == Spec => []AttemptsAccounted
  <1>1. Inv => AttemptsAccounted
    BY DEF Inv
  <1> QED BY Invariance, <1>1, PTL

\* An execution id has one row: the failed row stored for an exception never
\* contradicts one stored before.
THEOREM VerdictsAgree == Spec => []OneVerdict
  <1>1. Inv => OneVerdict
    BY DEF Inv
  <1> QED BY Invariance, <1>1, PTL

\* The rows of agent_test_executions are a log of the attempts: each begins after
\* the one before, and ends once, for good, whatever is retried, repeated, cut
\* short or lost.
THEOREM RowsAreALog == Spec => ImplementsExecutionLog
  <1>1. Init => ExecutionLog!Init
    <2> SUFFICES ASSUME Init PROVE Log = [t \in Tasks |-> <<>>]
      BY DEF ExecutionLog!Init
    <2>1. \A t \in Tasks : starts[t] = 0
      BY DEF Init
    <2>2. \A t \in Tasks : [n \in 1..starts[t] |-> Entry([task |-> t, id |-> n])] = <<>>
      BY <2>1
    <2> QED BY <2>2 DEF Log
  <1>2. Inv /\ OpenEntries /\ [Next]_vars => OpenEntries' /\ [ExecutionLog!Next]_Log
    BY NextOpen, LogStep
  <1> QED BY InitOpen, <1>1, <1>2, Invariance, PTL
          DEF Spec, ImplementsExecutionLog, ExecutionLog!Spec

\* Only a lost worker makes two attempts of a task run, or wait, at once.
THEOREM AttemptsAreAlone == Spec => []NoParallelAttempts
  <1>1. Inv => NoParallelAttempts
    BY DEF Inv
  <1> QED BY Invariance, <1>1, PTL

\* A bridge is left in the pool of a process only by an attempt that a time
\* limit has hit.
THEOREM LeaksNeedLimits == Spec => []LeakNeedsLimit
  <1>1. Inv => LeakNeedsLimit
    BY DEF Inv
  <1> QED BY Invariance, <1>1, PTL

\* autoretry_for starts a task no more than max_retries + 1 times, and as often
\* again for every worker lost with it: a message that comes back keeps its
\* retry number.
THEOREM RetriesAreBounded == Spec => []RetriesBounded
  <1>1. Inv /\ Budget /\ [Next]_vars => Budget'
    BY NextBudget
  <1>2. Inv /\ Budget => RetriesBounded
    <2> SUFFICES ASSUME Inv, Budget, NEW t \in Tasks
                 PROVE  starts[t] <= (MaxRetries + 1) * (1 + losses[t])
      BY DEF RetriesBounded
    <2>1. starts[t] \in Nat /\ losses[t] \in Nat /\ (MaxRetries + 1) * (1 + losses[t]) \in Nat
      BY Rounds DEF Inv, TypeOK
    <2>2. Cardinality(Chances(t)) \in Nat
      BY FS_CardinalityType DEF Budget, BudgetOf
    <2> QED BY <2>1, <2>2 DEF Budget, BudgetOf
  <1> QED BY InitBudget, <1>1, <1>2, Invariance, PTL DEF Spec

\* Celery's result of a task is a failure only after max_retries + 1 attempts, or
\* when an attempt of it has met a time limit: autoretry_for gives up no task
\* before its last retry, but the hard limit does.
THEOREM TasksAreGivenUpLate == Spec => []GivenUpLate
  <1>1. Inv /\ GivenUpInv /\ [Next]_vars => GivenUpInv'
    BY NextGivenUp
  <1>2. GivenUpInv => GivenUpLate
    BY DEF GivenUpInv
  <1> QED BY InitGivenUp, <1>1, <1>2, Invariance, PTL DEF Spec

\* An agent that has succeeded is run again only after a lost worker, a
\* commit that raised or a time limit.
THEOREM RerunsHaveCauses == Spec => RerunHasCause
  <1> DEFINE Rerun ==
        \A t \in Tasks :
          /\ starts'[t] > starts[t]
          /\ \E r \in rows : r.attempt.task = t /\ r.status = "success"
          => losses[t] > 0 \/ t \in troubled
  <1>1. Inv /\ [Next]_vars => [Rerun]_vars
    <2> SUFFICES ASSUME Inv, Next, NEW t \in Tasks, starts'[t] > starts[t],
                        Succeeded(t), t \notin troubled, ~(losses[t] > 0)
                 PROVE  FALSE
      BY DEF Succeeded
    <2>1. starts[t] \in Nat /\ losses[t] = 0
      BY DEF Inv, TypeOK
    <2>2. ~InQueue(t)
      BY <2>1 DEF Inv, SuccessEnds, Smooth
    <2>3. starts' # starts
      BY <2>1
    <2>4. PICK w \in Workers : Start(w)
      BY <2>3 DEF Next, Work, UpdateAgent, Trigger, LoadAgent, CheckAgent, GetBridge,
           OpenSessions, InvokeAgent, Cleanup, Save, SaveFailed, Raise, Return, Ack,
           SaveRaises, SaveFailedRaises, LoseWorker, SoftLimitWaiting, SoftLimitRunning,
           SoftLimitSaving, HardLimit, OnlyChild, historyVars
    <2>5. PICK u \in Tasks, r \in Retries :
             queue[u][r] > 0 /\ starts' = [starts EXCEPT ![u] = @ + 1]
      BY <2>4 DEF Start
    <2>6. u = t
      BY <2>1, <2>5 DEF Inv, TypeOK
    <2> QED BY <2>2, <2>5, <2>6 DEF InQueue
  <1> QED BY Invariance, <1>1, PTL DEF Spec, RerunHasCause
=============================================================================
