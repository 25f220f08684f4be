----------------------- MODULE McpServerHealth_proofs -----------------------
(***************************************************************************)
(* Proofs about McpServerHealth, for every set of servers, runs and        *)
(* requests and whatever the bounds.                                       *)
(***************************************************************************)
EXTENDS McpServerHealth, TLAPS

USE McpServerHealthAssumption DEF McpServerHealthAssumption, Sessions

-----------------------------------------------------------------------------
(* What the operators of the sessions return.                              *)

LEMMA RowTypes ==
    /\ Blank \in Row
    /\ Deleted \in Row
    /\ Passed \in Row
    /\ \A r \in Row : Failed(r) \in Row
    /\ \A stored, loaded, assigned \in Row : Flush(stored, loaded, assigned) \in Row
BY DEF Blank, Deleted, Passed, Failed, Flush, Row, Present, Selected, Threshold

SessionsOK ==
    /\ pc \in [Sessions -> {"idle", "checking", "passed", "failed", "reset",
                            "probing", "aborted"}]
    /\ todo \in [Sessions -> SUBSET Servers]
    /\ at \in [Sessions -> Servers \cup {NoServer}]
    /\ \A a \in Sessions : pc[a] \in {"passed", "failed", "reset"} => at[a] \in todo[a]
    /\ seen \in [Sessions -> [Servers -> Row]]

LEMMA EndSessionType ==
    ASSUME SessionsOK, NEW a \in Sessions, NEW how \in {"idle", "aborted"},
           EndSession(a, how)
    PROVE  SessionsOK'
BY RowTypes DEF SessionsOK, EndSession

LEMMA LoadType ==
    ASSUME SessionsOK, NEW a \in Sessions, NEW step \in {"checking", "probing"},
           NEW servers \in SUBSET Servers, NEW rows \in [Servers -> Row],
           Load(a, step, servers, rows)
    PROVE  SessionsOK'
BY RowTypes DEF SessionsOK, Load

LEMMA NextServerType ==
    ASSUME SessionsOK, NEW a \in Sessions, NEW s \in Servers, NextServer(a, s)
    PROVE  SessionsOK'
<1>1. CASE todo[a] = {s}
  BY <1>1, EndSessionType DEF NextServer
<1>2. CASE todo[a] # {s}
  BY <1>2 DEF NextServer, SessionsOK
<1> QED BY <1>1, <1>2

LEMMA CheckedType ==
    ASSUME fails \in [Servers -> 0..Threshold], streak \in [Servers -> 0..Threshold],
           NEW s \in Servers, NEW ok \in BOOLEAN, Checked(s, ok)
    PROVE  fails' \in [Servers -> 0..Threshold] /\ streak' \in [Servers -> 0..Threshold]
BY DEF Checked, Threshold

-----------------------------------------------------------------------------
(* Every variable keeps its type: in particular the server a session has   *)
(* measured is one it has selected and not finished.                       *)

TablesOK ==
    /\ row \in [Servers -> Row]
    /\ ops \in Nat
    /\ faults \in Nat
    /\ fails \in [Servers -> 0..Threshold]
    /\ streak \in [Servers -> 0..Threshold]

LEMMA TypeInit == Init => TypeOK
BY RowTypes DEF Init, TypeOK, Threshold

LEMMA TypeStep == TypeOK /\ [Next]_vars => TypeOK'
<1> SUFFICES ASSUME SessionsOK, TablesOK, [Next]_vars
             PROVE  SessionsOK' /\ TablesOK'
  BY DEF TypeOK, SessionsOK, TablesOK
<1>1. ASSUME NEW a \in Sessions, StartRun(a)
      PROVE  SessionsOK' /\ TablesOK'
  BY <1>1, LoadType DEF StartRun, TablesOK, historyVars
<1>2. ASSUME NEW a \in Sessions, NEW s \in Servers, NEW ok \in BOOLEAN, Measure(a, s, ok)
      PROVE  SessionsOK' /\ TablesOK'
  BY <1>2 DEF Measure, SessionsOK, TablesOK, historyVars
<1>3. ASSUME NEW a \in Sessions, NEW s \in Servers, NEW ok \in BOOLEAN,
             MeasureUnrecorded(a, s, ok)
      PROVE  SessionsOK' /\ TablesOK'
  <2>1. TablesOK'
    BY <1>3 DEF MeasureUnrecorded, RefusedByFault, TablesOK, historyVars
  <2>2. CASE ok
    BY <1>3, <2>1, <2>2 DEF MeasureUnrecorded, SessionsOK
  <2>3. CASE ~ok
    BY <1>3, <2>1, <2>3, EndSessionType DEF MeasureUnrecorded
  <2> QED BY <2>1, <2>2, <2>3
<1>14. ASSUME NEW a \in Sessions, NEW s \in Servers, MeasureInvalid(a, s)
       PROVE  SessionsOK' /\ TablesOK'
  BY <1>14, NextServerType DEF MeasureInvalid, TablesOK, historyVars
<1>4. ASSUME NEW a \in Sessions, StorePass(a)
      PROVE  SessionsOK' /\ TablesOK'
  <2>1. at[a] \in Servers
    BY <1>4 DEF StorePass, SessionsOK
  <2>2. SessionsOK'
    BY <1>4, <2>1, NextServerType DEF StorePass
  <2>3. row' \in [Servers -> Row]
    BY <1>4, <2>1, RowTypes DEF StorePass, SessionsOK, TablesOK
  <2> QED BY <1>4, <2>1, <2>2, <2>3, CheckedType DEF StorePass, TablesOK
<1>5. ASSUME NEW a \in Sessions, StoreFail(a)
      PROVE  SessionsOK' /\ TablesOK'
  <2>1. at[a] \in Servers
    BY <1>5 DEF StoreFail, SessionsOK
  <2>2. SessionsOK'
    BY <1>5, <2>1, NextServerType DEF StoreFail
  <2>3. row' \in [Servers -> Row]
    <3>1. seen[a][at[a]] \in Row
      BY <2>1 DEF SessionsOK
    <3>2. row[at[a]] \in Row
      BY <2>1 DEF TablesOK
    <3>3. Failed(seen[a][at[a]]) \in Row
      BY <3>1, RowTypes
    <3>4. Flush(row[at[a]], seen[a][at[a]], Failed(seen[a][at[a]])) \in Row
      BY <3>1, <3>2, <3>3, RowTypes
    <3>5. row' = [row EXCEPT ![at[a]] =
                     Flush(row[at[a]], seen[a][at[a]], Failed(seen[a][at[a]]))]
      BY <1>5 DEF StoreFail
    <3> QED BY <2>1, <3>4, <3>5 DEF TablesOK
  <2> QED BY <1>5, <2>1, <2>2, <2>3, CheckedType DEF StoreFail, TablesOK
<1>6. ASSUME NEW a \in Sessions, StoreReset(a)
      PROVE  SessionsOK' /\ TablesOK'
  <2>1. at[a] \in Servers
    BY <1>6 DEF StoreReset, SessionsOK
  <2>2. row' \in [Servers -> Row]
    BY <1>6, <2>1, RowTypes DEF StoreReset, TablesOK
  <2> QED BY <1>6, <2>1, <2>2, EndSessionType, CheckedType DEF StoreReset, TablesOK
<1>7. ASSUME NEW a \in Sessions, StoreGone(a)
      PROVE  SessionsOK' /\ TablesOK'
  BY <1>7, EndSessionType DEF StoreGone, TablesOK, historyVars
<1>8. ASSUME NEW a \in Sessions, NEW s \in Servers, Create(a, s)
      PROVE  SessionsOK' /\ TablesOK'
  <2>1. row' \in [Servers -> Row]
    BY <1>8 DEF Create, TablesOK, Row, Present
  <2> QED BY <1>8, <2>1, LoadType DEF Create, TablesOK, historyVars
<1>9. ASSUME NEW a \in Sessions, NEW s \in Servers, PostCheck(a, s) \/ BeginProbe(a, s)
      PROVE  SessionsOK' /\ TablesOK'
  BY <1>9, LoadType DEF PostCheck, BeginProbe, OnServer, TablesOK, historyVars
<1>10. ASSUME NEW a \in Sessions, NEW s \in Servers, Delete(a, s)
       PROVE  SessionsOK' /\ TablesOK'
  BY <1>10, RowTypes DEF Delete, OnServer, SessionsOK, TablesOK, sessionVars, historyVars
<1>11. ASSUME NEW a \in Sessions, NEW s \in Servers, NEW ok \in BOOLEAN, EndProbe(a, s, ok)
       PROVE  SessionsOK' /\ TablesOK'
  <2>1. SessionsOK'
    BY <1>11, EndSessionType DEF EndProbe
  <2>2. row' \in [Servers -> Row]
    <3> DEFINE assigned == [seen[a][s] EXCEPT !.status = IF ok THEN "active" ELSE "error"]
    <3>1. assigned \in Row
      BY DEF SessionsOK, Row, Present, Selected
    <3>2. Flush(row[s], seen[a][s], assigned) \in Row
      BY <3>1, RowTypes DEF SessionsOK, TablesOK
    <3>3. \/ row' = row
          \/ row' = [row EXCEPT ![s] = Flush(row[s], seen[a][s], assigned)]
      BY <1>11 DEF EndProbe
    <3> HIDE DEF assigned
    <3> QED BY <3>2, <3>3 DEF TablesOK
  <2>3. streak' \in [Servers -> 0..Threshold]
    BY <1>11 DEF EndProbe, TablesOK, Threshold
  <2> QED BY <1>11, <2>1, <2>2, <2>3 DEF EndProbe, TablesOK
<1>12. ASSUME NEW a \in Sessions, Kill(a)
       PROVE  SessionsOK' /\ TablesOK'
  BY <1>12, EndSessionType DEF Kill, TablesOK, historyVars
<1>13. CASE UNCHANGED vars
  BY <1>13 DEF vars, sessionVars, historyVars, SessionsOK, TablesOK
<1> QED
  BY <1>1, <1>2, <1>3, <1>4, <1>5, <1>6, <1>7, <1>8, <1>9, <1>10, <1>11, <1>12, <1>13,
     <1>14 DEF Next, Check, Api

\* The sessions' loaded copies and the table keep their types, and a session that
\* has measured a server still has that server on its list.
THEOREM TypeCorrect == Spec => []TypeOK
<1> QED BY TypeInit, TypeStep, PTL DEF Spec
-----------------------------------------------------------------------------
(* Failure counts are covered by checks that failed.  The stale copies have *)
(* to be part of the invariant: a later UPDATE counts on from them.        *)

Covers(f, r) == f = Threshold \/ r.failures <= f

LEMMA CountInit == Init => CountIsEarned
BY DEF Init, CountIsEarned, Covered, Blank, Threshold

\* Nothing takes a failed check back.
LEMMA FailsGrow ==
    ASSUME TypeOK, [Next]_vars, NEW s \in Servers
    PROVE  fails[s] <= fails'[s] /\ fails[s] \in 0..3 /\ fails'[s] \in 0..3
<1>1. fails \in [Servers -> 0..3] /\ fails' \in [Servers -> 0..3]
  BY TypeStep DEF TypeOK, Threshold
<1> DEFINE Grows == UNCHANGED fails \/ \E a \in Sessions, ok \in BOOLEAN : Checked(at[a], ok)
<1>2. ASSUME NEW a \in Sessions, StorePass(a) \/ StoreFail(a) \/ StoreReset(a)
      PROVE  Grows
  BY <1>2 DEF StorePass, StoreFail, StoreReset
<1>3. ASSUME NEW a \in Sessions, StartRun(a) \/ StoreGone(a) \/ Kill(a)
      PROVE  Grows
  BY <1>3 DEF StartRun, StoreGone, Kill, historyVars
<1>4. ASSUME NEW a \in Sessions, NEW t \in Servers, NEW ok \in BOOLEAN,
             Measure(a, t, ok) \/ MeasureUnrecorded(a, t, ok) \/ MeasureInvalid(a, t)
                 \/ EndProbe(a, t, ok)
      PROVE  Grows
  BY <1>4 DEF Measure, MeasureUnrecorded, MeasureInvalid, EndProbe, historyVars
<1>5. ASSUME NEW a \in Sessions, NEW t \in Servers,
             Create(a, t) \/ PostCheck(a, t) \/ BeginProbe(a, t) \/ Delete(a, t)
      PROVE  Grows
  BY <1>5 DEF Create, PostCheck, BeginProbe, Delete, OnServer, historyVars
<1>6. Grows
  BY <1>2, <1>3, <1>4, <1>5 DEF Next, Check, Api, vars, historyVars
<1> QED BY <1>1, <1>6 DEF Checked, Threshold

\* What a session holds after a step is what it held, or a fresh copy of a row,
\* or nothing.
LEMMA SeenStep ==
    ASSUME TypeOK, [Next]_vars, NEW a \in Sessions, NEW s \in Servers
    PROVE  seen'[a][s] \in {seen[a][s], row[s], row'[s], Blank}
<1>1. seen \in [Sessions -> [Servers -> Row]]
  BY DEF TypeOK
<1>2. ASSUME NEW b \in Sessions, NEW how \in {"idle", "aborted"}, EndSession(b, how)
      PROVE  seen'[a][s] \in {seen[a][s], Blank}
  BY <1>1, <1>2 DEF EndSession
<1>3. ASSUME NEW b \in Sessions, NEW step, NEW servers, NEW rows, Load(b, step, servers, rows)
      PROVE  seen'[a][s] \in {seen[a][s], rows[s], Blank}
  BY <1>1, <1>3 DEF Load
<1>4. ASSUME NEW b \in Sessions, NEW t, NextServer(b, t)
      PROVE  seen'[a][s] \in {seen[a][s], Blank}
  BY <1>2, <1>4 DEF NextServer
<1> DEFINE Traced == seen'[a][s] \in {seen[a][s], row[s], row'[s], Blank}
<1>5. ASSUME NEW b \in Sessions, StorePass(b) \/ StoreFail(b)
      PROVE  Traced
  BY <1>4, <1>5 DEF StorePass, StoreFail
<1>6. ASSUME NEW b \in Sessions, StoreReset(b) \/ StoreGone(b) \/ Kill(b)
      PROVE  Traced
  BY <1>2, <1>6 DEF StoreReset, StoreGone, Kill
<1>7. ASSUME NEW b \in Sessions, StartRun(b)
      PROVE  Traced
  BY <1>3, <1>7 DEF StartRun
<1>8. ASSUME NEW b \in Sessions, NEW t \in Servers, NEW ok \in BOOLEAN,
             Measure(b, t, ok) \/ MeasureUnrecorded(b, t, ok) \/ MeasureInvalid(b, t)
                 \/ EndProbe(b, t, ok)
      PROVE  Traced
  BY <1>2, <1>4, <1>8 DEF Measure, MeasureUnrecorded, MeasureInvalid, EndProbe
<1>9. ASSUME NEW b \in Sessions, NEW t \in Servers,
             Create(b, t) \/ PostCheck(b, t) \/ BeginProbe(b, t)
      PROVE  Traced
  BY <1>3, <1>9 DEF Create, PostCheck, BeginProbe
<1>10. ASSUME NEW b \in Sessions, NEW t \in Servers, Delete(b, t)
       PROVE  Traced
  BY <1>10 DEF Delete, sessionVars
<1> QED
  BY <1>5, <1>6, <1>7, <1>8, <1>9, <1>10 DEF Next, Check, Api, vars, sessionVars

\* What a row's count becomes: itself, zero, or one more than a copy that a
\* session took, and then the failed check is counted with it.
LEMMA RowStep ==
    ASSUME TypeOK, [Next]_vars, NEW s \in Servers
    PROVE  \/ row'[s].failures \in {row[s].failures, 0}
           \/ \E a \in Sessions :
                /\ row'[s].failures = seen[a][s].failures + 1
                /\ pc[a] = "failed"
                /\ Checked(s, FALSE)
<1> DEFINE Kept == row'[s].failures \in {row[s].failures, 0}
<1> DEFINE Counted ==
      \E a \in Sessions :
          row'[s].failures = seen[a][s].failures + 1 /\ pc[a] = "failed" /\ Checked(s, FALSE)
<1>1. row \in [Servers -> Row] /\ seen \in [Sessions -> [Servers -> Row]]
  BY DEF TypeOK
<1>2. ASSUME NEW a \in Sessions, StorePass(a)
      PROVE  Kept
  BY <1>1, <1>2 DEF StorePass, Flush, Passed, Row
<1>3. ASSUME NEW a \in Sessions, StoreFail(a)
      PROVE  Kept \/ Counted
  BY <1>1, <1>3 DEF StoreFail, Flush, Failed, Row
<1>4. ASSUME NEW a \in Sessions, StoreReset(a)
      PROVE  Kept
  BY <1>1, <1>4 DEF StoreReset, Passed, Row
<1>5. ASSUME NEW a \in Sessions, NEW t \in Servers, Create(a, t) \/ Delete(a, t)
      PROVE  Kept
  BY <1>1, <1>5 DEF Create, Delete, Deleted, Row
<1>6. ASSUME NEW a \in Sessions, NEW t \in Servers, NEW ok \in BOOLEAN, EndProbe(a, t, ok)
      PROVE  Kept
  BY <1>1, <1>6 DEF EndProbe, Flush, Row
<1>7. ASSUME NEW a \in Sessions, StartRun(a) \/ StoreGone(a) \/ Kill(a)
      PROVE  Kept
  BY <1>7 DEF StartRun, StoreGone, Kill
<1>8. ASSUME NEW a \in Sessions, NEW t \in Servers, NEW ok \in BOOLEAN,
             Measure(a, t, ok) \/ MeasureUnrecorded(a, t, ok) \/ MeasureInvalid(a, t)
      PROVE  Kept
  BY <1>8 DEF Measure, MeasureUnrecorded, MeasureInvalid
<1>9. ASSUME NEW a \in Sessions, NEW t \in Servers, PostCheck(a, t) \/ BeginProbe(a, t)
      PROVE  Kept
  BY <1>9 DEF PostCheck, BeginProbe
<1>10. Kept \/ Counted
  BY <1>2, <1>3, <1>4, <1>5, <1>6, <1>7, <1>8, <1>9 DEF Next, Check, Api, vars
<1> QED BY <1>10

LEMMA CountStep == TypeOK /\ CountIsEarned /\ [Next]_vars => CountIsEarned'
<1> SUFFICES ASSUME TypeOK, CountIsEarned, [Next]_vars, NEW s \in Servers
             PROVE  /\ Covers(fails'[s], row'[s])
                    /\ \A a \in Sessions : Covers(fails'[s], seen'[a][s])
  BY DEF CountIsEarned, Covered, Covers
<1>1. /\ Covers(fails[s], row[s])
      /\ \A a \in Sessions : Covers(fails[s], seen[a][s])
  BY DEF CountIsEarned, Covered, Covers
<1>2. fails[s] <= fails'[s] /\ fails[s] \in 0..3 /\ fails'[s] \in 0..3
  BY FailsGrow
<1>3. row[s] \in Row /\ row'[s] \in Row /\ \A a \in Sessions : seen[a][s] \in Row
  BY TypeStep DEF TypeOK
<1>4. \A r \in Row : Covers(fails[s], r) => Covers(fails'[s], r)
  BY <1>2 DEF Covers, Row, Threshold
<1>5. Covers(fails'[s], row'[s])
  <2>1. CASE row'[s].failures \in {row[s].failures, 0}
    BY <1>1, <1>2, <1>3, <1>4, <2>1 DEF Covers, Row, Threshold
  <2>2. ASSUME NEW a \in Sessions, row'[s].failures = seen[a][s].failures + 1,
               Checked(s, FALSE)
        PROVE  Covers(fails'[s], row'[s])
    <3>1. fails'[s] = IF fails[s] = 3 THEN 3 ELSE fails[s] + 1
      BY <2>2, TypeStep DEF Checked, Threshold, TypeOK
    <3> QED BY <1>1, <1>2, <1>3, <2>2, <3>1 DEF Covers, Row, Threshold
  <2> QED BY <2>1, <2>2, RowStep
<1>6. ASSUME NEW a \in Sessions
      PROVE  Covers(fails'[s], seen'[a][s])
  <2>1. Covers(fails'[s], Blank)
    BY <1>2 DEF Covers, Blank, Threshold
  <2> QED BY <1>1, <1>3, <1>4, <1>5, <2>1, SeenStep
<1> QED BY <1>5, <1>6

\* Overlapping checks may lose counts but never invent them.
THEOREM CountsEarned == Spec => []CountIsEarned
<1>1. Init => TypeOK /\ CountIsEarned
  BY TypeInit, CountInit
<1>2. TypeOK /\ CountIsEarned /\ [Next]_vars => (TypeOK /\ CountIsEarned)'
  BY TypeStep, CountStep
<1> QED BY <1>1, <1>2, PTL DEF Spec

\* A row turns inactive in one way: a failed check that counts to Threshold.
LEMMA TripStep ==
    ASSUME TypeOK, [Next]_vars, NEW s \in Servers,
           row[s].status \in Selected, row'[s].status = "inactive"
    PROVE  \E a \in Sessions :
               /\ seen[a][s].failures + 1 >= 3 /\ Checked(s, FALSE)
               /\ pc[a] = "failed" /\ at[a] = s
<1> USE DEF Selected
<1>1. row \in [Servers -> Row] /\ seen \in [Sessions -> [Servers -> Row]]
  BY DEF TypeOK
<1>2. ASSUME NEW a \in Sessions, StorePass(a)
      PROVE  FALSE
  BY <1>1, <1>2 DEF StorePass, Flush, Passed, Row
<1>3. ASSUME NEW a \in Sessions, StoreFail(a)
      PROVE  /\ seen[a][s].failures + 1 >= 3 /\ Checked(s, FALSE)
             /\ pc[a] = "failed" /\ at[a] = s
  BY <1>1, <1>3 DEF StoreFail, Flush, Failed, Row, Threshold
<1>4. ASSUME NEW a \in Sessions, StoreReset(a)
      PROVE  FALSE
  BY <1>1, <1>4 DEF StoreReset, Passed, Row
<1>5. ASSUME NEW a \in Sessions, NEW t \in Servers, Create(a, t) \/ Delete(a, t)
      PROVE  FALSE
  BY <1>1, <1>5 DEF Create, Delete, Deleted, Row
<1>6. ASSUME NEW a \in Sessions, NEW t \in Servers, NEW ok \in BOOLEAN, EndProbe(a, t, ok)
      PROVE  FALSE
  BY <1>1, <1>6 DEF EndProbe, Flush, Row
<1>7. ASSUME NEW a \in Sessions, StartRun(a) \/ StoreGone(a) \/ Kill(a)
      PROVE  FALSE
  BY <1>7 DEF StartRun, StoreGone, Kill
<1>8. ASSUME NEW a \in Sessions, NEW t \in Servers, NEW ok \in BOOLEAN,
             Measure(a, t, ok) \/ MeasureUnrecorded(a, t, ok) \/ MeasureInvalid(a, t)
      PROVE  FALSE
  BY <1>8 DEF Measure, MeasureUnrecorded, MeasureInvalid
<1>9. ASSUME NEW a \in Sessions, NEW t \in Servers, PostCheck(a, t) \/ BeginProbe(a, t)
      PROVE  FALSE
  BY <1>9 DEF PostCheck, BeginProbe
<1> QED
  BY <1>2, <1>3, <1>4, <1>5, <1>6, <1>7, <1>8, <1>9 DEF Next, Check, Api, vars

\* The breaker opens only after three checks of that server have failed.
THEOREM TripsEarned == Spec => TripIsEarned
<1> DEFINE Earned ==
      \A s \in Servers :
          row[s].status \in Selected /\ row'[s].status = "inactive" => fails'[s] = Threshold
<1>1. TypeOK /\ CountIsEarned /\ [Next]_vars => [Earned]_vars
  <2> SUFFICES ASSUME TypeOK, CountIsEarned, [Next]_vars, NEW s \in Servers,
                      row[s].status \in Selected, row'[s].status = "inactive"
               PROVE  fails'[s] = Threshold
    OBVIOUS
  <2>1. PICK a \in Sessions : seen[a][s].failures + 1 >= 3 /\ Checked(s, FALSE)
    BY TripStep
  <2>2. fails'[s] = IF fails[s] = 3 THEN 3 ELSE fails[s] + 1
    BY <2>1 DEF Checked, Threshold, TypeOK
  <2>3. fails[s] = 3 \/ seen[a][s].failures <= fails[s]
    BY DEF CountIsEarned, Covered, Threshold
  <2>4. fails[s] \in 0..3 /\ seen[a][s].failures \in Nat
    BY DEF TypeOK, Threshold, Row
  <2> QED BY <2>1, <2>2, <2>3, <2>4 DEF Threshold
<1> QED BY <1>1, TypeCorrect, CountsEarned, PTL DEF Spec, TripIsEarned
-----------------------------------------------------------------------------
(* One run of the periodic task at a time and no checks or probes by        *)
(* request: the rows behave as module CircuitBreaker says.                  *)

Alone ==
    /\ \A a, b \in Runs : a = b
    /\ Ops \subseteq {"create", "delete"}

LEMMA SoleInit == Init => SoleWriter
BY DEF Init, SoleWriter, Blank, Selected, Threshold

\* How the operators of the sessions change one session and leave the others.
Others(a) ==
    \A b \in Sessions : b # a =>
        pc'[b] = pc[b] /\ todo'[b] = todo[b] /\ seen'[b] = seen[b]

LEMMA EndSessionEffect ==
    ASSUME SessionsOK, NEW a \in Sessions, NEW how, EndSession(a, how)
    PROVE  Others(a) /\ pc'[a] = how /\ todo'[a] = {}
BY DEF SessionsOK, EndSession, Others

LEMMA LoadEffect ==
    ASSUME SessionsOK, NEW a \in Sessions, NEW step, NEW servers, NEW rows,
           Load(a, step, servers, rows)
    PROVE  /\ Others(a) /\ pc'[a] = step /\ todo'[a] = servers
           /\ \A s \in servers \cap Servers : seen'[a][s] = rows[s]
BY DEF SessionsOK, Load, Others

LEMMA NextServerEffect ==
    ASSUME SessionsOK, NEW a \in Sessions, NEW t, NextServer(a, t)
    PROVE  /\ Others(a) /\ pc'[a] \in {"idle", "checking"}
           /\ todo'[a] = todo[a] \ {t}
           /\ pc'[a] = "idle" => todo'[a] = {}
           /\ \A s \in todo'[a] : seen'[a][s] = seen[a][s]
<1>1. CASE todo[a] = {t}
  <2>1. EndSession(a, "idle")
    BY <1>1 DEF NextServer
  <2>2. Others(a) /\ pc'[a] = "idle" /\ todo'[a] = {}
    BY <2>1, EndSessionEffect
  <2> QED BY <1>1, <2>2
<1>2. CASE todo[a] # {t}
  BY <1>2 DEF SessionsOK, NextServer, Others
<1> QED BY <1>1, <1>2

\* Only a run checks.
LEMMA RunsCheck ==
    ASSUME SoleWriter, NEW a \in Sessions,
           pc[a] \in {"checking", "passed", "failed", "reset"}
    PROVE  a \in Runs
BY DEF SoleWriter

\* What a run has measured and not stored is as it was loaded.
LEMMA MeasuredIsFresh ==
    ASSUME TypeOK, SoleWriter, NEW a \in Sessions, pc[a] \in {"passed", "failed", "reset"},
           Exists(at[a])
    PROVE  /\ a \in Runs /\ at[a] \in Servers /\ at[a] \in todo[a]
           /\ row[at[a]] = seen[a][at[a]] /\ row[at[a]] \in Row
           /\ row[at[a]].status \in Selected /\ row[at[a]].failures < Threshold
<1>1. a \in Runs /\ at[a] \in todo[a] /\ at[a] \in Servers
  BY RunsCheck DEF TypeOK
<1>2. row[at[a]].status # "deleted"
  BY DEF Exists, Present, Selected
<1>3. row[at[a]] = seen[a][at[a]] /\ row[at[a]].status \in Selected
  BY <1>1, <1>2 DEF SoleWriter
<1> QED BY <1>1, <1>3 DEF SoleWriter, TypeOK

\* Nobody writes a row, and a session drops servers or finishes.
LEMMA SoleShrinks ==
    ASSUME TypeOK, SoleWriter, NEW a \in Sessions, Others(a),
           UNCHANGED <<row, streak>>,
           todo'[a] \subseteq todo[a],
           \A s \in todo'[a] : seen'[a][s] = seen[a][s],
           pc'[a] \in {"idle", "aborted"} => todo'[a] = {},
           a \in Requests => pc'[a] \in {"idle", "probing", "aborted"},
           a \in Runs => pc'[a] # "probing"
    PROVE  SoleWriter'
<1>1. \A b \in Sessions : todo'[b] \subseteq todo[b]
  BY DEF Others
<1>2. \A b \in Sessions : \A s \in todo'[b] : seen'[b][s] = seen[b][s]
  BY DEF Others
<1>3. \A b \in Requests : pc'[b] \in {"idle", "probing", "aborted"}
  BY DEF Others, SoleWriter
<1>4. \A b \in Runs : pc'[b] # "probing"
  BY DEF Others, SoleWriter
<1>5. \A b \in Sessions : Free(b)' => todo'[b] = {}
  BY DEF Others, SoleWriter, Free
<1>6. \A b, c \in Requests : b # c => todo'[b] \cap todo'[c] = {}
  BY <1>1 DEF SoleWriter
<1> QED BY <1>1, <1>2, <1>3, <1>4, <1>5, <1>6 DEF SoleWriter

\* A run stores what it has measured, and is the only session that works on it.
LEMMA SoleStore ==
    ASSUME Alone, TypeOK, SoleWriter, NEW a \in Runs, NEW s \in todo[a], Others(a),
           row[s].status \in Selected,
           NEW r \in Row, row' = [row EXCEPT ![s] = r],
           r.status \in Present, r.status \in Selected => r.failures < Threshold,
           r.failures <= streak'[s], \A t \in Servers : t # s => streak'[t] = streak[t],
           todo'[a] \subseteq todo[a] \ {s},
           \A t \in todo'[a] : seen'[a][t] = seen[a][t],
           pc'[a] \in {"idle", "checking", "aborted"},
           pc'[a] # "checking" => todo'[a] = {}
    PROVE  SoleWriter'
<1> USE DEF TypeOK, Present, Selected
<1>1. \A t \in Servers : t # s => row'[t] = row[t]
  OBVIOUS
<1>2. row'[s] = r
  OBVIOUS
<1>3. \A t \in Servers :
        /\ row'[t].status = "none" => row'[t] = Blank
        /\ row'[t].status \in Selected => row'[t].failures < Threshold
        /\ row'[t].failures <= streak'[t]
  BY <1>1, <1>2 DEF SoleWriter
<1>4. \A b \in Sessions : Free(b)' => todo'[b] = {}
  BY DEF Others, SoleWriter, Free
<1>5. \A b \in Requests :
        pc'[b] \in {"idle", "probing", "aborted"} /\ todo'[b] = todo[b] /\ seen'[b] = seen[b]
  BY DEF Others, SoleWriter
<1>6. \A b \in Requests : s \notin todo[b]
  BY DEF SoleWriter, Unprobed
<1>7. \A b \in Requests : \A t \in todo'[b] :
        seen'[b][t] = Unprobed /\ (row'[t] = Unprobed \/ row'[t].status = "deleted")
  BY <1>1, <1>5, <1>6 DEF SoleWriter
<1>8. \A b \in Runs : b = a
  BY DEF Alone
<1>9. \A b \in Runs :
        /\ pc'[b] # "probing"
        /\ \A t \in todo'[b] :
             \/ row'[t] = seen'[b][t] /\ row'[t].status \in Selected
             \/ row'[t].status = "deleted"
  BY <1>1, <1>8 DEF SoleWriter
<1>10. \A b, c \in Requests : b # c => todo'[b] \cap todo'[c] = {}
  BY <1>5 DEF SoleWriter
<1> QED BY <1>3, <1>4, <1>5, <1>7, <1>9, <1>10 DEF SoleWriter

\* What the three ways of storing a check write.
StoredRow(a) == IF pc[a] = "failed" THEN Failed(row[at[a]]) ELSE Passed
Stores(a) == StorePass(a) \/ StoreFail(a) \/ StoreReset(a)

LEMMA StoreEffect ==
    ASSUME TypeOK, SoleWriter, NEW a \in Sessions, Stores(a)
    PROVE  /\ pc[a] \in {"passed", "failed", "reset"} /\ Exists(at[a])
           /\ row' = [row EXCEPT ![at[a]] = StoredRow(a)]
           /\ Checked(at[a], pc[a] # "failed")
           /\ pc[a] = "reset" => EndSession(a, "aborted")
           /\ pc[a] # "reset" => NextServer(a, at[a])
<1>1. pc[a] \in {"passed", "failed", "reset"} /\ Exists(at[a])
  BY DEF Stores, StorePass, StoreFail, StoreReset
<1>2. /\ at[a] \in Servers /\ row[at[a]] = seen[a][at[a]] /\ row[at[a]] \in Row
  BY <1>1, MeasuredIsFresh
<1>3. \A x \in Row : Flush(row[at[a]], row[at[a]], x) = x
  BY <1>2 DEF Flush, Row
<1>4. Passed \in Row /\ Failed(row[at[a]]) \in Row
  BY <1>2, RowTypes
<1>5. CASE StorePass(a)
  BY <1>1, <1>2, <1>3, <1>4, <1>5 DEF StorePass, StoredRow
<1>6. CASE StoreFail(a)
  <2>1. Flush(row[at[a]], seen[a][at[a]], Failed(seen[a][at[a]])) = Failed(row[at[a]])
    BY <1>2, <1>3, <1>4
  <2>2. row' = [row EXCEPT ![at[a]] = Failed(row[at[a]])]
    BY <1>6, <2>1 DEF StoreFail
  <2> QED BY <1>1, <1>6, <2>2 DEF StoreFail, StoredRow
<1>7. CASE StoreReset(a)
  BY <1>1, <1>7 DEF StoreReset, StoredRow
<1> QED BY <1>5, <1>6, <1>7 DEF Stores

LEMMA SoleStores ==
    ASSUME Alone, TypeOK, SoleWriter, NEW a \in Sessions, Stores(a)
    PROVE  SoleWriter'
<1>0. SessionsOK
  BY DEF TypeOK, SessionsOK
<1>1. pc[a] \in {"passed", "failed", "reset"} /\ Exists(at[a])
  BY StoreEffect
<1>2. /\ a \in Runs /\ at[a] \in Servers /\ at[a] \in todo[a] /\ row[at[a]] \in Row
      /\ row[at[a]].status \in Selected /\ row[at[a]].failures < Threshold
  BY <1>1, MeasuredIsFresh
<1>3. /\ Others(a) /\ pc'[a] \in {"idle", "checking", "aborted"}
      /\ todo'[a] \subseteq todo[a] \ {at[a]}
      /\ pc'[a] # "checking" => todo'[a] = {}
      /\ \A t \in todo'[a] : seen'[a][t] = seen[a][t]
  <2>1. CASE pc[a] = "reset"
    <3>1. EndSession(a, "aborted")
      BY <2>1, StoreEffect
    <3>2. Others(a) /\ pc'[a] = "aborted" /\ todo'[a] = {}
      BY <1>0, <3>1, EndSessionEffect
    <3> QED BY <3>2
  <2>2. CASE pc[a] # "reset"
    <3>1. NextServer(a, at[a])
      BY <2>2, StoreEffect
    <3>2. /\ Others(a) /\ pc'[a] \in {"idle", "checking"}
          /\ todo'[a] = todo[a] \ {at[a]}
          /\ pc'[a] = "idle" => todo'[a] = {}
          /\ \A s \in todo'[a] : seen'[a][s] = seen[a][s]
      BY <1>0, <3>1, NextServerEffect
    <3> QED BY <3>2
  <2> QED BY <2>1, <2>2
<1> DEFINE r == StoredRow(a)
<1>4. row' = [row EXCEPT ![at[a]] = r]
  BY StoreEffect
<1>5. /\ r \in Row /\ r.status \in Present
      /\ r.status \in Selected => r.failures < Threshold
  BY <1>2, RowTypes DEF StoredRow, Failed, Passed, Present, Selected, Threshold, Row
<1>6. r.failures <= streak'[at[a]] /\ \A t \in Servers : t # at[a] => streak'[t] = streak[t]
  <2>1. Checked(at[a], pc[a] # "failed")
    BY StoreEffect
  <2>2. row[at[a]].failures <= streak[at[a]] /\ streak \in [Servers -> 0..Threshold]
    BY <1>2 DEF SoleWriter, TypeOK
  <2> QED BY <1>2, <2>1, <2>2 DEF Checked, StoredRow, Failed, Passed, Threshold, Row
<1> HIDE DEF r
<1> QED BY <1>2, <1>3, <1>4, <1>5, <1>6, SoleStore

LEMMA SoleStep == Alone /\ TypeOK /\ SoleWriter /\ [Next]_vars => SoleWriter'
<1> SUFFICES ASSUME Alone, TypeOK, SoleWriter, [Next]_vars
             PROVE  SoleWriter'
  OBVIOUS
<1>0. SessionsOK
  BY DEF TypeOK, SessionsOK
<1>1. ASSUME NEW a \in Sessions, StartRun(a)
      PROVE  SoleWriter'
  <2> DEFINE selected == {s \in Servers : row[s].status \in Selected}
  <2>1. a \in Runs /\ Load(a, "checking", selected, row) /\ UNCHANGED <<row, streak>>
    BY <1>1 DEF StartRun, historyVars
  <2>2. /\ Others(a) /\ pc'[a] = "checking" /\ todo'[a] = selected
        /\ \A s \in selected \cap Servers : seen'[a][s] = row[s]
    BY <1>0, <2>1, LoadEffect
  <2>3. \A b \in Runs : b = a
    BY <2>1 DEF Alone
  <2>4. a \notin Requests
    BY <2>1
  <2>5. \A b \in Requests : pc'[b] = pc[b] /\ todo'[b] = todo[b] /\ seen'[b] = seen[b]
    BY <2>2, <2>4 DEF Others
  <2>6. \A b \in Sessions : Free(b)' => todo'[b] = {}
    BY <2>2 DEF Others, Free, SoleWriter
  <2>7. \A b \in Runs :
          /\ pc'[b] # "probing"
          /\ \A s \in todo'[b] :
               \/ row'[s] = seen'[b][s] /\ row'[s].status \in Selected
               \/ row'[s].status = "deleted"
    BY <2>1, <2>2, <2>3
  <2> QED BY <2>1, <2>5, <2>6, <2>7 DEF SoleWriter
<1>2. ASSUME NEW a \in Sessions, NEW s \in Servers, NEW ok \in BOOLEAN, Measure(a, s, ok)
      PROVE  SoleWriter'
  <2>1. a \in Runs /\ Others(a) /\ pc'[a] \in {"passed", "failed"}
    BY <1>2, RunsCheck DEF Measure, Others, TypeOK
  <2> QED BY <1>2, <2>1, SoleShrinks DEF Measure, historyVars
<1>3. ASSUME NEW a \in Sessions, NEW how \in {"idle", "aborted"}, EndSession(a, how),
             UNCHANGED <<row, streak>>
      PROVE  SoleWriter'
  <2>1. Others(a) /\ pc'[a] = how /\ todo'[a] = {}
    BY <1>0, <1>3, EndSessionEffect
  <2> QED BY <1>3, <2>1, SoleShrinks
<1>4. ASSUME NEW a \in Sessions, NEW s \in Servers, NEW ok \in BOOLEAN,
             MeasureUnrecorded(a, s, ok)
      PROVE  SoleWriter'
  <2>1. CASE ok
    <3>1. a \in Runs /\ Others(a) /\ pc'[a] = "reset"
      BY <1>4, <2>1, RunsCheck DEF MeasureUnrecorded, Others, TypeOK
    <3> QED BY <1>4, <2>1, <3>1, SoleShrinks DEF MeasureUnrecorded, historyVars
  <2>2. CASE ~ok
    BY <1>3, <1>4, <2>2 DEF MeasureUnrecorded, historyVars
  <2> QED BY <2>1, <2>2
<1>12. ASSUME NEW a \in Sessions, NEW s \in Servers, MeasureInvalid(a, s)
       PROVE  SoleWriter'
  <2>1. a \in Runs /\ NextServer(a, s) /\ UNCHANGED <<row, streak>>
    BY <1>12, RunsCheck DEF MeasureInvalid, historyVars
  <2>2. /\ Others(a) /\ pc'[a] \in {"idle", "checking"}
        /\ todo'[a] = todo[a] \ {s}
        /\ pc'[a] = "idle" => todo'[a] = {}
        /\ \A t \in todo'[a] : seen'[a][t] = seen[a][t]
    BY <1>0, <2>1, NextServerEffect
  <2> QED BY <2>1, <2>2, SoleShrinks
<1>5. ASSUME NEW a \in Sessions, Stores(a)
      PROVE  SoleWriter'
  BY <1>5, SoleStores
<1>6. ASSUME NEW a \in Sessions, StoreGone(a) \/ Kill(a)
      PROVE  SoleWriter'
  BY <1>3, <1>6 DEF StoreGone, Kill, historyVars
<1>7. ASSUME NEW a \in Sessions, NEW s \in Servers, Create(a, s)
      PROVE  SoleWriter'
  <2>1. a \in Requests /\ row[s] = Blank /\ Load(a, "probing", {s}, row') /\ streak' = streak
    BY <1>7 DEF Create, Request, SoleWriter, historyVars
  <2>2. row' = [row EXCEPT ![s] = Unprobed]
    <3>1. [row[s] EXCEPT !.status = "inactive"] = Unprobed
      BY <2>1 DEF Blank, Unprobed
    <3>2. row' = [row EXCEPT ![s] = [row[s] EXCEPT !.status = "inactive"]]
      BY <1>7 DEF Create
    <3> QED BY <3>1, <3>2
  <2>3. row'[s] = Unprobed /\ \A t \in Servers : t # s => row'[t] = row[t]
    BY <2>2 DEF TypeOK
  <2>4. /\ Others(a) /\ pc'[a] = "probing" /\ todo'[a] = {s} /\ seen'[a][s] = Unprobed
    BY <1>0, <2>1, <2>3, LoadEffect
  <2>5. \A b \in Sessions : s \notin todo[b]
    BY <2>1 DEF SoleWriter, Blank, Unprobed, Selected
  <2>6. \A t \in Servers :
          /\ row'[t].status = "none" => row'[t] = Blank
          /\ row'[t].status \in Selected => row'[t].failures < Threshold
          /\ row'[t].failures <= streak'[t]
    BY <2>1, <2>3 DEF SoleWriter, Unprobed, Selected, Blank, TypeOK, Threshold
  <2>7. \A b \in Sessions : Free(b)' => todo'[b] = {}
    BY <2>4 DEF Others, Free, SoleWriter
  <2>8. \A b \in Requests :
          /\ pc'[b] \in {"idle", "probing", "aborted"}
          /\ \A t \in todo'[b] :
               seen'[b][t] = Unprobed /\ (row'[t] = Unprobed \/ row'[t].status = "deleted")
    BY <2>3, <2>4, <2>5 DEF Others, SoleWriter, TypeOK
  <2>9. \A b, c \in Requests : b # c => todo'[b] \cap todo'[c] = {}
    BY <2>4, <2>5 DEF Others, SoleWriter
  <2>10. \A b \in Runs :
           /\ pc'[b] # "probing"
           /\ \A t \in todo'[b] :
                \/ row'[t] = seen'[b][t] /\ row'[t].status \in Selected
             \/ row'[t].status = "deleted"
    <3> SUFFICES ASSUME NEW b \in Runs
                 PROVE  /\ pc'[b] # "probing"
                        /\ \A t \in todo'[b] :
                             \/ row'[t] = seen'[b][t] /\ row'[t].status \in Selected
                             \/ row'[t].status = "deleted"
      OBVIOUS
    <3>1. b # a /\ pc'[b] = pc[b] /\ todo'[b] = todo[b] /\ seen'[b] = seen[b]
      BY <2>1, <2>4 DEF Others
    <3> QED BY <2>3, <2>5, <3>1 DEF SoleWriter, TypeOK
  <2> QED BY <2>6, <2>7, <2>8, <2>9, <2>10 DEF SoleWriter
<1>8. ASSUME NEW a \in Sessions, NEW s \in Servers, PostCheck(a, s) \/ BeginProbe(a, s)
      PROVE  FALSE
  BY <1>8 DEF PostCheck, BeginProbe, OnServer, Request, Alone
<1>9. ASSUME NEW a \in Sessions, NEW s \in Servers, Delete(a, s)
      PROVE  SoleWriter'
  <2>1. row' = [row EXCEPT ![s] = Deleted] /\ UNCHANGED <<pc, todo, seen, streak>>
    BY <1>9 DEF Delete, OnServer, sessionVars, historyVars
  <2>2. row'[s] = Deleted /\ \A t \in Servers : t # s => row'[t] = row[t]
    BY <2>1 DEF TypeOK
  <2>3. \A t \in Servers :
          /\ row'[t].status = "none" => row'[t] = Blank
          /\ row'[t].status \in Selected => row'[t].failures < Threshold
          /\ row'[t].failures <= streak'[t]
    BY <2>1, <2>2 DEF SoleWriter, Deleted, Selected, TypeOK, Threshold
  <2>4. \A b \in Sessions : \A t \in todo[b] : row'[t] = row[t] \/ row'[t].status = "deleted"
    BY <2>2 DEF Deleted, TypeOK
  <2> QED BY <2>1, <2>3, <2>4 DEF SoleWriter, Free
<1>10. ASSUME NEW a \in Sessions, NEW s \in Servers, NEW ok \in BOOLEAN, EndProbe(a, s, ok)
       PROVE  SoleWriter'
  <2>1. a \in Requests /\ s \in todo[a] /\ seen[a][s] = Unprobed
    BY <1>10 DEF EndProbe, SoleWriter
  <2>2. CASE ~Exists(s)
    BY <1>3, <1>10, <2>2 DEF EndProbe
  <2>3. CASE Exists(s)
    <3>1. row[s] = Unprobed
      BY <2>1, <2>3 DEF SoleWriter, Exists, Present, Selected
    <3> DEFINE r == [status |-> IF ok THEN "active" ELSE "error", failures |-> 0]
    <3>2. Flush(row[s], seen[a][s],
                [seen[a][s] EXCEPT !.status = IF ok THEN "active" ELSE "error"]) = r
      BY <2>1, <3>1 DEF Flush, Unprobed
    <3>3. row' = [row EXCEPT ![s] = r] /\ EndSession(a, "idle")
      BY <1>10, <2>3, <3>2 DEF EndProbe
    <3>4. row'[s] = r /\ \A t \in Servers : t # s => row'[t] = row[t]
      BY <3>3 DEF TypeOK
    <3>5. Others(a) /\ pc'[a] = "idle" /\ todo'[a] = {}
      BY <1>0, <3>3, EndSessionEffect
    <3>6. \A t \in Servers : t # s => streak'[t] = streak[t]
      BY <1>10, <2>3 DEF EndProbe, TypeOK
    <3>7. 0 <= streak'[s]
      BY <1>10, <2>3 DEF EndProbe, TypeOK, Threshold
    <3>8. \A t \in Servers :
            /\ row'[t].status = "none" => row'[t] = Blank
            /\ row'[t].status \in Selected => row'[t].failures < Threshold
            /\ row'[t].failures <= streak'[t]
      <4>1. r.status # "none" /\ r.failures = 0
        OBVIOUS
      <4> QED BY <3>4, <3>6, <3>7, <4>1 DEF SoleWriter, Threshold
    <3>9. \A b \in Sessions : b # a => s \notin todo[b]
      BY <2>1, <3>1 DEF SoleWriter, Unprobed, Selected
    <3>10. \A b \in Sessions : Free(b)' => todo'[b] = {}
      BY <3>5 DEF Others, Free, SoleWriter
    <3>11. \A b \in Requests :
             /\ pc'[b] \in {"idle", "probing", "aborted"}
             /\ \A t \in todo'[b] :
                  seen'[b][t] = Unprobed /\ (row'[t] = Unprobed \/ row'[t].status = "deleted")
      BY <3>4, <3>5, <3>9 DEF Others, SoleWriter, TypeOK
    <3>12. \A b, c \in Requests : b # c => todo'[b] \cap todo'[c] = {}
      BY <3>5 DEF Others, SoleWriter
    <3>13. \A b \in Runs :
             /\ pc'[b] # "probing"
             /\ \A t \in todo'[b] :
                  \/ row'[t] = seen'[b][t] /\ row'[t].status \in Selected
                  \/ row'[t].status = "deleted"
      <4> SUFFICES ASSUME NEW b \in Runs
                   PROVE  /\ pc'[b] # "probing"
                          /\ \A t \in todo'[b] :
                               \/ row'[t] = seen'[b][t] /\ row'[t].status \in Selected
                               \/ row'[t].status = "deleted"
        OBVIOUS
      <4>1. b # a /\ pc'[b] = pc[b] /\ todo'[b] = todo[b] /\ seen'[b] = seen[b]
        BY <2>1, <3>5 DEF Others
      <4> QED BY <3>4, <3>9, <4>1 DEF SoleWriter, TypeOK
    <3> QED BY <3>8, <3>10, <3>11, <3>12, <3>13 DEF SoleWriter
  <2> QED BY <2>2, <2>3
<1>11. CASE UNCHANGED vars
  BY <1>11 DEF vars, sessionVars, historyVars, SoleWriter, Free
<1> QED
  BY <1>1, <1>2, <1>4, <1>5, <1>6, <1>7, <1>8, <1>9, <1>10, <1>11, <1>12
     DEF Next, Check, Api, Stores

LEMMA SoleCorrect ==
    ASSUME Alone
    PROVE  Spec => [](TypeOK /\ SoleWriter)
<1>1. TypeOK /\ SoleWriter /\ [Next]_vars => SoleWriter'
  BY SoleStep
<1> QED BY <1>1, SoleInit, TypeCorrect, PTL DEF Spec

\* Every step of the health monitor is one step of the breaker of one row, or
\* leaves all rows as they are.
LEMMA BreakerStep ==
    ASSUME Alone, TypeOK, SoleWriter, [Next]_vars
    PROVE  [Breaker!Next]_row
<1> USE DEF TypeOK, Selected
<1>1. ASSUME NEW a \in Sessions, Stores(a)
      PROVE  Breaker!Next
  <2>1. pc[a] \in {"passed", "failed", "reset"} /\ Exists(at[a])
        /\ row' = [row EXCEPT ![at[a]] = StoredRow(a)]
    BY <1>1, StoreEffect
  <2>2. /\ at[a] \in Servers /\ row[at[a]] \in Row
        /\ row[at[a]].status \in Selected /\ row[at[a]].failures < Threshold
    BY <2>1, MeasuredIsFresh
  <2>3. CASE pc[a] # "failed"
    <3>1. Breaker!Pass(at[a])
      BY <2>1, <2>2, <2>3 DEF Breaker!Pass, StoredRow, Passed
    <3> QED BY <2>2, <3>1 DEF Breaker!Next
  <2>4. CASE pc[a] = "failed"
    <3>1. StoredRow(a) = Failed(row[at[a]]) /\ row[at[a]].failures \in Nat
      BY <2>2, <2>4 DEF StoredRow, Row
    <3>2. CASE row[at[a]].failures + 1 < Threshold
      <4>1. Breaker!Fail(at[a])
        <5>1. StoredRow(a) = [status |-> "error", failures |-> row[at[a]].failures + 1]
          BY <3>1, <3>2 DEF Failed, Threshold
        <5> QED BY <2>1, <2>2, <3>2, <5>1 DEF Breaker!Fail
      <4> QED BY <2>2, <4>1 DEF Breaker!Next
    <3>3. CASE row[at[a]].failures + 1 >= Threshold
      <4>1. Breaker!Trip(at[a])
        <5>1. row[at[a]].failures + 1 = Threshold
          BY <2>2, <3>1, <3>3 DEF Threshold
        <5>2. StoredRow(a) = [status |-> "inactive", failures |-> Threshold]
          BY <3>1, <5>1 DEF Failed, Threshold
        <5> QED BY <2>1, <2>2, <5>1, <5>2 DEF Breaker!Trip
      <4> QED BY <2>2, <4>1 DEF Breaker!Next
    <3> QED BY <3>1, <3>2, <3>3 DEF Threshold
  <2> QED BY <2>3, <2>4
<1>2. ASSUME NEW a \in Sessions, NEW s \in Servers, Create(a, s)
      PROVE  Breaker!Next
  BY <1>2 DEF Create, Breaker!Next, Breaker!Register
<1>3. ASSUME NEW a \in Sessions, NEW s \in Servers, Delete(a, s)
      PROVE  Breaker!Next
  BY <1>3 DEF Delete, OnServer, Exists, Present, Deleted, Breaker!Next, Breaker!Remove
<1>4. ASSUME NEW a \in Sessions, NEW s \in Servers, NEW ok \in BOOLEAN, EndProbe(a, s, ok)
      PROVE  [Breaker!Next]_row
  <2>1. a \in Requests /\ s \in todo[a] /\ seen[a][s] = Unprobed
    BY <1>4 DEF EndProbe, SoleWriter
  <2>2. CASE ~Exists(s)
    BY <1>4, <2>2 DEF EndProbe
  <2>3. CASE Exists(s)
    <3>1. row[s] = Unprobed
      BY <2>1, <2>3 DEF SoleWriter, Exists, Present
    <3> DEFINE status == IF ok THEN "active" ELSE "error"
    <3>2. Flush(row[s], seen[a][s], [seen[a][s] EXCEPT !.status = status])
             = [row[s] EXCEPT !.status = status]
      BY <2>1, <3>1 DEF Flush, Unprobed
    <3>3. row' = [row EXCEPT ![s] = [row[s] EXCEPT !.status = status]]
      BY <1>4, <2>3, <3>2 DEF EndProbe
    <3>4. Breaker!Activate(s, status)
      BY <3>1, <3>3 DEF Breaker!Activate, Unprobed
    <3> QED BY <3>4 DEF Breaker!Next
  <2> QED BY <2>2, <2>3
<1>5. ASSUME NEW a \in Sessions, StartRun(a) \/ StoreGone(a) \/ Kill(a)
      PROVE  row' = row
  BY <1>5 DEF StartRun, StoreGone, Kill
<1>6. ASSUME NEW a \in Sessions, NEW s \in Servers, NEW ok \in BOOLEAN,
             Measure(a, s, ok) \/ MeasureUnrecorded(a, s, ok) \/ MeasureInvalid(a, s)
      PROVE  row' = row
  BY <1>6 DEF Measure, MeasureUnrecorded, MeasureInvalid
<1>7. ASSUME NEW a \in Sessions, NEW s \in Servers, PostCheck(a, s) \/ BeginProbe(a, s)
      PROVE  row' = row
  BY <1>7 DEF PostCheck, BeginProbe
<1> QED
  BY <1>1, <1>2, <1>3, <1>4, <1>5, <1>6, <1>7 DEF Next, Check, Api, Stores, vars

\* With one run at a time and no checks or probes by request, the rows go through
\* the states of the documented circuit breaker, whatever is killed, lost or
\* deleted on the way and however many registrations overlap.
THEOREM MonitorImplementsBreaker ==
    ASSUME Alone
    PROVE  Spec => ImplementsBreaker
<1>1. Init => Breaker!Init
  BY DEF Init, Breaker!Init, Blank, Breaker!Blank
<1>2. TypeOK /\ SoleWriter /\ [Next]_vars => [Breaker!Next]_row
  BY BreakerStep
<1>3. Spec => [](TypeOK /\ SoleWriter)
  BY SoleCorrect
<1> QED BY <1>1, <1>2, <1>3, PTL DEF Spec, ImplementsBreaker, Breaker!Spec

\* Under the same conditions a server is taken out of service only by three checks
\* that failed in a row, with no success between them.
THEOREM TripsAreStreaks ==
    ASSUME Alone
    PROVE  Spec => TripNeedsStreak
<1> DEFINE Streak ==
      \A s \in Servers :
          row[s].status \in Selected /\ row'[s].status = "inactive" => streak'[s] = Threshold
<1>1. TypeOK /\ SoleWriter /\ [Next]_vars => [Streak]_vars
  <2> SUFFICES ASSUME TypeOK, SoleWriter, [Next]_vars, NEW s \in Servers,
                      row[s].status \in Selected, row'[s].status = "inactive"
               PROVE  streak'[s] = Threshold
    OBVIOUS
  <2>1. PICK a \in Sessions :
          /\ seen[a][s].failures + 1 >= 3 /\ Checked(s, FALSE)
          /\ pc[a] = "failed" /\ at[a] = s
    BY TripStep
  <2>2. Exists(at[a])
    BY <2>1 DEF Exists, Present
  <2>3. seen[a][s] = row[s]
    BY <2>1, <2>2, MeasuredIsFresh
  <2>4. row[s].failures <= streak[s] /\ row[s].failures \in Nat
        /\ streak \in [Servers -> 0..Threshold]
    BY DEF SoleWriter, TypeOK, Row
  <2> QED BY <2>1, <2>3, <2>4 DEF Checked, Threshold
<1>2. Spec => [](TypeOK /\ SoleWriter)
  BY SoleCorrect
<1> QED BY <1>1, <1>2, PTL DEF Spec, TripNeedsStreak

\* Under the same conditions an inactive server stays excluded from the checks, as
\* the docstring of mcp_health_check_task has it: of the documented breaker's steps
\* only a removal is left to a server that has tripped.
THEOREM TrippedServersStayOut ==
    ASSUME Alone
    PROVE  Spec => TrippedStaysOut
<1> DEFINE Out ==
      \A s \in Servers :
          row[s].status = "inactive" /\ row[s].failures >= Threshold =>
              row'[s] = row[s] \/ row'[s].status = "deleted"
<1>1. TypeOK /\ SoleWriter /\ [Next]_vars => [Out]_vars
  <2> SUFFICES ASSUME TypeOK, SoleWriter, [Next]_vars, NEW s \in Servers,
                      row[s].status = "inactive", row[s].failures >= 3
               PROVE  row'[s] = row[s] \/ row'[s].status = "deleted"
    BY DEF Threshold
  <2>1. [Breaker!Next]_row
    BY BreakerStep
  <2>2. CASE row' = row
    BY <2>2
  <2>3. ASSUME NEW t \in Servers,
               \/ Breaker!Register(t) \/ Breaker!Pass(t) \/ Breaker!Fail(t)
               \/ Breaker!Trip(t) \/ Breaker!Remove(t)
               \/ \E status \in {"active", "error"} : Breaker!Activate(t, status)
        PROVE  row'[s] = row[s] \/ row'[s].status = "deleted"
    <3>1. CASE t # s
      BY <2>3, <3>1 DEF TypeOK, Breaker!Register, Breaker!Pass, Breaker!Fail, Breaker!Trip,
         Breaker!Remove, Breaker!Activate
    <3>2. CASE t = s
      BY <2>3, <3>2 DEF TypeOK, Breaker!Register, Breaker!Pass, Breaker!Fail, Breaker!Trip,
         Breaker!Remove, Breaker!Activate
    <3> QED BY <3>1, <3>2
  <2> QED BY <2>1, <2>2, <2>3 DEF Breaker!Next
<1>2. Spec => [](TypeOK /\ SoleWriter)
  BY SoleCorrect
<1> QED BY <1>1, <1>2, PTL DEF Spec, TrippedStaysOut
=============================================================================
