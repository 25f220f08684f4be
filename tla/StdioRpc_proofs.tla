--------------------------- MODULE StdioRpc_proofs ---------------------------
(***************************************************************************)
(* Proofs about StdioRpc, for any number of requests, any concurrency and  *)
(* any amount of noise.                                                    *)
(***************************************************************************)
EXTENDS StdioRpc, FiniteSetTheorems, TLAPS

USE StdioRpcAssumption DEF StdioRpcAssumption, NoiseKinds, ReaderStates

(***************************************************************************)
(* The actions leave the declared types.                                   *)
(***************************************************************************)
LEMMA WakeWaiterType ==
    ASSUME TypeOK, WakeWaiter
    PROVE  /\ waiter' = 0
           /\ reader' \in [Ids -> ReaderStates]
BY DEF TypeOK, WakeWaiter, Ids

\* The state always has the types the declarations announce.
THEOREM TypeCorrect == Spec => []TypeOK
<1>1. Init => TypeOK
  <2> SUFFICES ASSUME Init PROVE TypeOK
    OBVIOUS
  <2>1. requestId \in 0..MaxRequests /\ waiter \in 0..MaxRequests
    BY DEF Init
  <2>2. /\ future \in [Ids -> {"none", "unset", "result", "error", "failed", "cancelled"}]
        /\ call \in [Ids -> {"none"} \cup InProgress \cup Endings]
        /\ reader \in [Ids -> ReaderStates]
    BY DEF Init
  <2>3. stdout \in Seq(Line) /\ noise \in [NoiseKinds -> Nat]
    BY DEF Init
  <2> QED
    BY <2>1, <2>2, <2>3 DEF TypeOK, Init
<1>2. TypeOK /\ [Next]_vars => TypeOK'
  <2> SUFFICES ASSUME TypeOK, [Next]_vars PROVE TypeOK'
    OBVIOUS
  <2>1. ASSUME NEW i \in Ids, StartCall(i) PROVE TypeOK'
    BY <2>1 DEF StartCall, TypeOK, Ids, InProgress, streamVars
  <2>2. ASSUME NEW i \in Ids, Drained(i) PROVE TypeOK'
    BY <2>2 DEF Drained, TypeOK, InProgress, serverVars
  <2>3. ASSUME NEW i \in Ids, SendFails(i) \/ Complete(i) \/ Timeout(i) PROVE TypeOK'
    BY <2>3 DEF SendFails, Complete, Timeout, EndCall, TypeOK, Endings, streamVars, serverVars
  <2>0. \A i \in Ids : Slot(i) \in 0..MaxRequests
    BY DEF Slot, TypeOK
  <2>4. ASSUME NEW i \in Ids, ReadLine(i) PROVE TypeOK'
    <3>1. stdout' \in Seq(Line) /\ Head(stdout) \in Line
      BY <2>4 DEF ReadLine, TypeOK
    <3>2. future' \in [Ids -> {"none", "unset", "result", "error", "failed", "cancelled"}]
      <4>1. CASE FailPending
        BY <4>1 DEF FailPending, TypeOK
      <4>2. CASE Dispatch(Head(stdout))
        BY <4>2 DEF Dispatch, TypeOK
      <4> QED
        BY <4>1, <4>2, <2>4 DEF ReadLine
    <3> QED
      BY <2>0, <2>4, <3>1, <3>2 DEF ReadLine, TypeOK, serverVars
  <2>5. ASSUME NEW i \in Ids, ReadFails(i) PROVE TypeOK'
    BY <2>0, <2>5 DEF ReadFails, FailPending, TypeOK, serverVars
  <2>6. ASSUME NEW i \in Ids, ReadBlocks(i) PROVE TypeOK'
    BY <2>6 DEF ReadBlocks, TypeOK, Ids, clientVars, serverVars
  <2>13. ASSUME NEW i \in Ids, Collect(i) PROVE TypeOK'
    BY <2>13 DEF Collect, TypeOK, clientVars, serverVars
  <2>7. ASSUME NEW i \in Ids, NEW kind \in {"result", "error"}, Answer(i, kind)
        PROVE  TypeOK'
    <3>1. [kind |-> kind, id |-> i] \in Line
      BY DEF Line, Ids
    <3> QED
      BY <2>7, <3>1, WakeWaiterType DEF Answer, Feed, TypeOK, clientVars
  <2>8. ASSUME NEW kind \in Noise, NEW id \in 0..MaxRequests, SendNoise(kind, id)
        PROVE  TypeOK'
    <3>1. [kind |-> kind, id |-> id] \in Line
      BY DEF Line
    <3> QED
      BY <2>8, <3>1, WakeWaiterType DEF SendNoise, Feed, TypeOK, clientVars
  <2>9. CASE Chunk
    <3>1. alive' \in BOOLEAN /\ WakeWaiter
      BY <2>9 DEF Chunk, serverVars, TypeOK
    <3> QED
      BY <2>9, <3>1, WakeWaiterType DEF Chunk, TypeOK, clientVars, serverVars
  <2>12. CASE Exit
    <3>1. alive' \in BOOLEAN /\ WakeWaiter
      BY <2>12 DEF Exit
    <3> QED
      BY <2>12, <3>1, WakeWaiterType DEF Exit, TypeOK, clientVars
  <2>10. CASE Close
    BY <2>10 DEF Close, TypeOK, clientVars, streamVars, serverVars
  <2>11. CASE UNCHANGED vars
    BY <2>11 DEF vars, TypeOK, clientVars, streamVars, serverVars
  <2> QED
    BY <2>1, <2>2, <2>3, <2>4, <2>5, <2>6, <2>7, <2>8, <2>9, <2>10, <2>11, <2>12, <2>13
       DEF Next, Caller, RunReader, Server
<1> QED
  BY <1>1, <1>2, PTL DEF Spec

(***************************************************************************)
(* The table of pending requests, the order of a call's steps and the one  *)
(* sleeping reader: inductive together.                                    *)
(***************************************************************************)
TableInv == CallOrder /\ PendingExact /\ SleeperInOrder

LEMMA TableInit == Init => TableInv
BY DEF Init, TableInv, CallOrder, PendingExact, SleeperInOrder, Open, InProgress, Ids

\* What feeding the stream does to the tasks: the one it knows is woken.
LEMMA WakeWaiterEffect ==
    ASSUME TypeOK, WakeWaiter
    PROVE  /\ waiter' = 0
           /\ \A i \in Ids : reader'[i] = IF waiter = i THEN "woken" ELSE reader[i]
BY DEF TypeOK, WakeWaiter, Ids

LEMMA TableStep == TypeOK /\ TableInv /\ [Next]_vars => TableInv'
<1> SUFFICES ASSUME TypeOK, TableInv, [Next]_vars PROVE TableInv'
  OBVIOUS
<1>1. ASSUME NEW i \in Ids, StartCall(i) PROVE TableInv'
  <2>1. CallOrder' /\ PendingExact'
    BY <1>1 DEF StartCall, TypeOK, TableInv, CallOrder, PendingExact, Open, InProgress,
                Ids, streamVars
  <2>2. SleeperInOrder'
    BY <1>1 DEF StartCall, TableInv, SleeperInOrder, streamVars
  <2> QED
    BY <2>1, <2>2 DEF TableInv
<1>2. ASSUME NEW i \in Ids, Drained(i) PROVE TableInv'
  <2>1. CallOrder' /\ PendingExact'
    BY <1>2 DEF Drained, TypeOK, TableInv, CallOrder, PendingExact, Open, InProgress
  <2>2. SleeperInOrder'
    BY <1>2 DEF Drained, TypeOK, TableInv, CallOrder, SleeperInOrder, serverVars, Ids
  <2> QED
    BY <2>1, <2>2 DEF TableInv
<1>3. ASSUME NEW i \in Ids, SendFails(i) \/ Complete(i) \/ Timeout(i) PROVE TableInv'
  <2>1. CallOrder' /\ PendingExact'
    BY <1>3 DEF SendFails, Complete, Timeout, EndCall, TypeOK, TableInv, CallOrder,
                PendingExact, Open, InProgress, streamVars
  <2>2. SleeperInOrder'
    BY <1>3 DEF SendFails, Complete, Timeout, TableInv, SleeperInOrder, streamVars, serverVars
  <2> QED
    BY <2>1, <2>2 DEF TableInv
<1>4. ASSUME NEW i \in Ids, RunReader(i) PROVE TableInv'
  <2>1. CallOrder' /\ PendingExact'
    BY <1>4 DEF RunReader, ReadLine, ReadFails, ReadBlocks, Running, TypeOK, TableInv,
                CallOrder, PendingExact, Open, clientVars
  <2>2. CASE ReadLine(i) \/ ReadFails(i)
    <3>1. SleeperInOrder'
      BY <2>2 DEF ReadLine, ReadFails, Running, Slot, TypeOK, TableInv, SleeperInOrder, Ids,
                  serverVars
    <3> QED
      BY <2>1, <3>1 DEF TableInv
  <2>3. CASE ReadBlocks(i)
    <3>1. SleeperInOrder'
      BY <2>3 DEF ReadBlocks, TypeOK, TableInv, SleeperInOrder, Ids, serverVars
    <3> QED
      BY <2>1, <3>1 DEF TableInv
  <2> QED
    BY <1>4, <2>2, <2>3 DEF RunReader
<1>5. ASSUME WakeWaiter, UNCHANGED clientVars PROVE TableInv'
  <2>1. \A i \in Ids : reader[i] = "none" => waiter # i
    BY DEF TableInv, SleeperInOrder, Ids
  <2>2. CallOrder' /\ PendingExact'
    BY <1>5, <2>1, WakeWaiterEffect
       DEF TypeOK, TableInv, CallOrder, PendingExact, Open, clientVars
  <2>3. SleeperInOrder'
    BY <1>5, WakeWaiterEffect DEF SleeperInOrder
  <2> QED
    BY <2>2, <2>3 DEF TableInv
<1>8. ASSUME NEW i \in Ids, Collect(i) PROVE TableInv'
  <2>1. CallOrder' /\ PendingExact'
    BY <1>8 DEF Collect, TypeOK, TableInv, CallOrder, PendingExact, Open, clientVars
  <2>2. SleeperInOrder'
    BY <1>8 DEF Collect, SleeperInOrder
  <2> QED
    BY <2>1, <2>2 DEF TableInv
<1>6. CASE Server
  BY <1>5, <1>6 DEF Server, Answer, SendNoise, Chunk, Exit, Feed
<1>7. CASE Close \/ UNCHANGED vars
  BY <1>7 DEF Close, vars, TableInv, CallOrder, PendingExact, SleeperInOrder, Open,
              clientVars, streamVars, serverVars
<1> QED
  BY <1>1, <1>2, <1>3, <1>4, <1>6, <1>7, <1>8 DEF Next, Caller

LEMMA TableCorrect == Spec => []TableInv
BY TypeCorrect, TableInit, TableStep, PTL DEF Spec

\* _pending_requests holds exactly the calls in progress, whatever happens to
\* the calls and to the stream.
THEOREM PendingTableCorrect == Spec => []PendingExact
<1>1. TableInv => PendingExact
  BY DEF TableInv
<1> QED
  BY <1>1, TableCorrect, PTL

\* The sleeper the stream knows of does sleep, and not while there is a line or an
\* EOF to be read; for any number of overlapping calls.
THEOREM SleeperCorrect == Spec => []SleeperInOrder
<1>1. TableInv => SleeperInOrder
  BY DEF TableInv
<1> QED
  BY <1>1, TableCorrect, PTL

(***************************************************************************)
(* Where results come from.                                                *)
(***************************************************************************)
LEMMA ProvenanceInit == Init => Provenance
BY DEF Init, Provenance, Ids

\* Provenance survives a line fed to the stream that carries no id of the
\* client's, or that answers a request the server received.
LEMMA ProvenanceFeed ==
    ASSUME TypeOK, Provenance, NEW line \in Line, Feed(line), UNCHANGED clientVars,
           answered \subseteq answered', answered' \subseteq written', written' = written,
           line.id \in Ids => line.kind \in {"result", "error"} /\ line.id \in answered'
    PROVE  Provenance'
<1>1. \A n \in 1..Len(stdout') :
          \/ n \in 1..Len(stdout) /\ stdout'[n] = stdout[n]
          \/ stdout'[n] = line
  BY DEF Feed, TypeOK
<1>2. \A n \in 1..Len(stdout') :
          stdout'[n].id \in Ids =>
              stdout'[n].kind \in {"result", "error"} /\ stdout'[n].id \in answered'
  BY <1>1 DEF Provenance
<1> QED
  BY <1>2 DEF Provenance, clientVars

LEMMA ProvenanceStep ==
    "request" \notin Noise /\ TypeOK /\ TableInv /\ Provenance /\ [Next]_vars
        => Provenance'
<1> SUFFICES ASSUME "request" \notin Noise, TypeOK, TableInv, Provenance, [Next]_vars
             PROVE  Provenance'
  OBVIOUS
<1>1. ASSUME NEW i \in Ids, StartCall(i) PROVE Provenance'
  BY <1>1 DEF StartCall, TypeOK, Provenance, streamVars, Ids
<1>2. ASSUME NEW i \in Ids, Drained(i) \/ SendFails(i) \/ Complete(i) \/ Timeout(i)
      PROVE  Provenance'
  BY <1>2 DEF Drained, SendFails, Complete, Timeout, TypeOK, Provenance, streamVars, serverVars
<1>3. ASSUME NEW i \in Ids, ReadLine(i) PROVE Provenance'
  <2> DEFINE line == Head(stdout)
  <2>1. line = stdout[1] /\ 1 \in 1..Len(stdout)
    BY <1>3 DEF ReadLine, TypeOK
  <2>2. \A j \in Ids : future'[j] \in {"result", "error"} => j \in answered
    <3>1. CASE FailPending
      BY <3>1 DEF FailPending, Provenance, TypeOK
    <3>2. CASE Dispatch(line)
      BY <3>2, <2>1 DEF Dispatch, Provenance, TypeOK
    <3> QED
      BY <1>3, <3>1, <3>2 DEF ReadLine
  <2>3. \A n \in 1..Len(stdout') : stdout'[n] = stdout[n + 1] /\ n + 1 \in 1..Len(stdout)
    BY <1>3 DEF ReadLine, TypeOK
  <2> QED
    BY <1>3, <2>2, <2>3 DEF ReadLine, Provenance, serverVars
<1>4. ASSUME NEW i \in Ids, ReadFails(i) \/ ReadBlocks(i) \/ Collect(i) PROVE Provenance'
  BY <1>4 DEF ReadFails, ReadBlocks, Collect, FailPending, TypeOK, Provenance, clientVars, serverVars
<1>5. ASSUME NEW i \in Ids, NEW kind \in {"result", "error"}, Answer(i, kind)
      PROVE  Provenance'
  <2>1. [kind |-> kind, id |-> i] \in Line
    BY DEF Line, Ids
  <2> QED
    BY <1>5, <2>1, ProvenanceFeed DEF Answer, Provenance
<1>6. ASSUME NEW kind \in Noise, NEW id \in 0..MaxRequests, SendNoise(kind, id)
      PROVE  Provenance'
  <2>1. [kind |-> kind, id |-> id] \in Line /\ id \notin Ids
    BY <1>6 DEF SendNoise, Line, Ids
  <2> QED
    BY <1>6, <2>1, ProvenanceFeed DEF SendNoise, Provenance
<1>7. CASE Chunk \/ Exit \/ Close \/ UNCHANGED vars
  BY <1>7 DEF Chunk, Exit, Close, vars, Provenance, clientVars, streamVars, serverVars
<1> QED
  BY <1>1, <1>2, <1>3, <1>4, <1>5, <1>6, <1>7 DEF Next, Caller, RunReader, Server

\* If the server sends no requests of its own, the stdio client implements the
\* abstract client of module McpRpc: each call ends once, and with an answer only
\* if the server answered that very call.
THEOREM StdioImplementsMcpRpc ==
    ASSUME "request" \notin Noise
    PROVE  Spec => ImplementsMcpRpc
<1> DEFINE Abs == [i \in Ids |-> IF call[i] \in InProgress THEN "open" ELSE call[i]]
           Inv == TypeOK /\ TableInv /\ Provenance
<1>1. Spec => []Inv
  <2>1. Init => Provenance
    BY ProvenanceInit
  <2>2. TypeOK /\ TableInv /\ Provenance /\ [Next]_vars => Provenance'
    BY ProvenanceStep
  <2> QED
    BY <2>1, <2>2, TypeCorrect, TableCorrect, PTL DEF Spec
<1>2. Init => Rpc!Init
  BY DEF Init, Rpc!Init, InProgress, Ids, Rpc!Ids
<1>3. Inv /\ [Next]_vars => [Rpc!Next]_(Rpc!vars)
  <2> SUFFICES ASSUME Inv, [Next]_vars PROVE [Rpc!Next]_(Rpc!vars)
    OBVIOUS
  <2> USE DEF InProgress, Endings, TypeOK
  <2>0. Rpc!Ids = Ids
    BY DEF Ids, Rpc!Ids
  <2>1. ASSUME NEW i \in Ids, StartCall(i) PROVE Rpc!Open(i)
    <3>1. call[i] = "none" /\ \A j \in Ids : j < i => call[j] # "none"
      BY <2>1 DEF StartCall, TableInv, CallOrder, Ids
    <3> QED
      BY <2>1, <3>1, <2>0 DEF StartCall, Rpc!Open
  <2>2. ASSUME NEW i \in Ids, Drained(i) PROVE UNCHANGED Rpc!vars
    BY <2>2 DEF Drained, Rpc!vars, serverVars
  <2>3. ASSUME NEW i \in Ids, NEW how \in Endings, call[i] \in InProgress,
               EndCall(i, how), answered' = answered,
               how \in {"result", "error"} => i \in answered
        PROVE  Rpc!End(i, how)
    BY <2>3 DEF EndCall, Rpc!End
  <2>4. ASSUME NEW i \in Ids, SendFails(i) \/ Complete(i) \/ Timeout(i)
        PROVE  \E how \in Endings : Rpc!End(i, how)
    <3>1. CASE SendFails(i)
      BY <3>1, <2>3 DEF SendFails, serverVars
    <3>2. CASE Complete(i)
      BY <3>2, <2>3 DEF Complete, serverVars, Provenance
    <3>3. CASE Timeout(i)
      BY <3>3, <2>3 DEF Timeout, serverVars
    <3> QED
      BY <2>4, <3>1, <3>2, <3>3
  <2>5. ASSUME NEW i \in Ids, RunReader(i) \/ Collect(i) PROVE UNCHANGED Rpc!vars
    BY <2>5 DEF RunReader, ReadLine, ReadFails, ReadBlocks, Collect, Rpc!vars, clientVars,
                serverVars
  <2>6. ASSUME NEW i \in Ids, NEW kind \in {"result", "error"}, Answer(i, kind)
        PROVE  Rpc!Answer(i)
    <3>1. call[i] # "none"
      BY <2>6 DEF Answer, TableInv, CallOrder, Provenance, Ids
    <3> QED
      BY <2>6, <3>1 DEF Answer, Rpc!Answer, clientVars
  <2>7. ASSUME NEW kind \in Noise, NEW id \in 0..MaxRequests, SendNoise(kind, id)
        PROVE  UNCHANGED Rpc!vars
    BY <2>7 DEF SendNoise, Rpc!vars, clientVars
  <2>8. CASE Chunk \/ Exit \/ Close \/ UNCHANGED vars
    BY <2>8 DEF Chunk, Exit, Close, vars, Rpc!vars, clientVars, serverVars
  <2>9. Endings = Rpc!Endings
    BY DEF Endings, Rpc!Endings
  <2> QED
    BY <2>0, <2>1, <2>2, <2>4, <2>5, <2>6, <2>7, <2>8, <2>9
       DEF Next, Caller, Server, Rpc!Next
<1> QED
  BY <1>1, <1>2, <1>3, PTL DEF Spec, ImplementsMcpRpc, Rpc!Spec

(***************************************************************************)
(* A sequential caller: every exception goes back to a cause.              *)
(***************************************************************************)

\* A call that timed out stays so, and causes do not go away.
LEMMA TimedOutStable ==
    ASSUME TypeOK, TableInv, [Next]_vars, NEW j \in Ids, call[j] = "timeout"
    PROVE  call'[j] = "timeout"
<1>1. ASSUME NEW k \in Ids, StartCall(k) PROVE call'[j] = "timeout"
  BY <1>1 DEF StartCall, TypeOK, TableInv, CallOrder, Ids
<1>2. ASSUME NEW k \in Ids, Drained(k) \/ SendFails(k) \/ Complete(k) \/ Timeout(k)
      PROVE  call'[j] = "timeout"
  BY <1>2 DEF Drained, SendFails, Complete, Timeout, EndCall, TypeOK
<1> QED
  BY <1>1, <1>2 DEF Next, Caller, RunReader, Server, ReadLine, ReadFails, ReadBlocks, Collect,
       Answer, SendNoise, Chunk, Exit, Close, vars, clientVars

LEMMA CauseStable ==
    ASSUME TypeOK, TableInv, [Next]_vars, NEW i \in Ids
    PROVE  /\ TimedOutBefore(i) => TimedOutBefore(i)'
           /\ TimedOutUpTo(i) => TimedOutUpTo(i)'
           /\ Cause(i) => Cause(i)'
<1>1. \A j \in Ids : call[j] = "timeout" => call'[j] = "timeout"
  BY TimedOutStable
<1>2. ~alive => ~alive'
  BY DEF Next, Caller, RunReader, Server, StartCall, Drained, SendFails, Complete, Timeout,
         ReadLine, ReadFails, ReadBlocks, Collect, Answer, SendNoise, Chunk, Exit, Close, vars,
         serverVars
<1>3. noise["garbage"] > 0 => noise'["garbage"] > 0
  <2>1. CASE UNCHANGED noise
    BY <2>1
  <2>2. ASSUME NEW kind \in Noise, noise' = [noise EXCEPT ![kind] = @ + 1]
        PROVE  noise["garbage"] > 0 => noise'["garbage"] > 0
    BY <2>2 DEF TypeOK
  <2> QED
    BY <2>1, <2>2 DEF Next, Caller, RunReader, Server, StartCall, Drained, SendFails, Complete,
         Timeout, ReadLine, ReadFails, ReadBlocks, Collect, Answer, SendNoise, Chunk, Exit,
         Close, vars, serverVars
<1> QED
  BY <1>1, <1>2, <1>3 DEF Cause, TimedOutBefore, TimedOutUpTo

\* With no call in progress the next one may start; it is then the only one.
LEMMA StartAlone ==
    ASSUME Concurrency = 1, NEW i \in Ids, StartCall(i)
    PROVE  Open = {}
<1>1. IsFiniteSet(Open)
  <2>1. IsFiniteSet(1..MaxRequests) /\ Open \subseteq 1..MaxRequests
    BY FS_Interval DEF Open, Ids
  <2> QED
    BY <2>1, FS_Subset
<1>2. Cardinality(Open) \in Nat /\ Cardinality(Open) < 1
  BY <1>1, FS_CardinalityType DEF StartCall
<1> QED
  BY <1>1, <1>2, FS_EmptySet

SeqInv == Leftovers /\ FailureHasCause

LEMMA SeqInit == Init => SeqInv
BY DEF Init, SeqInv, Leftovers, FailureHasCause, InProgress, Live, Overtaken, Ids

\* A task that is alive when another call is in progress outlived its own: a call
\* timed out before the one in progress.
LEMMA LeftoverCause ==
    ASSUME TypeOK, TableInv, Leftovers,
           NEW j \in Ids, Live(j), NEW k \in Ids, call[k] \in InProgress, j # k
    PROVE  TimedOutBefore(k)
<1>1. k = requestId /\ call[j] # "none"
  BY DEF Leftovers, TableInv, CallOrder, Live
<1>2. j < k
  BY <1>1 DEF TableInv, CallOrder, Ids, TypeOK
<1>3. call[j] \notin InProgress
  BY <1>1 DEF Leftovers
<1>4. TimedOutUpTo(j)
  BY <1>3 DEF Leftovers, Unresolved, InProgress
<1> QED
  BY <1>2, <1>4 DEF TimedOutBefore, TimedOutUpTo, Ids

\* Of two tasks alive at once, the older one outlived its call.
LEMMA TwoTasks ==
    ASSUME TypeOK, TableInv, Leftovers,
           NEW i \in Ids, Live(i), NEW j \in Ids, Live(j), i # j
    PROVE  TimedOutUpTo(i)
<1>1. call[i] # "none" /\ call[j] # "none" /\ i <= requestId /\ j <= requestId
  BY DEF TableInv, CallOrder, Live, Ids, TypeOK
<1>2. CASE i < j
  <2>1. call[i] \notin InProgress
    BY <1>1, <1>2 DEF Leftovers, Ids, TypeOK
  <2> QED
    BY <2>1 DEF Leftovers, Unresolved, InProgress
<1>3. CASE j < i
  <2>1. call[j] \notin InProgress
    BY <1>1, <1>3 DEF Leftovers, Ids, TypeOK
  <2>2. TimedOutUpTo(j)
    BY <2>1 DEF Leftovers, Unresolved, InProgress
  <2> QED
    BY <1>3, <2>2 DEF TimedOutBefore, TimedOutUpTo, Ids
<1> QED
  BY <1>2, <1>3 DEF Ids

\* A task is overtaken only where another one was alive.
LEMMA OvertakenStep ==
    ASSUME TypeOK, TableInv, Leftovers, [Next]_vars, NEW k \in Ids, Overtaken(k)'
    PROVE  TimedOutUpTo(k)
<1>1. CASE Overtaken(k)
  BY <1>1 DEF Leftovers
<1>2. ASSUME ~Overtaken(k), NEW i \in Ids, RunReader(i) \/ Collect(i)
      PROVE  TimedOutUpTo(k)
  <2>1. Live(i)
    BY <1>2 DEF RunReader, ReadLine, ReadFails, ReadBlocks, Collect, Running, Live
  <2>2. k # i
    <3>1. CASE RunReader(i)
      BY <3>1 DEF RunReader, ReadLine, ReadFails, ReadBlocks, Overtaken, TypeOK
    <3>2. CASE Collect(i)
      BY <1>2, <3>2 DEF Collect, Overtaken
    <3> QED
      BY <1>2, <3>1, <3>2
  <2>3. reader'[k] = reader[k]
    BY <1>2, <2>2 DEF RunReader, ReadLine, ReadFails, ReadBlocks, Collect, TypeOK
  <2>4. Live(k)
    BY <1>2, <2>3 DEF Overtaken, Live
  <2> QED
    BY <2>1, <2>2, <2>4, TwoTasks
<1>3. ASSUME WakeWaiter PROVE Overtaken(k)
  BY <1>3, WakeWaiterEffect DEF Overtaken
<1>4. CASE Server
  BY <1>1, <1>3, <1>4 DEF Server, Answer, SendNoise, Chunk, Exit, Feed
<1>5. ASSUME NEW i \in Ids, Caller(i) PROVE Overtaken(k)
  BY <1>5 DEF Caller, StartCall, Drained, SendFails, Complete, Timeout, Overtaken, streamVars,
              TypeOK
<1>6. CASE Close \/ UNCHANGED vars
  BY <1>1, <1>6 DEF Close, vars, streamVars, Overtaken
<1> QED
  BY <1>1, <1>2, <1>4, <1>5, <1>6 DEF Next

LEMMA SeqStep ==
    Concurrency = 1 /\ TypeOK /\ TableInv /\ SeqInv /\ [Next]_vars => SeqInv'
<1> SUFFICES ASSUME Concurrency = 1, TypeOK, TableInv, SeqInv, [Next]_vars PROVE SeqInv'
  OBVIOUS
<1>0. \A i \in Ids : /\ TimedOutBefore(i) => TimedOutBefore(i)'
                     /\ TimedOutUpTo(i) => TimedOutUpTo(i)'
                     /\ Cause(i) => Cause(i)'
  BY CauseStable
<1>15. \A i \in Ids : Overtaken(i)' => TimedOutUpTo(i)'
  BY <1>0, OvertakenStep DEF SeqInv
<1>1. ASSUME NEW i \in Ids, StartCall(i) PROVE SeqInv'
  <2>1. \A j \in Ids : call[j] \notin InProgress
    BY <1>1, StartAlone DEF Open
  <2>2. \A j \in Ids : j # i => call'[j] = call[j] /\ future'[j] = future[j]
    BY <1>1 DEF StartCall, TypeOK
  <2>3. call'[i] = "sending" /\ future'[i] = "unset" /\ reader' = reader /\ reader[i] = "none"
        /\ requestId' = i /\ stdout' = stdout /\ noise' = noise
    BY <1>1 DEF StartCall, TypeOK, streamVars, TableInv, CallOrder, Ids
  <2>4. Leftovers'
    BY <1>0, <1>15, <2>1, <2>2, <2>3 DEF SeqInv, Leftovers, Live, Unresolved, InProgress
  <2>5. FailureHasCause'
    BY <1>0, <2>2, <2>3 DEF SeqInv, FailureHasCause, Cause
  <2> QED
    BY <2>4, <2>5 DEF SeqInv
<1>2. ASSUME NEW i \in Ids, Drained(i) PROVE SeqInv'
  <2>1. Leftovers'
    <3>1. \A j \in Ids : Live(j)' /\ ~Unresolved(j)' => TimedOutUpTo(j)'
      BY <1>0, <1>2 DEF Drained, SeqInv, Leftovers, Live, Unresolved, InProgress, TypeOK,
                        TimedOutUpTo
    <3> QED
      BY <1>0, <1>15, <1>2, <3>1 DEF Drained, SeqInv, Leftovers, InProgress, TypeOK, serverVars
  <2>2. FailureHasCause'
    BY <1>0, <1>2 DEF Drained, SeqInv, FailureHasCause, Cause, TypeOK
  <2> QED
    BY <2>1, <2>2 DEF SeqInv
<1>3. ASSUME NEW i \in Ids, NEW how \in Endings, call[i] \in InProgress, EndCall(i, how),
             \A j \in Ids : j # i => future'[j] = future[j],
             UNCHANGED <<requestId, stdout, reader, noise>>,
             how # "timeout" => call[i] = "sending" \/ future[i] # "unset",
             how = "failed" => Cause(i)
      PROVE  SeqInv'
  <2>1. \A j \in Ids : j # i => call'[j] = call[j]
    BY <1>3 DEF EndCall, TypeOK
  <2>2. call'[i] = how
    BY <1>3 DEF EndCall, TypeOK
  <2>3. Live(i) => how = "timeout" \/ TimedOutUpTo(i)
    BY <1>3 DEF SeqInv, Leftovers, Live, Unresolved, TableInv, CallOrder, InProgress
  <2>4. Leftovers'
    <3>1. \A j \in Ids : Live(j)' /\ ~Unresolved(j)' => TimedOutUpTo(j)'
      BY <1>0, <1>3, <2>1, <2>2, <2>3
         DEF SeqInv, Leftovers, Live, Unresolved, InProgress, Endings, TimedOutUpTo
    <3> QED
      BY <1>0, <1>15, <1>3, <2>1, <2>2, <3>1 DEF SeqInv, Leftovers, InProgress, Endings
  <2>5. FailureHasCause'
    BY <1>0, <1>3, <2>1, <2>2 DEF SeqInv, FailureHasCause, Cause
  <2> QED
    BY <2>4, <2>5 DEF SeqInv
<1>4. ASSUME NEW i \in Ids, SendFails(i) \/ Complete(i) \/ Timeout(i) PROVE SeqInv'
  <2>1. CASE SendFails(i)
    BY <2>1, <1>3 DEF SendFails, InProgress, Endings, streamVars, serverVars, Cause
  <2>2. CASE Complete(i)
    BY <2>2, <1>3 DEF Complete, InProgress, Endings, streamVars, serverVars, SeqInv, Leftovers
  <2>3. CASE Timeout(i)
    BY <2>3, <1>3 DEF Timeout, InProgress, Endings, streamVars, serverVars, TypeOK
  <2> QED
    BY <1>4, <2>1, <2>2, <2>3
\* The tasks: whoever fails the pending requests has a cause to.
<1>5. ASSUME NEW i \in Ids, Running(i), reader' = [reader EXCEPT ![i] = "done"],
             UNCHANGED <<requestId, call, noise>>,
             \A n \in 1..Len(stdout') : stdout'[n].kind = "garbage" => noise["garbage"] > 0,
             \A k \in Ids : call[k] \in InProgress /\ future'[k] # future[k]
                             => (k # i => TimedOutBefore(k)) /\ (future'[k] = "failed" => Cause(k))
      PROVE  SeqInv'
  <2>1. FailureHasCause'
    BY <1>0, <1>5 DEF SeqInv, FailureHasCause, Cause
  <2>2. \A j \in Ids : Live(j)' => Live(j) /\ j # i
    BY <1>5 DEF Live, TypeOK
  <2>3. call[i] \notin {"none", "sending"}
    BY <1>5 DEF TableInv, CallOrder, Running
  <2>5. ASSUME NEW k \in Ids, Live(k)', ~Unresolved(k)' PROVE TimedOutUpTo(k)'
    <3>1. Live(k) /\ k # i /\ call'[k] = call[k]
      BY <1>5, <2>2, <2>5
    <3>2. CASE Unresolved(k)
      <4>1. call[k] \in InProgress /\ future'[k] # future[k]
        BY <2>5, <3>1, <3>2 DEF Unresolved, InProgress
      <4> QED
        BY <1>0, <1>5, <3>1, <4>1 DEF TimedOutUpTo
    <3>3. CASE ~Unresolved(k)
      BY <1>0, <3>1, <3>3 DEF SeqInv, Leftovers
    <3> QED
      BY <3>2, <3>3
  <2>6. ASSUME NEW k \in Ids, call'[k] = "sending", future'[k] # "unset"
        PROVE  TimedOutBefore(k)'
    BY <1>0, <1>5, <2>3, <2>6 DEF SeqInv, Leftovers, InProgress
  <2>8. ASSUME NEW k \in Ids, call'[k] \in InProgress, future'[k] = "failed"
        PROVE  Cause(k)'
    BY <1>0, <1>5, <2>8 DEF SeqInv, Leftovers
  <2>7. Leftovers'
    BY <1>15, <1>5, <2>5, <2>6, <2>8 DEF SeqInv, Leftovers
  <2> QED
    BY <2>1, <2>7 DEF SeqInv
<1>6. ASSUME NEW i \in Ids, ReadLine(i) PROVE SeqInv'
  <2>1. \A n \in 1..Len(stdout') : stdout'[n] = stdout[n + 1] /\ n + 1 \in 1..Len(stdout)
    BY <1>6 DEF ReadLine, TypeOK
  <2>2. Head(stdout) = stdout[1] /\ 1 \in 1..Len(stdout)
    BY <1>6 DEF ReadLine, TypeOK
  <2>3. \A n \in 1..Len(stdout') : stdout'[n].kind = "garbage" => noise["garbage"] > 0
    BY <2>1 DEF SeqInv, Leftovers
  <2>4. ASSUME NEW k \in Ids, call[k] \in InProgress, k # i
        PROVE  TimedOutBefore(k)
    BY <1>6, <2>4, LeftoverCause DEF ReadLine, Running, Live, SeqInv
  <2>5. ASSUME NEW k \in Ids, call[k] \in InProgress, future'[k] # future[k],
               future'[k] = "failed"
        PROVE  Cause(k)
    <3>1. CASE k # i
      BY <2>4, <2>5, <3>1 DEF Cause
    <3>2. CASE Head(stdout).kind = "garbage"
      BY <2>2, <3>2 DEF SeqInv, Leftovers, Cause
    <3>3. CASE k = i /\ Head(stdout).kind # "garbage"
      BY <1>6, <2>5, <3>3 DEF ReadLine, Dispatch, TypeOK
    <3> QED
      BY <3>1, <3>2, <3>3
  <2> QED
    BY <1>5, <1>6, <2>3, <2>4, <2>5 DEF ReadLine, serverVars
<1>7. ASSUME NEW i \in Ids, ReadFails(i) PROVE SeqInv'
  <2>1. ASSUME NEW k \in Ids, call[k] \in InProgress, k # i PROVE TimedOutBefore(k)
    BY <1>7, <2>1, LeftoverCause DEF ReadFails, Running, Live, SeqInv
  <2>2. ASSUME NEW k \in Ids, call[k] \in InProgress PROVE Cause(k)
    <3>1. CASE ~alive
      BY <3>1 DEF Cause
    <3>2. CASE waiter # 0
      <4>1. waiter \in Ids /\ Live(waiter) /\ waiter # i
        BY <1>7, <3>2 DEF ReadFails, Running, TableInv, SleeperInOrder, Live, TypeOK, Ids
      <4>2. CASE k # i
        BY <2>1, <2>2, <4>2 DEF Cause
      <4>3. CASE k # waiter
        BY <2>2, <4>1, <4>3, LeftoverCause DEF SeqInv, Cause
      <4> QED
        BY <4>1, <4>2, <4>3
    <3> QED
      BY <1>7, <3>1, <3>2 DEF ReadFails, Slot
  <2> QED
    BY <1>5, <1>7, <2>1, <2>2 DEF ReadFails, SeqInv, Leftovers, serverVars
\* A task that goes to sleep or is destroyed brings no other to life.
<1>8. ASSUME NEW i \in Ids, ReadBlocks(i) \/ Collect(i) PROVE SeqInv'
  <2>1. \A j \in Ids : Live(j)' => Live(j)
    BY <1>8 DEF ReadBlocks, Collect, Running, Live, TypeOK
  <2>2. UNCHANGED <<clientVars, stdout, noise>>
    BY <1>8 DEF ReadBlocks, Collect, serverVars
  <2>3. Leftovers'
    BY <1>0, <1>15, <2>1, <2>2 DEF SeqInv, Leftovers, Unresolved, clientVars
  <2>4. FailureHasCause'
    BY <1>0, <2>2 DEF SeqInv, FailureHasCause, Cause, clientVars
  <2> QED
    BY <2>3, <2>4 DEF SeqInv
<1>9. ASSUME WakeWaiter, UNCHANGED clientVars,
             \A n \in 1..Len(stdout') : stdout'[n].kind = "garbage" => noise'["garbage"] > 0
      PROVE  SeqInv'
  <2>1. \A j \in Ids : Live(j)' => Live(j)
    BY <1>9, WakeWaiterEffect DEF TableInv, SleeperInOrder, Live, Ids
  <2>2. Leftovers'
    BY <1>0, <1>15, <1>9, <2>1 DEF SeqInv, Leftovers, Unresolved, clientVars
  <2>3. FailureHasCause'
    BY <1>0, <1>9 DEF SeqInv, FailureHasCause, Cause, clientVars
  <2> QED
    BY <2>2, <2>3 DEF SeqInv
<1>10. ASSUME NEW line \in Line, Feed(line), UNCHANGED clientVars,
              line.kind = "garbage" => noise'["garbage"] > 0,
              noise["garbage"] > 0 => noise'["garbage"] > 0
       PROVE  SeqInv'
  <2>1. \A n \in 1..Len(stdout') :
            \/ n \in 1..Len(stdout) /\ stdout'[n] = stdout[n]
            \/ stdout'[n] = line
    BY <1>10 DEF Feed, TypeOK
  <2> QED
    BY <1>9, <1>10, <2>1 DEF Feed, SeqInv, Leftovers
<1>11. ASSUME NEW i \in Ids, NEW kind \in {"result", "error"}, Answer(i, kind) PROVE SeqInv'
  <2>1. [kind |-> kind, id |-> i] \in Line
    BY DEF Line, Ids
  <2> QED
    BY <1>10, <1>11, <2>1 DEF Answer
<1>12. ASSUME NEW kind \in Noise, NEW id \in 0..MaxRequests, SendNoise(kind, id) PROVE SeqInv'
  <2>1. [kind |-> kind, id |-> id] \in Line
    BY DEF Line
  <2>2. /\ kind = "garbage" => noise'["garbage"] > 0
        /\ noise["garbage"] > 0 => noise'["garbage"] > 0
    BY <1>12 DEF SendNoise, TypeOK
  <2> QED
    BY <1>10, <1>12, <2>1, <2>2 DEF SendNoise
<1>13. CASE Chunk \/ Exit
  BY <1>9, <1>13 DEF Chunk, Exit, SeqInv, Leftovers, serverVars
<1>14. CASE Close \/ UNCHANGED vars
  BY <1>0, <1>14, <1>15 DEF Close, vars, SeqInv, Leftovers, FailureHasCause, Live, Unresolved, Cause,
                     clientVars, streamVars, serverVars
<1> QED
  BY <1>1, <1>2, <1>4, <1>6, <1>7, <1>8, <1>11, <1>12, <1>13, <1>14
     DEF Next, Caller, RunReader, Server

LEMMA SeqCorrect ==
    ASSUME Concurrency = 1
    PROVE  Spec => []SeqInv
<1>1. Init => SeqInv
  BY SeqInit
<1>2. TypeOK /\ TableInv /\ SeqInv /\ [Next]_vars => SeqInv'
  BY SeqStep
<1> QED
  BY <1>1, <1>2, TypeCorrect, TableCorrect, PTL DEF Spec

\* A caller that makes its calls one after the other gets an exception other
\* than a server error or a timeout only if the server ended, sent a line that
\* cannot be read, or let an earlier call time out.
THEOREM SequentialFailuresHaveCauses ==
    ASSUME Concurrency = 1
    PROVE  Spec => []FailureHasCause
<1>1. SeqInv => FailureHasCause
  BY DEF SeqInv
<1> QED
  BY <1>1, SeqCorrect, PTL

\* With one call at a time no task sleeps in readline while lines and EOF pass it
\* by, unless the call that spawned it, or one before, timed out.
THEOREM WakeupCorrect ==
    ASSUME Concurrency = 1
    PROVE  Spec => []NoLostWakeup
<1>1. TableInv /\ SeqInv => NoLostWakeup
  BY DEF TableInv, SeqInv, Leftovers, NoLostWakeup
<1> QED
  BY <1>1, TableCorrect, SeqCorrect, PTL

(***************************************************************************)
(* A waiting call is served, whatever overlaps: the tasks keep step with   *)
(* the answers until something disturbs them.                              *)
(***************************************************************************)
UnbornQuiet == \A i \in Ids : call[i] = "none" => future[i] = "none"
ServeInv == UnbornQuiet /\ (Disturbed \/ InStep)

LEMMA ServeInit == Init => ServeInv
<1> SUFFICES ASSUME Init PROVE ServeInv
  OBVIOUS
<1>1. Resolved = {} /\ Spent = {}
  BY DEF Init, Resolved, Spent
<1>2. InStep
  BY <1>1 DEF Init, InStep
<1> QED
  BY <1>2 DEF Init, UnbornQuiet, ServeInv

\* How an action changes a call and its Future.
LEMMA UnbornQuietStep ==
    ASSUME TypeOK, TableInv, UnbornQuiet, [Next]_vars
    PROVE  UnbornQuiet'
<1> USE DEF TypeOK, UnbornQuiet
<1>1. \A j \in pending : call[j] # "none"
  BY DEF TableInv, PendingExact, Open, InProgress
<1>2. ASSUME NEW i \in Ids, StartCall(i) PROVE UnbornQuiet'
  BY <1>2 DEF StartCall
<1>3. ASSUME NEW i \in Ids, Drained(i) \/ SendFails(i) \/ Complete(i) \/ Timeout(i)
      PROVE  UnbornQuiet'
  BY <1>3 DEF Drained, SendFails, Complete, Timeout, EndCall
<1>4. ASSUME NEW i \in Ids, RunReader(i) PROVE UnbornQuiet'
  BY <1>1, <1>4 DEF RunReader, ReadLine, ReadFails, ReadBlocks, FailPending, Dispatch, clientVars
<1>5. CASE (\E i \in Ids : Collect(i)) \/ Server \/ Close \/ UNCHANGED vars
  BY <1>5 DEF Collect, Server, Answer, SendNoise, Chunk, Exit, Close, vars, clientVars
<1> QED
  BY <1>2, <1>3, <1>4, <1>5 DEF Next, Caller

\* A task that was overtaken stays so.
LEMMA OvertakenStable ==
    ASSUME TypeOK, TableInv, [Next]_vars, NEW k \in Ids, Overtaken(k)
    PROVE  Overtaken(k)'
<1>1. ASSUME NEW i \in Ids, RunReader(i) \/ Collect(i) PROVE Overtaken(k)'
  <2>1. CASE Collect(i)
    BY <2>1 DEF Collect, Overtaken, TypeOK, Ids
  <2>2. CASE RunReader(i)
    <3>1. k # i /\ waiter' \in {0, i, waiter}
      BY <2>2 DEF RunReader, ReadLine, ReadFails, ReadBlocks, Running, Slot, Overtaken
    <3> QED
      BY <2>2, <3>1 DEF RunReader, ReadLine, ReadFails, ReadBlocks, Overtaken, TypeOK, Ids
  <2> QED
    BY <1>1, <2>1, <2>2
<1>2. ASSUME WakeWaiter PROVE Overtaken(k)'
  <2>1. waiter # k
    BY DEF TableInv, SleeperInOrder, Overtaken, Ids
  <2> QED
    BY <1>2, <2>1, WakeWaiterEffect DEF Overtaken, Ids
<1>3. CASE Server
  BY <1>2, <1>3 DEF Server, Answer, SendNoise, Chunk, Exit, Feed
<1>4. ASSUME NEW i \in Ids, Caller(i) PROVE Overtaken(k)'
  <2>1. CASE Drained(i)
    <3>1. k # i
      BY <2>1 DEF Drained, TableInv, CallOrder, Overtaken
    <3> QED
      BY <2>1, <3>1 DEF Drained, Overtaken, TypeOK
  <2>2. CASE UNCHANGED <<reader, waiter>>
    BY <2>2 DEF Overtaken
  <2> QED
    BY <1>4, <2>1, <2>2 DEF Caller, StartCall, SendFails, Complete, Timeout, streamVars
<1>5. CASE Close \/ UNCHANGED vars
  BY <1>5 DEF Close, vars, streamVars, Overtaken
<1> QED
  BY <1>1, <1>3, <1>4, <1>5 DEF Next

\* What has disturbed the tasks stays on record.
LEMMA DisturbedStable ==
    ASSUME TypeOK, TableInv, UnbornQuiet, [Next]_vars, Disturbed
    PROVE  Disturbed'
<1>1. CASE \E j \in Ids : Overtaken(j)
  BY <1>1, OvertakenStable DEF Disturbed
<1>2. ASSUME NEW k \in NoiseKinds, noise[k] > 0 PROVE noise'[k] > 0
  <2>1. CASE UNCHANGED noise
    BY <1>2, <2>1
  <2>2. ASSUME NEW kind \in Noise, noise' = [noise EXCEPT ![kind] = @ + 1] PROVE noise'[k] > 0
    BY <1>2, <2>2 DEF TypeOK
  <2> QED
    BY <2>1, <2>2 DEF Next, Caller, RunReader, Server, StartCall, Drained, SendFails, Complete,
         Timeout, ReadLine, ReadFails, ReadBlocks, Collect, Answer, SendNoise, Chunk, Exit,
         Close, vars, serverVars
<1>3. ASSUME NEW j \in Ids, call[j] \in {"timeout", "failed"} \/ future[j] = "failed"
      PROVE  call'[j] \in {"timeout", "failed"} \/ future'[j] = "failed"
  <2> USE DEF TypeOK
  <2>1. ASSUME NEW i \in Ids, StartCall(i) PROVE j # i
    BY <1>3, <2>1 DEF StartCall, TableInv, CallOrder, UnbornQuiet, Ids
  <2>2. ASSUME NEW i \in Ids, Caller(i)
        PROVE  call'[j] \in {"timeout", "failed"} \/ future'[j] = "failed"
    BY <1>3, <2>1, <2>2 DEF Caller, StartCall, Drained, SendFails, Complete, Timeout, EndCall
  <2>3. ASSUME NEW i \in Ids, RunReader(i)
        PROVE  call'[j] \in {"timeout", "failed"} \/ future'[j] = "failed"
    BY <1>3, <2>3 DEF RunReader, ReadLine, ReadFails, ReadBlocks, FailPending, Dispatch,
                clientVars
  <2>4. CASE (\E i \in Ids : Collect(i)) \/ Server \/ Close \/ UNCHANGED vars
    BY <1>3, <2>4 DEF Collect, Server, Answer, SendNoise, Chunk, Exit, Close, vars, clientVars
  <2> QED
    BY <2>2, <2>3, <2>4 DEF Next
<1> QED
  BY <1>1, <1>2, <1>3 DEF Disturbed

\* InStep without its counting clause, which only ReadLine touches.
Tidy ==
    /\ answered \subseteq written /\ written \subseteq 1..requestId
    /\ Resolved \subseteq answered
    /\ \A n \in 1..Len(stdout) :
           /\ stdout[n].kind \in {"result", "error"}
           /\ stdout[n].id \in answered /\ future[stdout[n].id] = "unset"
    /\ \A m, n \in 1..Len(stdout) : stdout[m].id = stdout[n].id => m = n
    /\ \A i \in Ids :
           /\ future[i] \in {"none", "unset", "result", "error"}
           /\ future[i] = "none" <=> call[i] = "none"
           /\ call[i] \in {"result", "error"} => future[i] = call[i]
           /\ reader[i] = "none" <=> call[i] \in {"none", "sending"}

\* Everything but the reading of a line leaves both counts as they are.
LEMMA SameCounts ==
    ASSUME InStep, Tidy', Resolved' = Resolved, Spent' = Spent
    PROVE  InStep'
BY DEF InStep, Tidy

LEMMA CallerInStep ==
    ASSUME TypeOK, TableInv, InStep, NEW i \in Ids, Caller(i), ~Disturbed'
    PROVE  InStep'
<1> USE DEF TypeOK
<1>1. CASE StartCall(i)
  <2>1. call[i] = "none" /\ future[i] = "none" /\ reader[i] = "none"
    BY <1>1 DEF StartCall, TableInv, CallOrder, InStep, Ids
  <2>2. Resolved' = Resolved /\ Spent' = Spent
    BY <1>1, <2>1 DEF StartCall, Resolved, Spent, streamVars
  <2>3. answered' \subseteq written' /\ written' \subseteq 1..requestId'
    BY <1>1 DEF StartCall, InStep, Ids
  <2>4. \A n \in 1..Len(stdout) : stdout[n].id # i
    BY <2>1 DEF InStep
  <2>5. Tidy'
    BY <1>1, <2>1, <2>2, <2>3, <2>4 DEF StartCall, InStep, Tidy, streamVars, Ids
  <2> QED
    BY <2>2, <2>5, SameCounts
<1>2. CASE Drained(i)
  <2>1. Resolved' = Resolved /\ Spent' = Spent
    BY <1>2 DEF Drained, Resolved, Spent, InStep
  <2>2. Tidy'
    BY <1>2, <2>1 DEF Drained, InStep, Tidy, serverVars
  <2> QED
    BY <2>1, <2>2, SameCounts
<1>3. CASE SendFails(i) \/ Timeout(i)
  <2>1. call'[i] \in {"failed", "timeout"}
    BY <1>3 DEF SendFails, Timeout, EndCall
  <2> QED
    BY <2>1 DEF Disturbed
<1>4. CASE Complete(i)
  <2>1. Resolved' = Resolved /\ Spent' = Spent
    BY <1>4 DEF Complete, Resolved, Spent, streamVars
  <2>2. Tidy'
    BY <1>4, <2>1 DEF Complete, EndCall, InStep, Tidy, serverVars, streamVars
  <2> QED
    BY <2>1, <2>2, SameCounts
<1> QED
  BY <1>1, <1>2, <1>3, <1>4 DEF Caller

\* A line is read: one more answer is there, and one more task is done.
LEMMA ReadLineInStep ==
    ASSUME TypeOK, TableInv, InStep, NEW i \in Ids, ReadLine(i), ~Disturbed'
    PROVE  InStep'
<1> USE DEF TypeOK
<1> DEFINE line == Head(stdout)
<1>1. line = stdout[1] /\ 1 \in 1..Len(stdout)
  BY DEF ReadLine
<1>2. line.kind \in {"result", "error"} /\ line.id \in answered /\ future[line.id] = "unset"
  BY <1>1 DEF InStep
<1>3. line.id \in Ids /\ call[line.id] # "none"
  BY <1>2 DEF InStep
<1>4. line.id \in pending
  <2>1. call[line.id] \notin {"result", "error"}
    BY <1>2, <1>3 DEF InStep
  <2>2. call[line.id] \notin {"timeout", "failed"}
    BY <1>3 DEF Disturbed, ReadLine
  <2> QED
    BY <1>3, <2>1, <2>2 DEF TableInv, PendingExact, Open, Endings
<1>5. future' = [future EXCEPT ![line.id] = IF line.kind = "error" THEN "error" ELSE "result"]
  BY <1>2, <1>4 DEF ReadLine, Dispatch
<1>6. Resolved' = Resolved \cup {line.id} /\ line.id \notin Resolved
  BY <1>2, <1>3, <1>5 DEF Resolved
<1>7. Spent' = Spent \cup {i} /\ i \notin Spent
  BY DEF ReadLine, Running, Spent
<1>8. Cardinality(Resolved') = Cardinality(Spent')
  <2>1. IsFiniteSet(Ids) /\ Resolved \in SUBSET Ids /\ Spent \in SUBSET Ids
    <3>1. IsFiniteSet(Ids)
      BY FS_Interval DEF Ids
    <3> QED
      BY <3>1 DEF Resolved, Spent
  <2>2. IsFiniteSet(Resolved) /\ IsFiniteSet(Spent)
    BY <2>1, FS_Subset
  <2>3. Cardinality(Resolved') = Cardinality(Resolved) + 1
    BY <1>6, <2>2, FS_AddElement
  <2>4. Cardinality(Spent') = Cardinality(Spent) + 1
    BY <1>7, <2>2, FS_AddElement
  <2> QED
    BY <2>3, <2>4 DEF InStep
<1>9. \A n \in 1..Len(stdout') : stdout'[n] = stdout[n + 1] /\ n + 1 \in 1..Len(stdout)
  BY DEF ReadLine
<1>10. \A n \in 1..Len(stdout') : stdout'[n].id # line.id
  BY <1>1, <1>9 DEF InStep
<1>11. \A m, n \in 1..Len(stdout') : stdout'[m].id = stdout'[n].id => m = n
  <2> SUFFICES ASSUME NEW m \in 1..Len(stdout'), NEW n \in 1..Len(stdout'),
                      stdout'[m].id = stdout'[n].id
               PROVE  m = n
    OBVIOUS
  <2>1. stdout[m + 1].id = stdout[n + 1].id
        /\ m + 1 \in 1..Len(stdout) /\ n + 1 \in 1..Len(stdout)
    BY <1>9
  <2>2. m + 1 = n + 1
    <3>1. \A a, b \in 1..Len(stdout) : stdout[a].id = stdout[b].id => a = b
      BY DEF InStep
    <3> QED
      BY <2>1, <3>1
  <2> QED
    BY <2>2
<1>12. \A n \in 1..Len(stdout') :
          /\ stdout'[n].kind \in {"result", "error"}
          /\ stdout'[n].id \in answered /\ future'[stdout'[n].id] = "unset"
  BY <1>5, <1>9, <1>10 DEF InStep
<1>13. \A j \in Ids :
          /\ future'[j] \in {"none", "unset", "result", "error"}
          /\ future'[j] = "none" <=> call[j] = "none"
          /\ call[j] \in {"result", "error"} => future'[j] = call[j]
          /\ reader'[j] = "none" <=> call[j] \in {"none", "sending"}
  <2>1. call[line.id] \in InProgress
    BY <1>4 DEF TableInv, PendingExact, Open
  <2> QED
    BY <1>3, <1>5, <2>1 DEF InStep, ReadLine, Running, InProgress
<1>14. Resolved' \subseteq answered
  BY <1>2, <1>6 DEF InStep
<1> QED
  BY <1>8, <1>11, <1>12, <1>13, <1>14 DEF InStep, ReadLine, serverVars

\* Fewer tasks are done than a set of answers holds, or the other way round: the
\* counts differ.
LEMMA CountsDiffer ==
    ASSUME NEW S \in SUBSET Ids, NEW T \in SUBSET Ids, NEW i \in T, i \notin S, S \subseteq T
    PROVE  Cardinality(S) # Cardinality(T)
<1>1. IsFiniteSet(S) /\ IsFiniteSet(T)
  <2>1. IsFiniteSet(Ids)
    BY FS_Interval DEF Ids
  <2> QED
    BY <2>1, FS_Subset
<1>2. Cardinality(S \cup {i}) = Cardinality(S) + 1
  BY <1>1, FS_AddElement
<1>3. Cardinality(S \cup {i}) <= Cardinality(T)
  <2>1. S \cup {i} \subseteq T
    OBVIOUS
  <2> QED
    BY <1>1, <2>1, FS_Subset
<1>4. Cardinality(S) \in Nat /\ Cardinality(T) \in Nat
  BY <1>1, FS_CardinalityType
<1> QED
  BY <1>2, <1>3, <1>4

\* A call that was not given up and whose Future is not set is in progress.
LEMMA UnsetIsOpen ==
    ASSUME TypeOK, InStep, ~Disturbed, NEW j \in Ids, future[j] = "unset"
    PROVE  call[j] \in InProgress
<1>1. call[j] \notin {"none", "result", "error"}
  BY DEF InStep
<1>2. call[j] \notin {"timeout", "failed"}
  BY DEF Disturbed
<1> QED
  BY <1>1, <1>2 DEF TypeOK, InProgress, Endings

\* A task finds the stream unreadable: then some call still waits, and the
\* exception reaches it.
LEMMA ReadFailsDisturbs ==
    ASSUME TypeOK, TableInv, InStep, NEW i \in Ids, ReadFails(i)
    PROVE  Disturbed'
<1> USE DEF TypeOK
<1> SUFFICES ASSUME ~Disturbed' PROVE FALSE
  OBVIOUS
<1>1. \A j \in Ids : ~(j \in pending /\ future[j] = "unset")
  BY DEF ReadFails, FailPending, Disturbed
<1>2. future' = future
  BY <1>1 DEF ReadFails, FailPending
<1>3. ~Disturbed
  <2>1. ASSUME Disturbed PROVE Disturbed'
    <3>1. CASE \E j \in Ids : Overtaken(j)
      BY <3>1, OvertakenStable DEF Disturbed, Next, RunReader
    <3> QED
      BY <1>2, <2>1, <3>1 DEF Disturbed, ReadFails, serverVars
  <2> QED
    BY <2>1
<1>4. \A j \in Ids : future[j] # "unset"
  BY <1>1, <1>3, UnsetIsOpen DEF TableInv, PendingExact, Open
<1>5. \A j \in Ids : reader[j] # "none" => j \in Resolved
  BY <1>4 DEF InStep, Resolved
<1>6. i \in Resolved /\ i \notin Spent /\ Spent \subseteq Resolved
  BY <1>5 DEF ReadFails, Running, Spent
<1>7. Resolved \in SUBSET Ids /\ Spent \in SUBSET Ids
  BY DEF Resolved, Spent
<1> QED
  BY <1>6, <1>7, CountsDiffer DEF InStep

LEMMA ReaderInStep ==
    ASSUME TypeOK, TableInv, InStep, NEW i \in Ids, RunReader(i), ~Disturbed'
    PROVE  InStep'
<1> USE DEF TypeOK
<1>1. CASE ReadLine(i)
  BY <1>1, ReadLineInStep
<1>2. CASE ReadFails(i)
  BY <1>2, ReadFailsDisturbs
<1>3. CASE ReadBlocks(i)
  <2>1. Resolved' = Resolved /\ Spent' = Spent
    BY <1>3 DEF ReadBlocks, Running, Resolved, Spent, clientVars
  <2>2. Tidy'
    BY <1>3, <2>1 DEF ReadBlocks, Running, InStep, Tidy, clientVars, serverVars
  <2> QED
    BY <2>1, <2>2, SameCounts
<1> QED
  BY <1>1, <1>2, <1>3 DEF RunReader

\* What the server does ends no task and sets no Future.
LEMMA ServerInStep ==
    ASSUME TypeOK, TableInv, InStep, Server, ~Disturbed'
    PROVE  InStep'
<1> USE DEF TypeOK
<1>1. WakeWaiter /\ UNCHANGED clientVars
  BY DEF Server, Answer, SendNoise, Chunk, Exit, Feed
<1>2. Resolved' = Resolved /\ Spent' = Spent
  <2>1. \A j \in Ids : reader'[j] = "done" <=> reader[j] = "done"
    BY <1>1, WakeWaiterEffect DEF TableInv, SleeperInOrder, Ids
  <2> QED
    BY <1>1, <2>1 DEF Resolved, Spent, clientVars
<1>3. \A j \in Ids : reader'[j] = "none" <=> reader[j] = "none"
  BY <1>1, WakeWaiterEffect DEF TableInv, SleeperInOrder, Ids
<1>4. ASSUME NEW i \in Ids, NEW kind \in {"result", "error"}, Answer(i, kind)
      PROVE  Tidy'
  <2> DEFINE line == [kind |-> kind, id |-> i]
  <2>1. i \in 1..requestId /\ i \notin answered
    BY <1>4 DEF Answer, InStep
  <2>2. call[i] # "none"
    BY <2>1 DEF TableInv, CallOrder, Ids
  <2>3. future[i] = "unset"
    BY <2>1, <2>2 DEF InStep, Resolved
  <2>4. \A n \in 1..Len(stdout') :
           \/ n \in 1..Len(stdout) /\ stdout'[n] = stdout[n]
           \/ n = Len(stdout) + 1 /\ stdout'[n] = line
    BY <1>4 DEF Answer, Feed
  <2>5. \A n \in 1..Len(stdout) : stdout[n].id # i
    BY <2>1 DEF InStep
  <2>6. \A n \in 1..Len(stdout') :
           /\ stdout'[n].kind \in {"result", "error"}
           /\ stdout'[n].id \in answered' /\ future'[stdout'[n].id] = "unset"
    BY <1>4, <2>3, <2>4 DEF Answer, InStep, clientVars
  <2>7. \A m, n \in 1..Len(stdout') : stdout'[m].id = stdout'[n].id => m = n
    BY <2>4, <2>5 DEF InStep
  <2>8. answered' \subseteq written' /\ written' \subseteq 1..requestId'
        /\ Resolved' \subseteq answered'
    BY <1>2, <1>4 DEF Answer, InStep, clientVars
  <2> QED
    BY <1>3, <1>4, <2>6, <2>7, <2>8 DEF Answer, InStep, Tidy, clientVars
<1>5. ASSUME NEW kind \in Noise, NEW id \in 0..MaxRequests, SendNoise(kind, id)
      PROVE  FALSE
  BY <1>5 DEF SendNoise, Disturbed
<1>6. CASE Chunk \/ Exit
  <2>1. UNCHANGED <<stdout, answered, written, requestId, future, call>>
    BY <1>6 DEF Chunk, Exit, clientVars, serverVars
  <2>2. Tidy
    BY DEF InStep, Tidy
  <2>3. Tidy'
    BY <1>2, <1>3, <2>1, <2>2 DEF Tidy
  <2> QED
    BY <1>2, <2>3, SameCounts
<1> QED
  BY <1>2, <1>4, <1>5, <1>6, SameCounts DEF Server

LEMMA ServeStep == TypeOK /\ TableInv /\ ServeInv /\ [Next]_vars => ServeInv'
<1> SUFFICES ASSUME TypeOK, TableInv, ServeInv, [Next]_vars PROVE ServeInv'
  OBVIOUS
<1>1. UnbornQuiet'
  BY UnbornQuietStep DEF ServeInv
<1>2. ASSUME ~Disturbed' PROVE InStep'
  <2>1. InStep
    BY <1>2, DisturbedStable DEF ServeInv
  <2>2. CASE \E i \in Ids : Caller(i) \/ RunReader(i)
    BY <1>2, <2>1, <2>2, CallerInStep, ReaderInStep
  <2>5. ASSUME NEW i \in Ids, Collect(i) PROVE FALSE
    BY <1>2, <2>5 DEF Collect, Disturbed, Overtaken, TypeOK
  <2>3. CASE Server
    BY <1>2, <2>1, <2>3, ServerInStep
  <2>4. CASE Close \/ UNCHANGED vars
    <3>1. UNCHANGED <<stdout, answered, written, requestId, future, call, reader>>
      BY <2>4 DEF Close, vars, clientVars, streamVars, serverVars
    <3>2. Resolved' = Resolved /\ Spent' = Spent
      BY <3>1 DEF Resolved, Spent
    <3> QED
      BY <2>1, <3>1, <3>2 DEF InStep
  <2> QED
    BY <2>2, <2>3, <2>4, <2>5 DEF Next
<1> QED
  BY <1>1, <1>2 DEF ServeInv

\* As many tasks done as answers given, and none reading or to come: then every
\* call has its answer.
LEMMA ServeEnough == TypeOK /\ ServeInv => WaitingIsServed
<1> SUFFICES ASSUME TypeOK, InStep, ~Disturbed, NEW i \in Ids, Unresolved(i),
                    \A j \in Ids : ~Listens(j) /\ call[j] # "sending"
             PROVE  FALSE
  BY DEF ServeInv, WaitingIsServed
<1>0. \A j \in Ids : reader[j] \in {"none", "done"}
  BY DEF Disturbed, Overtaken, Listens, Running, TypeOK
<1>1. i \in Spent /\ i \notin Resolved
  BY <1>0 DEF InStep, Unresolved, Spent, Resolved
<1>2. Resolved \subseteq Spent
  BY <1>0 DEF InStep, Spent, Resolved, TypeOK
<1>3. Resolved \in SUBSET Ids /\ Spent \in SUBSET Ids
  BY DEF Resolved, Spent
<1> QED
  BY <1>1, <1>2, <1>3, CountsDiffer DEF InStep

\* With any number of overlapping calls, a call that waits has a task that reads,
\* that the next line or EOF will wake, or that is about to be spawned, until a line
\* that answers nothing, a call given up, an exception or a task overtaken in its
\* sleep puts the tasks and the answers out of step.
THEOREM WaitersAreServed == Spec => []WaitingIsServed
BY TypeCorrect, TableCorrect, ServeInit, ServeStep, ServeEnough, PTL DEF Spec
=============================================================================
