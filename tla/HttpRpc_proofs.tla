--------------------------- MODULE HttpRpc_proofs ---------------------------
(***************************************************************************)
(* Theorems about HttpRpc: types, how often the server executes a request, *)
(* and the refinement of module McpRpc.                                    *)
(*                                                                         *)
(* RunsAccounted is not inductive: that an answered request is not on its  *)
(* way again follows from where its last POST stands.  Delivery ties the   *)
(* state of the POST to the counts of POSTs and executions, Provenance     *)
(* what has come over the connection to what the server has said.          *)
(***************************************************************************)
EXTENDS HttpRpc, TLAPS

\* Ids are handed out in order; one not handed out has no history.
Fresh(i) ==
    IF i <= requestId
    THEN call[i] # "none"
    ELSE call[i] = "none" /\ post[i] = "none" /\ posts[i] = 0 /\ runs[i] = 0

\* How far the latest POST has come, and how many there were.
Delivery(i) ==
    /\ call[i] = "posting" => posts[i] <= 1
    /\ runs[i] <= posts[i]
    /\ post[i] = "sent" => runs[i] + 1 = posts[i]
    /\ post[i] \in {"running", "head", "body", "open", "stuck", "silent", "replied", "ended"}
         => runs[i] = posts[i]
    /\ call[i] \in Answers => runs[i] = posts[i]

\* An answer received, or on its way to the caller, was given by the server, and
\* so was a request of its own.
Provenance(i) ==
    /\ answer[i] \in Answers => i \in answered
    /\ answer[i] = "request" => i \in asked

\* What the invariant says of one request.
Request(i) == Fresh(i) /\ Delivery(i) /\ Provenance(i)

Inv == TypeOK /\ \A i \in Ids : Request(i)

USE DEF Ids, InProgress, Answers, Endings

LEMMA InvInit == Init => Inv
<1> SUFFICES ASSUME Init PROVE Inv
    OBVIOUS
<1>1. TypeOK
  BY HttpRpcAssumption DEF Init, TypeOK, PostStates
<1>2. ASSUME NEW i \in Ids PROVE Request(i)
  BY HttpRpcAssumption DEF Init, Request, Fresh, Delivery, Provenance
<1> QED
  BY <1>1, <1>2 DEF Inv

\* A step that concerns request i leaves the others as they are.
Others(i) ==
    \A j \in Ids \ {i} :
        /\ call'[j] = call[j] /\ post'[j] = post[j] /\ answer'[j] = answer[j]
        /\ posts'[j] = posts[j] /\ runs'[j] = runs[j]

LEMMA OneRequest ==
    ASSUME Inv, TypeOK', NEW i \in Ids, Others(i), Request(i)',
           requestId' = requestId \/ (i = requestId + 1 /\ requestId' = i),
           answered \subseteq answered', asked \subseteq asked'
    PROVE  Inv'
<1>1. ASSUME NEW j \in Ids, j # i PROVE Request(j)'
  <2>1. Fresh(j)'
    BY <1>1 DEF Inv, TypeOK, Others, Request, Fresh
  <2>2. Delivery(j)' /\ Provenance(j)'
    BY <1>1 DEF Inv, TypeOK, Others, Request, Delivery, Provenance
  <2> QED
    BY <2>1, <2>2 DEF Request
<1> QED
  BY <1>1 DEF Inv

LEMMA ServerStep == Inv /\ Server => Inv'
<1> SUFFICES ASSUME Inv, Server PROVE Inv'
    OBVIOUS
<1> USE DEF Inv, TypeOK, PostStates, Bodies, Events, Unfinished
<1>1. ASSUME NEW i \in Ids, Arrive(i) PROVE Inv'
  <2>1. TypeOK'
    BY <1>1 DEF Arrive, Request, Delivery
  <2>2. Request(i)'
    BY <1>1 DEF Arrive, Request, Fresh, Delivery, Provenance
  <2>3. Others(i)
    BY <1>1 DEF Arrive, Others
  <2> QED
    BY <1>1, <2>1, <2>2, <2>3, OneRequest DEF Arrive
<1>2. ASSUME NEW i \in Ids, NEW what \in Bodies \cup Events,
             Reply(i, what) \/ SendEvent(i, what)
      PROVE  Inv'
  <2>1. TypeOK'
    <3>1. /\ \E s \in PostStates : post' = [post EXCEPT ![i] = s]
          /\ answer' = [answer EXCEPT ![i] = what]
          /\ answered' \in {answered, answered \cup {i}}
          /\ asked' \in {asked, asked \cup {i}}
      BY <1>2 DEF Reply, SendEvent, Say
    <3>2. post' \in [Ids -> PostStates] /\ answered' \subseteq Ids /\ asked' \subseteq Ids
      BY <3>1
    <3>3. answer' \in [Ids -> {"none"} \cup Bodies \cup Events]
      BY <3>1
    <3> QED
      BY <1>2, <3>2, <3>3 DEF Reply, SendEvent, Say
  <2>2. Request(i)'
    <3>1. /\ post[i] \in {"head", "body", "open"} /\ post'[i] \in {"replied", "open"}
          /\ UNCHANGED <<requestId, call, posts, runs>>
      BY <1>2 DEF Reply, SendEvent, Say
    <3>2. /\ answer'[i] = what
          /\ what \in Answers => i \in answered'
          /\ what = "request" => i \in asked'
      BY <1>2 DEF Reply, SendEvent, Say
    <3>3. Fresh(i)' /\ Delivery(i)'
      BY <3>1 DEF Request, Fresh, Delivery
    <3>4. Provenance(i)'
      BY <3>2 DEF Provenance
    <3> QED
      BY <3>3, <3>4 DEF Request
  <2>3. Others(i)
    BY <1>2 DEF Reply, SendEvent, Say, Others
  <2> QED
    BY <1>2, <2>1, <2>2, <2>3, OneRequest DEF Reply, SendEvent, Say
<1>3. ASSUME NEW i \in Ids, Respond(i) \/ StartBody(i) \/ StopSending(i) PROVE Inv'
  <2>1. /\ post[i] \in Unfinished \ {"sent"} \/ post'[i] = "broken"
        /\ post[i] # "none"
        /\ \E s \in PostStates \ {"none", "sent"} : post' = [post EXCEPT ![i] = s]
        /\ UNCHANGED <<requestId, client, call, answer, historyVars>>
    BY <1>3 DEF Respond, StartBody, StopSending
  <2>2. TypeOK'
    BY <2>1 DEF historyVars
  <2>3. Request(i)'
    BY <2>1 DEF historyVars, Request, Fresh, Delivery, Provenance
  <2>4. Others(i)
    BY <2>1 DEF historyVars, Others
  <2> QED
    BY <2>1, <2>2, <2>3, <2>4, OneRequest DEF historyVars
<1> QED
  BY <1>1, <1>2, <1>3 DEF Server

LEMMA ClientStep == Inv /\ (\E i \in Ids : StartCall(i) \/ Await(i)) => Inv'
<1> SUFFICES ASSUME Inv, NEW i \in Ids, StartCall(i) \/ Await(i) PROVE Inv'
    OBVIOUS
<1> USE DEF Inv, TypeOK, PostStates, Bodies, Events
<1>1. CASE StartCall(i) \/ FollowStream(i)
  <2>1. /\ posts[i] <= 1 /\ runs[i] = posts[i]
        /\ call[i] = "none" => posts[i] = 0
    BY <1>1 DEF StartCall, FollowStream, Request, Fresh, Delivery
  <2>2. /\ \/ call[i] = "none" /\ call' = [call EXCEPT ![i] = "posting"]
           \/ call' = [call EXCEPT ![i] = "streaming"]
        /\ requestId' = requestId \/ (i = requestId + 1 /\ requestId' = i)
        /\ i <= requestId' /\ requestId' \in 0..MaxRequests
        /\ runs' = runs /\ answered' = answered /\ asked' = asked
        /\ client' = client
    BY <1>1, HttpRpcAssumption DEF StartCall, FollowStream, Send, Request, Fresh
  <2>3. \/ /\ post' = [post EXCEPT ![i] = "sent"]
           /\ answer' = [answer EXCEPT ![i] = "none"]
           /\ posts' = [posts EXCEPT ![i] = @ + 1]
        \/ /\ post' = [post EXCEPT ![i] = "broken"]
           /\ answer' = answer /\ posts' = posts
    BY <1>1 DEF StartCall, FollowStream, Send
  <2>4. TypeOK'
    <3>1. call' \in [Ids -> {"none"} \cup InProgress \cup Endings]
      BY <2>2
    <3>2. post' \in [Ids -> PostStates] /\ posts' \in [Ids -> 0..2]
      BY <2>1, <2>3
    <3>3. answer' \in [Ids -> {"none"} \cup Bodies \cup Events]
      BY <2>3
    <3> QED
      BY <2>2, <3>1, <3>2, <3>3
  <2>5. Request(i)'
    <3>1. /\ runs'[i] = runs[i] /\ posts'[i] \in Nat
          /\ call'[i] \in InProgress
          /\ call'[i] = "posting" => posts[i] = 0
      BY <2>1, <2>2, <2>4
    <3>2. \/ post'[i] = "sent" /\ answer'[i] = "none" /\ posts'[i] = posts[i] + 1
          \/ post'[i] = "broken" /\ answer'[i] = answer[i] /\ posts'[i] = posts[i]
      BY <2>3
    <3> QED
      BY <2>1, <2>2, <3>1, <3>2 DEF Request, Fresh, Delivery, Provenance
  <2>6. Others(i)
    BY <2>2, <2>3 DEF Others
  <2> QED
    BY <2>2, <2>4, <2>5, <2>6, OneRequest
<1>2. ASSUME NEW how \in Endings, call[i] \in InProgress, EndCall(i, how),
             how \in Answers => runs[i] = posts[i]
      PROVE  Inv'
  <2>1. TypeOK'
    BY <1>2 DEF EndCall, httpVars, historyVars
  <2>2. Request(i)'
    BY <1>2 DEF EndCall, httpVars, historyVars, Request, Fresh, Delivery, Provenance
  <2>3. Others(i)
    BY <1>2 DEF EndCall, httpVars, historyVars, Others
  <2> QED
    BY <1>2, <2>1, <2>2, <2>3, OneRequest DEF EndCall, historyVars
<1>3. CASE ReadReply(i) \/ ReadEvent(i)
  <2>1. EndingOf(answer[i]) \in Endings /\ runs[i] = posts[i]
    BY <1>3 DEF ReadReply, ReadEvent, EndingOf, Request, Delivery
  <2> QED
    BY <1>2, <1>3, <2>1 DEF ReadReply, ReadEvent
<1>4. CASE NoAnswer(i) \/ SeeBroken(i) \/ TimeOut(i)
  BY <1>2, <1>4 DEF NoAnswer, SeeBroken, TimeOut
<1>5. CASE SkipEvent(i)
  <2>1. TypeOK'
    BY <1>5 DEF SkipEvent, historyVars
  <2>2. Request(i)'
    BY <1>5 DEF SkipEvent, historyVars, Request, Fresh, Delivery, Provenance
  <2>3. Others(i)
    BY <1>5 DEF SkipEvent, historyVars, Others
  <2> QED
    BY <1>5, <2>1, <2>2, <2>3, OneRequest DEF SkipEvent, historyVars
<1> QED
  BY <1>1, <1>3, <1>4, <1>5 DEF Await

LEMMA CloseStep == Inv /\ (Close \/ Closed \/ UNCHANGED vars) => Inv'
<1> SUFFICES ASSUME Inv, Close \/ Closed \/ UNCHANGED vars PROVE Inv'
    OBVIOUS
<1> USE DEF Inv, TypeOK, PostStates, Bodies, Events, httpVars, historyVars
<1>1. TypeOK'
  BY DEF Close, Closed, vars
<1>2. ASSUME NEW i \in Ids PROVE Request(i)'
  <2>1. post'[i] = post[i] \/ (post'[i] = "broken" /\ call[i] \in InProgress)
    BY <1>2 DEF Close, Closed, vars, Open
  <2> QED
    BY <1>2, <2>1 DEF Close, Closed, vars, Request, Fresh, Delivery, Provenance
<1> QED
  BY <1>1, <1>2

LEMMA InvStep == Inv /\ [Next]_vars => Inv'
BY ServerStep, ClientStep, CloseStep DEF Next

LEMMA InvAlways == Spec => []Inv
<1> QED
  BY InvInit, InvStep, PTL DEF Spec

\* The variables keep their types: in particular a request is POSTed twice at the
\* most, and executed twice at the most, by whatever server.
THEOREM TypeCorrect == Spec => []TypeOK
<1>1. Inv => TypeOK
  BY DEF Inv
<1> QED
  BY <1>1, InvAlways, PTL

\* A request is executed at most once per POST, and exactly that often when its
\* call ended with an answer.
THEOREM RunsAreAccounted == Spec => []RunsAccounted
<1>1. Inv => RunsAccounted
  BY DEF Inv, RunsAccounted, Request, Delivery
<1> QED
  BY <1>1, InvAlways, PTL

\* The HTTP client implements the abstract client of module McpRpc, whatever
\* server and network do, if a request of the server's own under the id of a call
\* counts as an answer to it.
THEOREM HttpImplementsMcpRpc == Spec => ImplementsMcpRpc
<1>1. Init => Rpc!Init
  BY DEF Init, Rpc!Init, Rpc!Ids
<1>2. Inv /\ [Next]_vars => [Rpc!Next]_(Rpc!vars)
  <2> SUFFICES ASSUME Inv, [Next]_vars PROVE [Rpc!Next]_(Rpc!vars)
    OBVIOUS
  <2> USE DEF Inv, TypeOK
  <2>0. Rpc!Ids = Ids /\ Rpc!Endings = Endings
    BY DEF Rpc!Ids, Rpc!Endings
  <2>1. ASSUME NEW i \in Ids, StartCall(i) PROVE Rpc!Open(i)
    <3>1. call[i] = "none" /\ \A j \in Ids : j < i => call[j] # "none"
      BY <2>1 DEF StartCall, Request, Fresh
    <3>2. /\ call' = [call EXCEPT ![i] = "posting"]
          /\ answered' = answered /\ asked' = asked
      BY <2>1 DEF StartCall, Send
    <3> QED
      BY <3>1, <3>2, <2>0 DEF Rpc!Open
  <2>2. ASSUME NEW i \in Ids, NEW how \in Endings, call[i] \in InProgress,
               EndCall(i, how), how \in Answers => i \in answered \cup asked
        PROVE  Rpc!End(i, how)
    BY <2>2 DEF EndCall, historyVars, Rpc!End
  <2>3. ASSUME NEW i \in Ids, ReadReply(i) \/ ReadEvent(i)
        PROVE  \E how \in Endings : Rpc!End(i, how)
    <3>1. /\ EndingOf(answer[i]) \in Endings
          /\ EndingOf(answer[i]) \in Answers => i \in answered \cup asked
      BY <2>3 DEF EndingOf, Request, Provenance
    <3> QED
      BY <2>2, <2>3, <3>1 DEF ReadReply, ReadEvent
  <2>4. ASSUME NEW i \in Ids, NoAnswer(i) \/ SeeBroken(i) \/ TimeOut(i)
        PROVE  \E how \in Endings : Rpc!End(i, how)
    BY <2>2, <2>4 DEF NoAnswer, SeeBroken, TimeOut
  <2>5. ASSUME NEW i \in Ids, FollowStream(i) \/ SkipEvent(i)
        PROVE  UNCHANGED Rpc!vars
    BY <2>5 DEF FollowStream, Send, SkipEvent, historyVars, Rpc!vars
  <2>6. ASSUME NEW i \in Ids, NEW what \in Bodies \cup Events,
               Reply(i, what) \/ SendEvent(i, what)
        PROVE  Rpc!Answer(i) \/ UNCHANGED Rpc!vars
    <3>1. call[i] # "none" /\ call' = call
      BY <2>6 DEF Reply, SendEvent, Say, Request, Fresh
    <3>2. \/ answered' \cup asked' = answered \cup asked
          \/ /\ i \notin answered \cup asked
             /\ answered' \cup asked' = (answered \cup asked) \cup {i}
      BY <2>6 DEF Reply, SendEvent, Say, Answers
    <3> QED
      BY <3>1, <3>2 DEF Rpc!Answer, Rpc!vars
  <2>7. ASSUME NEW i \in Ids, Arrive(i) \/ Respond(i) \/ StartBody(i) \/ StopSending(i)
        PROVE  UNCHANGED Rpc!vars
    BY <2>7 DEF Arrive, Respond, StartBody, StopSending, historyVars, Rpc!vars
  <2>8. CASE Close \/ Closed \/ UNCHANGED vars
    BY <2>8 DEF Close, Closed, vars, historyVars, Rpc!vars
  <2> QED
    BY <2>0, <2>1, <2>3, <2>4, <2>5, <2>6, <2>7, <2>8
       DEF Next, Server, Await, Rpc!Next
<1> QED
  BY <1>1, <1>2, InvAlways, PTL DEF Spec, ImplementsMcpRpc, Rpc!Spec

\* Towards a server that sends no request of its own under the id of a call the
\* HTTP client keeps the promise of module McpRpc itself.
THEOREM PromiseKeptIfServerNeverAsks == Spec /\ [](asked = {}) => Promise!Spec
<1>1. Rpc!Init /\ asked = {} => Promise!Init
  BY DEF Rpc!Init, Promise!Init, Rpc!Ids, Promise!Ids
<1>2. [Rpc!Next]_(Rpc!vars) /\ asked = {} /\ (asked = {})'
        => [Promise!Next]_(Promise!vars)
  <2> SUFFICES ASSUME [Rpc!Next]_(Rpc!vars), asked = {}, asked' = {}
               PROVE  [Promise!Next]_(Promise!vars)
    OBVIOUS
  <2>1. answered \cup asked = answered /\ (answered \cup asked)' = answered'
    OBVIOUS
  <2>2. CASE UNCHANGED Rpc!vars
    BY <2>1, <2>2 DEF Rpc!vars, Promise!vars
  <2>3. ASSUME NEW i \in Rpc!Ids, Rpc!Open(i) PROVE Promise!Open(i)
    BY <2>1, <2>3 DEF Rpc!Open, Promise!Open, Rpc!Ids, Promise!Ids
  <2>4. ASSUME NEW i \in Rpc!Ids, Rpc!Answer(i) PROVE Promise!Answer(i)
    BY <2>1, <2>4 DEF Rpc!Answer, Promise!Answer
  <2>5. ASSUME NEW i \in Rpc!Ids, NEW how \in Rpc!Endings, Rpc!End(i, how)
        PROVE  Promise!End(i, how)
    BY <2>1, <2>5 DEF Rpc!End, Promise!End
  <2> QED
    BY <2>2, <2>3, <2>4, <2>5
       DEF Rpc!Next, Promise!Next, Rpc!Ids, Promise!Ids, Rpc!Endings, Promise!Endings
<1> QED
  BY <1>1, <1>2, HttpImplementsMcpRpc, PTL
     DEF ImplementsMcpRpc, Rpc!Spec, Promise!Spec
=============================================================================
