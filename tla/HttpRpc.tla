------------------------------- MODULE HttpRpc -------------------------------
(***************************************************************************)
(* MCPStreamableHTTPClient: JSON-RPC 2.0 by HTTP POST to a remote server.  *)
(*                                                                         *)
(* A call (_make_request) POSTs its request and waits for the WHOLE        *)
(* response.  A JSON body is the answer.  If the response turns out to be  *)
(* an event stream, its body is thrown away and the SAME request, with the *)
(* same id, is POSTed a second time, to be read event by event             *)
(* (handle_sse_stream): a server that answers in streams executes the      *)
(* request twice.  There is no limit to the length of a call: a timeout of *)
(* httpx runs between two reads, so only a server that has stopped sending *)
(* can be given up, and a head, a body or a stream may come byte by byte   *)
(* for ever.                                                               *)
(*                                                                         *)
(* The server, the network and httpx are modelled as the client meets      *)
(* them: post[i] is the latest POST of request i and how much of its       *)
(* response has come; answer[i] is what that response says.                *)
(***************************************************************************)
EXTENDS Naturals, FiniteSets

CONSTANTS
    MaxRequests,   \* bound: request ids given out by one client
    Concurrency    \* calls the users of one client keep in progress at once

ASSUME HttpRpcAssumption ==
    /\ MaxRequests \in Nat
    /\ Concurrency \in Nat \ {0}

VARIABLES
    requestId,   \* _request_id: the last id handed out
    client,      \* "open"; "closing": close() awaits aclose(); "closed": _closed
    call,        \* call[i]: where _make_request stands, or how it ended
    post,        \* post[i]: the latest POST of request i
    answer,      \* answer[i]: what the response to that POST says so far
    posts,       \* posts[i]: history, how often request i was POSTed
    runs,        \* runs[i]: history, how often the server has executed it
    answered,    \* history: requests the server has answered
    asked        \* history: ids under which it has sent a request of its own

httpVars == <<post, answer>>
historyVars == <<posts, runs, answered, asked>>
vars == <<requestId, client, call, httpVars, historyVars>>

Ids == 1..MaxRequests
Endings == {"result", "error", "failed", "timeout"}
InProgress == {"posting", "streaming"}
Answers == {"result", "error"}

\* On the way; being worked on; the head of a response, a body that is no stream,
\* or a stream is coming; a body, or a head or stream, that the server neither
\* ends nor continues; a complete body; a complete stream; cut off.
PostStates == {"none", "sent", "running", "head", "body", "open", "stuck", "silent",
               "replied", "ended", "broken"}
Unfinished == {"sent", "running", "head", "body", "open", "stuck", "silent"}

\* A body may be the answer, unreadable as JSON-RPC, or not 2xx JSON at all; an
\* event may be the answer, JSON that is not an object, or about something else.
\* Either may be a request of the server's own, under the id of the call.
Bodies == Answers \cup {"garbage", "refused", "request"}
Events == Answers \cup {"garbage", "notice", "request"}

TypeOK ==
    /\ requestId \in 0..MaxRequests
    /\ client \in {"open", "closing", "closed"}
    /\ call \in [Ids -> {"none"} \cup InProgress \cup Endings]
    /\ post \in [Ids -> PostStates]
    /\ answer \in [Ids -> {"none"} \cup Bodies \cup Events]
    /\ posts \in [Ids -> 0..2]
    /\ runs \in [Ids -> 0..2]
    /\ answered \subseteq Ids
    /\ asked \subseteq Ids

Init ==
    /\ requestId = 0
    /\ client = "open"
    /\ call = [i \in Ids |-> "none"]
    /\ post = [i \in Ids |-> "none"]
    /\ answer = [i \in Ids |-> "none"]
    /\ posts = [i \in Ids |-> 0]
    /\ runs = [i \in Ids |-> 0]
    /\ answered = {}
    /\ asked = {}

Open == {i \in Ids : call[i] \in InProgress}

-----------------------------------------------------------------------------
(* The server and the network.                                             *)

\* A request reaches the server, perhaps after its caller has given up.
Arrive(i) ==
    /\ post[i] = "sent"
    /\ post' = [post EXCEPT ![i] = "running"]
    /\ runs' = [runs EXCEPT ![i] = @ + 1]
    /\ UNCHANGED <<requestId, client, call, answer, posts, answered, asked>>

\* The first bytes of a response come.
Respond(i) ==
    /\ post[i] = "running"
    /\ post' = [post EXCEPT ![i] = "head"]
    /\ UNCHANGED <<requestId, client, call, answer, historyVars>>

\* The head is complete and announces a body that is not an event stream.
StartBody(i) ==
    /\ post[i] = "head"
    /\ post' = [post EXCEPT ![i] = "body"]
    /\ UNCHANGED <<requestId, client, call, answer, historyVars>>

\* What the response says becomes known to the client's side of the connection.
Say(i, what) ==
    /\ answer' = [answer EXCEPT ![i] = what]
    /\ answered' = IF what \in Answers THEN answered \cup {i} ELSE answered
    /\ asked' = IF what = "request" THEN asked \cup {i} ELSE asked
    /\ UNCHANGED <<requestId, client, call, posts, runs>>

\* The last bytes of such a body come.
Reply(i, body) ==
    /\ post[i] = "body"
    /\ post' = [post EXCEPT ![i] = "replied"]
    /\ Say(i, body)

\* The server answers in a stream and sends its first event, or its next one.
SendEvent(i, event) ==
    /\ post[i] = "head" \/ (post[i] = "open" /\ answer[i] = "none")
    /\ post' = [post EXCEPT ![i] = "open"]
    /\ Say(i, event)

\* The server ends the stream, stops sending without ending what it has begun,
\* or the connection is lost.
StopSending(i) ==
    /\ \E how \in {"ended", "silent", "stuck", "broken"} :
         /\ post[i] \in CASE how = "ended"  -> {"open"}
                        [] how = "silent" -> {"head", "open"}
                        [] how = "stuck"  -> {"body"}
                        [] how = "broken" -> Unfinished
         /\ post' = [post EXCEPT ![i] = how]
    /\ UNCHANGED <<requestId, client, call, answer, historyVars>>

Server ==
    \E i \in Ids :
        \/ Arrive(i)
        \/ Respond(i)
        \/ StartBody(i)
        \/ \E body \in Bodies : Reply(i, body)
        \/ \E event \in Events : SendEvent(i, event)
        \/ StopSending(i)

-----------------------------------------------------------------------------
(* The client: _make_request.                                              *)

\* A POST leaves; an httpx client whose aclose has begun refuses it instead.
Send(i, step) ==
    /\ call' = [call EXCEPT ![i] = step]
    /\ IF client = "open"
       THEN /\ post' = [post EXCEPT ![i] = "sent"]
            /\ answer' = [answer EXCEPT ![i] = "none"]
            /\ posts' = [posts EXCEPT ![i] = @ + 1]
       ELSE /\ post' = [post EXCEPT ![i] = "broken"]
            /\ UNCHANGED <<answer, posts>>

\* A fresh id, and the first POST.
StartCall(i) ==
    /\ client # "closed"
    /\ Cardinality(Open) < Concurrency
    /\ i = requestId + 1
    /\ requestId' = i
    /\ Send(i, "posting")
    /\ UNCHANGED <<client, runs, answered, asked>>

EndCall(i, how) ==
    /\ call' = [call EXCEPT ![i] = how]
    /\ UNCHANGED <<requestId, client, httpVars, historyVars>>

\* JSON-RPC that has no "error" is a result, {} if it has no "result" either.
EndingOf(what) ==
    CASE what \in Answers   -> what
      [] what = "request"   -> "result"
      [] OTHER              -> "failed"

\* The first response is complete and is no stream (post_request,
\* handle_json_response; the id in the body is not looked at).
ReadReply(i) ==
    /\ call[i] = "posting"
    /\ post[i] = "replied"
    /\ EndCall(i, EndingOf(answer[i]))

\* Broken variant of FollowStream: the second stream does not replace the first.
FollowStreamKeeping(i) ==
    /\ call[i] = "posting"
    /\ post[i] = "ended"
    /\ call' = [call EXCEPT ![i] = "streaming"]
    /\ posts' = [posts EXCEPT ![i] = @ + 1]
    /\ UNCHANGED <<requestId, client, httpVars, runs, answered, asked>>

\* Broken variant of FollowStream: a second stream without an answer is retried.
FollowStreamRetry(i) ==
    /\ call[i] \in InProgress
    /\ post[i] = "ended"
    /\ Send(i, "streaming")
    /\ UNCHANGED <<requestId, client, runs, answered, asked>>

\* The first response is a complete stream: POST the same request again.
FollowStream(i) ==
    /\ call[i] = "posting"
    /\ post[i] = "ended"
    /\ Send(i, "streaming")
    /\ UNCHANGED <<requestId, client, runs, answered, asked>>

\* Broken variant of ReadEvent: the id of the event is not compared.
ReadEventAny(i) ==
    /\ call[i] = "streaming"
    /\ post[i] \in {"open", "silent", "ended"}
    /\ answer[i] # "none"
    /\ EndCall(i, IF answer[i] \in {"error", "garbage"} THEN "failed" ELSE "result")

\* The second stream brings an event that decides the call.  An event that is
\* JSON but no object has no get(): AttributeError.
ReadEvent(i) ==
    /\ call[i] = "streaming"
    /\ post[i] \in {"open", "silent", "ended"}
    /\ answer[i] \notin {"none", "notice"}
    /\ EndCall(i, EndingOf(answer[i]))

\* Unreadable events and those of other ids are skipped.
SkipEvent(i) ==
    /\ call[i] = "streaming"
    /\ post[i] \in {"open", "silent", "ended"}
    /\ answer[i] = "notice"
    /\ answer' = [answer EXCEPT ![i] = "none"]
    /\ UNCHANGED <<requestId, client, call, post, historyVars>>

\* The second stream ends without an answer, or the second response is none: its
\* content type tells, and the body is not waited for.
NoAnswer(i) ==
    /\ call[i] = "streaming"
    /\ \/ post[i] = "ended" /\ answer[i] = "none"
       \/ post[i] \in {"body", "stuck", "replied"}
    /\ EndCall(i, "failed")

\* The connection was lost, closed by close(), or refused after it.
SeeBroken(i) ==
    /\ call[i] \in InProgress
    /\ post[i] = "broken"
    /\ EndCall(i, "failed")


\* A timeout of httpx: nothing can be sent, or nothing has come for 60 s.
TimeOut(i) ==
    /\ call[i] \in InProgress
    /\ \/ post[i] \in {"sent", "running", "silent"}
       \/ post[i] = "stuck" /\ call[i] = "posting"
    /\ EndCall(i, "timeout")

Await(i) ==
    \/ ReadReply(i) \/ FollowStream(i)
    \/ ReadEvent(i) \/ SkipEvent(i) \/ NoAnswer(i)
    \/ SeeBroken(i) \/ TimeOut(i)


\* close(): aclose() refuses new requests and shuts the connections, with
\* whatever was still coming over them; _closed is set when it returns.
Close ==
    /\ client = "open"
    /\ client' = "closing"
    /\ post' = [i \in Ids |-> IF i \in Open /\ post[i] \in Unfinished
                              THEN "broken" ELSE post[i]]
    /\ UNCHANGED <<requestId, call, answer, historyVars>>

Closed ==
    /\ client = "closing"
    /\ client' = "closed"
    /\ UNCHANGED <<requestId, call, httpVars, historyVars>>

Next ==
    \/ Server
    \/ \E i \in Ids : StartCall(i) \/ Await(i)
    \/ Close
    \/ Closed

\* The event loop runs whatever is ready, and httpx's timers fire.  Nothing is
\* assumed of the server, the network or the callers.
Fairness ==
    /\ \A i \in Ids : WF_vars(Await(i))
    /\ WF_vars(Closed)

Spec == Init /\ [][Next]_vars
FairSpec == Spec /\ Fairness

-----------------------------------------------------------------------------
(* Properties.                                                             *)

\* The server executes a request at most once per POST, and a request whose call
\* ended with a result or a server error exactly that often: twice if a stream
\* gave it.  The ending therefore never belongs to an execution that is not the
\* last one, and after it the request is never executed again (_make_request and
\* handle_sse_stream, which re-POSTs the payload under the same id).
RunsAccounted ==
    \A i \in Ids :
        /\ runs[i] <= posts[i]
        /\ call[i] \in Answers => runs[i] = posts[i]

\* The HTTP client keeps the promise of module McpRpc, as the stdio client does,
\* except that it takes a request of the server's own, under the id of the call,
\* for the answer: one ending per call, and with a result or a server error only
\* if the server sent an answer or such a request, although a request may be
\* answered twice and a stream carry foreign events.
Rpc == INSTANCE McpRpc WITH
    call <- [i \in Ids |-> IF call[i] \in InProgress THEN "open" ELSE call[i]],
    answered <- answered \cup asked
ImplementsMcpRpc == Rpc!Spec

\* The same without the exception: the promise itself, which needs a server that
\* sends no request of its own under the id of a call.
Promise == INSTANCE McpRpc WITH
    call <- [i \in Ids |-> IF call[i] \in InProgress THEN "open" ELSE call[i]]


\* close() ends every call in progress, even one held by such a server.
CloseSettles == client = "closing" ~> Open = {}
=============================================================================
