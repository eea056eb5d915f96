--------------------------- MODULE HttpRelayServer ---------------------------
(***************************************************************************)
(* The http-relay-server: the broker (cmd/http-relay-server/broker.go) and *)
(* the HTTP handlers around it (cmd/http-relay-server/main.go).            *)
(*                                                                         *)
(* Every user request has a fresh 128-bit random id, an entry in the       *)
(* broker's resp map and two unbuffered channels, requestStream and        *)
(* responseStream.  Goroutines meet on those channels: the user's handler  *)
(* (client), the forwarder inside responseFilter, the upload goroutine of  *)
(* bidirectionalStream, the handlers of the relay client's calls           *)
(* (/server/request, /server/requeststream, /server/response) and the      *)
(* reaper that newServer starts.                                           *)
(*                                                                         *)
(* An action is what a goroutine does between two points where another one *)
(* can interfere: a critical section of r.m, a rendezvous, a close.  The   *)
(* relay client is left completely open here (any call, any content, any   *)
(* time); module HttpRelay puts the real one in its place.                 *)
(***************************************************************************)
EXTENDS Naturals, Sequences

CONSTANTS
    Ids,         \* request ids; createId() makes a fresh one per user request
    Servers,     \* relay client names: the "server" query parameter
    Posts,       \* slots for concurrent POST /server/response handlers
    Polls,       \* slots for concurrent GET /server/request handlers
    Gets,        \* slots for concurrent POST /server/requeststream handlers
    NoId,        \* no request
    NoServer,    \* no relay client name
    ReapTicks,   \* reaper ticks without activity after which an entry is reaped
                 \* (30s threshold, 10s ticks: 4 in the code)
    MaxRestarts  \* bound: restarts of the process that no panic causes

ASSUME ServerConstants ==
    /\ NoId \notin Ids
    /\ NoServer \notin Servers
    /\ ReapTicks \in Nat \ {0}
    /\ MaxRestarts \in Nat

VARIABLES
    resp,        \* the keys of broker.resp
    age,         \* reaper ticks since lastActivity
    toClose,     \* deleted by the running ReapInactiveRequests, closes still deferred
    respClosed,  \* responseStream is closed
    reqClosed,   \* requestStream is closed
    cl,          \* where the user's handler (and its forwarder) is
    dest,        \* the relay client name in the user's URL
    poll,        \* the GET /server/request handlers
    post,        \* the POST /server/response handlers
    sendq,       \* goroutines blocked in responseStream <- resp, first come first served
    up,          \* the upload goroutine of bidirectionalStream
    get,         \* the POST /server/requeststream handlers
    restarts     \* restarts so far that no panic caused

serverVars == <<resp, age, toClose, respClosed, reqClosed, cl, dest, poll, post,
                sendq, up, get, restarts>>

-----------------------------------------------------------------------------
(* States of the goroutines.                                               *)

\* offering: select in RelayRequest.  waiting: first receive of responseFilter.
\* flushing: dropping messages after one without a status code.  streaming and
\* duplex: copying the body to the user, on an HTTP or a hijacked connection.
\* abandoned: bidirectionalStream failed and returned, the forwarder runs on;
\* stuck: that forwarder has filled the body channel and waits for ever.
ClientStates == {"none", "offering", "waiting", "flushing", "streaming", "duplex",
                 "abandoned", "stuck", "ok", "error", "lost"}
Finished == {"ok", "error", "lost"}
Receiving == {"waiting", "flushing", "streaming", "duplex", "abandoned"}

\* looked: after the map lookup.  queued: blocked in the send.  closing: sent an
\* eof message, about to close.  ok/rejected/aborted: 200, 400, panicked.
PostStates == {"idle", "looked", "queued", "closing", "ok", "rejected", "aborted"}
PollStates == {"idle", "waiting", "got", "timeout", "failed"}
GetStates == {"idle", "waiting", "writing", "empty", "written", "gone", "failed"}
UpStates == {"none", "reading", "sending", "ended"}

\* What the server looks at in an HttpResponse: StatusCode is absent, 101 or another.
Status == {"absent", "switching", "plain"}
Messages == [id : Ids, eof : BOOLEAN, status : Status]
NoMessage == [id |-> NoId, eof |-> FALSE, status |-> "absent"]

PostAt(state) == [st |-> state, msg |-> NoMessage]
IdlePost == PostAt("idle")
IdlePoll == [st |-> "idle", server |-> NoServer, id |-> NoId]
IdleGet == [st |-> "idle", id |-> NoId]

-----------------------------------------------------------------------------
ServerInit ==
    /\ resp = {}
    /\ age = [i \in Ids |-> 0]
    /\ toClose = {}
    /\ respClosed = [i \in Ids |-> FALSE]
    /\ reqClosed = [i \in Ids |-> FALSE]
    /\ cl = [i \in Ids |-> "none"]
    /\ dest = [i \in Ids |-> NoServer]
    /\ poll = [g \in Polls |-> IdlePoll]
    /\ post = [p \in Posts |-> IdlePost]
    /\ sendq = [i \in Ids |-> <<>>]
    /\ up = [i \in Ids |-> "none"]
    /\ get = [h \in Gets |-> IdleGet]
    /\ restarts = 0

-----------------------------------------------------------------------------
(* The user's request: client and RelayRequest.                            *)

\* The critical section of RelayRequest makes the entry.  (Its duplicate-id
\* return is unreachable: ids are fresh.)
ClientRequest(i, s) ==
    /\ cl[i] = "none"
    /\ resp' = resp \union {i}
    /\ age' = [age EXCEPT ![i] = 0]
    /\ cl' = [cl EXCEPT ![i] = "offering"]
    /\ dest' = [dest EXCEPT ![i] = s]
    /\ UNCHANGED <<toClose, respClosed, reqClosed, poll, post, sendq, up, get, restarts>>

\* No relay client took the request within 10s: 500, and the entry stays behind.
RelayTimeout(i) ==
    /\ cl[i] = "offering"
    /\ cl' = [cl EXCEPT ![i] = "error"]
    /\ UNCHANGED <<resp, age, toClose, respClosed, reqClosed, dest, poll, post, sendq,
                   up, get, restarts>>

(* GET /server/request: serverRequest and GetRequest.                      *)
ServerRequest(g, s) ==
    /\ poll[g].st = "idle"
    /\ poll' = [poll EXCEPT ![g] = [st |-> "waiting", server |-> s, id |-> NoId]]
    /\ UNCHANGED <<resp, age, toClose, respClosed, reqClosed, cl, dest, post, sendq, up,
                   get, restarts>>

\* RelayRequest and GetRequest meet on the request channel of the server name.
AcceptRequest(i, g) ==
    /\ cl[i] = "offering"
    /\ poll[g].st = "waiting"
    /\ poll[g].server = dest[i]
    /\ cl' = [cl EXCEPT ![i] = "waiting"]
    /\ poll' = [poll EXCEPT ![g].st = "got", ![g].id = i]
    /\ UNCHANGED <<resp, age, toClose, respClosed, reqClosed, dest, post, sendq, up, get,
                   restarts>>

\* No request within 30s: 408.
PollTimeout(g) ==
    /\ poll[g].st = "waiting"
    /\ poll' = [poll EXCEPT ![g].st = "timeout"]
    /\ UNCHANGED <<resp, age, toClose, respClosed, reqClosed, cl, dest, post, sendq, up,
                   get, restarts>>

\* The handler's reply has left (or its connection is gone).
PollEnd(g) ==
    /\ poll[g].st \in {"got", "timeout", "failed"}
    /\ poll' = [poll EXCEPT ![g] = IdlePoll]
    /\ UNCHANGED <<resp, age, toClose, respClosed, reqClosed, cl, dest, post, sendq, up,
                   get, restarts>>

-----------------------------------------------------------------------------
(* POST /server/response: serverResponse and SendResponse.                 *)

\* Mutant of SendResponse: the entry outlives its final message.
SendResponseKeeps(p, m) ==
    /\ post[p].st = "idle"
    /\ IF m.id \notin resp
       THEN post' = [post EXCEPT ![p] = PostAt("rejected")] /\ UNCHANGED age
       ELSE /\ post' = [post EXCEPT ![p] = [st |-> "looked", msg |-> m]]
            /\ age' = [age EXCEPT ![m.id] = 0]
    /\ UNCHANGED <<resp, toClose, respClosed, reqClosed, cl, dest, poll, sendq, up, get, restarts>>

\* The critical section: an unknown id is refused with 400; an eof message
\* deletes the entry, any other one refreshes lastActivity.
SendResponse(p, m) ==
    /\ post[p].st = "idle"
    /\ IF m.id \notin resp
       THEN /\ post' = [post EXCEPT ![p] = PostAt("rejected")]
            /\ UNCHANGED <<resp, age>>
       ELSE /\ post' = [post EXCEPT ![p] = [st |-> "looked", msg |-> m]]
            /\ resp' = IF m.eof THEN resp \ {m.id} ELSE resp
            /\ age' = IF m.eof THEN age ELSE [age EXCEPT ![m.id] = 0]
    /\ UNCHANGED <<toClose, respClosed, reqClosed, cl, dest, poll, sendq, up, get, restarts>>

\* After the unlock: block in the send, or panic when the stream was closed in
\* between (net/http recovers a handler's panic and drops the connection).
SendEnqueue(p) ==
    LET i == post[p].msg.id IN
    /\ post[p].st = "looked"
    /\ IF respClosed[i]
       THEN /\ post' = [post EXCEPT ![p] = PostAt("aborted")]
            /\ UNCHANGED sendq
       ELSE /\ post' = [post EXCEPT ![p].st = "queued"]
            /\ sendq' = [sendq EXCEPT ![i] = Append(@, p)]
    /\ UNCHANGED <<resp, age, toClose, respClosed, reqClosed, cl, dest, poll, up, get, restarts>>

\* close(responseStream): every goroutine blocked in a send to it panics.
Aborted(i) == {p \in Posts : post[p].st = "queued" /\ post[p].msg.id = i}

SendClose(p) ==
    LET i == post[p].msg.id IN
    /\ post[p].st = "closing"
    /\ respClosed' = [respClosed EXCEPT ![i] = TRUE]
    /\ post' = [q \in Posts |-> IF q = p THEN PostAt("ok")
                                ELSE IF q \in Aborted(i) THEN PostAt("aborted")
                                ELSE post[q]]
    /\ sendq' = [sendq EXCEPT ![i] = <<>>]
    /\ UNCHANGED <<resp, age, toClose, reqClosed, cl, dest, poll, up, get, restarts>>

\* The handler's reply has left (or its connection is gone).
PostEnd(p) ==
    /\ post[p].st \in {"ok", "rejected", "aborted"}
    /\ post' = [post EXCEPT ![p] = IdlePost]
    /\ UNCHANGED <<resp, age, toClose, respClosed, reqClosed, cl, dest, poll, sendq, up,
                   get, restarts>>

-----------------------------------------------------------------------------
(* The user's side of responseStream: responseFilter, its forwarder, the   *)
(* copy loops of client and bidirectionalStream.                           *)

\* What the handler does next, by what it was doing and the message's status.
\* A 101 makes bidirectionalStream hijack the connection, which can fail.
AfterReceive(c, m) ==
    CASE c = "waiting" /\ m.status = "absent"    -> {"flushing"}
      [] c = "waiting" /\ m.status = "plain"     -> {"streaming"}
      [] c = "waiting" /\ m.status = "switching" -> {"duplex", "abandoned"}
      [] c = "abandoned" -> {"stuck"}
      [] OTHER -> {c}

ClientReceive(i, next) ==
    /\ cl[i] \in Receiving
    /\ sendq[i] # <<>>
    /\ LET p == Head(sendq[i]) IN
       /\ next \in AfterReceive(cl[i], post[p].msg)
       /\ post' = [post EXCEPT ![p] = IF @.msg.eof THEN [@ EXCEPT !.st = "closing"]
                                      ELSE PostAt("ok")]
    /\ sendq' = [sendq EXCEPT ![i] = Tail(@)]
    /\ cl' = [cl EXCEPT ![i] = next]
    /\ up' = [up EXCEPT ![i] = IF cl[i] = "waiting" /\ next = "duplex" THEN "reading" ELSE @]
    /\ UNCHANGED <<resp, age, toClose, respClosed, reqClosed, dest, poll, get, restarts>>

\* The stream is closed: 500 if no usable first message came, else the user has
\* the end of a body, complete or not.
ClientClosed(i) ==
    /\ cl[i] \in Receiving
    /\ respClosed[i]
    /\ cl' = [cl EXCEPT ![i] = IF @ \in {"streaming", "duplex"} THEN "ok" ELSE "error"]
    /\ UNCHANGED <<resp, age, toClose, respClosed, reqClosed, dest, poll, post, sendq, up,
                   get, restarts>>

-----------------------------------------------------------------------------
(* The request stream of a 101 connection.                                 *)

\* The upload goroutine reads from the user and looks its id up.
UpRead(i) ==
    /\ up[i] = "reading"
    /\ cl[i] = "duplex"
    /\ up' = [up EXCEPT ![i] = IF i \in resp THEN "sending" ELSE "ended"]
    /\ UNCHANGED <<resp, age, toClose, respClosed, reqClosed, cl, dest, poll, post, sendq,
                   get, restarts>>

\* The read fails: the user hung up, or the handler closed the connection.
UpEnd(i) ==
    /\ up[i] = "reading"
    /\ up' = [up EXCEPT ![i] = "ended"]
    /\ UNCHANGED <<resp, age, toClose, respClosed, reqClosed, cl, dest, poll, post, sendq,
                   get, restarts>>

\* POST /server/requeststream: GetRequestStream looks the id up; 410 if unknown.
ServerRequestStream(h, i) ==
    /\ get[h].st = "idle"
    /\ get' = [get EXCEPT ![h] = [st |-> IF i \in resp THEN "waiting" ELSE "gone", id |-> i]]
    /\ UNCHANGED <<resp, age, toClose, respClosed, reqClosed, cl, dest, poll, post, sendq,
                   up, restarts>>

\* PutRequestStream and GetRequestStream meet on requestStream.
UpSend(i, h) ==
    /\ up[i] = "sending"
    /\ get[h].st = "waiting"
    /\ get[h].id = i
    /\ ~reqClosed[i]
    /\ up' = [up EXCEPT ![i] = "reading"]
    /\ get' = [get EXCEPT ![h].st = "writing"]
    /\ UNCHANGED <<resp, age, toClose, respClosed, reqClosed, cl, dest, poll, post, sendq,
                   restarts>>

\* 30s without data, or a closed requestStream: an empty 200.
GetEmpty(h) ==
    /\ get[h].st = "waiting"
    /\ get' = [get EXCEPT ![h].st = "empty"]
    /\ UNCHANGED <<resp, age, toClose, respClosed, reqClosed, cl, dest, poll, post, sendq,
                   up, restarts>>

\* serverRequestStream copies the received slice into its reply.
GetWrite(h) ==
    /\ get[h].st = "writing"
    /\ get' = [get EXCEPT ![h].st = "written"]
    /\ UNCHANGED <<resp, age, toClose, respClosed, reqClosed, cl, dest, poll, post, sendq,
                   up, restarts>>

GetEnd(h) ==
    /\ get[h].st \in {"empty", "written", "gone", "failed"}
    /\ get' = [get EXCEPT ![h] = IdleGet]
    /\ UNCHANGED <<resp, age, toClose, respClosed, reqClosed, cl, dest, poll, post, sendq,
                   up, restarts>>

-----------------------------------------------------------------------------
(* The reaper of newServer: one goroutine, a tick every 10s.               *)

Expired == {i \in resp : age[i] + 1 >= ReapTicks}

\* Mutant of ReapTick: entries are deleted and their streams never closed.
ReapTickForgets ==
    /\ toClose = {}
    /\ resp' = resp \ Expired
    /\ age' = [i \in Ids |-> IF i \in resp \ Expired THEN age[i] + 1 ELSE age[i]]
    /\ UNCHANGED <<toClose, respClosed, reqClosed, cl, dest, poll, post, sendq, up, get, restarts>>

\* Mutant of ReapTick: looking at an entry counts as activity.
ReapTickRefreshes ==
    /\ toClose = {}
    /\ resp' = resp \ Expired
    /\ toClose' = Expired
    /\ age' = [i \in Ids |-> IF i \in resp \ Expired THEN 0 ELSE age[i]]
    /\ UNCHANGED <<respClosed, reqClosed, cl, dest, poll, post, sendq, up, get, restarts>>

\* The critical section of ReapInactiveRequests; the closes are deferred.
ReapTick ==
    /\ toClose = {}
    /\ resp' = resp \ Expired
    /\ toClose' = Expired
    /\ age' = [i \in Ids |-> IF i \in resp \ Expired THEN age[i] + 1 ELSE age[i]]
    /\ UNCHANGED <<respClosed, reqClosed, cl, dest, poll, post, sendq, up, get, restarts>>

\* Mutant of ReapClose: only the request stream is closed.
ReapCloseRequest(i) ==
    /\ i \in toClose
    /\ toClose' = toClose \ {i}
    /\ reqClosed' = [reqClosed EXCEPT ![i] = TRUE]
    /\ UNCHANGED <<resp, age, respClosed, cl, dest, poll, post, sendq, up, get, restarts>>

\* The deferred closes of one entry; blocked senders of responses panic.
ReapClose(i) ==
    /\ i \in toClose
    /\ toClose' = toClose \ {i}
    /\ respClosed' = [respClosed EXCEPT ![i] = TRUE]
    /\ reqClosed' = [reqClosed EXCEPT ![i] = TRUE]
    /\ post' = [q \in Posts |-> IF q \in Aborted(i) THEN PostAt("aborted")
                                ELSE post[q]]
    /\ sendq' = [sendq EXCEPT ![i] = <<>>]
    /\ UNCHANGED <<resp, age, cl, dest, poll, up, get, restarts>>

-----------------------------------------------------------------------------
(* The end of the process: every goroutine and the map are gone, callers   *)
(* see their connection drop, and the pod starts again with an empty map.  *)
ProcessDies ==
    /\ resp' = {}
    /\ toClose' = {}
    /\ cl' = [i \in Ids |-> IF cl[i] \in {"none"} \union Finished THEN cl[i] ELSE "lost"]
    /\ poll' = [g \in Polls |-> IF poll[g].st \in {"waiting", "got"}
                                THEN [poll[g] EXCEPT !.st = "failed"] ELSE poll[g]]
    /\ post' = [p \in Posts |-> IF post[p].st \in {"looked", "queued", "closing"}
                                THEN PostAt("aborted") ELSE post[p]]
    /\ sendq' = [i \in Ids |-> <<>>]
    /\ up' = [i \in Ids |-> IF up[i] = "none" THEN "none" ELSE "ended"]
    /\ get' = [h \in Gets |-> IF get[h].st \in {"waiting", "writing"}
                              THEN [get[h] EXCEPT !.st = "failed"] ELSE get[h]]
    /\ UNCHANGED <<age, respClosed, reqClosed, dest>>

Restart ==
    /\ restarts < MaxRestarts
    /\ restarts' = restarts + 1
    /\ ProcessDies

\* PutRequestStream is blocked in its send when the reaper closes requestStream:
\* the send panics in a goroutine nothing recovers, and takes the process down.
UpPanic(i) ==
    /\ up[i] = "sending"
    /\ reqClosed[i]
    /\ ProcessDies
    /\ UNCHANGED restarts

-----------------------------------------------------------------------------
ServerNext ==
    \/ \E i \in Ids, s \in Servers : ClientRequest(i, s)
    \/ \E i \in Ids : RelayTimeout(i)
    \/ \E g \in Polls, s \in Servers : ServerRequest(g, s)
    \/ \E i \in Ids, g \in Polls : AcceptRequest(i, g)
    \/ \E g \in Polls : PollTimeout(g)
    \/ \E g \in Polls : PollEnd(g)
    \/ \E p \in Posts, m \in Messages : SendResponse(p, m)
    \/ \E p \in Posts : SendEnqueue(p)
    \/ \E p \in Posts : SendClose(p)
    \/ \E p \in Posts : PostEnd(p)
    \/ \E i \in Ids, next \in ClientStates : ClientReceive(i, next)
    \/ \E i \in Ids : ClientClosed(i)
    \/ \E i \in Ids : UpRead(i)
    \/ \E i \in Ids : UpEnd(i)
    \/ \E h \in Gets, i \in Ids : ServerRequestStream(h, i)
    \/ \E i \in Ids, h \in Gets : UpSend(i, h)
    \/ \E h \in Gets : GetEmpty(h)
    \/ \E h \in Gets : GetWrite(h)
    \/ \E h \in Gets : GetEnd(h)
    \/ ReapTick
    \/ \E i \in Ids : ReapClose(i)
    \/ Restart
    \/ \E i \in Ids : UpPanic(i)

ServerSpec == ServerInit /\ [][ServerNext]_serverVars
-----------------------------------------------------------------------------
(* Properties.                                                             *)

PostType == [st : PostStates, msg : Messages \union {NoMessage}]
PollType == [st : PollStates, server : Servers \union {NoServer}, id : Ids \union {NoId}]
GetType == [st : GetStates, id : Ids \union {NoId}]

\* Type invariant of the broker's map, its channels and every handler's state.
TypeOK ==
    /\ resp \in SUBSET Ids
    /\ age \in [Ids -> 0..ReapTicks]
    /\ toClose \in SUBSET Ids
    /\ respClosed \in [Ids -> BOOLEAN]
    /\ reqClosed \in [Ids -> BOOLEAN]
    /\ cl \in [Ids -> ClientStates]
    /\ dest \in [Ids -> Servers \union {NoServer}]
    /\ poll \in [Polls -> PollType]
    /\ post \in [Posts -> PostType]
    /\ sendq \in [Ids -> Seq(Posts)]
    /\ up \in [Ids -> UpStates]
    /\ get \in [Gets -> GetType]
    /\ restarts \in 0..MaxRestarts

\* A POST whose final message has been recognised and has not yet closed the stream.
Ending(p) == post[p].st \in {"looked", "queued", "closing"} /\ post[p].msg.eof

\* Nobody closes a responseStream twice (Go would panic): the reaper and the
\* final SendResponse each get the entry out of the map under the lock, so only
\* one of them is ever left holding the right to close, and the stream is open.
CloseOnce ==
    /\ \A i \in toClose : ~respClosed[i] /\ ~reqClosed[i]
    /\ \A p \in Posts : Ending(p) =>
          /\ ~respClosed[post[p].msg.id]
          /\ post[p].msg.id \notin toClose
          /\ \A q \in Posts : Ending(q) /\ post[q].msg.id = post[p].msg.id => q = p

\* No user hangs for want of somebody to end his response: while his handler
\* offers the request or waits for messages, either the reaper can still find
\* the entry, or it is about to close the stream, or a final message is on its
\* way, or the stream is closed already.
NoHungUser ==
    \A i \in Ids : cl[i] \in Receiving \union {"offering"} =>
        \/ i \in resp
        \/ i \in toClose
        \/ respClosed[i]
        \/ \E p \in Posts : Ending(p) /\ post[p].msg.id = i
=============================================================================
