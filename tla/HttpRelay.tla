------------------------------ MODULE HttpRelay ------------------------------
(***************************************************************************)
(* The whole HTTP relay: the relay server of HttpRelayServer with the      *)
(* http-relay-client (cmd/http-relay-client/main.go) on the robot.         *)
(*                                                                         *)
(* The relay client polls for requests (localProxyWorker), sends each to   *)
(* the local backend, cuts the backend's body into numbered messages       *)
(* (streamBytes and buildResponses) and posts them one after the other,    *)
(* with retries, to the relay server (handleRequest).  On a 101 response   *)
(* it also pulls the user's upload (streamToBackend).  HTTP calls can fail *)
(* before they reach the server or after, when the server's handler keeps  *)
(* running without anybody reading its reply; either process can restart.  *)
(***************************************************************************)
EXTENDS HttpRelayServer

CONSTANTS
    RelayName,    \* server_name of this relay client
    NoSlot,       \* no HTTP call under way
    MaxMessages,  \* bound: messages buildResponses makes of one backend response
    MaxRetries,   \* retries of a POST (10 in the code)
    RetryTicks,   \* reaper ticks that all retries of a POST take at least
                  \* (1+2+4+8+6*10 = 75s of backoff: 7 in the code)
    MaxFaults,    \* bound: calls that fail on the network, restarts of the relay client
    MaxUploads    \* bound: blocks the user sends on a 101 connection

ASSUME RelayConstants ==
    /\ RelayName \in Servers
    /\ NoSlot \notin Posts \union Polls \union Gets
    /\ MaxMessages \in Nat \ {0}
    /\ MaxRetries \in Nat
    /\ RetryTicks \in Nat
    /\ MaxFaults \in Nat
    /\ MaxUploads \in Nat

\* The POST of a message is retried for longer than the server keeps a silent
\* request, so the server has forgotten a request before the client drops a
\* message of it.
ASSUME RetriesOutliveEntry == RetryTicks >= ReapTicks

VARIABLES
    wk,         \* the call in which localProxyWorker polls
    rc,         \* handleRequest, per request
    rs,         \* streamToBackend, per request: none, open or closed
    gslot,      \* its pending call
    faults,     \* network faults and client restarts so far
    \* what the bytes are, which the server never looks at
    chunk,      \* number of the message in each POST
    received,   \* message numbers the user's handler took, in order
    resent,     \* requests with a message posted again after its reply was lost
    ubuf,       \* number of the block in the upload goroutine's only buffer
    wrote,      \* number of the block in each /server/requeststream reply
    pulled      \* numbers of the blocks the relay client wrote to the backend

clientVars == <<wk, rc, rs, gslot, faults>>
dataVars == <<chunk, received, resent, ubuf, wrote, pulled>>
vars == <<serverVars, clientVars, dataVars>>

NoRequest == [st |-> "none", k |-> 0, eof |-> FALSE, status |-> "absent", once |-> FALSE,
              tries |-> 0, ticks |-> 0, slot |-> NoSlot]

Init ==
    /\ ServerInit
    /\ wk = NoSlot
    /\ rc = [i \in Ids |-> NoRequest]
    /\ rs = [i \in Ids |-> "none"]
    /\ gslot = [i \in Ids |-> NoSlot]
    /\ faults = 0
    /\ chunk = [p \in Posts |-> 0]
    /\ received = [i \in Ids |-> <<>>]
    /\ resent = {}
    /\ ubuf = [i \in Ids |-> 0]
    /\ wrote = [h \in Gets |-> 0]
    /\ pulled = [i \in Ids |-> <<>>]

Fault == faults < MaxFaults /\ faults' = faults + 1

-----------------------------------------------------------------------------
(* localProxyWorker, localProxy, getRequest.                               *)

WorkerPoll(g) ==
    /\ wk = NoSlot
    /\ ServerRequest(g, RelayName)
    /\ wk' = g
    /\ UNCHANGED <<rc, rs, gslot, faults, dataVars>>

\* A request starts handleRequest; 408 and errors only start the next poll.
WorkerReply ==
    /\ wk # NoSlot
    /\ PollEnd(wk)
    /\ rc' = IF poll[wk].st = "got" THEN [rc EXCEPT ![poll[wk].id].st = "backend"] ELSE rc
    /\ wk' = NoSlot
    /\ UNCHANGED <<rs, gslot, faults, dataVars>>

\* The connection fails under the poll; the server's handler does not notice.
WorkerLost ==
    /\ wk # NoSlot
    /\ Fault
    /\ wk' = NoSlot
    /\ UNCHANGED <<serverVars, rc, rs, gslot, dataVars>>

\* A reply nobody reads: a request in it is lost.
OrphanPollEnd(g) ==
    /\ g # wk
    /\ PollEnd(g)
    /\ UNCHANGED <<clientVars, dataVars>>

-----------------------------------------------------------------------------
(* handleRequest: makeBackendRequest, streamBytes, buildResponses.         *)

\* The backend answers; a 101 starts streamToBackend.
BackendAnswers(i, status) ==
    /\ rc[i].st = "backend"
    /\ rc' = [rc EXCEPT ![i].st = "building", ![i].status = status]
    /\ rs' = [rs EXCEPT ![i] = IF status = "switching" THEN "open" ELSE @]
    /\ UNCHANGED <<serverVars, wk, gslot, faults, dataVars>>

\* It cannot be reached: postErrorResponse sends one final message, once.
BackendFails(i) ==
    /\ rc[i].st = "backend"
    /\ rc' = [rc EXCEPT ![i].st = "posting", ![i].k = 1, ![i].eof = TRUE,
                        ![i].status = "plain", ![i].once = TRUE]
    /\ UNCHANGED <<serverVars, wk, rs, gslot, faults, dataVars>>

\* buildResponses hands over the next message: a full chunk, what came within
\* the timeout, a keep-alive, or the final one.  Only the first has the status.
NextMessage(i, eof) ==
    /\ rc[i].st = "building"
    /\ rc[i].k + 1 = MaxMessages => eof
    /\ rc' = [rc EXCEPT ![i].st = "posting", ![i].k = @ + 1, ![i].eof = eof]
    /\ UNCHANGED <<serverVars, wk, rs, gslot, faults, dataVars>>

-----------------------------------------------------------------------------
(* The retry loop of handleRequest around postResponse.                    *)

\* After the message is posted, or dropped for good.
Advance(r) == [r EXCEPT !.st = IF r.eof THEN "stopped" ELSE "building", !.tries = 0, !.ticks = 0,
                         !.slot = NoSlot]
Stop(r) == [r EXCEPT !.st = "stopped", !.tries = 0, !.ticks = 0, !.slot = NoSlot]
Retry(r) == IF r.once THEN Stop(r)
            ELSE [r EXCEPT !.tries = @ + 1, !.slot = NoSlot]

\* Mutant of MayPost: no limit on retries.
MayPostForever(i) == rc[i].st = "posting" /\ rc[i].slot = NoSlot

MayPost(i) == rc[i].st = "posting" /\ rc[i].slot = NoSlot /\ rc[i].tries <= MaxRetries

PostAttempt(i, p) ==
    /\ MayPost(i)
    /\ SendResponse(p, [id |-> i, eof |-> rc[i].eof,
                        status |-> IF rc[i].k = 1 THEN rc[i].status ELSE "absent"])
    /\ rc' = [rc EXCEPT ![i].slot = p]
    /\ chunk' = [chunk EXCEPT ![p] = rc[i].k]
    /\ UNCHANGED <<wk, rs, gslot, faults, received, resent, ubuf, wrote, pulled>>

\* The POST fails before it reaches the server.
PostLost(i) ==
    /\ MayPost(i)
    /\ Fault
    /\ rc' = [rc EXCEPT ![i] = Retry(@)]
    /\ UNCHANGED <<serverVars, wk, rs, gslot, dataVars>>

\* 200: next message.  400: permanent, not retried; RetryNotify has unwrapped the
\* PermanentError that handleRequest asserts on, so its break is never taken and
\* the next message follows.  Anything else is retried.
PostReply(i) ==
    /\ rc[i].slot # NoSlot
    /\ PostEnd(rc[i].slot)
    /\ LET st == post[rc[i].slot].st IN
       rc' = [rc EXCEPT ![i] = IF st \in {"ok", "rejected"} THEN Advance(@) ELSE Retry(@)]
    /\ chunk' = [chunk EXCEPT ![rc[i].slot] = 0]
    /\ UNCHANGED <<wk, rs, gslot, faults, received, resent, ubuf, wrote, pulled>>

\* The call times out (60s) or its reply is lost: the server's handler goes on.
ReplyLost(i) ==
    /\ rc[i].slot # NoSlot
    /\ Fault
    /\ rc' = [rc EXCEPT ![i] = Retry(@)]
    /\ resent' = resent \union {i}
    /\ UNCHANGED <<serverVars, wk, rs, gslot, chunk, received, ubuf, wrote, pulled>>

\* Mutant of GiveUp: the retries do not wait for each other.
GiveUpEarly(i) ==
    /\ rc[i].st = "posting"
    /\ rc[i].slot = NoSlot
    /\ rc[i].tries > MaxRetries
    /\ rc' = [rc EXCEPT ![i] = Advance(@)]
    /\ UNCHANGED <<serverVars, wk, rs, gslot, faults, dataVars>>

\* All retries failed without a permanent error: the message is dropped and the
\* loop goes on with the next one.
GiveUp(i) ==
    /\ rc[i].st = "posting"
    /\ rc[i].slot = NoSlot
    /\ rc[i].tries > MaxRetries
    /\ rc[i].ticks >= RetryTicks
    /\ rc' = [rc EXCEPT ![i] = Advance(@)]
    /\ UNCHANGED <<serverVars, wk, rs, gslot, faults, dataVars>>

OrphanPostEnd(p) ==
    /\ \A i \in Ids : rc[i].slot # p
    /\ PostEnd(p)
    /\ chunk' = [chunk EXCEPT ![p] = 0]
    /\ UNCHANGED <<clientVars, received, resent, ubuf, wrote, pulled>>

-----------------------------------------------------------------------------
(* streamToBackend.                                                        *)

StreamPoll(i, h) ==
    /\ rs[i] = "open"
    /\ gslot[i] = NoSlot
    /\ ServerRequestStream(h, i)
    /\ gslot' = [gslot EXCEPT ![i] = h]
    /\ UNCHANGED <<wk, rc, rs, faults, dataVars>>

\* Data is written to the backend, 410 and any failure close it.
StreamReply(i) ==
    /\ gslot[i] # NoSlot
    /\ GetEnd(gslot[i])
    /\ LET st == get[gslot[i]].st IN
       /\ rs' = [rs EXCEPT ![i] = IF st \in {"empty", "written"} THEN @ ELSE "closed"]
       /\ pulled' = IF st = "written"
                    THEN [pulled EXCEPT ![i] = Append(@, wrote[gslot[i]])] ELSE pulled
    /\ gslot' = [gslot EXCEPT ![i] = NoSlot]
    /\ wrote' = [wrote EXCEPT ![gslot[i]] = 0]
    /\ UNCHANGED <<wk, rc, faults, chunk, received, resent, ubuf>>

StreamLost(i) ==
    /\ gslot[i] # NoSlot
    /\ Fault
    /\ rs' = [rs EXCEPT ![i] = "closed"]
    /\ gslot' = [gslot EXCEPT ![i] = NoSlot]
    /\ UNCHANGED <<serverVars, wk, rc, dataVars>>

OrphanGetEnd(h) ==
    /\ \A i \in Ids : gslot[i] # h
    /\ GetEnd(h)
    /\ wrote' = [wrote EXCEPT ![h] = 0]
    /\ UNCHANGED <<clientVars, chunk, received, resent, ubuf, pulled>>

\* The relay client restarts: its workers, handlers and streams are gone.
ClientRestart ==
    /\ Fault
    /\ wk' = NoSlot
    /\ rc' = [i \in Ids |-> IF rc[i].st = "none" THEN rc[i] ELSE Stop(rc[i])]
    /\ rs' = [i \in Ids |-> IF rs[i] = "none" THEN "none" ELSE "closed"]
    /\ gslot' = [i \in Ids |-> NoSlot]
    /\ UNCHANGED <<serverVars, dataVars>>

-----------------------------------------------------------------------------
(* The server's own steps, with the bytes they move.                       *)

UserReceives(i) ==
    /\ \E next \in ClientStates : ClientReceive(i, next)
    /\ received' = [received EXCEPT ![i] = Append(@, chunk[Head(sendq[i])])]
    /\ UNCHANGED <<clientVars, chunk, resent, ubuf, wrote, pulled>>

\* bufrw.Read overwrites the goroutine's one buffer.
UploadRead(i) ==
    /\ ubuf[i] < MaxUploads
    /\ UpRead(i)
    /\ ubuf' = [ubuf EXCEPT ![i] = @ + 1]
    /\ UNCHANGED <<clientVars, chunk, received, resent, wrote, pulled>>

\* The reply is copied from the slice of that buffer that PutRequestStream passed.
UploadWrite(h) ==
    /\ GetWrite(h)
    /\ wrote' = [wrote EXCEPT ![h] = ubuf[get[h].id]]
    /\ UNCHANGED <<clientVars, chunk, received, resent, ubuf, pulled>>

\* Ten seconds pass: every runnable handler has run, and the retry clocks advance.
Tick ==
    /\ \A p \in Posts : post[p].st # "looked"
    /\ ReapTick
    /\ rc' = [i \in Ids |-> IF rc[i].st = "posting" /\ rc[i].ticks < RetryTicks
                            THEN [rc[i] EXCEPT !.ticks = @ + 1] ELSE rc[i]]
    /\ UNCHANGED <<wk, rs, gslot, faults, dataVars>>

ServerStep ==
    /\ \/ \E i \in Ids, s \in Servers : ClientRequest(i, s)
       \/ \E i \in Ids : RelayTimeout(i)
       \/ \E i \in Ids, g \in Polls : AcceptRequest(i, g)
       \/ \E g \in Polls : PollTimeout(g)
       \/ \E p \in Posts : SendEnqueue(p)
       \/ \E p \in Posts : SendClose(p)
       \/ \E i \in Ids : ClientClosed(i)
       \/ \E i \in Ids : UpEnd(i)
       \/ \E i \in Ids, h \in Gets : UpSend(i, h)
       \/ \E h \in Gets : GetEmpty(h)
       \/ \E i \in Ids : ReapClose(i)
       \/ Restart
       \/ \E i \in Ids : UpPanic(i)
    /\ UNCHANGED <<clientVars, dataVars>>

Next ==
    \/ ServerStep
    \/ Tick
    \/ \E i \in Ids : UserReceives(i)
    \/ \E i \in Ids : UploadRead(i)
    \/ \E h \in Gets : UploadWrite(h)
    \/ \E g \in Polls : WorkerPoll(g)
    \/ WorkerReply
    \/ WorkerLost
    \/ \E g \in Polls : OrphanPollEnd(g)
    \/ \E i \in Ids, status \in {"plain", "switching"} : BackendAnswers(i, status)
    \/ \E i \in Ids : BackendFails(i)
    \/ \E i \in Ids, eof \in BOOLEAN : NextMessage(i, eof)
    \/ \E i \in Ids, p \in Posts : PostAttempt(i, p)
    \/ \E i \in Ids : PostLost(i)
    \/ \E i \in Ids : PostReply(i)
    \/ \E i \in Ids : ReplyLost(i)
    \/ \E i \in Ids : GiveUp(i)
    \/ \E p \in Posts : OrphanPostEnd(p)
    \/ \E i \in Ids, h \in Gets : StreamPoll(i, h)
    \/ \E i \in Ids : StreamReply(i)
    \/ \E i \in Ids : StreamLost(i)
    \/ \E h \in Gets : OrphanGetEnd(h)
    \/ ClientRestart

\* The server's goroutines run and its timers fire.  Nothing is assumed of the
\* relay client, the backend or the network.
Fairness ==
    /\ WF_vars(Tick)
    /\ \A i \in Ids :
          /\ WF_vars(RelayTimeout(i) /\ UNCHANGED <<clientVars, dataVars>>)
          /\ WF_vars(UserReceives(i))
          /\ WF_vars(ClientClosed(i) /\ UNCHANGED <<clientVars, dataVars>>)
          /\ WF_vars(ReapClose(i) /\ UNCHANGED <<clientVars, dataVars>>)
    /\ \A p \in Posts :
          /\ WF_vars(SendEnqueue(p) /\ UNCHANGED <<clientVars, dataVars>>)
          /\ WF_vars(SendClose(p) /\ UNCHANGED <<clientVars, dataVars>>)

Spec == Init /\ [][Next]_vars /\ Fairness

-----------------------------------------------------------------------------
(* Properties.                                                             *)

\* Type invariant of the relay client and of the bytes under way.
RelayTypeOK ==
    /\ TypeOK
    /\ wk \in Polls \union {NoSlot}
    /\ rc \in [Ids -> [st : {"none", "backend", "building", "posting", "stopped"},
                       k : 0..MaxMessages, eof : BOOLEAN, status : Status,
                       once : BOOLEAN, tries : 0..(MaxRetries + 1),
                       ticks : 0..RetryTicks, slot : Posts \union {NoSlot}]]
    /\ rs \in [Ids -> {"none", "open", "closed"}]
    /\ gslot \in [Ids -> Gets \union {NoSlot}]
    /\ faults \in 0..MaxFaults
    /\ chunk \in [Posts -> 0..MaxMessages]
    /\ received \in [Ids -> Seq(1..MaxMessages)]
    /\ resent \in SUBSET Ids
    /\ ubuf \in [Ids -> 0..MaxUploads]
    /\ wrote \in [Gets -> 0..MaxUploads]
    /\ pulled \in [Ids -> Seq(1..MaxUploads)]

\* What of this the user sees: the messages of handleRequest's loop as they
\* come through responseFilter, and how his handler ended.  Only the reaper
\* closes requestStream.
Stream == INSTANCE ResponseStream WITH
    sent <- [i \in Ids |-> rc[i].k],
    final <- [i \in Ids |-> rc[i].eof],
    got <- received,
    state <- [i \in Ids |-> CASE cl[i] = "ok" -> "ended"
                               [] cl[i] \in {"error", "lost"} -> "failed"
                               [] OTHER -> "open"],
    doubted <- resent,
    reaped <- {i \in Ids : reqClosed[i]}

\* The relay implements the response stream it promises: whatever calls and
\* replies are lost, retried, delayed, reaped or cut off by restarts, the user
\* misses no message in the middle of a response (handleRequest drops one it
\* cannot post and goes on), sees one twice only if its reply was lost, and is
\* told that he has it all only if he has, or if the request was reaped.
ImplementsStream == Stream!Spec

\* Every user request is answered, well or badly: its handler returns.
UserAnswered ==
    \A i \in Ids : cl[i] = "offering" ~> cl[i] \in Finished \union {"abandoned", "stuck"}

\* The broker's map does not leak: every entry is removed.
EntryReclaimed == \A i \in Ids : i \in resp ~> i \notin resp
=============================================================================
