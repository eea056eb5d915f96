--------------------------- MODULE HttpRelayProofs ---------------------------
(***************************************************************************)
(* Proofs about the HTTP relay: its server alone, for any number of        *)
(* requests, handlers and relay clients and any reaping threshold, and the *)
(* whole relay, for any number of messages, faults and restarts too: it    *)
(* implements ResponseStream.                                              *)
(*                                                                         *)
(* CloseOnce and NoHungUser of the server are not inductive by themselves: *)
(* that an entry leaves the map together with the right to close its       *)
(* stream has to be carried along with what the queue of blocked senders   *)
(* looks like.                                                             *)
(*                                                                         *)
(* Why the user never misses a message in the middle: message n is posted  *)
(* only after message n-1 was received, or stands before it in the queue   *)
(* of the response stream, or the relay server does not know the request   *)
(* any more (Previous, Order).  The hard case is a message that the client *)
(* gives up: either one of its posts has reached the server and is queued, *)
(* or none has, and then the entry is as silent as the client's clock says *)
(* and was reaped before (Clock), which needs RetriesOutliveEntry.         *)
(***************************************************************************)
EXTENDS HttpRelay, TLAPS

-----------------------------------------------------------------------------
(* The relay server.                                                       *)

\* A POST between the map lookup and the end of its send.
Active(p) == post[p].st \in {"looked", "queued", "closing"}

\* An entry in the map has open streams, no closer and an existing user request.
Listed ==
    \A i \in resp :
        /\ cl[i] # "none"
        /\ i \notin toClose
        /\ ~respClosed[i]
        /\ ~reqClosed[i]
        /\ \A p \in Posts : Ending(p) => post[p].msg.id # i

\* An id that no user request has yet is unknown everywhere.
Fresh ==
    \A i \in Ids : cl[i] = "none" =>
        /\ i \notin resp
        /\ i \notin toClose
        /\ ~respClosed[i]
        /\ ~reqClosed[i]
        /\ \A p \in Posts : Active(p) => post[p].msg.id # i

\* An active POST carries a message, and one that is about to close an eof one.
Carried ==
    \A p \in Posts : Active(p) =>
        /\ post[p].msg \in Messages
        /\ post[p].st = "closing" => post[p].msg.eof

\* The senders blocked on a stream are distinct POSTs of that request.
Queues ==
    \A i \in Ids :
        /\ \A n \in 1..Len(sendq[i]) :
              post[sendq[i][n]].st = "queued" /\ post[sendq[i][n]].msg.id = i
        /\ \A m, n \in 1..Len(sendq[i]) : sendq[i][m] = sendq[i][n] => m = n

Inv == Listed /\ Fresh /\ Carried /\ Queues /\ CloseOnce /\ NoHungUser
-----------------------------------------------------------------------------
(* The records of the handlers stay in their types.                        *)

LEMMA PollRecords ==
    /\ IdlePoll \in PollType
    /\ \A s \in Servers : [st |-> "waiting", server |-> s, id |-> NoId] \in PollType
    /\ \A r \in PollType, st \in PollStates : [r EXCEPT !.st = st] \in PollType
    /\ \A r \in PollType, st \in PollStates, i \in Ids :
          [r EXCEPT !.st = st, !.id = i] \in PollType
BY DEF IdlePoll, PollType, PollStates

LEMMA PostRecords ==
    /\ IdlePost \in PostType
    /\ \A st \in PostStates : PostAt(st) \in PostType
    /\ \A m \in Messages : [st |-> "looked", msg |-> m] \in PostType
    /\ \A r \in PostType, st \in PostStates : [r EXCEPT !.st = st] \in PostType
BY DEF IdlePost, PostAt, PostType, PostStates

LEMMA GetRecords ==
    /\ IdleGet \in GetType
    /\ \A i \in Ids, st \in GetStates : [st |-> st, id |-> i] \in GetType
    /\ \A r \in GetType, st \in GetStates : [r EXCEPT !.st = st] \in GetType
BY DEF IdleGet, GetType, GetStates

\* The process ends: what is left is well typed.
LEMMA DiesTyped == ASSUME TypeOK, ProcessDies, restarts' \in 0..MaxRestarts PROVE TypeOK'
<1>1. poll' \in [Polls -> PollType]
  BY PollRecords DEF TypeOK, ProcessDies, PollStates
<1>2. post' \in [Posts -> PostType]
  BY PostRecords DEF TypeOK, ProcessDies, PostStates
<1>3. get' \in [Gets -> GetType]
  BY GetRecords DEF TypeOK, ProcessDies, GetStates
<1>4. cl' \in [Ids -> ClientStates] /\ up' \in [Ids -> UpStates]
  BY DEF TypeOK, ProcessDies, ClientStates, UpStates, Finished
<1> QED
  BY <1>1, <1>2, <1>3, <1>4 DEF TypeOK, ProcessDies

\* The empty relay server is well typed.
LEMMA TypeInit == ServerInit => TypeOK
<1>1. IdlePoll \in PollType /\ IdlePost \in PostType /\ IdleGet \in GetType
  BY PollRecords, PostRecords, GetRecords
<1>2. <<>> \in Seq(Posts)
  OBVIOUS
<1> QED
  BY <1>1, <1>2, ServerConstants DEF ServerInit, TypeOK, ClientStates, UpStates

\* Every handler of the relay server keeps the broker's state well typed.
LEMMA TypeStep == ASSUME TypeOK, [ServerNext]_serverVars PROVE TypeOK'
<1> USE ServerConstants DEF TypeOK
<1>1. ASSUME NEW i \in Ids, NEW s \in Servers, ClientRequest(i, s) PROVE TypeOK'
  BY <1>1 DEF ClientRequest, ClientStates
<1>2. ASSUME NEW i \in Ids, RelayTimeout(i) PROVE TypeOK'
  BY <1>2 DEF RelayTimeout, ClientStates
<1>3. ASSUME NEW g \in Polls, NEW s \in Servers, ServerRequest(g, s) PROVE TypeOK'
  <2>1. poll' \in [Polls -> PollType]
    BY <1>3, PollRecords DEF ServerRequest, PollStates
  <2> QED
    BY <1>3, <2>1 DEF ServerRequest
<1>4. ASSUME NEW i \in Ids, NEW g \in Polls, AcceptRequest(i, g) PROVE TypeOK'
  <2>1. poll' \in [Polls -> PollType]
    BY <1>4, PollRecords DEF AcceptRequest, PollStates
  <2> QED
    BY <1>4, <2>1 DEF AcceptRequest, ClientStates
<1>5. ASSUME NEW g \in Polls, PollTimeout(g) PROVE TypeOK'
  <2>1. poll' \in [Polls -> PollType]
    BY <1>5, PollRecords DEF PollTimeout, PollStates
  <2> QED
    BY <1>5, <2>1 DEF PollTimeout
<1>6. ASSUME NEW g \in Polls, PollEnd(g) PROVE TypeOK'
  <2>1. poll' \in [Polls -> PollType]
    BY <1>6, PollRecords DEF PollEnd, PollStates
  <2> QED
    BY <1>6, <2>1 DEF PollEnd
<1>7. ASSUME NEW p \in Posts, NEW m \in Messages, SendResponse(p, m) PROVE TypeOK'
  <2>1. post' \in [Posts -> PostType]
    <3>1. [st |-> "looked", msg |-> m] \in PostType /\ PostAt("rejected") \in PostType
      BY PostRecords DEF PostStates
    <3> QED
      BY <1>7, <3>1 DEF SendResponse
  <2>2. resp' \in SUBSET Ids
    BY <1>7 DEF SendResponse
  <2>3. age' \in [Ids -> 0..ReapTicks]
    <3>1. age' = age \/ age' = [age EXCEPT ![m.id] = 0]
      BY <1>7 DEF SendResponse
    <3>2. 0 \in 0..ReapTicks /\ age \in [Ids -> 0..ReapTicks]
      OBVIOUS
    <3> HIDE DEF TypeOK
    <3> QED
      BY <3>1, <3>2
  <2> QED
    BY <1>7, <2>1, <2>2, <2>3 DEF SendResponse
<1>8. ASSUME NEW p \in Posts, SendEnqueue(p) PROVE TypeOK'
  <2> DEFINE i == post[p].msg.id
  <2>1. post' \in [Posts -> PostType]
    <3>1. [post[p] EXCEPT !.st = "queued"] \in PostType /\ PostAt("aborted") \in PostType
      BY PostRecords DEF PostStates
    <3> QED
      BY <1>8, <3>1 DEF SendEnqueue
  <2>2. sendq' \in [Ids -> Seq(Posts)]
    <3>1. i \in Ids => Append(sendq[i], p) \in Seq(Posts)
      OBVIOUS
    <3>2. sendq' = sendq \/ sendq' = [sendq EXCEPT ![i] = Append(sendq[i], p)]
      BY <1>8 DEF SendEnqueue
    <3> HIDE DEF i
    <3> QED
      BY <3>1, <3>2
  <2> QED
    BY <1>8, <2>1, <2>2 DEF SendEnqueue
<1>9. ASSUME NEW p \in Posts, SendClose(p) PROVE TypeOK'
  <2>1. post' \in [Posts -> PostType]
    <3>1. PostAt("ok") \in PostType /\ PostAt("aborted") \in PostType
      BY PostRecords DEF PostStates
    <3> QED
      BY <1>9, <3>1 DEF SendClose
  <2>2. <<>> \in Seq(Posts)
    OBVIOUS
  <2>3. sendq' \in [Ids -> Seq(Posts)] /\ respClosed' \in [Ids -> BOOLEAN]
    BY <1>9, <2>2 DEF SendClose
  <2> QED
    BY <1>9, <2>1, <2>3 DEF SendClose
<1>10. ASSUME NEW p \in Posts, PostEnd(p) PROVE TypeOK'
  <2>1. post' \in [Posts -> PostType]
    BY <1>10, PostRecords DEF PostEnd, PostStates
  <2> QED
    BY <1>10, <2>1 DEF PostEnd
<1>11. ASSUME NEW i \in Ids, NEW next \in ClientStates, ClientReceive(i, next) PROVE TypeOK'
  <2>1. post' \in [Posts -> PostType]
    BY <1>11, PostRecords DEF ClientReceive, PostStates
  <2> QED
    BY <1>11, <2>1 DEF ClientReceive, UpStates
<1>12. ASSUME NEW i \in Ids, ClientClosed(i) PROVE TypeOK'
  BY <1>12 DEF ClientClosed, ClientStates
<1>13. ASSUME NEW i \in Ids, UpRead(i) PROVE TypeOK'
  BY <1>13 DEF UpRead, UpStates
<1>14. ASSUME NEW i \in Ids, UpEnd(i) PROVE TypeOK'
  BY <1>14 DEF UpEnd, UpStates
<1>15. ASSUME NEW h \in Gets, NEW i \in Ids, ServerRequestStream(h, i) PROVE TypeOK'
  <2>1. get' \in [Gets -> GetType]
    BY <1>15, GetRecords DEF ServerRequestStream, GetStates
  <2> QED
    BY <1>15, <2>1 DEF ServerRequestStream
<1>16. ASSUME NEW i \in Ids, NEW h \in Gets, UpSend(i, h) PROVE TypeOK'
  <2>1. get' \in [Gets -> GetType]
    BY <1>16, GetRecords DEF UpSend, GetStates
  <2> QED
    BY <1>16, <2>1 DEF UpSend, UpStates
<1>17. ASSUME NEW h \in Gets, GetEmpty(h) PROVE TypeOK'
  <2>1. get' \in [Gets -> GetType]
    BY <1>17, GetRecords DEF GetEmpty, GetStates
  <2> QED
    BY <1>17, <2>1 DEF GetEmpty
<1>18. ASSUME NEW h \in Gets, GetWrite(h) PROVE TypeOK'
  <2>1. get' \in [Gets -> GetType]
    BY <1>18, GetRecords DEF GetWrite, GetStates
  <2> QED
    BY <1>18, <2>1 DEF GetWrite
<1>19. ASSUME NEW h \in Gets, GetEnd(h) PROVE TypeOK'
  <2>1. get' \in [Gets -> GetType]
    BY <1>19, GetRecords DEF GetEnd, GetStates
  <2> QED
    BY <1>19, <2>1 DEF GetEnd
<1>20. ASSUME ReapTick PROVE TypeOK'
  BY <1>20 DEF ReapTick, Expired
<1>21. ASSUME NEW i \in Ids, ReapClose(i) PROVE TypeOK'
  <2>1. post' \in [Posts -> PostType]
    BY <1>21, PostRecords DEF ReapClose, PostStates
  <2> QED
    BY <1>21, <2>1 DEF ReapClose
<1>22. ASSUME Restart PROVE TypeOK'
  BY <1>22, DiesTyped DEF Restart
<1>23. ASSUME NEW i \in Ids, UpPanic(i) PROVE TypeOK'
  BY <1>23, DiesTyped DEF UpPanic
<1>24. ASSUME UNCHANGED serverVars PROVE TypeOK'
  BY <1>24 DEF serverVars
<1> QED
  BY <1>1, <1>2, <1>3, <1>4, <1>5, <1>6, <1>7, <1>8, <1>9, <1>10, <1>11, <1>12, <1>13, <1>14, <1>15, <1>16, <1>17, <1>18, <1>19, <1>20, <1>21, <1>22, <1>23, <1>24 DEF ServerNext

\* The broker's state is well typed in every state the relay server can reach.
THEOREM TypeCorrect == ServerSpec => []TypeOK
<1>1. TypeOK /\ [ServerNext]_serverVars => TypeOK'
  BY TypeStep
<1> QED
  BY TypeInit, <1>1, PTL DEF ServerSpec
-----------------------------------------------------------------------------
(* The inductive invariant, one lemma per step that touches what it is     *)
(* about: the map, the closes, the users' handlers and the POSTs.          *)

\* What the invariant is about.
coreVars == <<resp, toClose, respClosed, reqClosed, cl, post, sendq>>

\* The empty relay server satisfies the invariant.
LEMMA InvInit == ServerInit => Inv
BY DEF ServerInit, Inv, Listed, Fresh, Carried, Queues, CloseOnce, NoHungUser, Active,
       Ending, Receiving, IdlePost, PostAt

\* Steps of polls, uploads and request streams leave it alone.
LEMMA InvFrame == ASSUME Inv, UNCHANGED coreVars PROVE Inv'
BY DEF Inv, Listed, Fresh, Carried, Queues, CloseOnce, NoHungUser, Active, Ending, coreVars

\* A new user request: its id was unknown everywhere (Fresh).
LEMMA InvClientRequest ==
    ASSUME TypeOK, Inv, NEW i \in Ids, NEW s \in Servers, ClientRequest(i, s)
    PROVE  Inv'
<1> USE DEF Active, Ending
<1>1. Listed'
  BY DEF ClientRequest, Inv, Listed, Fresh, TypeOK
<1>2. Fresh'
  BY DEF ClientRequest, Inv, Fresh, TypeOK
<1>3. Carried' /\ Queues' /\ CloseOnce'
  BY DEF ClientRequest, Inv, Carried, Queues, CloseOnce
<1>4. NoHungUser'
  BY DEF ClientRequest, Inv, NoHungUser, TypeOK, Receiving
<1> QED
  BY <1>1, <1>2, <1>3, <1>4 DEF Inv

\* Steps of the user's handler that move it without a message.
LEMMA InvHandler ==
    ASSUME TypeOK, Inv, NEW i \in Ids,
           \/ RelayTimeout(i)
           \/ \E g \in Polls : AcceptRequest(i, g)
           \/ ClientClosed(i)
    PROVE  Inv'
<1>1. /\ \A j \in Ids \ {i} : cl'[j] = cl[j]
      /\ cl[i] \in Receiving \union {"offering"}
      /\ cl'[i] \in {"error", "waiting", "ok"}
      /\ UNCHANGED <<resp, toClose, respClosed, reqClosed, post, sendq>>
  BY DEF RelayTimeout, AcceptRequest, ClientClosed, TypeOK
<1> USE DEF Active, Ending
<1>2. Listed' /\ Fresh'
  BY <1>1 DEF Inv, Listed, Fresh, TypeOK, Receiving
<1>3. Carried' /\ Queues' /\ CloseOnce'
  BY <1>1 DEF Inv, Carried, Queues, CloseOnce
<1>4. NoHungUser'
  BY <1>1 DEF Inv, NoHungUser, TypeOK, Receiving
<1> QED
  BY <1>2, <1>3, <1>4 DEF Inv

\* The senders in the queues are POSTs, and a POST that is not queued is in none.
LEMMA QueuedPosts ==
    ASSUME TypeOK, Queues, NEW j \in Ids, NEW n \in 1..Len(sendq[j])
    PROVE  /\ sendq[j][n] \in Posts
           /\ post[sendq[j][n]].st = "queued"
           /\ post[sendq[j][n]].msg.id = j
BY DEF TypeOK, Queues

\* The lookup of a POST: an eof message takes the entry, and the right to close, with it.
LEMMA InvSendResponse ==
    ASSUME TypeOK, Inv, NEW p \in Posts, NEW m \in Messages, SendResponse(p, m)
    PROVE  Inv'
<1>1. /\ \A q \in Posts \ {p} : post'[q] = post[q]
      /\ \/ post'[p] = PostAt("rejected") /\ UNCHANGED resp
         \/ /\ post'[p] = [st |-> "looked", msg |-> m]
            /\ m.id \in resp
            /\ m.eof => resp' = resp \ {m.id}
            /\ ~m.eof => UNCHANGED resp
      /\ UNCHANGED <<toClose, respClosed, reqClosed, cl, sendq>>
  BY DEF SendResponse, TypeOK
<1>2. post[p].st = "idle"
  BY DEF SendResponse
<1> USE DEF Active, Ending, PostAt
<1>3. Listed'
  BY <1>1 DEF Inv, Listed
<1>4. Fresh'
  BY <1>1 DEF Inv, Fresh, Listed
<1>5. Carried'
  BY <1>1 DEF Inv, Carried
<1>6. Queues'
  BY <1>1, <1>2, QueuedPosts DEF Inv, Queues
<1>7. CloseOnce'
  BY <1>1 DEF Inv, CloseOnce, Listed
<1>8. NoHungUser'
  BY <1>1, <1>2 DEF Inv, NoHungUser
<1> QED
  BY <1>3, <1>4, <1>5, <1>6, <1>7, <1>8 DEF Inv

\* A finished POST handler returns.
LEMMA InvPostEnd ==
    ASSUME TypeOK, Inv, NEW p \in Posts, PostEnd(p)
    PROVE  Inv'
<1>1. /\ \A q \in Posts \ {p} : post'[q] = post[q]
      /\ post'[p] = PostAt("idle")
      /\ post[p].st \in {"ok", "rejected", "aborted"}
      /\ UNCHANGED <<resp, toClose, respClosed, reqClosed, cl, sendq>>
  BY DEF PostEnd, TypeOK, IdlePost
<1> USE DEF Active, Ending, PostAt
<1>3. Listed' /\ Fresh' /\ Carried'
  BY <1>1 DEF Inv, Listed, Fresh, Carried
<1>6. Queues'
  BY <1>1, QueuedPosts DEF Inv, Queues
<1>7. CloseOnce'
  BY <1>1 DEF Inv, CloseOnce
<1>8. NoHungUser'
  BY <1>1 DEF Inv, NoHungUser
<1> QED
  BY <1>3, <1>6, <1>7, <1>8 DEF Inv

\* A POST blocks in its send, at the end of the queue, or panics.
LEMMA InvSendEnqueue ==
    ASSUME TypeOK, Inv, NEW p \in Posts, SendEnqueue(p)
    PROVE  Inv'
<1> DEFINE i == post[p].msg.id
<1>1. i \in Ids
  BY DEF SendEnqueue, Inv, Carried, Active, Messages
<1>2. /\ \A q \in Posts \ {p} : post'[q] = post[q]
      /\ post[p].st = "looked"
      /\ \/ /\ post'[p] = PostAt("aborted")
            /\ respClosed[i]
            /\ UNCHANGED sendq
         \/ /\ post'[p] = [post[p] EXCEPT !.st = "queued"]
            /\ sendq' = [sendq EXCEPT ![i] = Append(sendq[i], p)]
      /\ UNCHANGED <<resp, toClose, respClosed, reqClosed, cl>>
  BY DEF SendEnqueue, TypeOK
<1>3. post[p] \in PostType
  BY DEF TypeOK
<1>4. \/ post'[p].st = "aborted" /\ ~post'[p].msg.eof /\ respClosed[i] /\ UNCHANGED sendq
      \/ /\ post'[p].st = "queued"
         /\ post'[p].msg = post[p].msg
         /\ sendq' = [sendq EXCEPT ![i] = Append(sendq[i], p)]
  BY <1>2, <1>3 DEF PostAt, PostType, NoMessage
<1>0. /\ \A q \in Posts \ {p} : post'[q] = post[q]
      /\ post[p].st = "looked"
      /\ \/ post'[p].st = "aborted" /\ ~post'[p].msg.eof /\ respClosed[post[p].msg.id]
         \/ post'[p].st = "queued" /\ post'[p].msg = post[p].msg
      /\ UNCHANGED <<resp, toClose, respClosed, reqClosed, cl>>
  BY <1>2, <1>4
<1> USE DEF Active, Ending
<1>5. Listed' /\ Fresh' /\ Carried'
  <2>1. Listed'
    BY <1>0 DEF Inv, Listed
  <2>2. Fresh'
    BY <1>0 DEF Inv, Fresh
  <2>3. Carried'
    BY <1>0 DEF Inv, Carried
  <2> QED
    BY <2>1, <2>2, <2>3
<1>6. CloseOnce'
  BY <1>0 DEF Inv, CloseOnce
<1>7. NoHungUser'
  <2>1. \A q \in Posts : Ending(q) => (Ending(q)' /\ post'[q].msg = post[q].msg) \/ respClosed[post[q].msg.id]
    BY <1>0
  <2> QED
    BY <1>0, <2>1 DEF Inv, NoHungUser
<1>8. Queues'
  <2>1. CASE UNCHANGED sendq
    <3>1. \A j \in Ids : \A n \in 1..Len(sendq[j]) : sendq[j][n] \in Posts \ {p}
      BY <1>0, QueuedPosts DEF Inv
    <3> QED
      BY <2>1, <3>1, <1>0 DEF Inv, Queues
  <2>2. CASE post'[p].st = "queued" /\ sendq' = [sendq EXCEPT ![i] = Append(sendq[i], p)]
    <3>1. \A j \in Ids \ {i} : sendq'[j] = sendq[j]
      BY <2>2 DEF TypeOK
    <3>2. /\ sendq'[i] = Append(sendq[i], p)
          /\ sendq[i] \in Seq(Posts)
      BY <2>2, <1>1 DEF TypeOK
    <3>3. post'[p].msg.id = i
      BY <1>2, <1>4, <2>2
    <3> HIDE DEF i
    <3>4. /\ Len(sendq'[i]) = Len(sendq[i]) + 1
          /\ Len(sendq[i]) \in Nat
          /\ \A n \in 1..Len(sendq[i]) : sendq'[i][n] = sendq[i][n]
          /\ sendq'[i][Len(sendq[i]) + 1] = p
      BY <3>2
    <3>5. ASSUME NEW n \in 1..Len(sendq'[i])
          PROVE  post'[sendq'[i][n]].st = "queued" /\ post'[sendq'[i][n]].msg.id = i
      <4>1. CASE n = Len(sendq[i]) + 1
        BY <4>1, <3>4, <3>3, <2>2
      <4>2. CASE n \in 1..Len(sendq[i])
        BY <4>2, <3>4, <1>1, <1>2, QueuedPosts DEF Inv
      <4> QED
        BY <4>1, <4>2, <3>4
    <3>6. \A n \in 1..Len(sendq[i]) : sendq[i][n] # p
      BY <1>1, <1>2, QueuedPosts DEF Inv
    <3>7. ASSUME NEW m \in 1..Len(sendq'[i]), NEW n \in 1..Len(sendq'[i]),
                 sendq'[i][m] = sendq'[i][n]
          PROVE  m = n
      <4>1. CASE m \in 1..Len(sendq[i]) /\ n \in 1..Len(sendq[i])
        BY <4>1, <3>4, <3>7, <1>1 DEF Inv, Queues
      <4>2. CASE m = Len(sendq[i]) + 1 /\ n \in 1..Len(sendq[i])
        BY <4>2, <3>4, <3>6, <3>7
      <4>3. CASE n = Len(sendq[i]) + 1 /\ m \in 1..Len(sendq[i])
        BY <4>3, <3>4, <3>6, <3>7
      <4> QED
        BY <4>1, <4>2, <4>3, <3>4
    <3>8. \A j \in Ids \ {i} : \A n \in 1..Len(sendq[j]) :
              post'[sendq[j][n]].st = "queued" /\ post'[sendq[j][n]].msg.id = j
      BY <1>2, QueuedPosts DEF Inv
    <3> QED
      BY <3>1, <3>5, <3>7, <3>8 DEF Inv, Queues
  <2> QED
    BY <1>4, <2>1, <2>2
<1> QED
  BY <1>5, <1>6, <1>7, <1>8 DEF Inv

\* close(responseStream) of request i: its blocked senders are gone.
LEMMA ClosedQueue ==
    ASSUME TypeOK, Inv, NEW i \in Ids,
           sendq' = [sendq EXCEPT ![i] = <<>>],
           \A q \in Posts : post[q].st = "queued" /\ post[q].msg.id # i => post'[q] = post[q]
    PROVE  Queues'
<1>1. sendq'[i] = <<>> /\ \A j \in Ids \ {i} : sendq'[j] = sendq[j]
  BY DEF TypeOK
<1>2. \A j \in Ids \ {i} : \A n \in 1..Len(sendq[j]) : post'[sendq[j][n]] = post[sendq[j][n]]
  BY QueuedPosts DEF Inv
<1> QED
  BY <1>1, <1>2 DEF Inv, Queues

\* The final POST closes the stream it alone may close.
LEMMA InvSendClose ==
    ASSUME TypeOK, Inv, NEW p \in Posts, SendClose(p)
    PROVE  Inv'
<1> DEFINE i == post[p].msg.id
<1>1. i \in Ids /\ Ending(p)
  BY DEF SendClose, Inv, Carried, Active, Messages, Ending
<1>2. /\ \A q \in Posts : q # p /\ q \notin Aborted(i) => post'[q] = post[q]
      /\ \A q \in Posts : q = p \/ q \in Aborted(i) => post'[q].st \in {"ok", "aborted"}
      /\ \A j \in Ids \ {i} : respClosed'[j] = respClosed[j]
      /\ respClosed'[i]
      /\ sendq' = [sendq EXCEPT ![i] = <<>>]
      /\ UNCHANGED <<resp, toClose, reqClosed, cl>>
  BY <1>1 DEF SendClose, TypeOK, PostAt
<1>3. i \notin resp /\ i \notin toClose /\ ~respClosed[i] /\ cl[i] # "none"
  BY <1>1 DEF Inv, Listed, CloseOnce, Fresh, Ending, Active
<1>4. Queues'
  BY <1>1, <1>2, ClosedQueue DEF SendClose, Aborted
<1> HIDE DEF i
<1> USE DEF Active, Ending, Aborted
<1>t. resp \subseteq Ids /\ toClose \subseteq Ids
  BY DEF TypeOK
<1>a. \A q \in Posts : Active(q)' => post'[q] = post[q] /\ Active(q)
  BY <1>2
<1>5. Listed'
  BY <1>t, <1>a, <1>2, <1>3 DEF Inv, Listed
<1>6. Fresh' /\ Carried'
  <2>1. Fresh'
    BY <1>a, <1>2, <1>3 DEF Inv, Fresh
  <2>2. Carried'
    BY <1>a DEF Inv, Carried
  <2> QED
    BY <2>1, <2>2
<1>7. \A q \in Posts : Ending(q)' => post'[q] = post[q] /\ Ending(q) /\ post[q].msg.id \in Ids \ {i}
  <2>1. \A q \in Posts : Ending(q)' => post'[q] = post[q] /\ Ending(q) /\ q # p
    BY <1>2
  <2>2. \A q \in Posts : Ending(q) => post[q].msg.id \in Ids
    BY DEF Inv, Carried, Messages
  <2>3. \A q \in Posts : Ending(q) /\ q # p => post[q].msg.id # i
    BY <1>1 DEF Inv, CloseOnce, i
  <2> QED
    BY <2>1, <2>2, <2>3
<1>8. CloseOnce'
  BY <1>t, <1>2, <1>3, <1>7 DEF Inv, CloseOnce
<1>9. NoHungUser'
  <2>1. \A j \in Ids \ {i}, q \in Posts : Ending(q) /\ post[q].msg.id = j => post'[q] = post[q]
    BY <1>2 DEF i
  <2> QED
    BY <1>2, <2>1 DEF Inv, NoHungUser
<1> QED
  BY <1>4, <1>5, <1>6, <1>8, <1>9 DEF Inv

\* The reaper takes the expired entries out of the map.
LEMMA InvReapTick == ASSUME TypeOK, Inv, ReapTick PROVE Inv'
<1> USE DEF ReapTick, Active, Ending, Expired
<1>1. Listed' /\ Fresh'
  BY DEF Inv, Listed, Fresh, TypeOK
<1>2. Carried' /\ Queues'
  BY DEF Inv, Carried, Queues
<1>3. CloseOnce'
  BY DEF Inv, CloseOnce, Listed
<1>4. NoHungUser'
  BY DEF Inv, NoHungUser
<1> QED
  BY <1>1, <1>2, <1>3, <1>4 DEF Inv

\* The reaper closes the streams of one entry.
LEMMA InvReapClose == ASSUME TypeOK, Inv, NEW i \in Ids, ReapClose(i) PROVE Inv'
<1>1. /\ \A q \in Posts : q \notin Aborted(i) => post'[q] = post[q]
      /\ \A q \in Posts : q \in Aborted(i) => post'[q].st = "aborted"
      /\ \A j \in Ids \ {i} : respClosed'[j] = respClosed[j] /\ reqClosed'[j] = reqClosed[j]
      /\ respClosed'[i]
      /\ sendq' = [sendq EXCEPT ![i] = <<>>]
      /\ i \in toClose
      /\ toClose' = toClose \ {i}
      /\ UNCHANGED <<resp, cl>>
  BY DEF ReapClose, TypeOK, PostAt
<1>2. i \notin resp /\ cl[i] # "none"
  BY <1>1 DEF Inv, Listed, Fresh
<1>3. Queues'
  BY <1>1, ClosedQueue DEF Aborted
<1> USE DEF Active, Ending, Aborted
<1>t. resp \subseteq Ids /\ toClose \subseteq Ids
  BY DEF TypeOK
<1>a. \A q \in Posts : Active(q)' => post'[q] = post[q] /\ Active(q)
  BY <1>1
<1>4. Listed'
  BY <1>t, <1>a, <1>1, <1>2 DEF Inv, Listed
<1>5. Fresh' /\ Carried'
  <2>1. Fresh'
    BY <1>a, <1>1, <1>2 DEF Inv, Fresh
  <2>2. Carried'
    BY <1>a DEF Inv, Carried
  <2> QED
    BY <2>1, <2>2
<1>6. \A q \in Posts : Ending(q)' => post'[q] = post[q] /\ Ending(q) /\ post[q].msg.id \in Ids \ {i}
  <2>1. \A q \in Posts : Ending(q)' => post'[q] = post[q] /\ Ending(q)
    BY <1>1
  <2>2. \A q \in Posts : Ending(q) => post[q].msg.id \in Ids /\ post[q].msg.id # i
    BY <1>1 DEF Inv, Carried, Messages, CloseOnce
  <2> QED
    BY <2>1, <2>2
<1>7. CloseOnce'
  BY <1>t, <1>1, <1>6 DEF Inv, CloseOnce
<1>8. NoHungUser'
  <2>1. \A j \in Ids \ {i}, q \in Posts : Ending(q) /\ post[q].msg.id = j => post'[q] = post[q]
    BY <1>1
  <2> QED
    BY <1>1, <2>1 DEF Inv, NoHungUser
<1> QED
  BY <1>3, <1>4, <1>5, <1>7, <1>8 DEF Inv

\* The process ends with everybody in it.
LEMMA InvProcessDies == ASSUME TypeOK, Inv, ProcessDies PROVE Inv'
<1>1. \A p \in Posts : post'[p].st \notin {"looked", "queued", "closing"}
  BY DEF ProcessDies, TypeOK, PostAt
<1>2. resp' = {} /\ toClose' = {} /\ sendq' = [j \in Ids |-> <<>>]
  BY DEF ProcessDies
<1>3. \A j \in Ids : cl'[j] = "none" => cl[j] = "none"
  BY DEF ProcessDies, TypeOK, Finished
<1>4. \A j \in Ids : cl'[j] \notin Receiving \union {"offering"}
  BY DEF ProcessDies, TypeOK, Finished, Receiving
<1> USE DEF Active, Ending
<1>5. Listed' /\ Carried' /\ Queues' /\ CloseOnce'
  BY <1>1, <1>2 DEF Listed, Carried, Queues, CloseOnce
<1>6. Fresh'
  BY <1>1, <1>2, <1>3 DEF Inv, Fresh, ProcessDies
<1>7. NoHungUser'
  BY <1>4 DEF NoHungUser
<1> QED
  BY <1>5, <1>6, <1>7 DEF Inv

\* The user's handler takes the message of the first blocked sender.
LEMMA InvClientReceive ==
    ASSUME TypeOK, Inv, NEW i \in Ids, NEW next \in ClientStates, ClientReceive(i, next)
    PROVE  Inv'
<1> DEFINE p == Head(sendq[i])
<1>1. /\ sendq[i] \in Seq(Posts)
      /\ sendq[i] # <<>>
  BY DEF TypeOK, ClientReceive
<1>2. 1 \in 1..Len(sendq[i]) /\ p = sendq[i][1]
  BY <1>1
<1>3. p \in Posts /\ post[p].st = "queued" /\ post[p].msg.id = i /\ post[p] \in PostType
  BY <1>2, QueuedPosts DEF Inv, TypeOK
<1>4. cl[i] \in Receiving /\ next \in AfterReceive(cl[i], post[p].msg)
  BY DEF ClientReceive
<1>5. next \in Receiving \union {"stuck"}
  BY <1>4 DEF AfterReceive, Receiving
<1>6. post' = [post EXCEPT ![p] = IF post[p].msg.eof THEN [post[p] EXCEPT !.st = "closing"]
                                  ELSE PostAt("ok")]
  BY DEF ClientReceive
<1> HIDE DEF p
<1>7. /\ \A q \in Posts \ {p} : post'[q] = post[q]
      /\ \/ post'[p].st = "ok" /\ ~post[p].msg.eof
         \/ post'[p].st = "closing" /\ post'[p].msg = post[p].msg /\ post[p].msg.eof
  BY <1>3, <1>6 DEF TypeOK, PostAt, PostType
<1>8. /\ \A j \in Ids \ {i} : cl'[j] = cl[j] /\ sendq'[j] = sendq[j]
      /\ cl'[i] = next
      /\ sendq'[i] = Tail(sendq[i])
      /\ UNCHANGED <<resp, toClose, respClosed, reqClosed>>
  BY DEF ClientReceive, TypeOK
<1> USE DEF Active, Ending
<1>9. Listed' /\ Fresh' /\ Carried'
  <2>1. \A j \in Ids : cl'[j] = "none" <=> cl[j] = "none"
    BY <1>4, <1>5, <1>8 DEF Receiving
  <2>2. \A q \in Posts : Active(q)' => Active(q) /\ post'[q].msg = post[q].msg
    BY <1>3, <1>7
  <2>3. Listed'
    <3>1. resp \subseteq Ids
      BY DEF TypeOK
    <3>2. \A q \in Posts : Ending(q)' => Ending(q) /\ post'[q].msg = post[q].msg
      BY <1>3, <1>7
    <3> QED
      BY <2>1, <3>1, <3>2, <1>8 DEF Inv, Listed
  <2>4. Fresh'
    BY <2>1, <2>2, <1>8 DEF Inv, Fresh
  <2>5. Carried'
    BY <2>2, <1>7 DEF Inv, Carried
  <2> QED
    BY <2>3, <2>4, <2>5
<1>10. CloseOnce'
  BY <1>3, <1>7, <1>8 DEF Inv, CloseOnce
<1>11. NoHungUser'
  BY <1>3, <1>4, <1>5, <1>7, <1>8 DEF Inv, NoHungUser
<1>12. Queues'
  <2>1. /\ Len(sendq'[i]) = Len(sendq[i]) - 1
        /\ Len(sendq[i]) \in Nat
        /\ \A n \in 1..Len(sendq'[i]) : sendq'[i][n] = sendq[i][n + 1]
    BY <1>1, <1>8
  <2>2. \A n \in 1..Len(sendq'[i]) : n + 1 \in 1..Len(sendq[i])
    BY <2>1
  <2>3. \A n \in 1..Len(sendq'[i]) : sendq[i][n + 1] # p
    BY <1>2, <2>2 DEF Inv, Queues
  <2>4. \A n \in 1..Len(sendq'[i]) :
            post'[sendq'[i][n]].st = "queued" /\ post'[sendq'[i][n]].msg.id = i
    BY <2>1, <2>2, <2>3, <1>7, QueuedPosts DEF Inv
  <2>5. \A m, n \in 1..Len(sendq'[i]) : sendq'[i][m] = sendq'[i][n] => m = n
    BY <2>1, <2>2 DEF Inv, Queues
  <2>6. \A j \in Ids \ {i} : \A n \in 1..Len(sendq[j]) :
            post'[sendq[j][n]].st = "queued" /\ post'[sendq[j][n]].msg.id = j
    BY <1>3, <1>7, QueuedPosts DEF Inv
  <2>7. \A j \in Ids \ {i} : \A m, n \in 1..Len(sendq[j]) :
            sendq[j][m] = sendq[j][n] => m = n
    BY DEF Inv, Queues
  <2>8. \A j \in Ids \ {i} : sendq'[j] = sendq[j]
    BY <1>8
  <2> QED
    BY <2>4, <2>5, <2>6, <2>7, <2>8 DEF Queues
<1> QED
  BY <1>9, <1>10, <1>11, <1>12 DEF Inv

\* Every step of the relay server keeps the invariant.
LEMMA InvStep == ASSUME TypeOK, Inv, [ServerNext]_serverVars PROVE Inv'
<1>1. ASSUME NEW i \in Ids, NEW s \in Servers, ClientRequest(i, s) PROVE Inv'
  BY <1>1, InvClientRequest
<1>2. ASSUME NEW i \in Ids, RelayTimeout(i) PROVE Inv'
  BY <1>2, InvHandler
<1>3. ASSUME NEW g \in Polls, NEW s \in Servers, ServerRequest(g, s) PROVE Inv'
  BY <1>3, InvFrame DEF ServerRequest, coreVars
<1>4. ASSUME NEW i \in Ids, NEW g \in Polls, AcceptRequest(i, g) PROVE Inv'
  BY <1>4, InvHandler
<1>5. ASSUME NEW g \in Polls, PollTimeout(g) \/ PollEnd(g) PROVE Inv'
  BY <1>5, InvFrame DEF PollTimeout, PollEnd, coreVars
<1>6. ASSUME NEW p \in Posts, NEW m \in Messages, SendResponse(p, m) PROVE Inv'
  BY <1>6, InvSendResponse
<1>7. ASSUME NEW p \in Posts, SendEnqueue(p) PROVE Inv'
  BY <1>7, InvSendEnqueue
<1>8. ASSUME NEW p \in Posts, SendClose(p) PROVE Inv'
  BY <1>8, InvSendClose
<1>9. ASSUME NEW p \in Posts, PostEnd(p) PROVE Inv'
  BY <1>9, InvPostEnd
<1>10. ASSUME NEW i \in Ids, NEW next \in ClientStates, ClientReceive(i, next) PROVE Inv'
  BY <1>10, InvClientReceive
<1>11. ASSUME NEW i \in Ids, ClientClosed(i) PROVE Inv'
  BY <1>11, InvHandler
<1>12. ASSUME NEW i \in Ids, UpRead(i) \/ UpEnd(i) PROVE Inv'
  BY <1>12, InvFrame DEF UpRead, UpEnd, coreVars
<1>13. ASSUME NEW h \in Gets, NEW i \in Ids, ServerRequestStream(h, i) \/ UpSend(i, h) PROVE Inv'
  BY <1>13, InvFrame DEF ServerRequestStream, UpSend, coreVars
<1>14. ASSUME NEW h \in Gets, GetEmpty(h) \/ GetWrite(h) \/ GetEnd(h) PROVE Inv'
  BY <1>14, InvFrame DEF GetEmpty, GetWrite, GetEnd, coreVars
<1>15. ASSUME ReapTick PROVE Inv'
  BY <1>15, InvReapTick
<1>16. ASSUME NEW i \in Ids, ReapClose(i) PROVE Inv'
  BY <1>16, InvReapClose
<1>17. ASSUME Restart PROVE Inv'
  BY <1>17, InvProcessDies DEF Restart
<1>18. ASSUME NEW i \in Ids, UpPanic(i) PROVE Inv'
  BY <1>18, InvProcessDies DEF UpPanic
<1>19. ASSUME UNCHANGED serverVars PROVE Inv'
  BY <1>19, InvFrame DEF serverVars, coreVars
<1> QED
  BY <1>1, <1>2, <1>3, <1>4, <1>5, <1>6, <1>7, <1>8, <1>9, <1>10, <1>11, <1>12, <1>13,
     <1>14, <1>15, <1>16, <1>17, <1>18, <1>19 DEF ServerNext

\* The invariant holds in every state the relay server can reach.
THEOREM ServerInvariant == ServerSpec => []Inv
<1>1. TypeOK /\ Inv /\ [ServerNext]_serverVars => Inv'
  BY InvStep
<1> QED
  BY InvInit, TypeCorrect, <1>1, PTL DEF ServerSpec

\* SendResponse and ReapInactiveRequests never close a stream twice, whatever
\* the relay clients post and however many handlers run.
THEOREM ClosesOnce == ServerSpec => []CloseOnce
BY ServerInvariant, PTL DEF Inv

\* A user's handler is never left waiting on a stream that nobody will close.
THEOREM NobodyHangs == ServerSpec => []NoHungUser
BY ServerInvariant, PTL DEF Inv

-----------------------------------------------------------------------------
(* The whole relay.                                                        *)

\* The messages that the user's handler has taken, and those queued for it.
Seen(i) == {received[i][n] : n \in DOMAIN received[i]}
Queued(i) == {chunk[sendq[i][n]] : n \in DOMAIN sendq[i]}

\* The loop of handleRequest.
Loop ==
    \A i \in Ids :
        /\ rc[i].st \in {"none", "backend"} => rc[i].k = 0 /\ ~rc[i].eof
        /\ rc[i].st = "building" => ~rc[i].eof
        /\ ~rc[i].eof => rc[i].k < MaxMessages
        /\ rc[i].st = "posting" => rc[i].k >= 1
        /\ rc[i].st # "posting" => rc[i].slot = NoSlot /\ rc[i].ticks = 0 /\ rc[i].tries = 0
        /\ rc[i].slot # NoSlot => rc[i].tries <= MaxRetries

\* A request reaches the relay client once.
Once ==
    /\ \A i \in Ids : cl[i] \in {"none", "offering"} => rc[i].st = "none"
    /\ \A g \in Polls : poll[g].st = "got" =>
          /\ poll[g].id \in Ids /\ rc[poll[g].id].st = "none"
          /\ cl[poll[g].id] \notin {"none", "offering"}
    /\ \A g, h \in Polls : poll[g].st = "got" /\ poll[h].st = "got" /\ poll[g].id = poll[h].id => g = h

\* The POST that handleRequest waits for is one of its message, or has ended: well only if
\* the user's handler has the message, and badly only if the server has no entry any more.
Pending ==
    /\ \A i \in Ids : rc[i].slot # NoSlot =>
          LET p == rc[i].slot IN
          /\ post[p].st # "idle"
          /\ Active(p) => post[p].msg.id = i /\ post[p].msg.eof = rc[i].eof /\ chunk[p] = rc[i].k
          /\ post[p].st \in {"rejected", "aborted"} => i \notin resp
          /\ post[p].st = "ok" => rc[i].k \in Seen(i)
    /\ \A i, j \in Ids : rc[i].slot = rc[j].slot /\ rc[i].slot # NoSlot => i = j

\* The messages under way at the server, in POSTs that the relay client may have left.
UnderWay ==
    \A p \in Posts : Active(p) =>
        LET i == post[p].msg.id IN
        /\ chunk[p] \in 1..rc[i].k
        /\ post[p].msg.eof => rc[i].eof /\ chunk[p] = rc[i].k
        /\ post[p].st = "closing" => chunk[p] \in Seen(i)
        /\ i \notin resent =>
              /\ chunk[p] = rc[i].k
              /\ rc[i].slot = p \/ rc[i].st = "stopped"
              /\ post[p].st # "closing" => chunk[p] \notin Seen(i)
              /\ \A q \in Posts : Active(q) /\ post[q].msg.id = i => q = p

\* The user has nothing that was not sent, nor a message that is still to be posted,
\* unless a post of it was repeated in doubt.
Unseen ==
    \A i \in Ids :
        /\ Seen(i) \subseteq 1..rc[i].k
        /\ i \notin resent /\ i \in resp /\ rc[i].st = "posting" /\ rc[i].slot = NoSlot
           => rc[i].k \notin Seen(i)

\* Every queued message follows its predecessor, and so will those about to be queued.
InOrder(i) ==
    \A m \in DOMAIN sendq[i] :
        LET n == chunk[sendq[i][m]] IN
        n = 1 \/ n - 1 \in Seen(i) \/ \E l \in 1..(m - 1) : chunk[sendq[i][l]] = n - 1
Follows(i) ==
    \A p \in Posts : post[p].st = "looked" /\ post[p].msg.id = i /\ ~respClosed[i] =>
        chunk[p] = 1 \/ chunk[p] - 1 \in Seen(i) \union Queued(i)
Order == \A i \in Ids : InOrder(i) /\ Follows(i)

\* What handleRequest has finished with has reached the user's handler or its queue.
Done(i) == IF rc[i].st = "posting" THEN rc[i].k - 1 ELSE rc[i].k
Previous ==
    \A i \in resp : rc[i].st \in {"building", "posting"} =>
        Done(i) = 0 \/ Done(i) \in Seen(i) \union Queued(i)

\* As long as no POST of the message reaches the server the entry gets as old as the
\* retries of the message.
ClockAt(i) ==
    /\ age[i] < ReapTicks
    /\ rc[i].st = "posting" =>
          \/ rc[i].ticks <= age[i]
          \/ /\ rc[i].ticks < ReapTicks
             /\ \E p \in Posts : post[p].st = "looked" /\ post[p].msg.id = i /\ chunk[p] = rc[i].k
          \/ rc[i].k \in Seen(i) \union Queued(i)
Clock == \A i \in resp : ClockAt(i)

\* A response stream that the reaper did not close was closed after the final message.
Whole == \A i \in Ids : respClosed[i] /\ ~reqClosed[i] => rc[i].eof /\ rc[i].k \in Seen(i)

\* An upload that is passed on has been read.
Uploads ==
    /\ \A i \in Ids : up[i] = "sending" => ubuf[i] >= 1
    /\ \A h \in Gets : /\ get[h].st = "writing" => get[h].id \in Ids /\ ubuf[get[h].id] >= 1
                       /\ get[h].st = "written" => wrote[h] >= 1

RelayInv ==
    /\ RelayTypeOK /\ Inv /\ Loop /\ Once /\ Pending /\ UnderWay /\ Unseen /\ Order /\ Previous
    /\ Clock /\ Whole /\ Uploads

-----------------------------------------------------------------------------
(* What the steps do to the request and the POSTs of its messages.         *)

mainVars == <<resp, age, respClosed, reqClosed, cl, poll, post, sendq, rc, chunk, received, resent>>

\* The loop of handleRequest for request i goes where the arguments say.
Turns(i, st, k, eof, tries, ticks, slot) ==
    /\ \A j \in Ids \ {i} : rc'[j] = rc[j]
    /\ rc'[i].st = st /\ rc'[i].k = k /\ rc'[i].eof = eof
    /\ rc'[i].tries = tries /\ rc'[i].ticks = ticks /\ rc'[i].slot = slot

Advanced(i) ==
    Turns(i, IF rc[i].eof THEN "stopped" ELSE "building", rc[i].k, rc[i].eof, 0, 0, NoSlot)
Retried(i) ==
    \/ Turns(i, "stopped", rc[i].k, rc[i].eof, 0, 0, NoSlot)
    \/ Turns(i, rc[i].st, rc[i].k, rc[i].eof, rc[i].tries + 1, rc[i].ticks, NoSlot)

\* The POST handler p goes on to state st with message m, alone.
Posts1(p, st, m) ==
    /\ \A q \in Posts \ {p} : post'[q] = post[q]
    /\ post'[p].st = st /\ post'[p].msg = m

\* The user's handler: ClientRequest, AcceptRequest, and its returns.
Enters(i) ==
    /\ cl[i] = "none" /\ cl' = [cl EXCEPT ![i] = "offering"]
    /\ resp' = resp \union {i} /\ age' = [age EXCEPT ![i] = 0]
    /\ UNCHANGED <<respClosed, reqClosed, poll, post, sendq, rc, chunk, received, resent>>
Accepts(i, g) ==
    /\ cl[i] = "offering" /\ cl' = [cl EXCEPT ![i] = "waiting"]
    /\ poll'[g].st = "got" /\ poll'[g].id = i /\ \A h \in Polls \ {g} : poll'[h] = poll[h]
    /\ UNCHANGED <<resp, age, respClosed, reqClosed, post, sendq, rc, chunk, received, resent>>
Leaves(i) ==
    /\ cl[i] \in Receiving \union {"offering"}
    /\ \E c \in {"ok", "error"} : cl' = [cl EXCEPT ![i] = c] /\ (c = "ok" => respClosed[i])
    /\ UNCHANGED <<resp, age, respClosed, reqClosed, poll, post, sendq, rc, chunk, received, resent>>

\* The polls: without a request, and with one that starts handleRequest.
Polled(g) ==
    /\ poll'[g].st # "got" /\ \A h \in Polls \ {g} : poll'[h] = poll[h]
    /\ UNCHANGED <<resp, age, respClosed, reqClosed, cl, post, sendq, rc, chunk, received, resent>>
Starts(g) ==
    /\ poll[g].st = "got" /\ poll'[g].st # "got" /\ \A h \in Polls \ {g} : poll'[h] = poll[h]
    /\ LET i == poll[g].id IN
       i \in Ids => Turns(i, "backend", rc[i].k, rc[i].eof, rc[i].tries, rc[i].ticks, rc[i].slot)
    /\ UNCHANGED <<resp, age, respClosed, reqClosed, cl, post, sendq, chunk, received, resent>>

\* The POST handlers at the server.
Enqueues(p) ==
    LET i == post[p].msg.id IN
    /\ post[p].st = "looked" /\ ~respClosed[i] /\ Posts1(p, "queued", post[p].msg)
    /\ sendq' = [sendq EXCEPT ![i] = Append(@, p)]
    /\ UNCHANGED <<resp, age, respClosed, reqClosed, cl, poll, rc, chunk, received, resent>>
Panics(p) ==
    /\ post[p].st = "looked" /\ respClosed[post[p].msg.id] /\ Posts1(p, "aborted", NoMessage)
    /\ UNCHANGED <<resp, age, respClosed, reqClosed, cl, poll, sendq, rc, chunk, received, resent>>

\* The blocked senders of request i are aborted when its stream is closed.
Aborts(i) ==
    /\ \A q \in Posts : post[q].st = "queued" /\ post[q].msg.id = i => post'[q].st = "aborted"
    /\ sendq' = [sendq EXCEPT ![i] = <<>>] /\ respClosed' = [respClosed EXCEPT ![i] = TRUE]
    /\ UNCHANGED <<resp, age, cl, poll, rc, chunk, received, resent>>
Closes(p) ==
    LET i == post[p].msg.id IN
    /\ post[p].st = "closing" /\ post'[p].st = "ok" /\ Aborts(i) /\ UNCHANGED reqClosed
    /\ \A q \in Posts \ {p} : ~(post[q].st = "queued" /\ post[q].msg.id = i) => post'[q] = post[q]
ReapCloses(i) ==
    /\ i \in toClose /\ reqClosed' = [reqClosed EXCEPT ![i] = TRUE] /\ Aborts(i)
    /\ \A q \in Posts : ~(post[q].st = "queued" /\ post[q].msg.id = i) => post'[q] = post[q]
Dies ==
    /\ resp' = {}
    /\ \A i \in Ids : cl'[i] = IF cl[i] \in {"none"} \union Finished THEN cl[i] ELSE "lost"
    /\ \A g \in Polls : poll'[g].st # "got"
    /\ \A p \in Posts : IF Active(p) THEN post'[p].st = "aborted" ELSE post'[p] = post[p]
    /\ \A i \in Ids : sendq'[i] = <<>>
    /\ UNCHANGED <<age, respClosed, reqClosed, rc, chunk, received, resent>>
Ticks ==
    /\ \A p \in Posts : post[p].st # "looked"
    /\ resp' = resp \ Expired
    /\ age' = [i \in Ids |-> IF i \in resp \ Expired THEN age[i] + 1 ELSE age[i]]
    /\ \A i \in Ids : /\ rc'[i].st = rc[i].st /\ rc'[i].k = rc[i].k /\ rc'[i].eof = rc[i].eof
                      /\ rc'[i].tries = rc[i].tries /\ rc'[i].slot = rc[i].slot
                      /\ rc'[i].ticks = IF rc[i].st = "posting" /\ rc[i].ticks < RetryTicks
                                        THEN rc[i].ticks + 1 ELSE rc[i].ticks
    /\ UNCHANGED <<respClosed, reqClosed, cl, poll, post, sendq, chunk, received, resent>>
Receives(i) ==
    /\ cl[i] \in Receiving /\ sendq[i] # <<>>
    /\ \E c \in Receiving \union {"stuck"} : cl' = [cl EXCEPT ![i] = c]
    /\ LET p == Head(sendq[i]) IN
       /\ IF post[p].msg.eof THEN Posts1(p, "closing", post[p].msg) ELSE Posts1(p, "ok", NoMessage)
       /\ received' = [received EXCEPT ![i] = Append(@, chunk[p])]
    /\ sendq' = [sendq EXCEPT ![i] = Tail(@)]
    /\ UNCHANGED <<resp, age, respClosed, reqClosed, poll, rc, chunk, resent>>

\* The relay client by itself.
Answers(i) ==
    /\ rc[i].st = "backend"
    /\ Turns(i, "building", rc[i].k, rc[i].eof, rc[i].tries, rc[i].ticks, rc[i].slot)
Fails(i) ==
    /\ rc[i].st = "backend"
    /\ Turns(i, "posting", 1, TRUE, rc[i].tries, rc[i].ticks, rc[i].slot)
HandsOver(i) ==
    /\ rc[i].st = "building"
    /\ \E eof \in BOOLEAN :
          /\ rc[i].k + 1 = MaxMessages => eof
          /\ Turns(i, "posting", rc[i].k + 1, eof, rc[i].tries, rc[i].ticks, rc[i].slot)
Repeats(i) ==
    rc[i].st = "posting" /\ rc[i].slot = NoSlot /\ rc[i].tries <= MaxRetries /\ Retried(i)
Drops(i) ==
    rc[i].st = "posting" /\ rc[i].slot = NoSlot /\ rc[i].ticks >= RetryTicks /\ Advanced(i)
Halts ==
    \A i \in Ids : IF rc[i].st = "none" THEN rc'[i] = rc[i]
                   ELSE /\ rc'[i].st = "stopped" /\ rc'[i].k = rc[i].k /\ rc'[i].eof = rc[i].eof
                        /\ rc'[i].tries = 0 /\ rc'[i].ticks = 0 /\ rc'[i].slot = NoSlot
Apart == UNCHANGED <<resp, age, respClosed, reqClosed, cl, poll, post, sendq, chunk, received, resent>>

\* The relay client's POSTs.
Attempts(i, p) ==
    /\ rc[i].st = "posting" /\ rc[i].slot = NoSlot /\ rc[i].tries <= MaxRetries
    /\ Turns(i, "posting", rc[i].k, rc[i].eof, rc[i].tries, rc[i].ticks, p)
    /\ post[p].st = "idle" /\ chunk' = [chunk EXCEPT ![p] = rc[i].k]
    /\ IF i \in resp
       THEN /\ \E m \in Messages : m.id = i /\ m.eof = rc[i].eof /\ Posts1(p, "looked", m)
            /\ resp' = IF rc[i].eof THEN resp \ {i} ELSE resp
            /\ age' = IF rc[i].eof THEN age ELSE [age EXCEPT ![i] = 0]
       ELSE Posts1(p, "rejected", NoMessage) /\ UNCHANGED <<resp, age>>
    /\ UNCHANGED <<respClosed, reqClosed, cl, poll, sendq, received, resent>>
Ended(p) ==
    /\ post[p].st \in {"ok", "rejected", "aborted"} /\ Posts1(p, "idle", NoMessage)
    /\ chunk' = [chunk EXCEPT ![p] = 0]
    /\ UNCHANGED <<resp, age, respClosed, reqClosed, cl, poll, sendq, received, resent>>
Replied(i) ==
    /\ rc[i].slot # NoSlot
    /\ Ended(rc[i].slot)
    /\ IF post[rc[i].slot].st = "aborted" THEN Retried(i) ELSE Advanced(i)
Doubts(i) ==
    /\ rc[i].slot # NoSlot /\ Retried(i) /\ resent' = resent \union {i}
    /\ UNCHANGED <<resp, age, respClosed, reqClosed, cl, poll, post, sendq, chunk, received>>
Orphaned(p) ==
    (\A i \in Ids : rc[i].slot # p) /\ Ended(p) /\ UNCHANGED rc

Step ==
    \/ UNCHANGED mainVars \/ Dies \/ Ticks
    \/ Apart /\ (Halts \/ \E i \in Ids : Answers(i) \/ Fails(i) \/ HandsOver(i) \/ Repeats(i) \/ Drops(i))
    \/ \E i \in Ids : \/ Enters(i) \/ Leaves(i) \/ ReapCloses(i) \/ Receives(i) \/ Replied(i) \/ Doubts(i)
                      \/ \E g \in Polls : Accepts(i, g)
                      \/ \E p \in Posts : Attempts(i, p)
    \/ \E g \in Polls : Polled(g) \/ Starts(g)
    \/ \E p \in Posts : Enqueues(p) \/ Panics(p) \/ Closes(p) \/ Orphaned(p)

-----------------------------------------------------------------------------
(* Records and their steps.                                                *)

RcType == [st : {"none", "backend", "building", "posting", "stopped"},
           k : 0..MaxMessages, eof : BOOLEAN, status : Status, once : BOOLEAN,
           tries : 0..(MaxRetries + 1), ticks : 0..RetryTicks, slot : Posts \union {NoSlot}]

\* The relay server takes part in every step of the relay, or stays as it is.
LEMMA ServerMoves == ASSUME RelayTypeOK, [Next]_vars PROVE [ServerNext]_serverVars
<1>1. ASSUME ServerStep PROVE ServerNext
  BY <1>1 DEF ServerStep, ServerNext
<1>2. ASSUME NEW i \in Ids, UserReceives(i) PROVE ServerNext
  BY <1>2 DEF UserReceives, ServerNext
<1>3. ASSUME NEW i \in Ids, NEW p \in Posts, PostAttempt(i, p) PROVE ServerNext
  <2>1. [id |-> i, eof |-> rc[i].eof, status |-> IF rc[i].k = 1 THEN rc[i].status ELSE "absent"] \in Messages
    BY DEF RelayTypeOK, Messages, Status
  <2> QED
    BY <1>3, <2>1 DEF PostAttempt, ServerNext
<1>4. ASSUME NEW i \in Ids, PostReply(i) PROVE ServerNext
  BY <1>4 DEF PostReply, RelayTypeOK, ServerNext
<1>5. ASSUME NEW i \in Ids, StreamReply(i) PROVE ServerNext
  BY <1>5 DEF StreamReply, RelayTypeOK, ServerNext
<1>6. ASSUME WorkerReply PROVE ServerNext
  BY <1>6 DEF WorkerReply, RelayTypeOK, ServerNext
<1>7. ASSUME NEW g \in Polls, WorkerPoll(g) PROVE ServerNext
  BY <1>7, RelayConstants DEF WorkerPoll, ServerNext
<1>8. ASSUME NEW i \in Ids, UploadRead(i) PROVE ServerNext
  BY <1>8 DEF UploadRead, ServerNext
<1>9. ASSUME NEW h \in Gets, UploadWrite(h) \/ OrphanGetEnd(h) PROVE ServerNext
  BY <1>9 DEF UploadWrite, OrphanGetEnd, ServerNext
<1>10. ASSUME NEW i \in Ids, NEW h \in Gets, StreamPoll(i, h) PROVE ServerNext
  BY <1>10 DEF StreamPoll, ServerNext
<1>11. ASSUME NEW p \in Posts, OrphanPostEnd(p) PROVE ServerNext
  BY <1>11 DEF OrphanPostEnd, ServerNext
<1>12. ASSUME NEW g \in Polls, OrphanPollEnd(g) PROVE ServerNext
  BY <1>12 DEF OrphanPollEnd, ServerNext
<1>13. ASSUME Tick PROVE ServerNext
  BY <1>13 DEF Tick, ServerNext
<1>14. ASSUME NEW i \in Ids,
              \/ BackendFails(i) \/ PostLost(i) \/ ReplyLost(i) \/ GiveUp(i) \/ StreamLost(i)
              \/ \E status \in {"plain", "switching"} : BackendAnswers(i, status)
              \/ \E eof \in BOOLEAN : NextMessage(i, eof)
       PROVE UNCHANGED serverVars
  BY <1>14 DEF BackendFails, PostLost, ReplyLost, GiveUp, StreamLost, BackendAnswers, NextMessage
<1>15. ASSUME WorkerLost \/ ClientRestart PROVE UNCHANGED serverVars
  BY <1>15 DEF WorkerLost, ClientRestart
<1>16. ASSUME UNCHANGED vars PROVE UNCHANGED serverVars
  BY <1>16 DEF vars
<1> QED
  BY <1>1, <1>2, <1>3, <1>4, <1>5, <1>6, <1>7, <1>8, <1>9, <1>10, <1>11, <1>12, <1>13, <1>14,
     <1>15, <1>16
  DEF Next

LEMMA RcField ==
    ASSUME RelayTypeOK, NEW i \in Ids
    PROVE  /\ rc[i] \in RcType
           /\ rc[i].k \in Nat /\ rc[i].tries \in Nat /\ rc[i].ticks \in Nat
           /\ MaxMessages \in Nat /\ MaxRetries \in Nat /\ RetryTicks \in Nat
<1>1. rc[i] \in RcType
  BY DEF RelayTypeOK, RcType
<1>2. MaxMessages \in Nat /\ MaxRetries \in Nat /\ RetryTicks \in Nat
  BY RelayConstants
<1>3. rc[i].k \in 0..MaxMessages /\ rc[i].tries \in 0..(MaxRetries + 1) /\ rc[i].ticks \in 0..RetryTicks
  BY <1>1 DEF RcType
<1> QED
  BY <1>1, <1>2, <1>3

\* How the updates of handleRequest's record show in its fields.
LEMMA RcTurns ==
    ASSUME RelayTypeOK, NEW i \in Ids
    PROVE  /\ rc' = [rc EXCEPT ![i] = Retry(@)] => Retried(i)
           /\ rc' = [rc EXCEPT ![i] = Advance(@)] => Advanced(i)
<1>1. rc \in [Ids -> RcType]
  BY DEF RelayTypeOK, RcType
<1>2. ASSUME NEW r \in RcType, rc' = [rc EXCEPT ![i] = r]
      PROVE rc'[i] = r /\ \A j \in Ids \ {i} : rc'[j] = rc[j]
  BY <1>1, <1>2
<1>3. PICK r : r = rc[i] /\ r \in RcType
  BY <1>1
<1>4. ASSUME rc' = [rc EXCEPT ![i] = Retry(@)] PROVE Retried(i)
  <2>1. /\ Stop(r).st = "stopped" /\ Stop(r).k = r.k /\ Stop(r).eof = r.eof
        /\ Stop(r).tries = 0 /\ Stop(r).ticks = 0 /\ Stop(r).slot = NoSlot
    BY <1>3 DEF Stop, RcType
  <2>2. PICK s : s = [r EXCEPT !.tries = @ + 1, !.slot = NoSlot]
    OBVIOUS
  <2>3. /\ s.st = r.st /\ s.k = r.k /\ s.eof = r.eof
        /\ s.tries = r.tries + 1 /\ s.ticks = r.ticks /\ s.slot = NoSlot
    BY <1>3, <2>2 DEF RcType
  <2>4. Retry(r) = Stop(r) \/ Retry(r) = s
    BY <2>2 DEF Retry
  <2>5. rc'[i] = Retry(r) /\ \A j \in Ids \ {i} : rc'[j] = rc[j]
    BY <1>1, <1>3, <1>4
  <2> HIDE DEF Stop, Retry
  <2> QED
    BY <1>3, <2>1, <2>3, <2>4, <2>5 DEF Retried, Turns
<1>5. ASSUME rc' = [rc EXCEPT ![i] = Advance(@)] PROVE Advanced(i)
  <2>1. /\ Advance(r).st = IF r.eof THEN "stopped" ELSE "building"
        /\ Advance(r).k = r.k /\ Advance(r).eof = r.eof
        /\ Advance(r).tries = 0 /\ Advance(r).ticks = 0 /\ Advance(r).slot = NoSlot
    BY <1>3 DEF Advance, RcType
  <2>2. rc'[i] = Advance(r) /\ \A j \in Ids \ {i} : rc'[j] = rc[j]
    BY <1>1, <1>3, <1>5
  <2> QED
    BY <1>3, <2>1, <2>2 DEF Advanced, Turns
<1> QED
  BY <1>4, <1>5

\* Every step of the relay is one of these.
LEMMA Moves == ASSUME RelayTypeOK, [Next]_vars PROVE Step
<1> USE DEF dataVars, clientVars, serverVars
<1>1. rc \in [Ids -> RcType] /\ post \in [Posts -> PostType] /\ poll \in [Polls -> PollType]
  BY DEF RelayTypeOK, RcType, TypeOK
<1>2. cl \in [Ids -> ClientStates] /\ sendq \in [Ids -> Seq(Posts)] /\ wk \in Polls \union {NoSlot}
  BY DEF RelayTypeOK, TypeOK
<1>3. ASSUME ServerStep PROVE Step
  <2>1. UNCHANGED <<rc, chunk, received, resent>>
    BY <1>3 DEF ServerStep
  <2>2. ASSUME NEW i \in Ids, NEW s \in Servers, ClientRequest(i, s) PROVE Step
    <3>1. Enters(i)
      BY <2>1, <2>2 DEF ClientRequest, Enters
    <3> QED
      BY <3>1 DEF Step
  <2>3. ASSUME NEW i \in Ids, RelayTimeout(i) \/ ClientClosed(i) PROVE Step
    <3>1. Leaves(i)
      BY <2>1, <2>3 DEF RelayTimeout, ClientClosed, Leaves
    <3> QED
      BY <3>1 DEF Step
  <2>4. ASSUME NEW i \in Ids, NEW g \in Polls, AcceptRequest(i, g) PROVE Step
    <3>1. poll'[g].st = "got" /\ poll'[g].id = i /\ \A h \in Polls \ {g} : poll'[h] = poll[h]
      BY <1>1, <2>4 DEF AcceptRequest, PollType
    <3>2. Accepts(i, g)
      BY <2>1, <2>4, <3>1 DEF AcceptRequest, Accepts
    <3> QED
      BY <3>2 DEF Step
  <2>5. ASSUME NEW g \in Polls, PollTimeout(g) PROVE Step
    <3>1. poll'[g].st # "got" /\ \A h \in Polls \ {g} : poll'[h] = poll[h]
      BY <1>1, <2>5 DEF PollTimeout, PollType
    <3>2. Polled(g)
      BY <2>1, <2>5, <3>1 DEF PollTimeout, Polled
    <3> QED
      BY <3>2 DEF Step
  <2>6. ASSUME NEW p \in Posts, SendEnqueue(p) PROVE Step
    <3>1. respClosed[post[p].msg.id] => Posts1(p, "aborted", NoMessage)
      BY <1>1, <2>6 DEF SendEnqueue, PostAt, Posts1
    <3>2. ~respClosed[post[p].msg.id] => Posts1(p, "queued", post[p].msg)
      BY <1>1, <2>6 DEF SendEnqueue, PostType, Posts1
    <3>3. Enqueues(p) \/ Panics(p)
      BY <2>1, <2>6, <3>1, <3>2 DEF SendEnqueue, Enqueues, Panics
    <3> QED
      BY <3>3 DEF Step
  <2>7. ASSUME NEW p \in Posts, SendClose(p) PROVE Step
    <3>1. /\ post'[p].st = "ok"
          /\ \A q \in Posts \ {p} : IF post[q].st = "queued" /\ post[q].msg.id = post[p].msg.id
                                    THEN post'[q].st = "aborted" ELSE post'[q] = post[q]
      BY <2>7 DEF SendClose, Aborted, PostAt
    <3>2. Closes(p)
      BY <2>1, <2>7, <3>1 DEF SendClose, Closes, Aborts
    <3> QED
      BY <3>2 DEF Step
  <2>8. ASSUME NEW i \in Ids, ReapClose(i) PROVE Step
    <3>1. \A q \in Posts : IF post[q].st = "queued" /\ post[q].msg.id = i
                           THEN post'[q].st = "aborted" ELSE post'[q] = post[q]
      BY <2>8 DEF ReapClose, Aborted, PostAt
    <3>2. ReapCloses(i)
      BY <2>1, <2>8, <3>1 DEF ReapClose, ReapCloses, Aborts
    <3> QED
      BY <3>2 DEF Step
  <2>9. ASSUME Restart \/ \E i \in Ids : UpPanic(i) PROVE Step
    <3>1. ProcessDies
      BY <2>9 DEF Restart, UpPanic
    <3>2. \A p \in Posts : IF Active(p) THEN post'[p].st = "aborted" ELSE post'[p] = post[p]
      BY <3>1 DEF ProcessDies, Active, PostAt
    <3>3. \A g \in Polls : poll'[g].st # "got"
      BY <1>1, <3>1 DEF ProcessDies, PollType
    <3>4. Dies
      BY <2>1, <3>1, <3>2, <3>3 DEF ProcessDies, Dies
    <3> QED
      BY <3>4 DEF Step
  <2>10. ASSUME NEW i \in Ids, UpEnd(i) PROVE Step
    BY <2>1, <2>10 DEF UpEnd, Step, mainVars
  <2>11. ASSUME NEW i \in Ids, NEW h \in Gets, UpSend(i, h) PROVE Step
    BY <2>1, <2>11 DEF UpSend, Step, mainVars
  <2>12. ASSUME NEW h \in Gets, GetEmpty(h) PROVE Step
    BY <2>1, <2>12 DEF GetEmpty, Step, mainVars
  <2> QED
    BY <1>3, <2>2, <2>3, <2>4, <2>5, <2>6, <2>7, <2>8, <2>9, <2>10, <2>11, <2>12 DEF ServerStep
<1>4. ASSUME Tick PROVE Step
  <2>1. \A i \in Ids : /\ rc'[i].st = rc[i].st /\ rc'[i].k = rc[i].k /\ rc'[i].eof = rc[i].eof
                       /\ rc'[i].tries = rc[i].tries /\ rc'[i].slot = rc[i].slot
                       /\ rc'[i].ticks = IF rc[i].st = "posting" /\ rc[i].ticks < RetryTicks
                                         THEN rc[i].ticks + 1 ELSE rc[i].ticks
    <3> SUFFICES ASSUME NEW i \in Ids
                 PROVE  /\ rc'[i].st = rc[i].st /\ rc'[i].k = rc[i].k /\ rc'[i].eof = rc[i].eof
                        /\ rc'[i].tries = rc[i].tries /\ rc'[i].slot = rc[i].slot
                        /\ rc'[i].ticks = IF rc[i].st = "posting" /\ rc[i].ticks < RetryTicks
                                          THEN rc[i].ticks + 1 ELSE rc[i].ticks
      OBVIOUS
    <3>1. rc'[i] = IF rc[i].st = "posting" /\ rc[i].ticks < RetryTicks
                   THEN [rc[i] EXCEPT !.ticks = @ + 1] ELSE rc[i]
      BY <1>4 DEF Tick
    <3> QED
      BY <1>1, <3>1 DEF RcType
  <2>2. Ticks
    BY <1>4, <2>1 DEF Tick, ReapTick, Ticks
  <2> QED
    BY <2>2 DEF Step
<1>5. ASSUME NEW i \in Ids, UserReceives(i) PROVE Step
  <2>1. PICK next \in ClientStates : ClientReceive(i, next)
    BY <1>5 DEF UserReceives
  <2>2. PICK p : p = Head(sendq[i])
    OBVIOUS
  <2>3. p \in Posts /\ sendq[i] # <<>> /\ cl[i] \in Receiving
    BY <1>2, <2>1, <2>2 DEF ClientReceive
  <2>4. next \in Receiving \union {"stuck"}
    BY <1>2, <2>1, <2>3 DEF ClientReceive, AfterReceive, Receiving
  <2>5. IF post[p].msg.eof THEN Posts1(p, "closing", post[p].msg) ELSE Posts1(p, "ok", NoMessage)
    <3>1. post' = [post EXCEPT ![p] = IF post[p].msg.eof THEN [post[p] EXCEPT !.st = "closing"] ELSE PostAt("ok")]
      BY <2>1, <2>2 DEF ClientReceive
    <3> QED
      BY <1>1, <2>3, <3>1 DEF Posts1, PostAt, PostType
  <2>6. Receives(i)
    BY <1>5, <2>1, <2>2, <2>3, <2>4, <2>5 DEF UserReceives, ClientReceive, Receives
  <2> QED
    BY <2>6 DEF Step
<1>6. ASSUME NEW i \in Ids, UploadRead(i) PROVE Step
  BY <1>6 DEF UploadRead, UpRead, Step, mainVars
<1>7. ASSUME NEW h \in Gets, UploadWrite(h) \/ OrphanGetEnd(h) PROVE Step
  BY <1>7 DEF UploadWrite, OrphanGetEnd, GetWrite, GetEnd, Step, mainVars
<1>8. ASSUME NEW g \in Polls, WorkerPoll(g) PROVE Step
  <2>1. Polled(g)
    BY <1>1, <1>8 DEF WorkerPoll, ServerRequest, Polled
  <2> QED
    BY <2>1 DEF Step
<1>9. ASSUME NEW g \in Polls, OrphanPollEnd(g) PROVE Step
  <2>1. Polled(g)
    BY <1>1, <1>9 DEF OrphanPollEnd, PollEnd, IdlePoll, Polled
  <2> QED
    BY <2>1 DEF Step
<1>10. ASSUME WorkerReply PROVE Step
  <2>1. wk \in Polls
    BY <1>2, <1>10 DEF WorkerReply
  <2>2. poll'[wk].st # "got" /\ \A h \in Polls \ {wk} : poll'[h] = poll[h]
    BY <1>1, <2>1, <1>10 DEF WorkerReply, PollEnd, IdlePoll
  <2>3. CASE poll[wk].st = "got"
    <3>1. PICK i : i = poll[wk].id
      OBVIOUS
    <3>2. ASSUME i \in Ids
          PROVE Turns(i, "backend", rc[i].k, rc[i].eof, rc[i].tries, rc[i].ticks, rc[i].slot)
      <4>1. rc' = [rc EXCEPT ![i] = [rc[i] EXCEPT !.st = "backend"]]
        BY <1>10, <2>3, <3>1 DEF WorkerReply
      <4> QED
        BY <1>1, <3>2, <4>1 DEF Turns, RcType
    <3>3. Starts(wk)
      BY <1>10, <2>2, <2>3, <3>1, <3>2 DEF WorkerReply, PollEnd, Starts
    <3> QED
      BY <2>1, <3>3 DEF Step
  <2>4. CASE poll[wk].st # "got"
    <3>1. Polled(wk)
      BY <1>10, <2>2, <2>4 DEF WorkerReply, PollEnd, Polled
    <3> QED
      BY <2>1, <3>1 DEF Step
  <2> QED
    BY <2>3, <2>4
<1>11. ASSUME WorkerLost PROVE Step
  BY <1>11 DEF WorkerLost, Step, mainVars
<1>12. ASSUME NEW i \in Ids, NEW status \in {"plain", "switching"}, BackendAnswers(i, status) PROVE Step
  <2>1. Answers(i)
    BY <1>1, <1>12 DEF BackendAnswers, Answers, Turns, RcType
  <2> QED
    BY <1>12, <2>1 DEF BackendAnswers, Step, Apart
<1>13. ASSUME NEW i \in Ids, BackendFails(i) PROVE Step
  <2>1. Fails(i)
    BY <1>1, <1>13 DEF BackendFails, Fails, Turns, RcType
  <2> QED
    BY <1>13, <2>1 DEF BackendFails, Step, Apart
<1>14. ASSUME NEW i \in Ids, NEW eof \in BOOLEAN, NextMessage(i, eof) PROVE Step
  <2>1. HandsOver(i)
    <3>1. Turns(i, "posting", rc[i].k + 1, eof, rc[i].tries, rc[i].ticks, rc[i].slot)
      BY <1>1, <1>14 DEF NextMessage, Turns, RcType
    <3> QED
      BY <1>14, <3>1 DEF NextMessage, HandsOver
  <2> QED
    BY <1>14, <2>1 DEF NextMessage, Step, Apart
<1>15. ASSUME NEW i \in Ids, NEW p \in Posts, PostAttempt(i, p) PROVE Step
  <2>1. PICK m : m = [id |-> i, eof |-> rc[i].eof, status |-> IF rc[i].k = 1 THEN rc[i].status ELSE "absent"]
    OBVIOUS
  <2>2. m \in Messages /\ m.id = i /\ m.eof = rc[i].eof
    BY <1>1, <2>1 DEF RcType, Messages, Status
  <2>3. SendResponse(p, m)
    BY <1>15, <2>1 DEF PostAttempt
  <2>4. Turns(i, "posting", rc[i].k, rc[i].eof, rc[i].tries, rc[i].ticks, p)
    BY <1>1, <1>15 DEF PostAttempt, MayPost, Turns, RcType
  <2>5. IF i \in resp THEN Posts1(p, "looked", m) ELSE Posts1(p, "rejected", NoMessage)
    BY <1>1, <2>2, <2>3 DEF SendResponse, Posts1, PostAt
  <2>6. Attempts(i, p)
    BY <1>15, <2>2, <2>3, <2>4, <2>5 DEF PostAttempt, MayPost, SendResponse, Attempts
  <2> QED
    BY <2>6 DEF Step
<1>16. ASSUME NEW i \in Ids, PostLost(i) PROVE Step
  <2>1. Repeats(i)
    BY <1>16, RcTurns DEF PostLost, MayPost, Repeats
  <2> QED
    BY <1>16, <2>1 DEF PostLost, Step, Apart
<1>17. ASSUME NEW i \in Ids, PostReply(i) PROVE Step
  <2>1. rc[i].slot \in Posts
    BY <1>1, <1>17 DEF PostReply, RcType
  <2>2. PICK p \in Posts : p = rc[i].slot
    BY <2>1
  <2>3. Ended(p)
    BY <1>1, <1>17, <2>2 DEF PostReply, PostEnd, IdlePost, PostAt, Ended, Posts1
  <2>4. IF post[p].st = "aborted" THEN Retried(i) ELSE Advanced(i)
    BY <1>17, <2>2, RcTurns DEF PostReply, PostEnd
  <2>5. Replied(i)
    BY <1>17, <2>2, <2>3, <2>4 DEF PostReply, Replied
  <2> QED
    BY <2>5 DEF Step
<1>18. ASSUME NEW i \in Ids, ReplyLost(i) PROVE Step
  <2>1. Doubts(i)
    BY <1>18, RcTurns DEF ReplyLost, Doubts
  <2> QED
    BY <2>1 DEF Step
<1>19. ASSUME NEW i \in Ids, GiveUp(i) PROVE Step
  <2>1. Drops(i)
    BY <1>19, RcTurns DEF GiveUp, Drops
  <2> QED
    BY <1>19, <2>1 DEF GiveUp, Step, Apart
<1>20. ASSUME NEW p \in Posts, OrphanPostEnd(p) PROVE Step
  <2>1. Orphaned(p)
    BY <1>1, <1>20 DEF OrphanPostEnd, PostEnd, IdlePost, PostAt, Orphaned, Ended, Posts1
  <2> QED
    BY <2>1 DEF Step
<1>21. ASSUME NEW i \in Ids, StreamReply(i) \/ StreamLost(i) PROVE Step
  BY <1>21 DEF StreamReply, StreamLost, GetEnd, Step, mainVars
<1>22. ASSUME NEW i \in Ids, NEW h \in Gets, StreamPoll(i, h) PROVE Step
  BY <1>22 DEF StreamPoll, ServerRequestStream, Step, mainVars
<1>23. ASSUME ClientRestart PROVE Step
  <2>1. Halts
    BY <1>1, <1>23 DEF ClientRestart, Halts, Stop, RcType
  <2> QED
    BY <1>23, <2>1 DEF ClientRestart, Step, Apart
<1>24. ASSUME UNCHANGED vars PROVE Step
  BY <1>24 DEF vars, Step, mainVars
<1> QED
  BY <1>3, <1>4, <1>5, <1>6, <1>7, <1>8, <1>9, <1>10, <1>11, <1>12, <1>13, <1>14, <1>15, <1>16,
     <1>17, <1>18,
     <1>19, <1>20, <1>21, <1>22, <1>23, <1>24
  DEF Next

-----------------------------------------------------------------------------
(* What is known of a request only grows.                                  *)

\* A queued POST that is not touched stands for the same message.
LEMMA QueuedSame ==
    ASSUME RelayTypeOK, Inv, NEW i \in Ids, sendq'[i] = sendq[i],
           \A p \in Posts : chunk'[p] = chunk[p] \/ post[p].st # "queued"
    PROVE  /\ \A n \in DOMAIN sendq[i] : chunk'[sendq[i][n]] = chunk[sendq[i][n]]
           /\ Queued(i)' = Queued(i)
<1>1. \A n \in DOMAIN sendq[i] : sendq[i][n] \in Posts /\ post[sendq[i][n]].st = "queued"
  BY DEF RelayTypeOK, TypeOK, Inv, Queues
<1>2. \A n \in DOMAIN sendq[i] : chunk'[sendq[i][n]] = chunk[sendq[i][n]]
  BY <1>1
<1> QED
  BY <1>2 DEF Queued

\* The head of the queue is a message of the request, which the user's handler takes.
LEMMA Taken ==
    ASSUME RelayTypeOK, Inv, NEW i \in Ids, Receives(i), NEW p, p = Head(sendq[i])
    PROVE  /\ p \in Posts /\ post[p].st = "queued" /\ post[p].msg.id = i /\ p = sendq[i][1]
           /\ 1 \in DOMAIN sendq[i]
           /\ Seen(i)' = Seen(i) \union {chunk[p]}
           /\ \A j \in Ids \ {i} : Seen(j)' = Seen(j) /\ Queued(j)' = Queued(j) /\ sendq'[j] = sendq[j]
           /\ DOMAIN sendq'[i] = 1..(Len(sendq[i]) - 1)
           /\ \A n \in DOMAIN sendq'[i] : n + 1 \in DOMAIN sendq[i] /\ sendq'[i][n] = sendq[i][n + 1]
           /\ Queued(i) = Queued(i)' \union {chunk[p]}
<1>1. sendq[i] \in Seq(Posts) /\ sendq[i] # <<>> /\ sendq'[i] = Tail(sendq[i])
  BY DEF Receives, RelayTypeOK, TypeOK
<1>2. 1 \in 1..Len(sendq[i]) /\ DOMAIN sendq[i] = 1..Len(sendq[i]) /\ p = sendq[i][1] /\ p \in Posts
  BY <1>1
<1>3. post[p].st = "queued" /\ post[p].msg.id = i
  BY <1>2 DEF Inv, Queues
<1>4. Seen(i)' = Seen(i) \union {chunk[p]}
  <2>1. PICK s : s = received[i] /\ s \in Seq(1..MaxMessages)
    BY DEF RelayTypeOK
  <2>2. received'[i] = Append(s, chunk[p])
    BY <2>1 DEF Receives, RelayTypeOK
  <2>3. PICK t : t = Append(s, chunk[p])
    OBVIOUS
  <2>4. DOMAIN t = DOMAIN s \union {Len(s) + 1} /\ t[Len(s) + 1] = chunk[p] /\ \A n \in DOMAIN s : t[n] = s[n]
    BY <2>1, <2>3
  <2> QED
    BY <2>1, <2>2, <2>3, <2>4 DEF Seen
<1>5. \A j \in Ids \ {i} : received'[j] = received[j] /\ sendq'[j] = sendq[j]
  BY DEF Receives, RelayTypeOK, TypeOK
<1>6. \A j \in Ids \ {i} : Seen(j)' = Seen(j) /\ Queued(j)' = Queued(j)
  BY <1>5 DEF Receives, Seen, Queued
<1>7. /\ DOMAIN sendq'[i] = 1..(Len(sendq[i]) - 1)
      /\ \A n \in DOMAIN sendq'[i] : n + 1 \in DOMAIN sendq[i] /\ sendq'[i][n] = sendq[i][n + 1]
  BY <1>1
<1>8. Queued(i) = Queued(i)' \union {chunk[p]}
  <2>1. chunk' = chunk /\ Len(sendq[i]) \in Nat
    BY <1>1 DEF Receives
  <2>2. ASSUME NEW n \in DOMAIN sendq[i] PROVE chunk[sendq[i][n]] \in Queued(i)' \union {chunk[p]}
    <3>1. CASE n = 1
      BY <1>2, <3>1
    <3>2. CASE n # 1
      <4>1. n - 1 \in DOMAIN sendq'[i] /\ sendq'[i][n - 1] = sendq[i][n]
        BY <1>1, <1>2, <1>7, <2>1, <3>2
      <4> QED
        BY <2>1, <4>1 DEF Queued
    <3> QED
      BY <3>1, <3>2
  <2>3. ASSUME NEW n \in DOMAIN sendq'[i] PROVE chunk'[sendq'[i][n]] \in Queued(i)
    BY <1>7, <2>1 DEF Queued
  <2>4. chunk[p] \in Queued(i)
    BY <1>2 DEF Queued
  <2> QED
    BY <2>2, <2>3, <2>4 DEF Queued
<1> QED
  BY <1>2, <1>3, <1>4, <1>5, <1>6, <1>7, <1>8

\* A message that is put in the queue is its last.
LEMMA Appended ==
    ASSUME RelayTypeOK, Inv, NEW p \in Posts, Enqueues(p), NEW i, i = post[p].msg.id
    PROVE  /\ i \in Ids
           /\ \A j \in Ids \ {i} : sendq'[j] = sendq[j] /\ Queued(j)' = Queued(j)
           /\ DOMAIN sendq'[i] = DOMAIN sendq[i] \union {Len(sendq[i]) + 1}
           /\ DOMAIN sendq[i] = 1..Len(sendq[i]) /\ Len(sendq[i]) \in Nat
           /\ sendq'[i][Len(sendq[i]) + 1] = p
           /\ \A n \in DOMAIN sendq[i] : sendq'[i][n] = sendq[i][n]
           /\ Queued(i)' = Queued(i) \union {chunk[p]}
<1>1. i \in Ids
  BY DEF Enqueues, Inv, Carried, Active, Messages
<1>2. \A j \in Ids \ {i} : sendq'[j] = sendq[j]
  BY <1>1 DEF Enqueues, RelayTypeOK, TypeOK
<1>3. \A j \in Ids \ {i} : Queued(j)' = Queued(j)
  BY <1>2 DEF Enqueues, Queued
<1>4. sendq'[i] = Append(sendq[i], p) /\ sendq[i] \in Seq(Posts)
  BY <1>1 DEF Enqueues, RelayTypeOK, TypeOK
<1>5. /\ DOMAIN sendq'[i] = DOMAIN sendq[i] \union {Len(sendq[i]) + 1}
      /\ DOMAIN sendq[i] = 1..Len(sendq[i]) /\ Len(sendq[i]) \in Nat
      /\ sendq'[i][Len(sendq[i]) + 1] = p
      /\ \A n \in DOMAIN sendq[i] : sendq'[i][n] = sendq[i][n]
  <2>1. PICK s \in Seq(Posts) : s = sendq[i]
    BY <1>4
  <2>2. PICK t : t = Append(s, p)
    OBVIOUS
  <2>3. DOMAIN s = 1..Len(s) /\ Len(s) \in Nat
    OBVIOUS
  <2>4. DOMAIN t = 1..(Len(s) + 1) /\ t[Len(s) + 1] = p /\ \A n \in 1..Len(s) : t[n] = s[n]
    BY <2>2
  <2>5. 1..(Len(s) + 1) = 1..Len(s) \union {Len(s) + 1}
    BY <2>3
  <2> QED
    BY <1>4, <2>1, <2>2, <2>3, <2>4, <2>5
<1>6. Queued(i)' = Queued(i) \union {chunk[p]}
  <2>1. chunk' = chunk
    BY DEF Enqueues
  <2>2. Queued(i)' = {chunk[sendq'[i][n]] : n \in DOMAIN sendq[i] \union {Len(sendq[i]) + 1}}
    BY <1>5, <2>1 DEF Queued
  <2>3. PICK D, l, t : D = DOMAIN sendq[i] /\ l = Len(sendq[i]) + 1 /\ t = sendq'[i]
    OBVIOUS
  <2>4. Queued(i) = {chunk[t[n]] : n \in D}
    BY <1>5, <2>3 DEF Queued
  <2>5. Queued(i)' = {chunk[t[n]] : n \in D \union {l}} /\ t[l] = p
    BY <1>5, <2>2, <2>3
  <2> QED
    BY <2>4, <2>5
<1> QED
  BY <1>1, <1>2, <1>3, <1>5, <1>6

\* What the user's handler has taken stays so.
LEMMA SeenGrows == ASSUME RelayTypeOK, Inv, Step, NEW i \in Ids PROVE Seen(i) \subseteq Seen(i)'
<1>1. ASSUME UNCHANGED received PROVE Seen(i)' = Seen(i)
  BY <1>1 DEF Seen
<1>2. ASSUME NEW j \in Ids, Receives(j) PROVE Seen(i) \subseteq Seen(i)'
  BY <1>2, Taken
<1>3. UNCHANGED received \/ \E j \in Ids : Receives(j)
  BY DEF Step, mainVars, Dies, Ticks, Apart, Enters, Leaves, ReapCloses, Aborts, Replied, Doubts,
     Accepts, Attempts,
         Polled, Starts, Enqueues, Panics, Closes, Orphaned, Ended
<1> QED
  BY <1>1, <1>2, <1>3

\* As long as the server knows the request, no message is lost on its way through the queue.
LEMMA KnownGrows ==
    ASSUME RelayTypeOK, Inv, Step, NEW i \in Ids, i \in resp'
    PROVE  Seen(i) \union Queued(i) \subseteq Seen(i)' \union Queued(i)'
<1>1. ASSUME UNCHANGED <<received, sendq, chunk>> PROVE Seen(i)' = Seen(i) /\ Queued(i)' = Queued(i)
  BY <1>1 DEF Seen, Queued
<1>2. ASSUME NEW j \in Ids, Receives(j) PROVE Queued(i) \subseteq Seen(i)' \union Queued(i)'
  BY <1>2, Taken
<1>3. ASSUME NEW p \in Posts, Enqueues(p) PROVE Queued(i) \subseteq Seen(i)' \union Queued(i)'
  BY <1>3, Appended
<1>4. ASSUME NEW j \in Ids, Aborts(j), j \notin resp PROVE Queued(i) \subseteq Queued(i)'
  <2>1. i # j
    BY <1>4 DEF Aborts
  <2>2. sendq'[i] = sendq[i] /\ chunk' = chunk
    BY <1>4, <2>1 DEF Aborts, RelayTypeOK, TypeOK
  <2> QED
    BY <2>2 DEF Queued
<1>5. ASSUME NEW j \in Ids, NEW p \in Posts, Attempts(j, p) PROVE Queued(i) \subseteq Queued(i)'
  <2>1. sendq' = sendq /\ \A q \in Posts : chunk'[q] = chunk[q] \/ post[q].st # "queued"
    BY <1>5 DEF Attempts, RelayTypeOK
  <2> QED
    BY <2>1, QueuedSame
<1>6. ASSUME NEW p \in Posts, Ended(p) PROVE Queued(i) \subseteq Queued(i)'
  <2>1. sendq' = sendq /\ \A q \in Posts : chunk'[q] = chunk[q] \/ post[q].st # "queued"
    BY <1>6 DEF Ended, RelayTypeOK
  <2> QED
    BY <2>1, QueuedSame
<1>7. ~Dies
  BY DEF Dies
<1>8. ASSUME NEW p \in Posts, Closes(p) PROVE \E j \in Ids : Aborts(j) /\ j \notin resp
  BY <1>8 DEF Closes, Inv, Listed, Carried, Ending, Active, Messages
<1>9. ASSUME NEW j \in Ids, ReapCloses(j) PROVE Aborts(j) /\ j \notin resp
  BY <1>9 DEF ReapCloses, Inv, Listed
<1>10. ASSUME NEW j \in Ids, Replied(j) PROVE \E p \in Posts : Ended(p)
  BY <1>10, RcField DEF Replied, RcType
<1>11. ASSUME NEW p \in Posts, Orphaned(p) PROVE Ended(p)
  BY <1>11 DEF Orphaned
<1>12. ASSUME UNCHANGED mainVars \/ Ticks \/ Apart PROVE UNCHANGED <<received, sendq, chunk>>
  BY <1>12 DEF mainVars, Ticks, Apart
<1>13. ASSUME NEW j \in Ids, Enters(j) \/ Leaves(j) \/ Doubts(j) \/ \E g \in Polls : Accepts(j, g)
       PROVE UNCHANGED <<received, sendq, chunk>>
  BY <1>13 DEF Enters, Leaves, Doubts, Accepts
<1>14. ASSUME NEW g \in Polls, Polled(g) \/ Starts(g) PROVE UNCHANGED <<received, sendq, chunk>>
  BY <1>14 DEF Polled, Starts
<1>15. ASSUME NEW p \in Posts, Panics(p) PROVE UNCHANGED <<received, sendq, chunk>>
  BY <1>15 DEF Panics
<1>16. Queued(i) \subseteq Seen(i)' \union Queued(i)'
  BY <1>1, <1>2, <1>3, <1>4, <1>5, <1>6, <1>7, <1>8, <1>9, <1>10, <1>11, <1>12, <1>13, <1>14, <1>15
  DEF Step
<1> QED
  BY <1>16, SeenGrows

-----------------------------------------------------------------------------
(* The invariant, part by part.                                            *)

\* The loop of handleRequest numbers its messages and posts one at a time.
LEMMA LoopStep == ASSUME RelayInv, Step PROVE Loop'
<1>1. /\ RelayTypeOK /\ Loop /\ MaxMessages \in Nat \ {0} /\ MaxRetries \in Nat /\ NoSlot \notin Posts
  BY RelayConstants DEF RelayInv
<1>2. \A i \in Ids : /\ rc[i].k \in 0..MaxMessages /\ rc[i].eof \in BOOLEAN
                     /\ rc[i].tries \in Nat /\ rc[i].ticks \in Nat
  BY <1>1, RcField DEF RcType
<1>3. ASSUME UNCHANGED rc PROVE Loop'
  BY <1>1, <1>3 DEF Loop
<1>4. ASSUME NEW i \in Ids, Answers(i) PROVE Loop'
  BY <1>1, <1>2, <1>4 DEF Loop, Answers, Turns
<1>5. ASSUME NEW i \in Ids, Fails(i) PROVE Loop'
  BY <1>1, <1>2, <1>5 DEF Loop, Fails, Turns
<1>6. ASSUME NEW i \in Ids, HandsOver(i) PROVE Loop'
  BY <1>1, <1>2, <1>6 DEF Loop, HandsOver, Turns
<1>7. ASSUME NEW i \in Ids, rc[i].st = "posting", Retried(i) PROVE Loop'
  BY <1>1, <1>2, <1>7 DEF Loop, Retried, Turns
<1>8. ASSUME NEW i \in Ids, Advanced(i) PROVE Loop'
  BY <1>1, <1>2, <1>8 DEF Loop, Advanced, Turns
<1>9. ASSUME Halts PROVE Loop'
  BY <1>1, <1>2, <1>9 DEF Loop, Halts
<1>10. ASSUME Ticks PROVE Loop'
  BY <1>1, <1>2, <1>10 DEF Loop, Ticks
<1>11. ASSUME NEW g \in Polls, Starts(g) PROVE Loop'
  BY <1>1, <1>2, <1>11 DEF RelayInv, Once, Loop, Starts, Turns
<1>12. ASSUME NEW i \in Ids, NEW p \in Posts, Attempts(i, p) PROVE Loop'
  BY <1>1, <1>2, <1>12 DEF Loop, Attempts, Turns
<1>13. ASSUME NEW i \in Ids, Repeats(i) \/ Drops(i) \/ Replied(i) \/ Doubts(i)
       PROVE rc[i].st = "posting" /\ (Retried(i) \/ Advanced(i))
  BY <1>1, <1>13 DEF Loop, Repeats, Drops, Replied, Doubts
<1>14. ASSUME NEW i \in Ids,
              \/ Enters(i) \/ Leaves(i) \/ ReapCloses(i) \/ Receives(i) \/ \E g \in Polls : Accepts(i, g)
       PROVE UNCHANGED rc
  BY <1>14 DEF Enters, Leaves, ReapCloses, Aborts, Receives, Accepts
<1>15. ASSUME NEW p \in Posts, Enqueues(p) \/ Panics(p) \/ Closes(p) \/ Orphaned(p) PROVE UNCHANGED rc
  BY <1>15 DEF Enqueues, Panics, Closes, Aborts, Orphaned
<1>16. ASSUME UNCHANGED mainVars \/ Dies \/ \E g \in Polls : Polled(g) PROVE UNCHANGED rc
  BY <1>16 DEF mainVars, Dies, Polled
<1> QED
  BY <1>3, <1>4, <1>5, <1>6, <1>7, <1>8, <1>9, <1>10, <1>11, <1>12, <1>13, <1>14, <1>15, <1>16 DEF Step

\* A request goes from the user to the polling relay client and to handleRequest, once.
LEMMA OnceStep == ASSUME RelayInv, Step PROVE Once'
<1>1. RelayTypeOK /\ Loop /\ Once /\ NoSlot \notin Posts
  BY RelayConstants DEF RelayInv
<1>2. cl \in [Ids -> ClientStates] /\ \A g \in Polls : poll[g].id \in Ids \union {NoId}
  BY <1>1 DEF RelayTypeOK, TypeOK, PollType
<1>3. ASSUME \A i \in Ids : rc'[i].st = "none" <=> rc[i].st = "none", UNCHANGED <<cl, poll>> PROVE Once'
  BY <1>1, <1>3 DEF Once
<1>4. ASSUME NEW i \in Ids, Enters(i) PROVE Once'
  BY <1>1, <1>2, <1>4 DEF Once, Enters
<1>5. ASSUME NEW i \in Ids, Leaves(i) PROVE Once'
  BY <1>1, <1>2, <1>5 DEF Once, Leaves, Receiving
<1>6. ASSUME NEW i \in Ids, Receives(i) PROVE Once'
  BY <1>1, <1>2, <1>6 DEF Once, Receives, Receiving
<1>7. ASSUME NEW i \in Ids, NEW g \in Polls, Accepts(i, g) PROVE Once'
  BY <1>1, <1>2, <1>7 DEF Once, Accepts
<1>8. ASSUME NEW g \in Polls, Polled(g) PROVE Once'
  BY <1>1, <1>2, <1>8 DEF Once, Polled
<1>9. ASSUME NEW g \in Polls, Starts(g) PROVE Once'
  BY <1>1, <1>2, <1>9 DEF Once, Starts, Turns
<1>10. ASSUME Dies PROVE Once'
  BY <1>1, <1>2, <1>10 DEF Once, Dies, Finished
<1>11. ASSUME NEW i \in Ids,
              Answers(i) \/ Fails(i) \/ HandsOver(i) \/ Repeats(i) \/ Drops(i) \/ Replied(i) \/ Doubts(i)
       PROVE \A j \in Ids : rc'[j].st = "none" <=> rc[j].st = "none"
  BY <1>1, <1>11
  DEF Loop, Answers, Fails, HandsOver, Repeats, Drops, Replied, Doubts, Retried, Advanced, Turns
<1>12. ASSUME NEW i \in Ids, NEW p \in Posts, Attempts(i, p)
       PROVE UNCHANGED <<cl, poll>> /\ \A j \in Ids : rc'[j].st = "none" <=> rc[j].st = "none"
  BY <1>12 DEF Attempts, Turns
<1>13. ASSUME Halts \/ Ticks PROVE \A j \in Ids : rc'[j].st = "none" <=> rc[j].st = "none"
  BY <1>13 DEF Halts, Ticks
<1>14. ASSUME Apart \/ Ticks \/ \E i \in Ids : Replied(i) \/ Doubts(i) PROVE UNCHANGED <<cl, poll>>
  BY <1>14 DEF Apart, Ticks, Replied, Doubts, Ended
<1>15. ASSUME \/ UNCHANGED mainVars \/ \E i \in Ids : ReapCloses(i)
              \/ \E p \in Posts : Enqueues(p) \/ Panics(p) \/ Closes(p) \/ Orphaned(p)
       PROVE UNCHANGED <<cl, poll>> /\ \A j \in Ids : rc'[j].st = "none" <=> rc[j].st = "none"
  BY <1>15 DEF mainVars, ReapCloses, Aborts, Enqueues, Panics, Closes, Orphaned, Ended
<1> QED
  BY <1>3, <1>4, <1>5, <1>6, <1>7, <1>8, <1>9, <1>10, <1>11, <1>12, <1>13, <1>14, <1>15 DEF Step

\* What handleRequest hears of its POST is true.
LEMMA PendingStep == ASSUME RelayInv, Step PROVE Pending'
<1>1. /\ RelayTypeOK /\ Inv /\ Loop /\ Once /\ Pending /\ UnderWay /\ NoSlot \notin Posts
  BY RelayConstants DEF RelayInv
<1>2. /\ \A i \in Ids : rc[i].slot \in Posts \union {NoSlot}
      /\ \A i \in Ids : Seen(i) \subseteq Seen(i)'
  BY <1>1, RcField, SeenGrows DEF RcType
\* the requests keep their POSTs, or give them up
<1>3. ASSUME UNCHANGED <<post, chunk>>, resp' \subseteq resp \union {i \in Ids : rc[i].slot = NoSlot},
             \A i \in Ids : \/ rc'[i].slot = NoSlot
                            \/ rc'[i].slot = rc[i].slot /\ rc'[i].k = rc[i].k /\ rc'[i].eof = rc[i].eof
      PROVE Pending'
  BY <1>1, <1>2, <1>3 DEF Pending, Active
<1>4. ASSUME UNCHANGED mainVars \/ Ticks PROVE Pending'
  BY <1>3, <1>4 DEF mainVars, Ticks
<1>5. ASSUME Apart,
             Halts \/ \E i \in Ids : Answers(i) \/ Fails(i) \/ HandsOver(i) \/ Repeats(i) \/ Drops(i)
      PROVE Pending'
  <2>1. UNCHANGED <<resp, post, chunk>>
    BY <1>5 DEF Apart
  <2>2. \A i \in Ids : \/ rc'[i].slot = NoSlot
                       \/ rc'[i].slot = rc[i].slot /\ rc'[i].k = rc[i].k /\ rc'[i].eof = rc[i].eof
    BY <1>1, <1>5 DEF Loop, Halts, Answers, Fails, HandsOver, Repeats, Drops, Retried, Advanced, Turns
  <2> QED
    BY <1>3, <2>1, <2>2
<1>6. ASSUME NEW i \in Ids, Enters(i) PROVE Pending'
  BY <1>1, <1>3, <1>6 DEF Loop, Once, Enters
<1>7. ASSUME NEW i \in Ids, Leaves(i) \/ \E g \in Polls : Accepts(i, g) PROVE Pending'
  BY <1>3, <1>7 DEF Leaves, Accepts
<1>8. ASSUME NEW g \in Polls, Polled(g) PROVE Pending'
  BY <1>3, <1>8 DEF Polled
<1>9. ASSUME NEW g \in Polls, Starts(g) PROVE Pending'
  BY <1>1, <1>3, <1>9 DEF Once, Starts, Turns
<1>10. ASSUME NEW i \in Ids, Doubts(i) PROVE Pending'
  BY <1>3, <1>10 DEF Doubts, Retried, Turns
\* the server's handlers move on, for requests that keep them
<1>11. ASSUME UNCHANGED <<rc, chunk>>, resp' \subseteq resp,
              \A p \in Posts : \/ post'[p] = post[p]
                               \/ post'[p].st \in {"queued", "closing"} /\ post'[p].msg = post[p].msg /\ Active(p)
                               \/ /\ Active(p) /\ post'[p].st = "ok"
                                  /\ \A j \in Ids : post[p].msg.id = j => chunk[p] \in Seen(j)'
                               \/ Active(p) /\ post'[p].st = "aborted" /\ post[p].msg.id \notin resp'
       PROVE Pending'
  <2>1. ASSUME NEW i \in Ids, NEW p \in Posts, rc'[i].slot = p
        PROVE /\ post'[p].st # "idle"
              /\ Active(p)' => post'[p].msg.id = i /\ post'[p].msg.eof = rc'[i].eof /\ chunk'[p] = rc'[i].k
              /\ post'[p].st \in {"rejected", "aborted"} => i \notin resp'
              /\ post'[p].st = "ok" => rc'[i].k \in Seen(i)'
    <3>1. /\ post[p].st # "idle"
          /\ Active(p) => post[p].msg.id = i /\ post[p].msg.eof = rc[i].eof /\ chunk[p] = rc[i].k
          /\ post[p].st \in {"rejected", "aborted"} => i \notin resp
          /\ post[p].st = "ok" => rc[i].k \in Seen(i)
      BY <1>1, <1>11, <2>1 DEF Pending
    <3>2. rc' = rc /\ chunk' = chunk /\ resp' \subseteq resp /\ Seen(i) \subseteq Seen(i)'
      BY <1>2, <1>11
    <3>3. CASE post'[p] = post[p]
      BY <3>1, <3>2, <3>3 DEF Active
    <3>4. CASE post'[p].st \in {"queued", "closing"} /\ post'[p].msg = post[p].msg /\ Active(p)
      BY <3>1, <3>2, <3>4 DEF Active
    <3>5. CASE /\ Active(p) /\ post'[p].st = "ok"
               /\ \A j \in Ids : post[p].msg.id = j => chunk[p] \in Seen(j)'
      BY <3>1, <3>2, <3>5 DEF Active
    <3>6. CASE Active(p) /\ post'[p].st = "aborted" /\ post[p].msg.id \notin resp'
      BY <3>1, <3>2, <3>6 DEF Active
    <3> QED
      BY <1>11, <3>3, <3>4, <3>5, <3>6
  <2> QED
    BY <1>1, <1>2, <1>11, <2>1 DEF Pending
<1>12. ASSUME Dies PROVE Pending'
  BY <1>11, <1>12 DEF Dies
<1>13. ASSUME NEW p \in Posts, Enqueues(p) PROVE Pending'
  BY <1>11, <1>13 DEF Enqueues, Posts1, Active
<1>14. ASSUME NEW p \in Posts, Panics(p) PROVE Pending'
  BY <1>1, <1>11, <1>14 DEF Panics, Posts1, Active, Inv, Listed
<1>15. ASSUME NEW p \in Posts, Closes(p) PROVE Pending'
  <2>1. post[p].msg.id \in Ids /\ post[p].msg.id \notin resp /\ chunk[p] \in Seen(post[p].msg.id)
    BY <1>1, <1>15 DEF Closes, Inv, Listed, Carried, UnderWay, Ending, Active, Messages
  <2> QED
    BY <1>2, <1>11, <1>15, <2>1 DEF Closes, Aborts, Active
<1>16. ASSUME NEW i \in Ids, ReapCloses(i) PROVE Pending'
  BY <1>1, <1>11, <1>16 DEF ReapCloses, Aborts, Active, Inv, Listed
<1>17. ASSUME NEW i \in Ids, Receives(i) PROVE Pending'
  <2>1. PICK p : p = Head(sendq[i])
    OBVIOUS
  <2>2. p \in Posts /\ post[p].st = "queued" /\ post[p].msg.id = i /\ chunk[p] \in Seen(i)'
    BY <1>1, <1>17, <2>1, Taken
  <2>3. UNCHANGED <<rc, chunk, resp>> /\ \A q \in Posts \ {p} : post'[q] = post[q]
    BY <1>17, <2>1 DEF Receives, Posts1
  <2>4. (post'[p].st = "closing" /\ post'[p].msg = post[p].msg) \/ post'[p].st = "ok"
    BY <1>17, <2>1 DEF Receives, Posts1
  <2> QED
    BY <1>11, <2>2, <2>3, <2>4 DEF Active
\* POSTs begin and end
<1>18. ASSUME NEW i \in Ids, NEW p \in Posts, Attempts(i, p) PROVE Pending'
  <2>1. \A j \in Ids \ {i} : rc'[j] = rc[j] /\ rc[j].slot # p
    BY <1>1, <1>18 DEF Attempts, Turns, Pending
  <2>2. \A q \in Posts \ {p} : post'[q] = post[q] /\ chunk'[q] = chunk[q]
    BY <1>1, <1>18 DEF Attempts, Posts1, RelayTypeOK
  <2>3. rc'[i].slot = p /\ rc'[i].k = rc[i].k /\ rc'[i].eof = rc[i].eof /\ chunk'[p] = rc[i].k
    BY <1>1, <1>18 DEF Attempts, Turns, RelayTypeOK
  <2>4. \/ post'[p].st = "looked" /\ post'[p].msg.id = i /\ post'[p].msg.eof = rc[i].eof
        \/ post'[p].st = "rejected" /\ i \notin resp'
    BY <1>18 DEF Attempts, Posts1
  <2>5. resp' \subseteq resp
    BY <1>18 DEF Attempts
  <2> QED
    BY <1>1, <1>2, <2>1, <2>2, <2>3, <2>4, <2>5 DEF Pending, Active
<1>19. ASSUME NEW p \in Posts, Ended(p), \A i \in Ids : rc'[i].slot = NoSlot \/ (rc'[i] = rc[i] /\ rc[i].slot # p)
       PROVE Pending'
  <2>1. \A q \in Posts \ {p} : post'[q] = post[q] /\ chunk'[q] = chunk[q]
    BY <1>1, <1>19 DEF Ended, Posts1, RelayTypeOK
  <2>2. resp' = resp
    BY <1>19 DEF Ended
  <2> QED
    BY <1>1, <1>2, <1>19, <2>1, <2>2 DEF Pending, Active
<1>20. ASSUME NEW i \in Ids, Replied(i) PROVE Pending'
  <2>1. \A j \in Ids : rc'[j].slot = NoSlot \/ (rc'[j] = rc[j] /\ rc[j].slot # rc[i].slot)
    BY <1>1, <1>20 DEF Replied, Retried, Advanced, Turns, Pending
  <2> QED
    BY <1>2, <1>19, <1>20, <2>1 DEF Replied
<1>21. ASSUME NEW p \in Posts, Orphaned(p) PROVE Pending'
  BY <1>19, <1>21 DEF Orphaned
<1> QED
  BY <1>4, <1>5, <1>6, <1>7, <1>8, <1>9, <1>10, <1>12, <1>13, <1>14, <1>15, <1>16, <1>17, <1>18,
     <1>20, <1>21
  DEF Step

\* A message under way is one that handleRequest has numbered; unless a reply was lost it is
\* the current one, in the POST that handleRequest waits for.
LEMMA UnderWayStep == ASSUME RelayInv, Step PROVE UnderWay'
<1>1. /\ RelayTypeOK /\ Inv /\ Loop /\ Once /\ Pending /\ UnderWay /\ Unseen /\ NoSlot \notin Posts
  BY RelayConstants DEF RelayInv
<1>2. /\ \A i \in Ids : rc[i].slot \in Posts \union {NoSlot} /\ rc[i].k \in Nat /\ rc[i].eof \in BOOLEAN
      /\ \A i \in Ids : Seen(i) \subseteq Seen(i)'
      /\ \A p \in Posts : chunk[p] \in Nat
      /\ \A p \in Posts : Active(p) => post[p].msg.id \in Ids
  <2>1. \A i \in Ids : rc[i].slot \in Posts \union {NoSlot} /\ rc[i].k \in Nat /\ rc[i].eof \in BOOLEAN
    BY <1>1, RcField DEF RcType
  <2>2. \A p \in Posts : chunk[p] \in Nat
    BY <1>1, RelayConstants DEF RelayTypeOK
  <2>3. \A p \in Posts : Active(p) => post[p].msg.id \in Ids
    BY <1>1 DEF Inv, Carried, Messages
  <2> QED
    BY <1>1, <2>1, <2>2, <2>3, SeenGrows
\* a request without a POST to wait for has none at the server, unless it was repeated in doubt
<1>3. \A i \in Ids : rc[i].st \notin {"none", "backend"}
                     \/ ~\E p \in Posts : Active(p) /\ post[p].msg.id = i
  BY <1>1, <1>2 DEF UnderWay, Loop
<1>4. \A i \in Ids \ resent :
          rc[i].st # "stopped" /\ (rc[i].slot = NoSlot \/ ~Active(rc[i].slot))
          => ~\E p \in Posts : Active(p) /\ post[p].msg.id = i
  BY <1>1, <1>2 DEF UnderWay
\* the relay client alone
<1>5. ASSUME UNCHANGED <<post, chunk, received>>, resent \subseteq resent',
             \A i \in Ids :
                \/ ~\E p \in Posts : Active(p) /\ post[p].msg.id = i
                \/ /\ rc'[i].k = rc[i].k /\ rc'[i].eof = rc[i].eof
                   /\ \/ i \in resent' \/ rc'[i].st = "stopped"
                      \/ rc'[i].slot = rc[i].slot /\ rc'[i].st = rc[i].st
                \/ i \in resent /\ ~rc[i].eof /\ rc'[i].k = rc[i].k + 1
      PROVE UnderWay'
  <2> SUFFICES ASSUME NEW p \in Posts, Active(p), NEW i \in Ids, i = post[p].msg.id
               PROVE /\ chunk[p] \in 1..rc'[i].k
                     /\ post[p].msg.eof => rc'[i].eof /\ chunk[p] = rc'[i].k
                     /\ post[p].st = "closing" => chunk[p] \in Seen(i)'
                     /\ i \notin resent' =>
                          /\ chunk[p] = rc'[i].k
                          /\ rc'[i].slot = p \/ rc'[i].st = "stopped"
                          /\ post[p].st # "closing" => chunk[p] \notin Seen(i)'
                          /\ \A q \in Posts : Active(q) /\ post[q].msg.id = i => q = p
    BY <1>2, <1>5 DEF UnderWay, Active
  <2>1. Seen(i)' = Seen(i)
    BY <1>5 DEF Seen
  <2>2. /\ chunk[p] \in 1..rc[i].k
        /\ post[p].msg.eof => rc[i].eof /\ chunk[p] = rc[i].k
        /\ post[p].st = "closing" => chunk[p] \in Seen(i)
        /\ i \notin resent =>
             /\ chunk[p] = rc[i].k
             /\ rc[i].slot = p \/ rc[i].st = "stopped"
             /\ post[p].st # "closing" => chunk[p] \notin Seen(i)
             /\ \A q \in Posts : Active(q) /\ post[q].msg.id = i => q = p
    BY <1>1 DEF UnderWay
  <2>3. CASE /\ rc'[i].k = rc[i].k /\ rc'[i].eof = rc[i].eof
             /\ \/ i \in resent' \/ rc'[i].st = "stopped"
                \/ rc'[i].slot = rc[i].slot /\ rc'[i].st = rc[i].st
    BY <1>5, <2>1, <2>2, <2>3
  <2>4. CASE i \in resent /\ ~rc[i].eof /\ rc'[i].k = rc[i].k + 1
    BY <1>2, <1>5, <2>1, <2>2, <2>4
  <2> QED
    BY <1>5, <2>3, <2>4
<1>6. ASSUME UNCHANGED <<post, chunk, received, resent>>,
             \A i \in Ids : /\ rc'[i].k = rc[i].k /\ rc'[i].eof = rc[i].eof
                            /\ rc'[i].slot = rc[i].slot /\ rc'[i].st = rc[i].st
      PROVE UnderWay'
  BY <1>5, <1>6
<1>7. ASSUME \/ UNCHANGED mainVars \/ Ticks \/ \E g \in Polls : Polled(g)
             \/ \E i \in Ids : Enters(i) \/ Leaves(i) \/ \E g \in Polls : Accepts(i, g)
      PROVE UnderWay'
  BY <1>6, <1>7 DEF mainVars, Ticks, Polled, Enters, Leaves, Accepts
<1>8. ASSUME NEW g \in Polls, Starts(g) PROVE UnderWay'
  <2>1. poll[g].id \in Ids /\ rc[poll[g].id].st = "none"
    BY <1>1, <1>8 DEF Once, Starts
  <2> QED
    BY <1>3, <1>5, <1>8, <2>1 DEF Starts, Turns
<1>9. ASSUME Apart, NEW i \in Ids, Answers(i) \/ Fails(i) PROVE UnderWay'
  BY <1>3, <1>5, <1>9 DEF Apart, Answers, Fails, Turns
<1>10. ASSUME Apart, NEW i \in Ids, HandsOver(i) PROVE UnderWay'
  BY <1>1, <1>4, <1>5, <1>10 DEF Apart, HandsOver, Turns, Loop
<1>11. ASSUME Apart, NEW i \in Ids, Repeats(i) \/ Drops(i) PROVE UnderWay'
  BY <1>4, <1>5, <1>11 DEF Apart, Repeats, Drops, Retried, Advanced, Turns
<1>12. ASSUME Apart, Halts PROVE UnderWay'
  BY <1>5, <1>12 DEF Apart, Halts
<1>13. ASSUME NEW i \in Ids, Doubts(i) PROVE UnderWay'
  BY <1>5, <1>13 DEF Doubts, Retried, Turns
\* the server alone
<1>14. ASSUME UNCHANGED <<rc, chunk, received, resent>>,
              \A p \in Posts : Active(p)' => /\ Active(p) /\ post'[p].msg = post[p].msg
                                             /\ post'[p].st = "closing" <=> post[p].st = "closing"
       PROVE UnderWay'
  <2>1. \A i \in Ids : Seen(i)' = Seen(i)
    BY <1>14 DEF Seen
  <2> SUFFICES ASSUME NEW p \in Posts, Active(p)', NEW i \in Ids, i = post[p].msg.id
               PROVE /\ chunk[p] \in 1..rc[i].k
                     /\ post[p].msg.eof => rc[i].eof /\ chunk[p] = rc[i].k
                     /\ post[p].st = "closing" => chunk[p] \in Seen(i)
                     /\ i \notin resent =>
                          /\ chunk[p] = rc[i].k
                          /\ rc[i].slot = p \/ rc[i].st = "stopped"
                          /\ post[p].st # "closing" => chunk[p] \notin Seen(i)
                          /\ \A q \in Posts : Active(q)' /\ post[q].msg.id = i => q = p
    BY <1>2, <1>14, <2>1 DEF UnderWay
  <2> QED
    BY <1>1, <1>14 DEF UnderWay
<1>15. ASSUME Dies PROVE UnderWay'
  BY <1>14, <1>15 DEF Dies, Active
<1>16. ASSUME NEW p \in Posts, Enqueues(p) \/ Panics(p) PROVE UnderWay'
  BY <1>14, <1>16 DEF Enqueues, Panics, Posts1, Active
<1>17. ASSUME NEW p \in Posts, Closes(p) PROVE UnderWay'
  BY <1>14, <1>17 DEF Closes, Aborts, Active
<1>18. ASSUME NEW i \in Ids, ReapCloses(i) PROVE UnderWay'
  BY <1>14, <1>18 DEF ReapCloses, Aborts, Active
\* a message is taken
<1>19. ASSUME NEW i \in Ids, Receives(i) PROVE UnderWay'
  <2>1. PICK h : h = Head(sendq[i])
    OBVIOUS
  <2>2. /\ h \in Posts /\ post[h].st = "queued" /\ post[h].msg.id = i /\ chunk[h] \in Seen(i)'
        /\ \A j \in Ids \ {i} : Seen(j)' = Seen(j)
    BY <1>1, <1>19, <2>1, Taken
  <2>3. UNCHANGED <<rc, chunk, resent>> /\ \A q \in Posts \ {h} : post'[q] = post[q]
    BY <1>19, <2>1 DEF Receives, Posts1
  <2>4. (post'[h].st = "closing" /\ post'[h].msg = post[h].msg) \/ post'[h].st = "ok"
    BY <1>19, <2>1 DEF Receives, Posts1
  <2>5. \A p \in Posts : Active(p)' => Active(p) /\ post'[p].msg = post[p].msg
    BY <2>2, <2>3, <2>4 DEF Active
  <2> SUFFICES ASSUME NEW p \in Posts, Active(p)', NEW j \in Ids, j = post[p].msg.id
               PROVE /\ chunk[p] \in 1..rc[j].k
                     /\ post[p].msg.eof => rc[j].eof /\ chunk[p] = rc[j].k
                     /\ post'[p].st = "closing" => chunk[p] \in Seen(j)'
                     /\ j \notin resent =>
                          /\ chunk[p] = rc[j].k
                          /\ rc[j].slot = p \/ rc[j].st = "stopped"
                          /\ post'[p].st # "closing" => chunk[p] \notin Seen(j)'
                          /\ \A q \in Posts : Active(q)' /\ post[q].msg.id = j => q = p
    BY <1>2, <2>3, <2>5 DEF UnderWay
  <2>6. Active(p) /\ Active(h)
    BY <2>2, <2>5 DEF Active
  <2>7. CASE p = h
    BY <1>1, <2>2, <2>3, <2>4, <2>5, <2>6, <2>7 DEF UnderWay, Active
  <2>8. CASE p # h
    BY <1>1, <1>2, <2>2, <2>3, <2>5, <2>6, <2>8 DEF UnderWay
  <2> QED
    BY <2>7, <2>8
\* POSTs begin and end
<1>20. ASSUME NEW i \in Ids, NEW p \in Posts, Attempts(i, p) PROVE UnderWay'
  <2>1. \A q \in Posts \ {p} : post'[q] = post[q] /\ chunk'[q] = chunk[q]
    BY <1>1, <1>20 DEF Attempts, Posts1, RelayTypeOK
  <2>2. /\ rc'[i].slot = p /\ rc'[i].k = rc[i].k /\ rc'[i].eof = rc[i].eof /\ chunk'[p] = rc[i].k
        /\ rc[i].k >= 1 /\ ~Active(p) /\ \A j \in Ids \ {i} : rc'[j] = rc[j]
    BY <1>1, <1>20 DEF Attempts, Turns, RelayTypeOK, Loop, Active
  <2>3. \/ /\ post'[p].st = "looked" /\ post'[p].msg.id = i /\ post'[p].msg.eof = rc[i].eof
           /\ i \notin resent => rc[i].k \notin Seen(i)
        \/ post'[p].st = "rejected"
    BY <1>1, <1>20 DEF Attempts, Posts1, Unseen
  <2>4. i \notin resent => ~\E q \in Posts : Active(q) /\ post[q].msg.id = i
    BY <1>4, <1>20 DEF Attempts
  <2>5. resent' = resent /\ \A j \in Ids : Seen(j)' = Seen(j)
    BY <1>20 DEF Attempts, Seen
  <2>6. \A q \in Posts \ {p} : Active(q)' = Active(q)
    BY <2>1 DEF Active
  <2> SUFFICES ASSUME NEW q \in Posts, Active(q)', NEW j \in Ids, j = post'[q].msg.id
               PROVE /\ chunk'[q] \in 1..rc'[j].k
                     /\ post'[q].msg.eof => rc'[j].eof /\ chunk'[q] = rc'[j].k
                     /\ post'[q].st = "closing" => chunk'[q] \in Seen(j)'
                     /\ j \notin resent' =>
                          /\ chunk'[q] = rc'[j].k
                          /\ rc'[j].slot = q \/ rc'[j].st = "stopped"
                          /\ post'[q].st # "closing" => chunk'[q] \notin Seen(j)'
                          /\ \A r \in Posts : Active(r)' /\ post'[r].msg.id = j => r = q
    <3>1. ASSUME NEW q \in Posts, Active(q)' PROVE post'[q].msg.id \in Ids
      BY <1>2, <2>1, <2>3, <2>6, <3>1 DEF Active
    <3> QED
      BY <3>1 DEF UnderWay
  <2>7. CASE q = p
    BY <1>2, <2>1, <2>2, <2>3, <2>4, <2>5, <2>6, <2>7 DEF Active
  <2>8. CASE q # p
    <3>1. Active(q) /\ post'[q] = post[q] /\ chunk'[q] = chunk[q] /\ j = post[q].msg.id
      BY <2>1, <2>6, <2>8
    <3>2. /\ chunk[q] \in 1..rc[j].k
          /\ post[q].msg.eof => rc[j].eof /\ chunk[q] = rc[j].k
          /\ post[q].st = "closing" => chunk[q] \in Seen(j)
          /\ j \notin resent =>
               /\ chunk[q] = rc[j].k
               /\ rc[j].slot = q \/ rc[j].st = "stopped"
               /\ post[q].st # "closing" => chunk[q] \notin Seen(j)
               /\ \A r \in Posts : Active(r) /\ post[r].msg.id = j => r = q
      BY <1>1, <3>1 DEF UnderWay
    <3>3. CASE j = i
      BY <2>2, <2>4, <2>5, <3>1, <3>2, <3>3
    <3>4. CASE j # i
      <4>1. rc'[j] = rc[j] /\ ~(Active(p)' /\ post'[p].msg.id = j)
        BY <2>2, <2>3, <3>4 DEF Active
      <4> QED
        BY <2>1, <2>5, <2>6, <3>1, <3>2, <4>1
    <3> QED
      BY <3>3, <3>4
  <2> QED
    BY <2>7, <2>8
<1>21. ASSUME NEW p \in Posts, Ended(p),
              \A i \in Ids : \/ rc'[i] = rc[i]
                             \/ /\ rc'[i].k = rc[i].k /\ rc'[i].eof = rc[i].eof
                                /\ i \in resent \/ ~\E q \in Posts : Active(q) /\ post[q].msg.id = i
       PROVE UnderWay'
  <2>1. /\ \A q \in Posts \ {p} : post'[q] = post[q] /\ chunk'[q] = chunk[q]
        /\ \A q \in Posts : Active(q)' => Active(q) /\ q # p
    BY <1>1, <1>21 DEF Ended, Posts1, RelayTypeOK, Active
  <2>2. resent' = resent /\ \A j \in Ids : Seen(j)' = Seen(j)
    BY <1>21 DEF Ended, Seen
  <2> SUFFICES ASSUME NEW q \in Posts, Active(q)', NEW j \in Ids, j = post[q].msg.id
               PROVE /\ chunk[q] \in 1..rc'[j].k
                     /\ post[q].msg.eof => rc'[j].eof /\ chunk[q] = rc'[j].k
                     /\ post[q].st = "closing" => chunk[q] \in Seen(j)
                     /\ j \notin resent =>
                          /\ chunk[q] = rc'[j].k
                          /\ rc'[j].slot = q \/ rc'[j].st = "stopped"
                          /\ post[q].st # "closing" => chunk[q] \notin Seen(j)
                          /\ \A r \in Posts : Active(r)' /\ post[r].msg.id = j => r = q
    BY <1>2, <2>1, <2>2 DEF UnderWay
  <2>3. /\ Active(q) /\ chunk[q] \in 1..rc[j].k
        /\ post[q].msg.eof => rc[j].eof /\ chunk[q] = rc[j].k
        /\ post[q].st = "closing" => chunk[q] \in Seen(j)
        /\ j \notin resent =>
             /\ chunk[q] = rc[j].k
             /\ rc[j].slot = q \/ rc[j].st = "stopped"
             /\ post[q].st # "closing" => chunk[q] \notin Seen(j)
             /\ \A r \in Posts : Active(r) /\ post[r].msg.id = j => r = q
    BY <1>1, <2>1 DEF UnderWay
  <2> QED
    BY <1>21, <2>1, <2>3
<1>22. ASSUME NEW i \in Ids, Replied(i) PROVE UnderWay'
  <2>1. rc[i].slot \in Posts /\ Ended(rc[i].slot) /\ ~Active(rc[i].slot) /\ rc[i].st = "posting"
    BY <1>1, <1>2, <1>22 DEF Replied, Ended, Active, Loop
  <2>2. i \in resent \/ ~\E q \in Posts : Active(q) /\ post[q].msg.id = i
    BY <1>4, <2>1
  <2>3. \A j \in Ids : \/ rc'[j] = rc[j]
                       \/ j = i /\ rc'[j].k = rc[j].k /\ rc'[j].eof = rc[j].eof
    BY <1>22 DEF Replied, Retried, Advanced, Turns
  <2> QED
    BY <1>21, <2>1, <2>2, <2>3
<1>23. ASSUME NEW p \in Posts, Orphaned(p) PROVE UnderWay'
  BY <1>21, <1>23 DEF Orphaned
<1> QED
  BY <1>7, <1>8, <1>9, <1>10, <1>11, <1>12, <1>13, <1>15, <1>16, <1>17, <1>18, <1>19, <1>20, <1>22,
     <1>23
  DEF Step

\* The user's handler has only messages that were numbered, and not the one that is still to
\* be posted.
LEMMA UnseenStep == ASSUME RelayInv, Step PROVE Unseen'
<1>1. /\ RelayTypeOK /\ Inv /\ Loop /\ Once /\ Pending /\ UnderWay /\ Unseen /\ NoSlot \notin Posts
  BY RelayConstants DEF RelayInv
<1>2. \A i \in Ids : rc[i].k \in Nat /\ rc[i].slot \in Posts \union {NoSlot}
  BY <1>1, RcField DEF RcType
\* the user takes nothing
<1>3. ASSUME UNCHANGED received, resent \subseteq resent',
             \A i \in Ids :
                \/ /\ rc'[i].k = rc[i].k
                   /\ \/ i \in resent' \/ i \notin resp' \/ rc'[i].st # "posting" \/ rc'[i].slot # NoSlot
                      \/ i \in resp /\ rc[i].st = "posting" /\ rc[i].slot = NoSlot
                \/ rc'[i].k = rc[i].k + 1
      PROVE Unseen'
  <2> SUFFICES ASSUME NEW i \in Ids
               PROVE /\ Seen(i) \subseteq 1..rc'[i].k
                     /\ i \notin resent' /\ i \in resp' /\ rc'[i].st = "posting" /\ rc'[i].slot = NoSlot
                        => rc'[i].k \notin Seen(i)
    <3>1. \A i \in Ids : Seen(i)' = Seen(i)
      BY <1>3 DEF Seen
    <3> QED
      BY <3>1 DEF Unseen
  <2>1. Seen(i) \subseteq 1..rc[i].k
    BY <1>1 DEF Unseen
  <2>2. CASE rc'[i].k = rc[i].k + 1
    BY <1>2, <2>1, <2>2
  <2>3. CASE rc'[i].k = rc[i].k
    BY <1>1, <1>2, <1>3, <2>1, <2>3 DEF Unseen
  <2> QED
    BY <1>3, <2>2, <2>3
<1>4. ASSUME UNCHANGED <<received, resent>>, resp' \subseteq resp,
             \A i \in Ids : rc'[i].k = rc[i].k /\ rc'[i].st = rc[i].st /\ rc'[i].slot = rc[i].slot
      PROVE Unseen'
  BY <1>3, <1>4
<1>5. ASSUME \/ UNCHANGED mainVars \/ Dies \/ Ticks \/ \E g \in Polls : Polled(g)
             \/ \E i \in Ids : Leaves(i) \/ ReapCloses(i) \/ \E g \in Polls : Accepts(i, g)
      PROVE Unseen'
  BY <1>4, <1>5 DEF mainVars, Dies, Ticks, Polled, Leaves, ReapCloses, Aborts, Accepts
<1>6. ASSUME NEW p \in Posts, Enqueues(p) \/ Panics(p) \/ Closes(p) \/ Orphaned(p) PROVE Unseen'
  BY <1>4, <1>6 DEF Enqueues, Panics, Closes, Aborts, Orphaned, Ended
<1>7. ASSUME NEW i \in Ids, Enters(i) PROVE Unseen'
  BY <1>1, <1>3, <1>7 DEF Enters, Once
<1>8. ASSUME NEW g \in Polls, Starts(g) PROVE Unseen'
  BY <1>1, <1>3, <1>8 DEF Starts, Turns, Once
<1>9. ASSUME Apart, NEW i \in Ids, Answers(i) \/ HandsOver(i) \/ Repeats(i) \/ Drops(i) PROVE Unseen'
  BY <1>3, <1>9 DEF Apart, Answers, HandsOver, Repeats, Drops, Retried, Advanced, Turns
<1>10. ASSUME Apart, NEW i \in Ids, Fails(i) PROVE Unseen'
  BY <1>1, <1>2, <1>3, <1>10 DEF Apart, Fails, Turns, Loop
<1>11. ASSUME Apart, Halts PROVE Unseen'
  BY <1>3, <1>11 DEF Apart, Halts
<1>12. ASSUME NEW i \in Ids, Doubts(i) PROVE Unseen'
  BY <1>3, <1>12 DEF Doubts, Retried, Turns
<1>13. ASSUME NEW i \in Ids, Replied(i) PROVE Unseen'
  <2>1. post[rc[i].slot].st = "aborted" => i \notin resp
    BY <1>1, <1>2, <1>13 DEF Replied, Pending
  <2> QED
    BY <1>3, <1>13, <2>1 DEF Replied, Ended, Retried, Advanced, Turns
<1>14. ASSUME NEW i \in Ids, NEW p \in Posts, Attempts(i, p) PROVE Unseen'
  BY <1>1, <1>3, <1>14 DEF Attempts, Turns
<1>15. ASSUME NEW i \in Ids, Receives(i) PROVE Unseen'
  <2>1. PICK h : h = Head(sendq[i])
    OBVIOUS
  <2>2. /\ h \in Posts /\ Active(h) /\ post[h].msg.id = i /\ Seen(i)' = Seen(i) \union {chunk[h]}
        /\ \A j \in Ids \ {i} : Seen(j)' = Seen(j)
    BY <1>1, <1>15, <2>1, Taken DEF Active
  <2>3. chunk[h] \in 1..rc[i].k /\ (i \notin resent => rc[i].slot = h \/ rc[i].st = "stopped")
    BY <1>1, <2>2 DEF UnderWay
  <2>4. UNCHANGED <<rc, resp, resent>>
    BY <1>15 DEF Receives
  <2> QED
    BY <1>1, <2>2, <2>3, <2>4 DEF Unseen
<1> QED
  BY <1>5, <1>6, <1>7, <1>8, <1>9, <1>10, <1>11, <1>12, <1>13, <1>14, <1>15 DEF Step

\* Closing after the final message, and only then or by the reaper.
LEMMA WholeStep == ASSUME RelayInv, Step PROVE Whole'
<1>1. RelayTypeOK /\ Inv /\ Loop /\ Once /\ UnderWay /\ Whole
  BY DEF RelayInv
<1>2. \A i \in Ids : Seen(i) \subseteq Seen(i)'
  BY <1>1, SeenGrows
<1>3. ASSUME UNCHANGED <<respClosed, reqClosed>>,
             \A i \in Ids : ~rc[i].eof \/ (rc'[i].k = rc[i].k /\ rc'[i].eof = rc[i].eof)
      PROVE Whole'
  BY <1>1, <1>2, <1>3 DEF Whole
<1>4. ASSUME \/ UNCHANGED mainVars \/ Dies \/ Ticks \/ \E g \in Polls : Polled(g)
             \/ \E i \in Ids : Enters(i) \/ Leaves(i) \/ Receives(i) \/ \E g \in Polls : Accepts(i, g)
      PROVE Whole'
  BY <1>3, <1>4 DEF mainVars, Dies, Ticks, Polled, Enters, Leaves, Receives, Accepts
<1>5. ASSUME NEW p \in Posts, Enqueues(p) \/ Panics(p) \/ Orphaned(p) PROVE Whole'
  BY <1>3, <1>5 DEF Enqueues, Panics, Orphaned, Ended
<1>6. ASSUME NEW g \in Polls, Starts(g) PROVE Whole'
  BY <1>1, <1>3, <1>6 DEF Starts, Turns, Once
<1>7. ASSUME Apart,
             Halts \/ \E i \in Ids : Answers(i) \/ Fails(i) \/ HandsOver(i) \/ Repeats(i) \/ Drops(i)
      PROVE Whole'
  BY <1>1, <1>3, <1>7
  DEF Apart, Halts, Answers, Fails, HandsOver, Repeats, Drops, Retried, Advanced, Turns, Loop
<1>8. ASSUME NEW i \in Ids, Doubts(i) \/ Replied(i) \/ \E p \in Posts : Attempts(i, p) PROVE Whole'
  BY <1>3, <1>8 DEF Doubts, Replied, Ended, Attempts, Retried, Advanced, Turns
<1>9. ASSUME NEW p \in Posts, Closes(p) PROVE Whole'
  <2>1. PICK i \in Ids : i = post[p].msg.id /\ post[p].msg.eof
    BY <1>1, <1>9 DEF Closes, Inv, Carried, Active, Messages
  <2>2. rc[i].eof /\ rc[i].k \in Seen(i)
    BY <1>1, <1>9, <2>1 DEF Closes, Active, UnderWay
  <2>3. /\ UNCHANGED <<rc, reqClosed>>
        /\ \A j \in Ids \ {i} : respClosed'[j] = respClosed[j]
    BY <1>1, <1>9, <2>1 DEF Closes, Aborts, RelayTypeOK, TypeOK
  <2> QED
    BY <1>1, <1>2, <2>2, <2>3 DEF Whole
<1>10. ASSUME NEW i \in Ids, ReapCloses(i) PROVE Whole'
  <2>1. /\ UNCHANGED rc /\ reqClosed'[i]
        /\ \A j \in Ids \ {i} : respClosed'[j] = respClosed[j] /\ reqClosed'[j] = reqClosed[j]
    BY <1>1, <1>10 DEF ReapCloses, Aborts, RelayTypeOK, TypeOK
  <2> QED
    BY <1>1, <1>2, <2>1 DEF Whole
<1> QED
  BY <1>4, <1>5, <1>6, <1>7, <1>8, <1>9, <1>10 DEF Step

\* handleRequest goes on from a message when the user's handler has it, or will have it from
\* the queue, or the server has forgotten the request.
LEMMA PreviousStep == ASSUME RelayInv, Step PROVE Previous'
<1>1. /\ RelayTypeOK /\ Inv /\ Loop /\ Once /\ Pending /\ Previous /\ Clock /\ NoSlot \notin Posts
  BY RelayConstants DEF RelayInv
<1>2. /\ \A i \in Ids : rc[i].k \in Nat /\ rc[i].slot \in Posts \union {NoSlot} /\ rc[i].ticks \in Nat
      /\ resp \subseteq Ids
  BY <1>1, RcField DEF RcType, RelayTypeOK, TypeOK
<1>3. /\ \A i \in Ids : i \in resp' => Seen(i) \union Queued(i) \subseteq Seen(i)' \union Queued(i)'
      /\ resp' \subseteq Ids
  <2>1. resp' \subseteq Ids
    BY <1>2 DEF Step, mainVars, Dies, Ticks, Apart, Enters, Leaves, ReapCloses, Aborts, Receives,
       Replied, Doubts,
                Accepts, Attempts, Polled, Starts, Enqueues, Panics, Closes, Orphaned, Ended
  <2> QED
    BY <1>1, <2>1, KnownGrows
<1>4. ASSUME \A i \in resp' :
                \/ rc'[i].st \notin {"building", "posting"}
                \/ Done(i)' = 0
                \/ i \in resp /\ rc[i].st \in {"building", "posting"} /\ Done(i)' = Done(i)
                \/ Done(i)' \in Seen(i) \union Queued(i)
      PROVE Previous'
  BY <1>1, <1>3, <1>4 DEF Previous
<1>5. ASSUME resp' \subseteq resp, \A i \in Ids : rc'[i].st = rc[i].st /\ rc'[i].k = rc[i].k PROVE Previous'
  <2>1. \A i \in Ids : Done(i)' = Done(i)
    BY <1>5 DEF Done
  <2> QED
    BY <1>2, <1>3, <1>4, <1>5, <2>1
<1>6. ASSUME \/ UNCHANGED mainVars \/ Dies \/ Ticks \/ \E g \in Polls : Polled(g)
             \/ \E i \in Ids : \/ Leaves(i) \/ ReapCloses(i) \/ Receives(i) \/ \E g \in Polls : Accepts(i, g)
                               \/ \E p \in Posts : Attempts(i, p)
      PROVE Previous'
  BY <1>5, <1>6
  DEF mainVars, Dies, Ticks, Polled, Leaves, ReapCloses, Aborts, Receives, Accepts, Attempts, Turns
<1>7. ASSUME NEW p \in Posts, Enqueues(p) \/ Panics(p) \/ Closes(p) \/ Orphaned(p) PROVE Previous'
  BY <1>5, <1>7 DEF Enqueues, Panics, Closes, Aborts, Orphaned, Ended
\* the steps of handleRequest i
<1>8. ASSUME NEW i \in Ids, resp' \subseteq resp \union {i}, \A j \in Ids \ {i} : rc'[j] = rc[j],
             i \in resp' =>
                \/ rc'[i].st \notin {"building", "posting"}
                \/ Done(i)' = 0
                \/ i \in resp /\ rc[i].st \in {"building", "posting"} /\ Done(i)' = Done(i)
                \/ Done(i)' \in Seen(i) \union Queued(i)
      PROVE Previous'
  <2>1. \A j \in Ids \ {i} : Done(j)' = Done(j)
    BY <1>8 DEF Done
  <2> QED
    BY <1>2, <1>3, <1>4, <1>8, <2>1
<1>9. ASSUME NEW i \in Ids, Enters(i) PROVE Previous'
  BY <1>1, <1>8, <1>9 DEF Enters, Once
<1>10. ASSUME NEW g \in Polls, Starts(g) PROVE Previous'
  BY <1>1, <1>8, <1>10 DEF Starts, Turns, Once
<1>11. ASSUME Apart, NEW i \in Ids, Answers(i) \/ Fails(i) PROVE Previous'
  <2>1. Done(i)' = 0
    BY <1>1, <1>2, <1>11 DEF Answers, Fails, Turns, Loop, Done
  <2> QED
    BY <1>8, <1>11, <2>1 DEF Apart, Answers, Fails, Turns
<1>12. ASSUME Apart, NEW i \in Ids, HandsOver(i) PROVE Previous'
  <2>1. Done(i)' = Done(i)
    BY <1>2, <1>12 DEF HandsOver, Turns, Done
  <2> QED
    BY <1>8, <1>12, <2>1 DEF Apart, HandsOver, Turns
<1>13. ASSUME NEW i \in Ids, rc[i].st = "posting", Retried(i), resp' = resp PROVE Previous'
  <2>1. rc'[i].st = "stopped" \/ (rc'[i].st = "posting" /\ Done(i)' = Done(i))
    BY <1>13 DEF Retried, Turns, Done
  <2> QED
    BY <1>8, <1>13, <2>1 DEF Retried, Turns
<1>14. ASSUME NEW i \in Ids, Advanced(i), resp' = resp, i \in resp => rc[i].k \in Seen(i) \union Queued(i)
       PROVE Previous'
  <2>1. rc'[i].st = "stopped" \/ (rc'[i].st = "building" /\ Done(i)' = rc[i].k)
    BY <1>14 DEF Advanced, Turns, Done
  <2> QED
    BY <1>8, <1>14, <2>1 DEF Advanced, Turns
<1>15. ASSUME Apart, NEW i \in Ids, Repeats(i) PROVE Previous'
  BY <1>13, <1>15 DEF Repeats, Apart
<1>16. ASSUME NEW i \in Ids, Doubts(i) PROVE Previous'
  BY <1>1, <1>13, <1>16 DEF Doubts, Loop
<1>17. ASSUME NEW i \in Ids, Replied(i) PROVE Previous'
  <2>1. rc[i].slot \in Posts /\ rc[i].st = "posting" /\ resp' = resp
    BY <1>1, <1>2, <1>17 DEF Replied, Ended, Loop
  <2>2. post[rc[i].slot].st # "aborted" /\ i \in resp => rc[i].k \in Seen(i)
    BY <1>1, <1>17, <2>1 DEF Replied, Ended, Pending
  <2> QED
    BY <1>13, <1>14, <1>17, <2>1, <2>2 DEF Replied
\* a message is dropped: the server has the request no more, or has had the message
<1>18. ASSUME Apart, NEW i \in Ids, Drops(i) PROVE Previous'
  <2>1. rc[i].ticks >= ReapTicks /\ ReapTicks \in Nat
    BY <1>2, <1>18, RetriesOutliveEntry, RelayConstants, ServerConstants DEF Drops
  <2>2. i \in resp => age[i] \in Nat /\ age[i] < ReapTicks
    BY <1>1, <1>2, <2>1 DEF Clock, ClockAt, RelayTypeOK, TypeOK
  <2>3. i \in resp => rc[i].k \in Seen(i) \union Queued(i)
    BY <1>1, <1>2, <1>18, <2>1, <2>2 DEF Drops, Clock, ClockAt
  <2> QED
    BY <1>14, <1>18, <2>3 DEF Drops, Apart
<1>19. ASSUME Apart, Halts PROVE Previous'
  <2>1. \A i \in Ids : rc'[i].st \notin {"building", "posting"}
    BY <1>19 DEF Halts
  <2> QED
    BY <1>3, <1>4, <2>1
<1> QED
  BY <1>6, <1>7, <1>9, <1>10, <1>11, <1>12, <1>15, <1>16, <1>17, <1>18, <1>19 DEF Step

\* The queue of the request stays as it is, and no POST of it is new.
Spared(i) ==
    /\ sendq'[i] = sendq[i] /\ received'[i] = received[i] /\ respClosed'[i] = respClosed[i]
    /\ \A p \in Posts : post'[p].st = "looked" /\ post'[p].msg.id = i
          => post[p].st = "looked" /\ post[p].msg = post'[p].msg /\ chunk'[p] = chunk[p]

\* Messages are queued after their predecessors.
LEMMA OrderStep == ASSUME RelayInv, Step PROVE Order'
<1>1. RelayTypeOK /\ Inv /\ Loop /\ Previous /\ Order /\ NoSlot \notin Posts
  BY RelayConstants DEF RelayInv
<1>2. /\ \A i \in Ids : sendq[i] \in Seq(Posts) /\ rc[i].k \in Nat
      /\ \A p \in Posts : chunk[p] \in Nat
  BY <1>1, RcField, RelayConstants DEF RelayTypeOK, TypeOK
<1>3. ASSUME NEW i \in Ids, Spared(i), \A p \in Posts : chunk'[p] = chunk[p] \/ post[p].st # "queued"
      PROVE InOrder(i)' /\ Follows(i)'
  <2>1. sendq'[i] = sendq[i] /\ received'[i] = received[i]
    BY <1>3 DEF Spared
  <2>2. /\ \A n \in DOMAIN sendq[i] : chunk'[sendq[i][n]] = chunk[sendq[i][n]]
        /\ Queued(i)' = Queued(i) /\ Seen(i)' = Seen(i)
    BY <1>1, <1>3, <2>1, QueuedSame DEF Seen
  <2>3. \A m \in DOMAIN sendq[i] : 1..(m - 1) \subseteq DOMAIN sendq[i]
    BY <1>2
  <2>4. ASSUME NEW m \in DOMAIN sendq'[i], NEW n, n = chunk'[sendq'[i][m]]
        PROVE n = 1 \/ n - 1 \in Seen(i)' \/ \E l \in 1..(m - 1) : chunk'[sendq'[i][l]] = n - 1
    <3>1. m \in DOMAIN sendq[i] /\ n = chunk[sendq[i][m]]
      BY <2>1, <2>2, <2>4
    <3>2. n = 1 \/ n - 1 \in Seen(i) \/ \E l \in 1..(m - 1) : chunk[sendq[i][l]] = n - 1
      BY <1>1, <3>1 DEF Order, InOrder
    <3> QED
      BY <2>1, <2>2, <2>3, <3>1, <3>2
  <2>5. Follows(i)'
    BY <1>1, <1>3, <2>2 DEF Order, Follows, Spared
  <2> QED
    BY <2>4, <2>5 DEF InOrder
<1>4. ASSUME \A p \in Posts : chunk'[p] = chunk[p] \/ post[p].st # "queued",
             \A i \in Ids : Spared(i) \/ (InOrder(i)' /\ Follows(i)')
      PROVE Order'
  BY <1>3, <1>4 DEF Order
<1>5. ASSUME UNCHANGED <<sendq, received, respClosed, post, chunk>> PROVE Order'
  BY <1>4, <1>5 DEF Spared
<1>6. ASSUME \/ UNCHANGED mainVars \/ Ticks \/ Apart \/ \E g \in Polls : Polled(g) \/ Starts(g)
             \/ \E i \in Ids : Enters(i) \/ Leaves(i) \/ Doubts(i) \/ \E g \in Polls : Accepts(i, g)
      PROVE Order'
  BY <1>5, <1>6 DEF mainVars, Ticks, Apart, Polled, Starts, Enters, Leaves, Doubts, Accepts
<1>7. ASSUME NEW p \in Posts, Panics(p) PROVE Order'
  BY <1>4, <1>7 DEF Panics, Posts1, Spared
<1>8. ASSUME NEW p \in Posts, Ended(p) PROVE Order'
  <2>1. \A q \in Posts \ {p} : chunk'[q] = chunk[q] /\ post'[q] = post[q]
    BY <1>1, <1>8 DEF Ended, Posts1, RelayTypeOK
  <2> QED
    BY <1>4, <1>8, <2>1 DEF Ended, Posts1, Spared
<1>9. ASSUME NEW i \in Ids, Replied(i) PROVE Order'
  <2>1. rc[i].slot \in Posts
    BY <1>1, <1>9, RcField DEF Replied, RcType
  <2> QED
    BY <1>8, <1>9, <2>1 DEF Replied
<1>10. ASSUME NEW p \in Posts, Orphaned(p) PROVE Order'
  BY <1>8, <1>10 DEF Orphaned
<1>11. ASSUME Dies PROVE Order'
  BY <1>11 DEF Order, InOrder, Follows, Dies, Active
\* a closed stream has no queue
<1>12. ASSUME NEW i \in Ids, Aborts(i),
              \A p \in Posts : post'[p].st = "looked" => post'[p] = post[p]
       PROVE Order'
  <2>1. /\ sendq'[i] = <<>> /\ respClosed'[i] /\ chunk' = chunk
        /\ \A j \in Ids \ {i} : sendq'[j] = sendq[j] /\ received'[j] = received[j] /\ respClosed'[j] = respClosed[j]
    BY <1>1, <1>12 DEF Aborts, RelayTypeOK, TypeOK
  <2>2. InOrder(i)' /\ Follows(i)'
    BY <2>1 DEF InOrder, Follows
  <2>3. \A j \in Ids \ {i} : Spared(j)
    BY <1>12, <2>1 DEF Spared
  <2> QED
    BY <1>4, <2>1, <2>2, <2>3
<1>13. ASSUME NEW i \in Ids, ReapCloses(i) PROVE Order'
  BY <1>12, <1>13 DEF ReapCloses, Aborts
<1>14. ASSUME NEW p \in Posts, Closes(p) PROVE Order'
  <2>1. PICK i \in Ids : i = post[p].msg.id
    BY <1>1, <1>14 DEF Closes, Inv, Carried, Active, Messages
  <2> QED
    BY <1>12, <1>14, <2>1 DEF Closes, Aborts
\* a message joins the queue
<1>15. ASSUME NEW p \in Posts, Enqueues(p) PROVE Order'
  <2>0. PICK i : i = post[p].msg.id /\ i \in Ids
    BY <1>1, <1>15, Appended
  <2>1. PICK s, L : s = sendq[i] /\ L = Len(s)
    OBVIOUS
  <2>2. /\ \A j \in Ids \ {i} : sendq'[j] = sendq[j]
        /\ DOMAIN sendq'[i] = DOMAIN s \union {L + 1} /\ DOMAIN s = 1..L /\ L \in Nat
        /\ sendq'[i][L + 1] = p /\ \A n \in DOMAIN s : sendq'[i][n] = s[n]
        /\ Queued(i)' = Queued(i) \union {chunk[p]}
    <3>1. \A j \in Ids \ {i} : sendq'[j] = sendq[j]
      BY <1>1, <1>15, <2>0, Appended
    <3>2. DOMAIN sendq'[i] = DOMAIN sendq[i] \union {Len(sendq[i]) + 1}
      BY <1>1, <1>15, <2>0, Appended
    <3>3. DOMAIN sendq[i] = 1..Len(sendq[i]) /\ Len(sendq[i]) \in Nat
      BY <1>1, <1>15, <2>0, Appended
    <3>4. sendq'[i][Len(sendq[i]) + 1] = p
      BY <1>1, <1>15, <2>0, Appended
    <3>5. \A n \in DOMAIN sendq[i] : sendq'[i][n] = sendq[i][n]
      BY <1>1, <1>15, <2>0, Appended
    <3>6. Queued(i)' = Queued(i) \union {chunk[p]}
      BY <1>1, <1>15, <2>0, Appended
    <3> QED
      BY <2>1, <3>1, <3>2, <3>3, <3>4, <3>5, <3>6
  <2>3. UNCHANGED <<received, respClosed, chunk>> /\ Seen(i)' = Seen(i)
    BY <1>15 DEF Enqueues, Seen
  <2>4. /\ post[p].st = "looked" /\ ~respClosed[i] /\ post'[p].st = "queued"
        /\ \A q \in Posts \ {p} : post'[q] = post[q]
    BY <1>15, <2>0 DEF Enqueues, Posts1
  <2>5. chunk[p] = 1 \/ chunk[p] - 1 \in Seen(i) \/ \E l \in 1..L : chunk[s[l]] = chunk[p] - 1
    <3>1. Queued(i) = {chunk[s[l]] : l \in 1..L}
      BY <2>1, <2>2 DEF Queued
    <3> QED
      BY <1>1, <2>0, <2>4, <3>1 DEF Order, Follows
  <2>6. ASSUME NEW m \in DOMAIN sendq'[i], NEW n, n = chunk'[sendq'[i][m]]
        PROVE n = 1 \/ n - 1 \in Seen(i)' \/ \E l \in 1..(m - 1) : chunk'[sendq'[i][l]] = n - 1
    <3>1. CASE m = L + 1
      <4>1. n = chunk[p] /\ 1..(m - 1) = 1..L
        BY <2>2, <2>3, <2>6, <3>1
      <4> QED
        BY <2>2, <2>3, <2>5, <4>1
    <3>2. CASE m \in DOMAIN s
      <4>1. n = chunk[s[m]] /\ 1..(m - 1) \subseteq DOMAIN s
        BY <2>2, <2>3, <2>6, <3>2
      <4>2. n = 1 \/ n - 1 \in Seen(i) \/ \E l \in 1..(m - 1) : chunk[s[l]] = n - 1
        BY <1>1, <2>0, <2>1, <3>2, <4>1 DEF Order, InOrder
      <4> QED
        BY <2>2, <2>3, <4>1, <4>2
    <3> QED
      BY <2>2, <3>1, <3>2
  <2>7. ASSUME NEW q \in Posts, post'[q].st = "looked", post'[q].msg.id = i, ~respClosed'[i]
        PROVE chunk'[q] = 1 \/ chunk'[q] - 1 \in Seen(i)' \union Queued(i)'
    BY <1>1, <2>0, <2>2, <2>3, <2>4, <2>7 DEF Order, Follows
  <2>8. InOrder(i)' /\ Follows(i)'
    BY <2>6, <2>7 DEF InOrder, Follows
  <2>9. \A j \in Ids \ {i} : Spared(j)
    BY <2>2, <2>3, <2>4 DEF Spared
  <2> QED
    BY <1>4, <2>3, <2>8, <2>9
\* a message leaves the queue
<1>16. ASSUME NEW i \in Ids, Receives(i) PROVE Order'
  <2>1. PICK h, s : h = Head(sendq[i]) /\ s = sendq[i]
    OBVIOUS
  <2>2. /\ h \in Posts /\ post[h].st = "queued" /\ h = s[1] /\ Seen(i)' = Seen(i) \union {chunk[h]}
        /\ DOMAIN sendq'[i] = 1..(Len(s) - 1)
        /\ \A n \in DOMAIN sendq'[i] : n + 1 \in DOMAIN s /\ sendq'[i][n] = s[n + 1]
        /\ Queued(i) = Queued(i)' \union {chunk[h]}
        /\ \A j \in Ids \ {i} : sendq'[j] = sendq[j]
    BY <1>1, <1>16, <2>1, Taken
  <2>3. UNCHANGED <<respClosed, chunk>> /\ \A j \in Ids \ {i} : received'[j] = received[j]
    BY <1>1, <1>16 DEF Receives, RelayTypeOK
  <2>4. post'[h].st # "looked" /\ \A q \in Posts \ {h} : post'[q] = post[q]
    BY <1>16, <2>1 DEF Receives, Posts1
  <2>5. Len(s) \in Nat /\ DOMAIN s = 1..Len(s)
    BY <1>2, <2>1
  <2>6. ASSUME NEW m \in DOMAIN sendq'[i], NEW n, n = chunk'[sendq'[i][m]]
        PROVE n = 1 \/ n - 1 \in Seen(i)' \/ \E l \in 1..(m - 1) : chunk'[sendq'[i][l]] = n - 1
    <3>1. m + 1 \in DOMAIN s /\ n = chunk[s[m + 1]] /\ m \in Nat /\ (m + 1) - 1 = m
      BY <2>2, <2>3, <2>5, <2>6
    <3>2. n = 1 \/ n - 1 \in Seen(i) \/ \E l \in 1..m : chunk[s[l]] = n - 1
      BY <1>1, <2>1, <3>1 DEF Order, InOrder, Follows
    <3>3. ASSUME NEW l \in 1..m, chunk[s[l]] = n - 1
          PROVE n - 1 \in Seen(i)' \/ \E x \in 1..(m - 1) : chunk'[sendq'[i][x]] = n - 1
      <4>1. CASE l = 1
        BY <2>2, <3>3, <4>1
      <4>2. CASE l # 1
        <5>1. l - 1 \in 1..(m - 1) /\ l - 1 \in DOMAIN sendq'[i] /\ (l - 1) + 1 = l
          BY <2>2, <2>5, <2>6, <3>1, <4>2
        <5>2. chunk'[sendq'[i][l - 1]] = n - 1
          BY <2>2, <2>3, <3>3, <5>1
        <5> QED
          BY <5>1, <5>2
      <4> QED
        BY <4>1, <4>2
    <3> QED
      BY <2>2, <3>2, <3>3
  <2>7. ASSUME NEW q \in Posts, post'[q].st = "looked", post'[q].msg.id = i, ~respClosed'[i]
        PROVE chunk'[q] = 1 \/ chunk'[q] - 1 \in Seen(i)' \union Queued(i)'
    BY <1>1, <2>2, <2>3, <2>4, <2>7 DEF Order, InOrder, Follows
  <2>8. InOrder(i)' /\ Follows(i)'
    BY <2>6, <2>7 DEF InOrder, Follows
  <2>9. \A j \in Ids \ {i} : Spared(j)
    BY <2>2, <2>3, <2>4 DEF Spared
  <2> QED
    BY <1>4, <2>3, <2>8, <2>9
\* a message is posted: its predecessor was dealt with
<1>17. ASSUME NEW i \in Ids, NEW p \in Posts, Attempts(i, p) PROVE Order'
  <2>1. \A q \in Posts \ {p} : post'[q] = post[q] /\ chunk'[q] = chunk[q]
    BY <1>1, <1>17 DEF Attempts, Posts1, RelayTypeOK
  <2>2. post[p].st = "idle" /\ chunk'[p] = rc[i].k /\ UNCHANGED <<sendq, received, respClosed>>
    BY <1>1, <1>17 DEF Attempts, RelayTypeOK
  <2>3. \/ post'[p].st = "looked" /\ post'[p].msg.id = i /\ i \in resp
        \/ post'[p].st = "rejected"
    BY <1>17 DEF Attempts, Posts1
  <2>4. i \in resp => rc[i].k = 1 \/ rc[i].k - 1 \in Seen(i) \union Queued(i)
    <3>1. i \in resp => rc[i].k - 1 = 0 \/ rc[i].k - 1 \in Seen(i) \union Queued(i)
      BY <1>1, <1>17 DEF Attempts, Previous, Done
    <3> QED
      BY <1>2, <3>1
  <2>5. Seen(i)' = Seen(i) /\ Queued(i)' = Queued(i)
        /\ \A n \in DOMAIN sendq[i] : chunk'[sendq[i][n]] = chunk[sendq[i][n]]
    BY <1>1, <2>1, <2>2, QueuedSame DEF Seen
  <2>6. \A m \in DOMAIN sendq[i] : 1..(m - 1) \subseteq DOMAIN sendq[i]
    BY <1>2
  <2>7. ASSUME NEW m \in DOMAIN sendq'[i], NEW n, n = chunk'[sendq'[i][m]]
        PROVE n = 1 \/ n - 1 \in Seen(i)' \/ \E l \in 1..(m - 1) : chunk'[sendq'[i][l]] = n - 1
    <3>1. n = 1 \/ n - 1 \in Seen(i) \/ \E l \in 1..(m - 1) : chunk[sendq[i][l]] = n - 1
      BY <1>1, <2>2, <2>5, <2>7 DEF Order, InOrder, Follows
    <3> QED
      BY <2>2, <2>5, <2>6, <2>7, <3>1
  <2>8. ASSUME NEW q \in Posts, post'[q].st = "looked", post'[q].msg.id = i, ~respClosed'[i]
        PROVE chunk'[q] = 1 \/ chunk'[q] - 1 \in Seen(i)' \union Queued(i)'
    BY <1>1, <2>1, <2>2, <2>3, <2>4, <2>5, <2>8 DEF Order, InOrder, Follows
  <2>9. InOrder(i)' /\ Follows(i)'
    BY <2>7, <2>8 DEF InOrder, Follows
  <2>10. \A j \in Ids \ {i} : Spared(j)
    BY <2>1, <2>2, <2>3 DEF Spared
  <2> QED
    BY <1>4, <2>1, <2>2, <2>9, <2>10
<1> QED
  BY <1>6, <1>7, <1>9, <1>10, <1>11, <1>13, <1>14, <1>15, <1>16, <1>17 DEF Step

\* As long as the message is not known, the entry is as silent as its POST is retried.
LEMMA ClockStep == ASSUME RelayInv, Step PROVE Clock'
<1>1. /\ RelayTypeOK /\ Inv /\ Loop /\ Once /\ Clock /\ NoSlot \notin Posts
      /\ ReapTicks \in Nat \ {0} /\ RetryTicks \in Nat
  BY RelayConstants, ServerConstants DEF RelayInv
<1>2. /\ \A i \in Ids : rc[i].ticks \in Nat /\ rc[i].k \in Nat /\ age[i] \in Nat
      /\ resp \subseteq Ids /\ age \in [Ids -> 0..ReapTicks] /\ chunk \in [Posts -> 0..MaxMessages]
  BY <1>1, RcField DEF RelayTypeOK, TypeOK
<1>3. \A i \in Ids : i \in resp' => Seen(i) \union Queued(i) \subseteq Seen(i)' \union Queued(i)'
  BY <1>1, KnownGrows
\* a request whose entry and whose POSTs at the server are left alone
<1>4. ASSUME NEW i \in resp, i \in resp', age'[i] = age[i],
             \A p \in Posts : post[p].st = "looked" /\ post[p].msg.id = i
                => post'[p] = post[p] /\ chunk'[p] = chunk[p],
             \/ rc'[i].st # "posting"
             \/ rc[i].st # "posting" /\ rc'[i].ticks = 0
             \/ rc[i].st = "posting" /\ rc'[i].ticks = rc[i].ticks /\ rc'[i].k = rc[i].k
      PROVE ClockAt(i)'
  <2>1. age[i] < ReapTicks
    BY <1>1 DEF Clock, ClockAt
  <2>2. CASE rc'[i].st # "posting"
    BY <1>4, <2>1, <2>2 DEF ClockAt
  <2>3. CASE rc[i].st # "posting" /\ rc'[i].ticks = 0
    BY <1>2, <1>4, <2>1, <2>3 DEF ClockAt
  <2>4. CASE rc[i].st = "posting" /\ rc'[i].ticks = rc[i].ticks /\ rc'[i].k = rc[i].k
    BY <1>1, <1>2, <1>3, <1>4, <2>4 DEF Clock, ClockAt
  <2> QED
    BY <1>4, <2>2, <2>3, <2>4
<1>5. ASSUME resp' \subseteq resp, UNCHANGED <<age, post, chunk>>,
             \A i \in Ids : \/ rc'[i].st # "posting"
                            \/ rc[i].st # "posting" /\ rc'[i].ticks = 0
                            \/ rc[i].st = "posting" /\ rc'[i].ticks = rc[i].ticks /\ rc'[i].k = rc[i].k
      PROVE Clock'
  BY <1>2, <1>4, <1>5 DEF Clock
<1>6. ASSUME \/ UNCHANGED mainVars \/ \E g \in Polls : Polled(g)
             \/ \E i \in Ids : Leaves(i) \/ \E g \in Polls : Accepts(i, g)
      PROVE Clock'
  BY <1>5, <1>6 DEF mainVars, Polled, Leaves, Accepts
<1>7. ASSUME NEW g \in Polls, Starts(g) PROVE Clock'
  BY <1>1, <1>5, <1>7 DEF Starts, Turns, Once
<1>8. ASSUME Apart, NEW i \in Ids, Answers(i) \/ Fails(i) \/ HandsOver(i) PROVE Clock'
  BY <1>1, <1>5, <1>8 DEF Apart, Answers, Fails, HandsOver, Turns, Loop
<1>9. ASSUME Apart, Halts \/ \E i \in Ids : Repeats(i) \/ Drops(i) PROVE Clock'
  BY <1>5, <1>9 DEF Apart, Halts, Repeats, Drops, Retried, Advanced, Turns
<1>10. ASSUME NEW i \in Ids, Doubts(i) PROVE Clock'
  BY <1>1, <1>5, <1>10 DEF Doubts, Retried, Turns, Loop
<1>11. ASSUME Dies PROVE Clock'
  BY <1>11 DEF Dies, Clock
<1>12. ASSUME NEW i \in Ids, Enters(i) PROVE Clock'
  <2>1. ClockAt(i)'
    BY <1>1, <1>2, <1>12 DEF Enters, ClockAt, Once
  <2>2. \A j \in Ids \ {i} : age'[j] = age[j]
    BY <1>2, <1>12 DEF Enters
  <2> QED
    BY <1>2, <1>4, <1>12, <2>1, <2>2 DEF Enters, Clock
<1>13. ASSUME NEW i \in Ids, Aborts(i), i \notin resp,
              \A p \in Posts : post[p].st = "looked" => post'[p] = post[p]
       PROVE Clock'
  BY <1>2, <1>4, <1>13 DEF Aborts, Clock
<1>14. ASSUME NEW i \in Ids, ReapCloses(i) PROVE Clock'
  BY <1>1, <1>13, <1>14 DEF ReapCloses, Inv, Listed
<1>15. ASSUME NEW p \in Posts, Closes(p) PROVE Clock'
  <2>1. PICK i \in Ids : i = post[p].msg.id /\ i \notin resp
    BY <1>1, <1>15 DEF Closes, Inv, Carried, Listed, Ending, Active, Messages
  <2> QED
    BY <1>13, <1>15, <2>1 DEF Closes
<1>16. ASSUME NEW i \in Ids, Receives(i) PROVE Clock'
  <2>1. PICK h : h = Head(sendq[i])
    OBVIOUS
  <2>2. h \in Posts /\ post[h].st = "queued"
    BY <1>1, <1>16, <2>1, Taken
  <2>3. UNCHANGED <<resp, age, rc, chunk>> /\ \A q \in Posts \ {h} : post'[q] = post[q]
    BY <1>16, <2>1 DEF Receives, Posts1
  <2> QED
    BY <1>2, <1>4, <2>2, <2>3 DEF Clock
<1>17. ASSUME NEW p \in Posts, Panics(p) PROVE Clock'
  <2>1. post[p].msg.id \notin resp
    BY <1>1, <1>17 DEF Panics, Inv, Listed
  <2> QED
    BY <1>2, <1>4, <1>17, <2>1 DEF Panics, Posts1, Clock
\* a POST of the message reaches the queue
<1>18. ASSUME NEW p \in Posts, Enqueues(p) PROVE Clock'
  <2>1. PICK i : i = post[p].msg.id /\ i \in Ids
    BY <1>1, <1>18, Appended
  <2>2. UNCHANGED <<resp, age, rc, chunk>> /\ post[p].st = "looked" /\ \A q \in Posts \ {p} : post'[q] = post[q]
    BY <1>18 DEF Enqueues, Posts1
  <2>3. Queued(i)' = Queued(i) \union {chunk[p]}
    BY <1>1, <1>18, <2>1, Appended
  <2>4. chunk[p] \in Queued(i)'
    BY <2>3
  <2>5. ASSUME i \in resp PROVE ClockAt(i)'
    BY <1>1, <1>3, <2>1, <2>2, <2>4, <2>5 DEF Clock, ClockAt
  <2>6. ASSUME NEW j \in resp, j # i PROVE ClockAt(j)'
    BY <1>2, <1>4, <2>1, <2>2, <2>6
  <2> QED
    BY <2>2, <2>5, <2>6 DEF Clock
\* a POST of the message reaches the server
<1>19. ASSUME NEW i \in Ids, NEW p \in Posts, Attempts(i, p) PROVE Clock'
  <2>1. \A q \in Posts \ {p} : post'[q] = post[q] /\ chunk'[q] = chunk[q]
    BY <1>2, <1>19 DEF Attempts, Posts1
  <2>2. post[p].st = "idle" /\ chunk'[p] = rc[i].k /\ resp' \subseteq resp
    BY <1>2, <1>19 DEF Attempts
  <2>3. /\ rc[i].st = "posting" /\ rc'[i].k = rc[i].k /\ rc'[i].ticks = rc[i].ticks
        /\ \A j \in Ids \ {i} : rc'[j] = rc[j] /\ age'[j] = age[j]
    BY <1>2, <1>19 DEF Attempts, Turns
  <2>4. ASSUME i \in resp' PROVE ClockAt(i)'
    <3>1. i \in resp /\ age'[i] = 0 /\ post'[p].st = "looked" /\ post'[p].msg.id = i
      BY <1>2, <1>19, <2>4 DEF Attempts, Posts1
    <3>2. \/ rc[i].ticks < ReapTicks
          \/ rc[i].k \in Seen(i) \union Queued(i)
      BY <1>1, <1>2, <2>3, <3>1 DEF Clock, ClockAt
    <3> QED
      BY <1>1, <1>3, <2>2, <2>3, <2>4, <3>1, <3>2 DEF ClockAt
  <2>5. ASSUME NEW j \in resp', j # i PROVE ClockAt(j)'
    BY <1>2, <1>4, <2>1, <2>2, <2>3, <2>5
  <2> QED
    BY <2>4, <2>5 DEF Clock
<1>20. ASSUME NEW p \in Posts, Ended(p),
              \A i \in Ids : \/ rc'[i].st # "posting"
                             \/ rc[i].st = "posting" /\ rc'[i].ticks = rc[i].ticks /\ rc'[i].k = rc[i].k
       PROVE Clock'
  <2>1. \A q \in Posts \ {p} : post'[q] = post[q] /\ chunk'[q] = chunk[q]
    BY <1>2, <1>20 DEF Ended, Posts1
  <2>2. post[p].st # "looked" /\ UNCHANGED <<resp, age>>
    BY <1>20 DEF Ended
  <2> QED
    BY <1>2, <1>4, <1>20, <2>1, <2>2 DEF Clock
<1>21. ASSUME NEW i \in Ids, Replied(i) PROVE Clock'
  <2>1. rc[i].slot \in Posts /\ rc[i].st = "posting"
    BY <1>1, <1>21, RcField DEF Replied, RcType, Loop
  <2>2. \A j \in Ids : \/ rc'[j].st # "posting"
                       \/ rc[j].st = "posting" /\ rc'[j].ticks = rc[j].ticks /\ rc'[j].k = rc[j].k
    BY <1>21, <2>1 DEF Replied, Retried, Advanced, Turns
  <2> QED
    BY <1>20, <1>21, <2>1, <2>2 DEF Replied
<1>22. ASSUME NEW p \in Posts, Orphaned(p) PROVE Clock'
  BY <1>20, <1>22 DEF Orphaned
\* time passes for both sides
<1>23. ASSUME Ticks PROVE Clock'
  <2> SUFFICES ASSUME NEW i \in resp' PROVE ClockAt(i)'
    BY DEF Clock
  <2>1. i \in Ids /\ i \in resp /\ i \notin Expired /\ age'[i] = age[i] + 1
    BY <1>2, <1>23 DEF Ticks
  <2>2. age'[i] < ReapTicks
    BY <1>1, <1>2, <2>1 DEF Expired
  <2>3. rc[i].st = "posting" => rc[i].ticks <= age[i] \/ rc[i].k \in Seen(i) \union Queued(i)
    BY <1>1, <1>23, <2>1 DEF Clock, ClockAt, Ticks
  <2>4. /\ rc'[i].st = rc[i].st /\ rc'[i].k = rc[i].k
        /\ rc'[i].ticks \in {rc[i].ticks, rc[i].ticks + 1}
    BY <1>23, <2>1 DEF Ticks
  <2>5. CASE rc[i].k \in Seen(i) \union Queued(i)
    BY <1>3, <2>1, <2>2, <2>4, <2>5 DEF ClockAt
  <2>6. CASE rc[i].ticks <= age[i]
    <3>1. rc'[i].ticks <= age'[i]
      BY <1>2, <2>1, <2>4, <2>6
    <3> QED
      BY <2>2, <3>1 DEF ClockAt
  <2>7. CASE rc[i].st # "posting"
    BY <2>2, <2>4, <2>7 DEF ClockAt
  <2> QED
    BY <2>3, <2>5, <2>6, <2>7
<1> QED
  BY <1>6, <1>7, <1>8, <1>9, <1>10, <1>11, <1>12, <1>14, <1>15, <1>16, <1>17, <1>18, <1>19, <1>21,
     <1>22, <1>23
  DEF Step

\* The upload goroutine reads a block before it passes it on, and a reply is copied from it.
LEMMA UploadsStep == ASSUME RelayInv, [Next]_vars PROVE Uploads'
<1> USE DEF dataVars, serverVars
<1>1. Uploads /\ get \in [Gets -> GetType] /\ up \in [Ids -> UpStates]
  BY DEF RelayInv, RelayTypeOK, TypeOK
<1>2. ubuf \in [Ids -> 0..MaxUploads] /\ wrote \in [Gets -> 0..MaxUploads] /\ MaxUploads \in Nat
  BY RelayConstants DEF RelayInv, RelayTypeOK
<1>3. ASSUME UNCHANGED <<ubuf, wrote>>, \A i \in Ids : up'[i] = "sending" => up[i] = "sending",
             \A h \in Gets : get'[h].st \in {"writing", "written"} => get'[h] = get[h]
      PROVE Uploads'
  BY <1>1, <1>3 DEF Uploads
<1>4. ASSUME NEW i \in Ids, UploadRead(i) PROVE Uploads'
  <2>1. \A j \in Ids : ubuf'[j] >= ubuf[j] /\ (j = i => ubuf'[j] >= 1)
    BY <1>2, <1>4 DEF UploadRead
  <2>2. \A j \in Ids : up'[j] = "sending" => j = i \/ up[j] = "sending"
    BY <1>1, <1>4 DEF UploadRead, UpRead
  <2>3. \A j \in Ids : ubuf[j] \in Nat /\ ubuf'[j] \in Nat
    BY <1>2, <1>4 DEF UploadRead
  <2>4. UNCHANGED <<get, wrote>>
    BY <1>4 DEF UploadRead, UpRead
  <2> QED
    BY <1>1, <2>1, <2>2, <2>3, <2>4 DEF Uploads
<1>5. ASSUME NEW h \in Gets, UploadWrite(h) PROVE Uploads'
  <2>1. get[h].id \in Ids /\ ubuf[get[h].id] >= 1
    BY <1>1, <1>5 DEF UploadWrite, GetWrite, Uploads
  <2>2. wrote'[h] >= 1 /\ get'[h].st = "written" /\ UNCHANGED <<up, ubuf>>
    BY <1>1, <1>2, <1>5, <2>1 DEF UploadWrite, GetWrite, GetType
  <2>3. \A l \in Gets \ {h} : get'[l] = get[l] /\ wrote'[l] = wrote[l]
    BY <1>1, <1>2, <1>5 DEF UploadWrite, GetWrite
  <2> QED
    BY <1>1, <2>2, <2>3 DEF Uploads
<1>6. ASSUME NEW i \in Ids, NEW h \in Gets, UpSend(i, h), UNCHANGED dataVars PROVE Uploads'
  <2>1. get'[h].id = i /\ get'[h].st = "writing" /\ \A l \in Gets \ {h} : get'[l] = get[l]
    BY <1>1, <1>6 DEF UpSend, GetType
  <2>2. ubuf[i] >= 1 /\ \A j \in Ids : up'[j] = "sending" => up[j] = "sending"
    BY <1>1, <1>6 DEF UpSend, Uploads
  <2> QED
    BY <1>1, <1>6, <2>1, <2>2 DEF Uploads
\* a reply that ends, read or not
<1>7. ASSUME NEW h \in Gets, GetEnd(h), wrote' = [wrote EXCEPT ![h] = 0], UNCHANGED ubuf PROVE Uploads'
  <2>1. get'[h].st = "idle" /\ \A l \in Gets \ {h} : get'[l] = get[l] /\ wrote'[l] = wrote[l]
    BY <1>1, <1>2, <1>7 DEF GetEnd, IdleGet
  <2> QED
    BY <1>1, <1>7, <2>1 DEF Uploads, GetEnd
<1>8. ASSUME NEW i \in Ids, StreamReply(i) PROVE Uploads'
  <2>1. gslot[i] \in Gets
    BY <1>8 DEF StreamReply, RelayInv, RelayTypeOK
  <2> QED
    BY <1>7, <1>8, <2>1 DEF StreamReply
<1>9. ASSUME NEW h \in Gets, OrphanGetEnd(h) PROVE Uploads'
  BY <1>7, <1>9 DEF OrphanGetEnd
<1>10. ASSUME NEW i \in Ids, NEW h \in Gets, StreamPoll(i, h) PROVE Uploads'
  <2>1. get'[h].st \notin {"writing", "written"} /\ \A l \in Gets \ {h} : get'[l] = get[l]
    BY <1>1, <1>10 DEF StreamPoll, ServerRequestStream
  <2> QED
    BY <1>3, <1>10, <2>1 DEF StreamPoll, ServerRequestStream
<1>11. ASSUME NEW h \in Gets, GetEmpty(h), UNCHANGED dataVars PROVE Uploads'
  <2>1. get'[h].st = "empty" /\ \A l \in Gets \ {h} : get'[l] = get[l]
    BY <1>1, <1>11 DEF GetEmpty, GetType
  <2> QED
    BY <1>3, <1>11, <2>1 DEF GetEmpty
<1>12. ASSUME NEW i \in Ids, UpEnd(i), UNCHANGED dataVars PROVE Uploads'
  <2>1. \A j \in Ids : up'[j] = "sending" => up[j] = "sending"
    BY <1>1, <1>12 DEF UpEnd
  <2> QED
    BY <1>3, <1>12, <2>1 DEF UpEnd
<1>13. ASSUME NEW i \in Ids, UserReceives(i) PROVE Uploads'
  <2>1. \A j \in Ids : up'[j] = "sending" => up[j] = "sending"
    BY <1>1, <1>13 DEF UserReceives, ClientReceive
  <2>2. UNCHANGED <<get, ubuf, wrote>>
    BY <1>13 DEF UserReceives, ClientReceive
  <2> QED
    BY <1>3, <2>1, <2>2
<1>14. ASSUME ProcessDies, UNCHANGED dataVars PROVE Uploads'
  <2>1. \A h \in Gets : get'[h].st \in {"writing", "written"} => get'[h] = get[h]
    BY <1>1, <1>14 DEF ProcessDies, GetType
  <2>2. \A i \in Ids : up'[i] = "sending" => up[i] = "sending"
    BY <1>14 DEF ProcessDies
  <2> QED
    BY <1>3, <1>14, <2>1, <2>2
<1>15. ASSUME UNCHANGED <<up, get, ubuf, wrote>> PROVE Uploads'
  BY <1>1, <1>15 DEF Uploads
<1>16. ASSUME ServerStep PROVE Uploads'
  <2>1. UNCHANGED dataVars
    BY <1>16 DEF ServerStep
  <2>2. \/ UNCHANGED <<up, get>> \/ ProcessDies \/ \E i \in Ids : UpEnd(i) \/ \E h \in Gets : UpSend(i, h)
        \/ \E h \in Gets : GetEmpty(h)
    BY <1>16
    DEF ServerStep, ClientRequest, RelayTimeout, AcceptRequest, PollTimeout, SendEnqueue, SendClose,
                 ClientClosed, ReapClose, Restart, UpPanic
  <2> QED
    BY <1>6, <1>11, <1>12, <1>14, <1>15, <2>1, <2>2
<1>17. ASSUME \/ Tick \/ WorkerReply \/ WorkerLost \/ ClientRestart
              \/ \E g \in Polls : WorkerPoll(g) \/ OrphanPollEnd(g)
       PROVE UNCHANGED <<up, get, ubuf, wrote>>
  BY <1>17
  DEF Tick, ReapTick, WorkerReply, WorkerLost, ClientRestart, WorkerPoll, ServerRequest, OrphanPollEnd,
               PollEnd
<1>18. ASSUME NEW i \in Ids,
              \/ BackendFails(i) \/ PostLost(i) \/ ReplyLost(i) \/ GiveUp(i) \/ StreamLost(i) \/ PostReply(i)
              \/ \E status \in {"plain", "switching"} : BackendAnswers(i, status)
              \/ \E eof \in BOOLEAN : NextMessage(i, eof)
       PROVE UNCHANGED <<up, get, ubuf, wrote>>
  BY <1>18
  DEF BackendFails, PostLost, ReplyLost, GiveUp, StreamLost, PostReply, PostEnd, BackendAnswers,
               NextMessage
<1>19. ASSUME NEW p \in Posts, OrphanPostEnd(p) \/ \E i \in Ids : PostAttempt(i, p)
       PROVE UNCHANGED <<up, get, ubuf, wrote>>
  BY <1>19 DEF OrphanPostEnd, PostEnd, PostAttempt, SendResponse
<1>20. ASSUME UNCHANGED vars PROVE UNCHANGED <<up, get, ubuf, wrote>>
  BY <1>20 DEF vars
<1> QED
  BY <1>4, <1>5, <1>8, <1>9, <1>10, <1>13, <1>15, <1>16, <1>17, <1>18, <1>19, <1>20 DEF Next

-----------------------------------------------------------------------------
(* Type correctness of the relay client and of the data.                   *)

\* The records that the steps of handleRequest leave.
LEMMA RcRecords ==
    ASSUME NEW r \in RcType
    PROVE  /\ Advance(r) \in RcType /\ Stop(r) \in RcType
           /\ r.tries <= MaxRetries => Retry(r) \in RcType
           /\ \A st \in {"backend", "building", "posting"} : [r EXCEPT !.st = st] \in RcType
           /\ \A status \in Status : [r EXCEPT !.st = "building", !.status = status] \in RcType
           /\ \A p \in Posts : [r EXCEPT !.slot = p] \in RcType
           /\ r.ticks < RetryTicks => [r EXCEPT !.ticks = @ + 1] \in RcType
<1>1. /\ MaxMessages \in Nat \ {0} /\ MaxRetries \in Nat /\ RetryTicks \in Nat
      /\ r.tries \in 0..(MaxRetries + 1) /\ r.ticks \in 0..RetryTicks
  BY RelayConstants DEF RcType
<1>2. 0 \in 0..(MaxRetries + 1) /\ 0 \in 0..RetryTicks
  BY <1>1
<1>3. Advance(r) \in RcType
  BY <1>2 DEF RcType, Advance
<1>4. Stop(r) \in RcType
  BY <1>2 DEF RcType, Stop
<1>5. ASSUME r.tries <= MaxRetries PROVE Retry(r) \in RcType
  <2>1. r.tries + 1 \in 0..(MaxRetries + 1)
    BY <1>1, <1>5
  <2>2. [r EXCEPT !.tries = @ + 1, !.slot = NoSlot] \in RcType
    BY <2>1 DEF RcType
  <2> QED
    BY <1>4, <2>2 DEF Retry
<1>6. \A st \in {"backend", "building", "posting"} : [r EXCEPT !.st = st] \in RcType
  BY DEF RcType
<1>7. \A status \in Status : [r EXCEPT !.st = "building", !.status = status] \in RcType
  BY DEF RcType
<1>8. \A p \in Posts : [r EXCEPT !.slot = p] \in RcType
  BY DEF RcType
<1>9. ASSUME r.ticks < RetryTicks PROVE [r EXCEPT !.ticks = @ + 1] \in RcType
  <2>1. r.ticks + 1 \in 0..RetryTicks
    BY <1>1, <1>9
  <2> QED
    BY <2>1 DEF RcType
<1> QED
  BY <1>3, <1>4, <1>5, <1>6, <1>7, <1>8, <1>9

LEMMA RcTyped == ASSUME RelayInv, [Next]_vars PROVE rc' \in [Ids -> RcType]
<1> USE DEF dataVars, clientVars
<1>1. rc \in [Ids -> RcType] /\ Loop /\ Once /\ RelayTypeOK
  BY DEF RelayInv, RelayTypeOK, RcType
<1>2. ASSUME NEW i \in Ids, NEW r \in RcType, rc' = [rc EXCEPT ![i] = r] PROVE rc' \in [Ids -> RcType]
  BY <1>1, <1>2
<1>3. ASSUME NEW i \in Ids, rc' = [rc EXCEPT ![i] = Advance(@)] PROVE rc' \in [Ids -> RcType]
  BY <1>1, <1>2, <1>3, RcRecords
<1>4. ASSUME NEW i \in Ids, rc[i].tries <= MaxRetries, rc' = [rc EXCEPT ![i] = Retry(@)]
      PROVE rc' \in [Ids -> RcType]
  BY <1>1, <1>2, <1>4, RcRecords
<1>5. ASSUME WorkerReply PROVE rc' \in [Ids -> RcType]
  <2>1. CASE poll[wk].st = "got"
    <3>1. wk \in Polls
      BY <1>1, <1>5 DEF WorkerReply, RelayTypeOK
    <3>2. PICK i \in Ids : i = poll[wk].id
      BY <1>1, <2>1, <3>1 DEF Once
    <3>3. rc' = [rc EXCEPT ![i] = [rc[i] EXCEPT !.st = "backend"]]
      BY <1>5, <2>1, <3>2 DEF WorkerReply
    <3> QED
      BY <1>1, <1>2, <3>3, RcRecords
  <2>2. CASE poll[wk].st # "got"
    BY <1>1, <1>5, <2>2 DEF WorkerReply
  <2> QED
    BY <2>1, <2>2
<1>6. ASSUME NEW i \in Ids, NEW status \in {"plain", "switching"}, BackendAnswers(i, status)
      PROVE rc' \in [Ids -> RcType]
  <2>1. rc' = [rc EXCEPT ![i] = [rc[i] EXCEPT !.st = "building", !.status = status]] /\ status \in Status
    BY <1>6 DEF BackendAnswers, Status
  <2> QED
    BY <1>1, <1>2, <2>1, RcRecords
<1>7. ASSUME NEW i \in Ids, BackendFails(i) PROVE rc' \in [Ids -> RcType]
  <2>1. PICK r : r = [rc[i] EXCEPT !.st = "posting", !.k = 1, !.eof = TRUE, !.status = "plain", !.once = TRUE]
    OBVIOUS
  <2>2. 1 \in 0..MaxMessages
    BY RelayConstants
  <2>3. r \in RcType
    BY <1>1, <2>1, <2>2 DEF RcType, Status
  <2>4. rc' = [rc EXCEPT ![i] = r]
    BY <1>7, <2>1 DEF BackendFails
  <2> QED
    BY <1>2, <2>3, <2>4
<1>8. ASSUME NEW i \in Ids, NEW eof \in BOOLEAN, NextMessage(i, eof) PROVE rc' \in [Ids -> RcType]
  <2>1. PICK r : r = [rc[i] EXCEPT !.st = "posting", !.k = @ + 1, !.eof = eof]
    OBVIOUS
  <2>2. rc[i].k < MaxMessages /\ rc[i].k \in 0..MaxMessages /\ MaxMessages \in Nat
    BY <1>1, <1>8, RelayConstants DEF NextMessage, Loop, RcType
  <2>3. rc[i].k + 1 \in 0..MaxMessages
    BY <2>2
  <2>4. r \in RcType
    BY <1>1, <2>1, <2>3 DEF RcType
  <2>5. rc' = [rc EXCEPT ![i] = r]
    BY <1>8, <2>1 DEF NextMessage
  <2> QED
    BY <1>2, <2>4, <2>5
<1>9. ASSUME NEW i \in Ids, NEW p \in Posts, PostAttempt(i, p) PROVE rc' \in [Ids -> RcType]
  <2>1. rc' = [rc EXCEPT ![i] = [rc[i] EXCEPT !.slot = p]]
    BY <1>9 DEF PostAttempt
  <2> QED
    BY <1>1, <1>2, <2>1, RcRecords
<1>10. ASSUME NEW i \in Ids, PostLost(i) \/ ReplyLost(i) PROVE rc' \in [Ids -> RcType]
  BY <1>1, <1>4, <1>10 DEF PostLost, MayPost, ReplyLost, Loop
<1>11. ASSUME NEW i \in Ids, PostReply(i) PROVE rc' \in [Ids -> RcType]
  <2>1. rc[i].tries <= MaxRetries
    BY <1>1, <1>11 DEF PostReply, Loop
  <2>2. rc' = [rc EXCEPT ![i] = Advance(@)] \/ rc' = [rc EXCEPT ![i] = Retry(@)]
    BY <1>11 DEF PostReply
  <2> QED
    BY <1>3, <1>4, <2>1, <2>2
<1>12. ASSUME NEW i \in Ids, GiveUp(i) PROVE rc' \in [Ids -> RcType]
  BY <1>3, <1>12 DEF GiveUp
<1>13. ASSUME ClientRestart PROVE rc' \in [Ids -> RcType]
  <2>1. \A i \in Ids : (IF rc[i].st = "none" THEN rc[i] ELSE Stop(rc[i])) \in RcType
    BY <1>1, RcRecords
  <2> QED
    BY <1>13, <2>1 DEF ClientRestart
<1>14. ASSUME Tick PROVE rc' \in [Ids -> RcType]
  <2>1. ASSUME NEW i \in Ids
        PROVE (IF rc[i].st = "posting" /\ rc[i].ticks < RetryTicks
               THEN [rc[i] EXCEPT !.ticks = @ + 1] ELSE rc[i]) \in RcType
    BY <1>1, RcRecords
  <2> QED
    BY <1>14, <2>1 DEF Tick
<1>15. ASSUME ServerStep \/ WorkerLost PROVE rc' = rc
  BY <1>15 DEF ServerStep, WorkerLost
<1>16. ASSUME NEW i \in Ids,
              UserReceives(i) \/ UploadRead(i) \/ StreamReply(i) \/ StreamLost(i) \/ \E h \in Gets : StreamPoll(i, h)
       PROVE rc' = rc
  BY <1>16 DEF UserReceives, UploadRead, StreamReply, StreamLost, StreamPoll
<1>17. ASSUME \/ \E h \in Gets : UploadWrite(h) \/ OrphanGetEnd(h)
              \/ \E g \in Polls : WorkerPoll(g) \/ OrphanPollEnd(g)
              \/ \E p \in Posts : OrphanPostEnd(p)
       PROVE rc' = rc
  BY <1>17 DEF UploadWrite, OrphanGetEnd, WorkerPoll, OrphanPollEnd, OrphanPostEnd
<1>18. ASSUME UNCHANGED vars PROVE rc' = rc
  BY <1>18 DEF vars
<1> QED
  BY <1>1, <1>5, <1>6, <1>7, <1>8, <1>9, <1>10, <1>11, <1>12, <1>13, <1>14, <1>15, <1>16, <1>17, <1>18
  DEF Next

ClientTypes ==
    /\ wk \in Polls \union {NoSlot} /\ rs \in [Ids -> {"none", "open", "closed"}]
    /\ gslot \in [Ids -> Gets \union {NoSlot}] /\ faults \in 0..MaxFaults

DataTypes ==
    /\ chunk \in [Posts -> 0..MaxMessages] /\ received \in [Ids -> Seq(1..MaxMessages)] /\ resent \in SUBSET Ids
    /\ ubuf \in [Ids -> 0..MaxUploads] /\ wrote \in [Gets -> 0..MaxUploads]
    /\ pulled \in [Ids -> Seq(1..MaxUploads)]

LEMMA ClientTyped == ASSUME RelayTypeOK, [Next]_vars PROVE ClientTypes'
<1> USE DEF clientVars
<1>1. ClientTypes
  BY DEF RelayTypeOK, ClientTypes
<1>2. ASSUME Fault PROVE faults' \in 0..MaxFaults
  BY <1>1, <1>2, RelayConstants DEF Fault, ClientTypes
<1>3. ASSUME NEW g \in Polls, WorkerPoll(g) PROVE ClientTypes'
  BY <1>1, <1>3 DEF WorkerPoll, ClientTypes
<1>4. ASSUME WorkerReply \/ WorkerLost PROVE ClientTypes'
  BY <1>1, <1>2, <1>4 DEF WorkerReply, WorkerLost, ClientTypes
<1>5. ASSUME NEW i \in Ids, NEW status \in {"plain", "switching"}, BackendAnswers(i, status) PROVE ClientTypes'
  BY <1>1, <1>5 DEF BackendAnswers, ClientTypes
<1>6. ASSUME NEW i \in Ids, PostLost(i) \/ ReplyLost(i) PROVE ClientTypes'
  BY <1>1, <1>2, <1>6 DEF PostLost, ReplyLost, ClientTypes
<1>7. ASSUME NEW i \in Ids, NEW h \in Gets, StreamPoll(i, h) PROVE ClientTypes'
  BY <1>1, <1>7 DEF StreamPoll, ClientTypes
<1>8. ASSUME NEW i \in Ids, StreamReply(i) \/ StreamLost(i) PROVE ClientTypes'
  <2>1. rs' \in [Ids -> {"none", "open", "closed"}] /\ gslot' \in [Ids -> Gets \union {NoSlot}] /\ wk' = wk
    BY <1>1, <1>8 DEF StreamReply, StreamLost, ClientTypes
  <2>2. faults' = faults \/ Fault
    BY <1>8 DEF StreamReply, StreamLost
  <2> QED
    BY <1>1, <1>2, <2>1, <2>2 DEF ClientTypes
<1>9. ASSUME ClientRestart PROVE ClientTypes'
  BY <1>1, <1>2, <1>9 DEF ClientRestart, ClientTypes
<1>10. ASSUME ServerStep \/ Tick PROVE UNCHANGED <<wk, rs, gslot, faults>>
  BY <1>10 DEF ServerStep, Tick
<1>11. ASSUME NEW i \in Ids,
              \/ UserReceives(i) \/ UploadRead(i) \/ BackendFails(i) \/ PostReply(i) \/ GiveUp(i)
              \/ \E eof \in BOOLEAN : NextMessage(i, eof)
              \/ \E p \in Posts : PostAttempt(i, p)
       PROVE UNCHANGED <<wk, rs, gslot, faults>>
  BY <1>11 DEF UserReceives, UploadRead, BackendFails, PostReply, GiveUp, NextMessage, PostAttempt
<1>12. ASSUME \/ \E h \in Gets : UploadWrite(h) \/ OrphanGetEnd(h)
              \/ \E g \in Polls : OrphanPollEnd(g)
              \/ \E p \in Posts : OrphanPostEnd(p)
       PROVE UNCHANGED <<wk, rs, gslot, faults>>
  BY <1>12 DEF UploadWrite, OrphanGetEnd, OrphanPollEnd, OrphanPostEnd
<1>13. ASSUME UNCHANGED vars PROVE UNCHANGED <<wk, rs, gslot, faults>>
  BY <1>13 DEF vars
<1>14. ASSUME UNCHANGED <<wk, rs, gslot, faults>> PROVE ClientTypes'
  BY <1>1, <1>14 DEF ClientTypes
<1> QED
  BY <1>3, <1>4, <1>5, <1>6, <1>7, <1>8, <1>9, <1>10, <1>11, <1>12, <1>13, <1>14 DEF Next

LEMMA DataTyped == ASSUME RelayInv, [Next]_vars PROVE DataTypes'
<1> USE DEF dataVars
<1>1. DataTypes /\ RelayTypeOK /\ Inv /\ Uploads /\ UnderWay
  BY DEF RelayInv, RelayTypeOK, DataTypes
<1>2. MaxMessages \in Nat /\ MaxUploads \in Nat
  BY RelayConstants
<1>3. ASSUME UNCHANGED dataVars PROVE DataTypes'
  BY <1>1, <1>3 DEF DataTypes
\* only sent messages are queued, so the user's handler takes one of them
<1>4. ASSUME NEW i \in Ids, UserReceives(i) PROVE DataTypes'
  <2>1. PICK p : p = Head(sendq[i])
    OBVIOUS
  <2>2. sendq[i] \in Seq(Posts) /\ sendq[i] # <<>>
    BY <1>1, <1>4 DEF UserReceives, ClientReceive, RelayTypeOK, TypeOK
  <2>3. p \in Posts /\ p = sendq[i][1] /\ 1 \in DOMAIN sendq[i]
    BY <2>1, <2>2
  <2>4. post[p].st = "queued" /\ post[p].msg.id = i
    BY <1>1, <2>3 DEF Inv, Queues
  <2>5. chunk[p] \in 1..rc[i].k /\ rc[i].k \in 0..MaxMessages
    BY <1>1, <2>3, <2>4, RcField DEF UnderWay, Active, RcType
  <2>6. chunk[p] \in 1..MaxMessages
    BY <1>2, <2>5
  <2>7. Append(received[i], chunk[p]) \in Seq(1..MaxMessages)
    BY <1>1, <2>6 DEF DataTypes
  <2>8. received' = [received EXCEPT ![i] = Append(received[i], chunk[p])]
    BY <1>4, <2>1 DEF UserReceives
  <2>9. received' \in [Ids -> Seq(1..MaxMessages)]
    BY <1>1, <2>7, <2>8 DEF DataTypes
  <2> QED
    BY <1>1, <1>4, <2>9 DEF UserReceives, DataTypes
<1>5. ASSUME NEW i \in Ids, UploadRead(i) PROVE DataTypes'
  <2>1. ubuf[i] + 1 \in 0..MaxUploads
    BY <1>1, <1>2, <1>5 DEF UploadRead, DataTypes
  <2> QED
    BY <1>1, <1>5, <2>1 DEF UploadRead, DataTypes
<1>6. ASSUME NEW h \in Gets, UploadWrite(h) PROVE DataTypes'
  <2>1. get[h].id \in Ids
    BY <1>1, <1>6 DEF UploadWrite, GetWrite, Uploads
  <2> QED
    BY <1>1, <1>6, <2>1 DEF UploadWrite, DataTypes
<1>7. ASSUME NEW i \in Ids, NEW p \in Posts, PostAttempt(i, p) PROVE DataTypes'
  <2>1. rc[i].k \in 0..MaxMessages
    BY <1>1, RcField DEF RcType
  <2> QED
    BY <1>1, <1>7, <2>1 DEF PostAttempt, DataTypes
<1>8. ASSUME NEW i \in Ids, PostReply(i) PROVE DataTypes'
  <2>1. 0 \in 0..MaxMessages
    BY <1>2
  <2> QED
    BY <1>1, <1>8, <2>1 DEF PostReply, DataTypes
<1>9. ASSUME NEW p \in Posts, OrphanPostEnd(p) PROVE DataTypes'
  <2>1. 0 \in 0..MaxMessages
    BY <1>2
  <2> QED
    BY <1>1, <1>9, <2>1 DEF OrphanPostEnd, DataTypes
<1>10. ASSUME NEW i \in Ids, ReplyLost(i) PROVE DataTypes'
  BY <1>1, <1>10 DEF ReplyLost, DataTypes
\* a reply with a block was copied from a buffer that held one
<1>11. ASSUME NEW i \in Ids, StreamReply(i) PROVE DataTypes'
  <2>1. PICK h \in Gets : h = gslot[i]
    BY <1>1, <1>11 DEF StreamReply, RelayTypeOK
  <2>2. ASSUME get[h].st = "written" PROVE Append(pulled[i], wrote[h]) \in Seq(1..MaxUploads)
    <3>1. wrote[h] \in 1..MaxUploads
      BY <1>1, <1>2, <2>1, <2>2 DEF Uploads, DataTypes
    <3> QED
      BY <1>1, <3>1 DEF DataTypes
  <2>3. pulled' = IF get[h].st = "written" THEN [pulled EXCEPT ![i] = Append(pulled[i], wrote[h])] ELSE pulled
    BY <1>11, <2>1 DEF StreamReply
  <2>4. pulled' \in [Ids -> Seq(1..MaxUploads)]
    BY <1>1, <2>2, <2>3 DEF DataTypes
  <2>5. wrote' \in [Gets -> 0..MaxUploads]
    BY <1>1, <1>2, <1>11, <2>1 DEF StreamReply, DataTypes
  <2> QED
    BY <1>1, <1>11, <2>4, <2>5 DEF StreamReply, DataTypes
<1>12. ASSUME NEW h \in Gets, OrphanGetEnd(h) PROVE DataTypes'
  <2>1. 0 \in 0..MaxUploads
    BY <1>2
  <2> QED
    BY <1>1, <1>12, <2>1 DEF OrphanGetEnd, DataTypes
<1>13. ASSUME ServerStep \/ Tick \/ WorkerReply \/ WorkerLost \/ ClientRestart PROVE UNCHANGED dataVars
  BY <1>13 DEF ServerStep, Tick, WorkerReply, WorkerLost, ClientRestart
<1>14. ASSUME NEW i \in Ids,
              \/ BackendFails(i) \/ PostLost(i) \/ GiveUp(i) \/ StreamLost(i)
              \/ \E status \in {"plain", "switching"} : BackendAnswers(i, status)
              \/ \E eof \in BOOLEAN : NextMessage(i, eof)
              \/ \E h \in Gets : StreamPoll(i, h)
       PROVE UNCHANGED dataVars
  BY <1>14 DEF BackendFails, PostLost, GiveUp, StreamLost, BackendAnswers, NextMessage, StreamPoll
<1>15. ASSUME NEW g \in Polls, WorkerPoll(g) \/ OrphanPollEnd(g) PROVE UNCHANGED dataVars
  BY <1>15 DEF WorkerPoll, OrphanPollEnd
<1>16. ASSUME UNCHANGED vars PROVE UNCHANGED dataVars
  BY <1>16 DEF vars
<1> QED
  BY <1>3, <1>4, <1>5, <1>6, <1>7, <1>8, <1>9, <1>10, <1>11, <1>12, <1>13, <1>14, <1>15, <1>16 DEF Next

LEMMA RelayTypeStep == ASSUME RelayInv, [Next]_vars PROVE RelayTypeOK'
<1>1. RelayTypeOK /\ TypeOK
  BY DEF RelayInv, RelayTypeOK
<1>2. TypeOK'
  BY <1>1, ServerMoves, TypeStep
<1>3. rc' \in [Ids -> RcType]
  BY RcTyped
<1>4. ClientTypes' /\ DataTypes'
  BY <1>1, ClientTyped, DataTyped
<1> QED
  BY <1>2, <1>3, <1>4 DEF RelayTypeOK, RcType, ClientTypes, DataTypes

-----------------------------------------------------------------------------
(* The invariant of the relay.                                             *)

LEMMA RelayInit == Init => RelayInv
<1> SUFFICES ASSUME Init PROVE RelayInv
  OBVIOUS
<1>1. ServerInit /\ rc = [i \in Ids |-> NoRequest] /\ received = [i \in Ids |-> <<>>]
  BY DEF Init
<1>2. TypeOK /\ Inv
  BY <1>1, TypeInit, InvInit
<1>3. NoRequest \in RcType
  BY RelayConstants DEF NoRequest, RcType, Status
<1>4. RelayTypeOK
  <2>1. ClientTypes /\ DataTypes
    BY RelayConstants DEF Init, ClientTypes, DataTypes
  <2> QED
    BY <1>1, <1>2, <1>3, <2>1 DEF RelayTypeOK, RcType, ClientTypes, DataTypes
<1>5. /\ \A i \in Ids : rc[i] = NoRequest /\ Seen(i) = {} /\ sendq[i] = <<>> /\ cl[i] = "none"
      /\ \A p \in Posts : post[p].st = "idle"
      /\ resp = {}
  BY <1>1 DEF ServerInit, Seen, IdlePost, PostAt
<1>6. Loop /\ Unseen
  BY <1>5, RelayConstants DEF Loop, Unseen, NoRequest
<1>7. Once
  BY <1>1, <1>5 DEF Once, NoRequest, ServerInit, IdlePoll
<1>8. Pending /\ UnderWay
  BY <1>5 DEF Pending, UnderWay, NoRequest, Active
<1>9. Order
  <2>1. ASSUME NEW i \in Ids PROVE DOMAIN sendq[i] = {}
    <3>1. sendq[i] \in Seq(Posts)
      BY <1>2 DEF TypeOK
    <3>2. Len(sendq[i]) = 0
      BY <1>5
    <3> QED
      BY <3>1, <3>2
  <2> QED
    BY <1>5, <2>1 DEF Order, InOrder, Follows
<1>10. Previous /\ Clock
  BY <1>5 DEF Previous, Clock
<1>11. Whole
  BY <1>1 DEF Whole, ServerInit
<1>12. Uploads
  BY <1>1 DEF Uploads, ServerInit, IdleGet
<1> QED
  BY <1>2, <1>4, <1>6, <1>7, <1>8, <1>9, <1>10, <1>11, <1>12 DEF RelayInv

LEMMA RelayStep == ASSUME RelayInv, [Next]_vars PROVE RelayInv'
<1>1. RelayTypeOK /\ TypeOK /\ Inv
  BY DEF RelayInv, RelayTypeOK
<1>2. Step
  BY <1>1, Moves
<1>3. Inv'
  BY <1>1, ServerMoves, InvStep
<1>4. RelayTypeOK' /\ Uploads'
  BY RelayTypeStep, UploadsStep
<1>5. Loop' /\ Once' /\ Pending' /\ UnderWay' /\ Unseen' /\ Whole'
  BY <1>2, LoopStep, OnceStep, PendingStep, UnderWayStep, UnseenStep, WholeStep
<1>6. Previous' /\ Order' /\ Clock'
  BY <1>2, PreviousStep, OrderStep, ClockStep
<1> QED
  BY <1>3, <1>4, <1>5, <1>6 DEF RelayInv

\* Everything above holds all the time, whatever calls are lost, repeated, delayed or reaped
\* and whichever side restarts.
THEOREM RelayInvariant == Spec => []RelayInv
<1>1. Init => RelayInv
  BY RelayInit
<1>2. RelayInv /\ [Next]_vars => RelayInv'
  BY RelayStep
<1> QED
  BY <1>1, <1>2, PTL DEF Spec

\* Type correctness of the relay client, the server and the data that they pass on: no counter
\* leaves its range, no message or upload that was not sent is received.
THEOREM RelayTypeCorrect == Spec => []RelayTypeOK
<1>1. RelayInv => RelayTypeOK
  BY DEF RelayInv
<1> QED
  BY <1>1, RelayInvariant, PTL

-----------------------------------------------------------------------------
(* The relay implements ResponseStream.                                    *)

\* What ResponseStream sees of a request.
Sent == [i \in Ids |-> rc[i].k]
Final == [i \in Ids |-> rc[i].eof]
State == [i \in Ids |-> CASE cl[i] = "ok" -> "ended"
                          [] cl[i] \in {"error", "lost"} -> "failed"
                          [] OTHER -> "open"]
Reaped == {i \in Ids : reqClosed[i]}

LEMMA StreamInit == Init => Stream!Init
  BY DEF Init, ServerInit, Stream!Init, NoRequest

\* A step that shows the user nothing.
LEMMA StreamSame ==
    ASSUME UNCHANGED <<Sent, Final, received, State, resent, Reaped>>
    PROVE  UNCHANGED Stream!streamVars
  BY DEF Stream!streamVars, Sent, Final, State, Reaped

\* NextMessage and BackendFails hand out a message.
LEMMA StreamHandOut ==
    ASSUME RelayInv, Apart, NEW i \in Ids, Fails(i) \/ HandsOver(i)
    PROVE  \E last \in BOOLEAN : Stream!HandOut(i, last)
<1>1. RelayTypeOK /\ Loop /\ rc[i].k \in Nat /\ rc[i].eof \in BOOLEAN
  BY RcField DEF RelayInv, RcType
<1>2. rc[i].st \in {"backend", "building"} /\ ~rc[i].eof /\ (rc[i].st = "backend" => rc[i].k = 0)
  BY <1>1 DEF Fails, HandsOver, Loop
<1>3. PICK last \in BOOLEAN : /\ rc'[i].k = rc[i].k + 1 /\ rc'[i].eof = last
                              /\ \A j \in Ids \ {i} : rc'[j] = rc[j]
  <2>1. CASE Fails(i)
    <3>1. rc[i].k = 0 /\ rc'[i].k = 1 /\ rc'[i].eof = TRUE /\ \A j \in Ids \ {i} : rc'[j] = rc[j]
      BY <1>2, <2>1 DEF Fails, Turns
    <3>2. rc'[i].k = rc[i].k + 1
      BY <3>1
    <3> QED
      BY <3>1, <3>2, Zenon
  <2>2. CASE HandsOver(i)
    BY <2>2 DEF HandsOver, Turns
  <2> QED
    BY <2>1, <2>2
<1>4. Sent' = [Sent EXCEPT ![i] = @ + 1]
  BY <1>3 DEF Sent
<1>5. Final' = [Final EXCEPT ![i] = last]
  BY <1>3 DEF Final
<1>6. ~Final[i]
  BY <1>2 DEF Final
<1>7. UNCHANGED <<received, State, resent, Reaped>>
  BY DEF Apart, State, Reaped
<1>8. Stream!HandOut(i, last)
  BY <1>4, <1>5, <1>6, <1>7 DEF Stream!HandOut, Sent, Final, State, Reaped
<1> QED
  BY <1>8

\* The user's handler takes a message whose predecessor it has.
LEMMA StreamDeliver ==
    ASSUME RelayInv, NEW i \in Ids, Receives(i)
    PROVE  \E n \in 1..Sent[i] : Stream!Deliver(i, n)
<1>1. /\ RelayTypeOK /\ Inv /\ UnderWay /\ Order
      /\ cl \in [Ids -> ClientStates] /\ received \in [Ids -> Seq(1..MaxMessages)]
  BY DEF RelayInv, RelayTypeOK, TypeOK
<1>2. PICK p : p = Head(sendq[i])
  OBVIOUS
<1>3. /\ p \in Posts /\ post[p].st = "queued" /\ post[p].msg.id = i
      /\ p = sendq[i][1] /\ 1 \in DOMAIN sendq[i]
  BY <1>1, <1>2, Taken
<1>4. chunk[p] \in 1..rc[i].k /\ (chunk[p] \in Seen(i) => i \in resent)
  BY <1>1, <1>3 DEF UnderWay, Active
<1>5. chunk[p] = 1 \/ chunk[p] - 1 \in Seen(i)
  BY <1>1, <1>3 DEF Order, InOrder
<1>6. Stream!Range(received[i]) = Seen(i)
  BY DEF Stream!Range, Seen
<1>7. State[i] = "open" /\ UNCHANGED <<Sent, Final, State, resent, Reaped>>
  <2>1. \A j \in Ids : cl'[j] \in {"ok", "error", "lost"} \/ cl[j] \in {"ok", "error", "lost"} => cl'[j] = cl[j]
    BY <1>1 DEF Receives, Receiving
  <2> QED
    BY <2>1 DEF Receives, Sent, Final, State, Reaped, Receiving
<1>8. received' = [received EXCEPT ![i] = Append(@, chunk[p])]
  BY <1>2 DEF Receives
<1>9. Stream!Deliver(i, chunk[p])
  BY <1>4, <1>5, <1>6, <1>7, <1>8 DEF Stream!Deliver, Sent, Final, State, Reaped
<1> QED
  BY <1>4, <1>9 DEF Sent

\* The user's handler returns: well only if the user has it all, or the request was reaped.
LEMMA StreamLeave ==
    ASSUME RelayInv, NEW i \in Ids, Leaves(i)
    PROVE  Stream!End(i) \/ Stream!Fail({i})
<1>1. Whole /\ cl \in [Ids -> ClientStates]
  BY DEF RelayInv, RelayTypeOK, TypeOK
<1>2. PICK c \in {"ok", "error"} : cl' = [cl EXCEPT ![i] = c] /\ (c = "ok" => respClosed[i])
  BY DEF Leaves
<1>3. State[i] = "open" /\ UNCHANGED <<Sent, Final, received, resent, Reaped>>
  BY DEF Leaves, Receiving, Sent, Final, State, Reaped
<1>4. CASE c = "ok"
  <2>1. State' = [State EXCEPT ![i] = "ended"]
    BY <1>1, <1>2, <1>4 DEF State
  <2>2. Stream!Range(received[i]) = Seen(i)
    BY DEF Stream!Range, Seen
  <2>3. (Final[i] /\ Sent[i] \in Stream!Range(received[i])) \/ i \in Reaped
    BY <1>1, <1>2, <1>4, <2>2 DEF Whole, Sent, Final, Reaped
  <2> QED
    BY <1>3, <2>1, <2>3 DEF Stream!End, Sent, Final, State, Reaped
<1>5. CASE c = "error"
  <2>1. State' = [j \in Ids |-> IF j \in {i} THEN "failed" ELSE State[j]]
    BY <1>1, <1>2, <1>5 DEF State
  <2> QED
    BY <1>3, <2>1 DEF Stream!Fail, Sent, Final, State, Reaped
<1> QED
  BY <1>2, <1>4, <1>5

\* A restart of the relay server fails the requests that are under way.
LEMMA StreamDies ==
    ASSUME RelayInv, Dies
    PROVE  \E failed \in SUBSET Ids : Stream!Fail(failed)
<1>1. cl \in [Ids -> ClientStates]
  BY DEF RelayInv, RelayTypeOK, TypeOK
<1>2. PICK failed \in SUBSET Ids : failed = {i \in Ids : cl[i] \notin {"none"} \union Finished}
  OBVIOUS
<1>3. UNCHANGED <<Sent, Final, received, resent, Reaped>>
  BY DEF Dies, Sent, Final, Reaped
<1>4. \A i \in failed : State[i] = "open"
  BY <1>2 DEF State, Finished
<1>5. State' = [i \in Ids |-> IF i \in failed THEN "failed" ELSE State[i]]
  BY <1>1, <1>2 DEF Dies, State, Finished
<1> QED
  BY <1>3, <1>4, <1>5 DEF Stream!Fail, Sent, Final, State, Reaped

\* Every step of the relay is a step of the response stream, or shows the user nothing.
LEMMA StreamStep == ASSUME RelayInv, [Next]_vars PROVE [Stream!Next]_(Stream!streamVars)
<1>1. RelayTypeOK /\ Loop /\ cl \in [Ids -> ClientStates] /\ reqClosed \in [Ids -> BOOLEAN]
  BY DEF RelayInv, RelayTypeOK, TypeOK
<1>2. ASSUME \A i \in Ids : rc'[i].k = rc[i].k /\ rc'[i].eof = rc[i].eof PROVE UNCHANGED <<Sent, Final>>
  BY <1>2 DEF Sent, Final
<1>3. ASSUME UNCHANGED <<cl, reqClosed>> PROVE UNCHANGED <<State, Reaped>>
  BY <1>3 DEF State, Reaped
<1>4. ASSUME NEW i \in Ids, Retried(i) \/ Advanced(i)
      PROVE \A j \in Ids : rc'[j].k = rc[j].k /\ rc'[j].eof = rc[j].eof
  BY <1>4 DEF Retried, Advanced, Turns
<1>5. ASSUME Apart, NEW i \in Ids, Fails(i) \/ HandsOver(i) PROVE Stream!Next
  BY <1>5, StreamHandOut DEF Stream!Next
<1>6. ASSUME NEW i \in Ids, Receives(i) PROVE Stream!Next
  BY <1>6, StreamDeliver DEF Stream!Next, Sent
<1>7. ASSUME NEW i \in Ids, Leaves(i) PROVE Stream!Next
  BY <1>7, StreamLeave DEF Stream!Next
<1>8. ASSUME Dies PROVE Stream!Next
  BY <1>8, StreamDies DEF Stream!Next
<1>9. ASSUME NEW i \in Ids, Doubts(i) PROVE Stream!Next
  <2>1. UNCHANGED <<Sent, Final, State, Reaped>>
    BY <1>2, <1>3, <1>4, <1>9 DEF Doubts
  <2>2. Stream!Doubt(i)
    BY <1>9, <2>1 DEF Doubts, Stream!Doubt, Sent, Final, State, Reaped
  <2> QED
    BY <2>2 DEF Stream!Next
<1>10. ASSUME NEW i \in Ids, ReapCloses(i) PROVE Stream!Next
  <2>1. Reaped' = Reaped \union {i}
    BY <1>1, <1>10 DEF ReapCloses, Reaped
  <2>2. UNCHANGED <<Sent, Final, received, State, resent>>
    BY <1>10 DEF ReapCloses, Aborts, Sent, Final, State
  <2>3. Stream!Reap(i)
    BY <2>1, <2>2 DEF Stream!Reap, Sent, Final, State, Reaped
  <2> QED
    BY <2>3 DEF Stream!Next
\* the steps that show the user nothing
<1>11. ASSUME \A i \in Ids : rc'[i].k = rc[i].k /\ rc'[i].eof = rc[i].eof,
              UNCHANGED <<cl, reqClosed, received, resent>>
       PROVE UNCHANGED Stream!streamVars
  BY <1>2, <1>3, <1>11, StreamSame
<1>12. ASSUME Apart, Halts \/ \E i \in Ids : Answers(i) \/ Repeats(i) \/ Drops(i)
       PROVE UNCHANGED Stream!streamVars
  <2>1. \A i \in Ids : rc'[i].k = rc[i].k /\ rc'[i].eof = rc[i].eof
    BY <1>4, <1>12 DEF Halts, Answers, Turns, Repeats, Drops
  <2> QED
    BY <1>11, <1>12, <2>1 DEF Apart
<1>13. ASSUME NEW i \in Ids, Replied(i) PROVE UNCHANGED Stream!streamVars
  BY <1>4, <1>11, <1>13 DEF Replied, Ended
<1>14. ASSUME NEW i \in Ids, NEW p \in Posts, Attempts(i, p) PROVE UNCHANGED Stream!streamVars
  BY <1>11, <1>14 DEF Attempts, Turns
<1>15. ASSUME NEW i \in Ids, Enters(i) \/ \E g \in Polls : Accepts(i, g) PROVE UNCHANGED Stream!streamVars
  <2>1. UNCHANGED <<rc, reqClosed, received, resent>>
    BY <1>15 DEF Enters, Accepts
  <2>2. /\ cl[i] \in {"none", "offering"} /\ cl'[i] \in {"offering", "waiting"}
        /\ \A j \in Ids \ {i} : cl'[j] = cl[j]
    BY <1>1, <1>15 DEF Enters, Accepts
  <2>3. UNCHANGED <<Sent, Final, State, Reaped>>
    BY <2>1, <2>2 DEF Sent, Final, State, Reaped
  <2> QED
    BY <2>1, <2>3, StreamSame
<1>16. ASSUME NEW g \in Polls, Polled(g) PROVE UNCHANGED Stream!streamVars
  BY <1>11, <1>16 DEF Polled
<1>17. ASSUME NEW g \in Polls, Starts(g) PROVE UNCHANGED Stream!streamVars
  <2>1. poll[g].id \in Ids
    BY <1>17 DEF Starts, RelayInv, Once
  <2>2. \A i \in Ids : rc'[i].k = rc[i].k /\ rc'[i].eof = rc[i].eof
    BY <1>17, <2>1 DEF Starts, Turns
  <2> QED
    BY <1>11, <1>17, <2>2 DEF Starts
<1>18. ASSUME NEW p \in Posts, Enqueues(p) \/ Panics(p) \/ Closes(p) \/ Orphaned(p)
       PROVE UNCHANGED Stream!streamVars
  BY <1>11, <1>18 DEF Enqueues, Panics, Closes, Aborts, Orphaned, Ended
<1>19. ASSUME UNCHANGED mainVars \/ Ticks PROVE UNCHANGED Stream!streamVars
  BY <1>11, <1>19 DEF mainVars, Ticks
<1>20. Step
  BY <1>1, Moves
<1> QED
  BY <1>5, <1>6, <1>7, <1>8, <1>9, <1>10, <1>12, <1>13, <1>14, <1>15, <1>16, <1>17, <1>18, <1>19, <1>20
  DEF Step

\* The relay server that the proofs of HttpRelayServerProofs are about is the one that runs in
\* the relay: every behaviour of the relay is one of the server's, so CloseOnce and NoHungUser hold.
THEOREM RelayRunsServer == Spec => ServerSpec
<1>1. Init => ServerInit
  BY DEF Init
<1>2. RelayTypeOK /\ [Next]_vars => [ServerNext]_serverVars
  BY ServerMoves
<1> QED
  BY <1>1, <1>2, RelayTypeCorrect, PTL DEF Spec, ServerSpec

\* The relay implements the response stream that it promises.  Calls and replies may be lost,
\* repeated, delayed, reaped or cut off by a restart of either side: handleRequest's numbered
\* messages reach the user without a gap, twice only after a lost reply, and the user's handler
\* ends as if all were there only if all is there or the request was reaped.
THEOREM RelayImplementsStream == Spec => ImplementsStream
<1>1. Init => Stream!Init
  BY StreamInit
<1>2. RelayInv /\ [Next]_vars => [Stream!Next]_(Stream!streamVars)
  BY StreamStep
<1> QED
  BY <1>1, <1>2, RelayInvariant, PTL DEF Spec, ImplementsStream, Stream!Spec

=============================================================================
