---------------------------- MODULE ResponseStream ----------------------------
(***************************************************************************)
(* What the HTTP relay promises a user about the response to his request,  *)
(* without relay server, relay client, retries, timers or restarts: a      *)
(* source hands out numbered messages and the user sees them in order.     *)
(*                                                                         *)
(* The relay may fall short of an exact stream in two ways only, each with *)
(* its cause: a message comes again if a call for the request was repeated *)
(* in doubt, and the response ends early, as if it were whole, if the      *)
(* request was reaped.  Any response may also fail in a way the user sees. *)
(***************************************************************************)
EXTENDS Naturals, Sequences, Functions

CONSTANT Ids        \* requests

VARIABLES
    sent,           \* messages the source has handed out, per request
    final,          \* whether the last of them is the final one
    got,            \* numbers of the messages the user was given, in order
    state,          \* the response is open, ended or failed in the user's eyes
    doubted,        \* requests with a call repeated in doubt
    reaped          \* requests given up for their silence

streamVars == <<sent, final, got, state, doubted, reaped>>

Init ==
    /\ sent = [i \in Ids |-> 0]
    /\ final = [i \in Ids |-> FALSE]
    /\ got = [i \in Ids |-> <<>>]
    /\ state = [i \in Ids |-> "open"]
    /\ doubted = {}
    /\ reaped = {}

\* The source hands out the next message, the last one perhaps.
HandOut(i, last) ==
    /\ ~final[i]
    /\ sent' = [sent EXCEPT ![i] = @ + 1]
    /\ final' = [final EXCEPT ![i] = last]
    /\ UNCHANGED <<got, state, doubted, reaped>>

\* The user is given a message: never one before its predecessor, and one he
\* has already only if a call was repeated in doubt.
Deliver(i, n) ==
    /\ state[i] = "open"
    /\ n = 1 \/ n - 1 \in Range(got[i])
    /\ n \in Range(got[i]) => i \in doubted
    /\ got' = [got EXCEPT ![i] = Append(@, n)]
    /\ UNCHANGED <<sent, final, state, doubted, reaped>>

\* The user is told that he has the whole response.
End(i) ==
    /\ state[i] = "open"
    /\ (final[i] /\ sent[i] \in Range(got[i])) \/ i \in reaped
    /\ state' = [state EXCEPT ![i] = "ended"]
    /\ UNCHANGED <<sent, final, got, doubted, reaped>>

\* The user sees his request fail; a restart fails many at once.
Fail(failed) ==
    /\ \A i \in failed : state[i] = "open"
    /\ state' = [i \in Ids |-> IF i \in failed THEN "failed" ELSE state[i]]
    /\ UNCHANGED <<sent, final, got, doubted, reaped>>

Doubt(i) ==
    /\ doubted' = doubted \union {i}
    /\ UNCHANGED <<sent, final, got, state, reaped>>

Reap(i) ==
    /\ reaped' = reaped \union {i}
    /\ UNCHANGED <<sent, final, got, state, doubted>>

Next ==
    \/ \E i \in Ids, last \in BOOLEAN : HandOut(i, last)
    \/ \E i \in Ids : \E n \in 1..sent[i] : Deliver(i, n)
    \/ \E i \in Ids : End(i)
    \/ \E failed \in SUBSET Ids : Fail(failed)
    \/ \E i \in Ids : Doubt(i)
    \/ \E i \in Ids : Reap(i)

Spec == Init /\ [][Next]_streamVars
=============================================================================
