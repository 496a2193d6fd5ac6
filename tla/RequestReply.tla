---------------------------- MODULE RequestReply ----------------------------
(***************************************************************************)
(* What a load balancer promises its clients, with no upstream in sight: a *)
(* session handles one request at a time; a request gets at most one       *)
(* outcome; an answer is the answer to that request; a 502 ends the        *)
(* session; and a session that ends leaves its request dropped.            *)
(***************************************************************************)
CONSTANTS Client, Request, None

VARIABLES
    session,   \* session[h]: "closed", "idle" or "busy"
    asking,    \* asking[h]: the request a busy session works on
    status,    \* status[r]: what the client knows of request r
    answer     \* answer[r]: the response the client got for r

vars == <<session, asking, status, answer>>

Init ==
    /\ session = [h \in Client |-> "closed"]
    /\ asking = [h \in Client |-> None]
    /\ status = [r \in Request |-> "unsent"]
    /\ answer = [r \in Request |-> None]

Open(h) ==
    /\ session[h] = "closed"
    /\ session' = [session EXCEPT ![h] = "idle"]
    /\ UNCHANGED <<asking, status, answer>>

Ask(h, r) ==
    /\ session[h] = "idle"
    /\ status[r] = "unsent"
    /\ session' = [session EXCEPT ![h] = "busy"]
    /\ asking' = [asking EXCEPT ![h] = r]
    /\ status' = [status EXCEPT ![r] = "pending"]
    /\ UNCHANGED answer

Finish(h, next, outcome) ==
    /\ session[h] = "busy"
    /\ session' = [session EXCEPT ![h] = next]
    /\ asking' = [asking EXCEPT ![h] = None]
    /\ status' = [status EXCEPT ![asking[h]] = outcome]

Answer(h) ==
    /\ Finish(h, "idle", "answered")
    /\ answer' = [answer EXCEPT ![asking[h]] = asking[h]]

Refuse(h) == Finish(h, "closed", "refused") /\ UNCHANGED answer
Drop(h) == Finish(h, "closed", "dropped") /\ UNCHANGED answer

Close(h) ==
    /\ session[h] = "idle"
    /\ session' = [session EXCEPT ![h] = "closed"]
    /\ UNCHANGED <<asking, status, answer>>

\* The process ends, and every session with it.
Stop ==
    /\ session' = [h \in Client |-> "closed"]
    /\ asking' = [h \in Client |-> None]
    /\ status' = [r \in Request |-> IF status[r] = "pending" THEN "dropped"
                                                             ELSE status[r]]
    /\ UNCHANGED answer

Next ==
    \/ \E h \in Client :
        \/ Open(h) \/ Close(h) \/ Answer(h) \/ Refuse(h) \/ Drop(h)
        \/ \E r \in Request : Ask(h, r)
    \/ Stop

Spec == Init /\ [][Next]_vars
=============================================================================
