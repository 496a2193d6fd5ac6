------------------------- MODULE LoadBalancerProofs -------------------------
(***************************************************************************)
(* Proofs about LoadBalancer, for every number of upstreams, clients,      *)
(* requests and connections, and every pool capacity: its types, what a    *)
(* pool and a task hold, whose response a client gets, that it implements  *)
(* RequestReply; which upstreams a request has tried, what must have gone  *)
(* wrong when all of them failed it, how many sockets that takes, and at   *)
(* which upstream requests start.                                          *)
(***************************************************************************)
EXTENDS LoadBalancer, FiniteSetTheorems, TLAPS

\* What a task's position says about its locals; with TypeOK, inductive.
LocalsOK ==
    \A h \in Client :
        /\ pc[h] \in Forwarding => request[h] \in Request /\ inbox[h] = None
        /\ pc[h] \in Forwarding \ {"badGateway"} => offset[h] < UpstreamCount
        /\ pc[h] \in Holding <=> stream[h] # None
        /\ pc[h] \notin Forwarding => request[h] = None
        /\ pc[h] = "closed" => inbox[h] = None

TypeInv == TypeOK /\ LocalsOK

-----------------------------------------------------------------------------
(* Lemmas about the helpers.                                               *)

\* The remainder that names an upstream is one.
LEMMA RemainderIsUpstream ==
    \A n \in Nat : n % UpstreamCount \in Upstream
BY UpstreamCountAssumption DEF Upstream

\* So the upstream a ticket names is one.
LEMMA FirstOfType == TypeOK => FirstOf(next) \in Upstream
BY CounterModAssumption, RemainderIsUpstream DEF TypeOK, SharedTypeOK, FirstOf

\* So is the upstream of every attempt.
LEMMA TargetType ==
    ASSUME TypeOK, NEW h \in Client PROVE Target(h) \in Upstream
<1>1. first[h] \in Upstream /\ offset[h] \in 0 .. UpstreamCount
  BY DEF TypeOK, TaskTypeOK
<1>2. first[h] + offset[h] \in Nat
  BY <1>1, UpstreamCountAssumption DEF Upstream
<1> QED BY <1>2, RemainderIsUpstream DEF Target

\* Hanging up keeps the types of the connection variables.
LEMMA HangupType ==
    ASSUME TypeOK, NEW conns \in SUBSET Conn, Hangup(conns)
    PROVE  ConnTypeOK'
<1>1. 0 \in Upstream
  BY UpstreamCountAssumption DEF Upstream
<1>2. link' \in [Conn -> {"free", "open", "closed"}] 
  BY DEF TypeOK, ConnTypeOK, Hangup
<1>3. peer' \in [Conn -> Upstream]
  BY <1>1 DEF TypeOK, ConnTypeOK, Hangup
<1>4. warm' \in [Conn -> BOOLEAN]
  BY DEF TypeOK, ConnTypeOK, Hangup
<1>5. sent' \in [Conn -> Seq(Request)]
  BY DEF TypeOK, ConnTypeOK, Hangup
<1>6. ready' \in [Conn -> Seq(Request)]
  BY DEF TypeOK, ConnTypeOK, Hangup
<1> QED
  BY <1>2, <1>3, <1>4, <1>5, <1>6 DEF ConnTypeOK

\* A pool holds connections.
LEMMA EntriesType ==
    ASSUME TypeOK, NEW u \in Upstream
    PROVE  Entries(idle[u]) \subseteq Conn
BY DEF TypeOK, SharedTypeOK, Entries

\* The operations of a pool keep it a sequence of connections.
LEMMA PoolType ==
    ASSUME TypeOK, NEW u \in Upstream
    PROVE  /\ Clear(u) => idle' \in [Upstream -> Seq(Conn)]
           /\ \A c \in Conn : Push(u, c) => idle' \in [Upstream -> Seq(Conn)]
           /\ ~PoolEmpty(u) /\ Pop(u) => idle' \in [Upstream -> Seq(Conn)]
           /\ ~PoolEmpty(u) => Top(u) \in Conn
<1>0. idle \in [Upstream -> Seq(Conn)]
  BY DEF TypeOK, SharedTypeOK
<1>1. Clear(u) => idle' \in [Upstream -> Seq(Conn)]
  BY <1>0 DEF Clear
<1>2. \A c \in Conn : Push(u, c) => idle' \in [Upstream -> Seq(Conn)]
  BY <1>0 DEF Push
<1>3. ~PoolEmpty(u) /\ Pop(u) => idle' \in [Upstream -> Seq(Conn)]
  BY <1>0 DEF PoolEmpty, Pop
<1>4. ~PoolEmpty(u) => Top(u) \in Conn
  BY <1>0 DEF PoolEmpty, Top
<1> QED
  BY <1>1, <1>2, <1>3, <1>4

\* A step keeps the types of the variables it leaves alone.
LEMMA Frames ==
    ASSUME TypeOK
    PROVE  /\ UNCHANGED <<running, next, idle, alive>> => SharedTypeOK'
           /\ UNCHANGED taskVars => TaskTypeOK'
           /\ UNCHANGED connVars => ConnTypeOK'
           /\ UNCHANGED clientVars => ClientTypeOK'
           /\ UNCHANGED historyVars => HistoryTypeOK'
           /\ LocalsOK /\ UNCHANGED taskVars => LocalsOK'
<1>1. UNCHANGED <<running, next, idle, alive>> => SharedTypeOK'
  BY DEF TypeOK, SharedTypeOK
<1>2. UNCHANGED taskVars => TaskTypeOK'
  BY DEF TypeOK, TaskTypeOK, taskVars
<1>3. UNCHANGED connVars => ConnTypeOK'
  BY DEF TypeOK, ConnTypeOK, connVars
<1>4. UNCHANGED clientVars => ClientTypeOK'
  BY DEF TypeOK, ClientTypeOK, clientVars
<1>5. UNCHANGED historyVars => HistoryTypeOK'
  BY DEF TypeOK, HistoryTypeOK, historyVars
<1>6. LocalsOK /\ UNCHANGED taskVars => LocalsOK'
  BY DEF LocalsOK, taskVars
<1> QED
  BY <1>1, <1>2, <1>3, <1>4, <1>5, <1>6

\* The history of attempts stays one.
LEMMA AttemptedType ==
    ASSUME TypeOK, NEW h \in Client, NEW how \in {"pooled", "fresh"},
           Attempted(h, how)
    PROVE  attempts' \in [Client -> Seq(Attempt)]
<1> DEFINE entry == [upstream |-> Target(h), how |-> how]
<1>1. entry \in Attempt
  BY TargetType DEF Attempt
<1>2. attempts \in [Client -> Seq(Attempt)]
  BY DEF TypeOK, HistoryTypeOK
<1>3. attempts' = [attempts EXCEPT ![h] = Append(@, entry)]
  BY DEF Attempted
<1> HIDE DEF entry
<1> QED
  BY <1>1, <1>2, <1>3

\* Where a task holds a stream or works on a request, it has one.
LEMMA LocalTypes ==
    ASSUME TypeInv, NEW h \in Client
    PROVE  /\ pc[h] \in Holding => stream[h] \in Conn
           /\ pc[h] \in Forwarding => request[h] \in Request
           /\ inbox[h] \in Request \cup {None}
BY DEF TypeInv, TypeOK, TaskTypeOK, LocalsOK

-----------------------------------------------------------------------------
(* Types and locals.                                                       *)

\* Initially every variable has its type and no task has started.
LEMMA InitTypeInv == Init => TypeInv
BY UpstreamCountAssumption, CounterModAssumption
   DEF Init, TypeInv, TypeOK, SharedTypeOK, TaskTypeOK, ConnTypeOK,
       ClientTypeOK, HistoryTypeOK, LocalsOK, RoundRobinInit, Upstream, PC,
       Status, Forwarding, Holding

\* Every operation of the tasks, the clients and the instances keeps the types
\* and what a task's position says about its locals.
LEMMA NextTypeInv == TypeInv /\ [Next]_vars => TypeInv'
<1> SUFFICES ASSUME TypeInv, [Next]_vars PROVE TypeInv'
  OBVIOUS
<1> USE DEF TypeInv, TypeOK
<1>1. ASSUME NEW h \in Client, Accept(h) PROVE TypeInv'
  <2>1. TaskTypeOK'
    BY <1>1 DEF Accept, TaskTypeOK, PC, Goto
  <2>2. LocalsOK'
    BY <1>1, NoneAssumption DEF Accept, TaskTypeOK, PC, Goto, Forwarding,
       Holding, LocalsOK
  <2> QED
    BY <1>1, Frames, <2>1, <2>2 DEF Accept
<1>2. ASSUME NEW h \in Client, ReadRequest(h) PROVE TypeInv'
  <2>1. SharedTypeOK'
    BY <1>2, CounterModAssumption DEF ReadRequest, SharedTypeOK, FetchAdd
  <2>2. TaskTypeOK'
    BY <1>2, FirstOfType, UpstreamCountAssumption DEF ReadRequest,
       TaskTypeOK, PC, Goto
  <2>3. LocalsOK'
    BY <1>2, NoneAssumption, UpstreamCountAssumption DEF ReadRequest,
       TaskTypeOK, PC, Goto, Forwarding, Holding, LocalsOK
  <2>4. HistoryTypeOK'
    BY <1>2, FirstOfType DEF ReadRequest, HistoryTypeOK
  <2> QED
    BY <1>2, Frames, <2>1, <2>2, <2>3, <2>4 DEF ReadRequest
<1>3. ASSUME NEW h \in Client, CloseReading(h) PROVE TypeInv'
  <2>1. TaskTypeOK'
    BY <1>3 DEF CloseReading, TaskTypeOK, PC, Goto
  <2>2. LocalsOK'
    BY <1>3, NoneAssumption DEF CloseReading, TaskTypeOK, PC, Goto,
       Forwarding, Holding, LocalsOK
  <2>3. ClientTypeOK'
    BY <1>3 DEF CloseReading, ClientTypeOK, Status
  <2> QED
    BY <1>3, Frames, <2>1, <2>2, <2>3 DEF CloseReading
<1>4. ASSUME NEW h \in Client, AcquireIdle(h) PROVE TypeInv'
  <2>1. SharedTypeOK'
    BY <1>4, TargetType, PoolType DEF AcquireIdle, SharedTypeOK
  <2>2. TaskTypeOK'
    BY <1>4, TargetType, PoolType DEF AcquireIdle, TaskTypeOK, PC, Goto
  <2>3. LocalsOK'
    BY <1>4, NoneAssumption, TargetType, PoolType DEF AcquireIdle,
       TaskTypeOK, PC, Goto, Forwarding, Holding, LocalsOK
  <2>4. HistoryTypeOK'
    BY <1>4, AttemptedType DEF AcquireIdle, HistoryTypeOK
  <2> QED
    BY <1>4, Frames, <2>1, <2>2, <2>3, <2>4 DEF AcquireIdle
<1>5. ASSUME NEW h \in Client, AcquireEmpty(h) PROVE TypeInv'
  <2>1. TaskTypeOK'
    BY <1>5 DEF AcquireEmpty, TaskTypeOK, PC, Goto
  <2>2. LocalsOK'
    BY <1>5, NoneAssumption DEF AcquireEmpty, TaskTypeOK, PC, Goto,
       Forwarding, Holding, LocalsOK
  <2>3. HistoryTypeOK'
    BY <1>5, AttemptedType DEF AcquireEmpty, HistoryTypeOK
  <2> QED
    BY <1>5, Frames, <2>1, <2>2, <2>3 DEF AcquireEmpty
<1>6. ASSUME NEW h \in Client, Connect(h) PROVE TypeInv'
  <2>1. TaskTypeOK'
    BY <1>6 DEF Connect, TaskTypeOK, PC, Goto
  <2>2. LocalsOK'
    BY <1>6, NoneAssumption DEF Connect, TaskTypeOK, PC, Goto, Forwarding,
       Holding, LocalsOK
  <2>3. ConnTypeOK'
    BY <1>6, TargetType DEF Connect, ConnTypeOK
  <2> QED
    BY <1>6, Frames, <2>1, <2>2, <2>3 DEF Connect
<1>7. ASSUME NEW h \in Client, ConnectFail(h) PROVE TypeInv'
  <2>1. TaskTypeOK'
    BY <1>7 DEF ConnectFail, TaskTypeOK, PC, Goto
  <2>2. LocalsOK'
    BY <1>7, NoneAssumption DEF ConnectFail, TaskTypeOK, PC, Goto,
       Forwarding, Holding, LocalsOK
  <2>3. HistoryTypeOK'
    BY <1>7 DEF ConnectFail, HistoryTypeOK
  <2> QED
    BY <1>7, Frames, <2>1, <2>2, <2>3 DEF ConnectFail
<1>8. ASSUME NEW h \in Client, Write(h) PROVE TypeInv'
  <2>1. TaskTypeOK'
    BY <1>8 DEF Write, TaskTypeOK, PC, Goto
  <2>2. LocalsOK'
    BY <1>8, NoneAssumption DEF Write, TaskTypeOK, PC, Goto, Forwarding,
       Holding, LocalsOK
  <2>3. ConnTypeOK'
    <3>1. stream[h] \in Conn /\ request[h] \in Request
      BY <1>8, LocalTypes DEF Write, Holding, Forwarding, PC
    <3>2. Append(sent[stream[h]], request[h]) \in Seq(Request)
      BY <3>1 DEF ConnTypeOK
    <3> QED
      BY <1>8, <3>1, <3>2 DEF Write, ConnTypeOK
  <2> QED
    BY <1>8, Frames, <2>1, <2>2, <2>3 DEF Write
<1>9. ASSUME NEW h \in Client, WriteFail(h) PROVE TypeInv'
  <2>1. TaskTypeOK'
    BY <1>9 DEF WriteFail, FailAttempt, TaskTypeOK, PC, Goto
  <2>2. LocalsOK'
    BY <1>9, NoneAssumption DEF WriteFail, FailAttempt, TaskTypeOK, PC,
       Goto, Forwarding, Holding, LocalsOK
  <2>3. ConnTypeOK'
    BY <1>9, LocalTypes, HangupType DEF WriteFail, FailAttempt, Holding
  <2>4. HistoryTypeOK'
    BY <1>9 DEF WriteFail, FailAttempt, HistoryTypeOK
  <2> QED
    BY <1>9, Frames, <2>1, <2>2, <2>3, <2>4 DEF WriteFail, FailAttempt
<1>10. ASSUME NEW h \in Client, ReadResponse(h) PROVE TypeInv'
  <2>1. TaskTypeOK'
    BY <1>10, LocalTypes DEF ReadResponse, TaskTypeOK, PC, Goto, ConnTypeOK,
       Holding
  <2>2. LocalsOK'
    BY <1>10, NoneAssumption DEF ReadResponse, TaskTypeOK, PC, Goto,
       Forwarding, Holding, LocalsOK
  <2>3. ConnTypeOK'
    BY <1>10, LocalTypes DEF ReadResponse, ConnTypeOK, Holding
  <2> QED
    BY <1>10, Frames, <2>1, <2>2, <2>3 DEF ReadResponse
<1>11. ASSUME NEW h \in Client, ReadEof(h) PROVE TypeInv'
  <2>1. TaskTypeOK'
    BY <1>11 DEF ReadEof, FailAttempt, TaskTypeOK, PC, Goto
  <2>2. LocalsOK'
    BY <1>11, NoneAssumption DEF ReadEof, FailAttempt, TaskTypeOK, PC, Goto,
       Forwarding, Holding, LocalsOK
  <2>3. ConnTypeOK'
    BY <1>11, LocalTypes, HangupType DEF ReadEof, FailAttempt, Holding
  <2>4. HistoryTypeOK'
    BY <1>11 DEF ReadEof, FailAttempt, HistoryTypeOK
  <2> QED
    BY <1>11, Frames, <2>1, <2>2, <2>3, <2>4 DEF ReadEof, FailAttempt
<1>12. ASSUME NEW h \in Client, ReadTimeout(h) PROVE TypeInv'
  <2>1. TaskTypeOK'
    BY <1>12 DEF ReadTimeout, FailAttempt, TaskTypeOK, PC, Goto
  <2>2. LocalsOK'
    BY <1>12, NoneAssumption DEF ReadTimeout, FailAttempt, TaskTypeOK, PC,
       Goto, Forwarding, Holding, LocalsOK
  <2>3. ConnTypeOK'
    BY <1>12, LocalTypes, HangupType DEF ReadTimeout, FailAttempt, Holding
  <2>4. HistoryTypeOK'
    BY <1>12 DEF ReadTimeout, FailAttempt, HistoryTypeOK
  <2> QED
    BY <1>12, Frames, <2>1, <2>2, <2>3, <2>4 DEF ReadTimeout, FailAttempt
<1>13. ASSUME NEW h \in Client, Release(h) PROVE TypeInv'
  <2>1. SharedTypeOK'
    BY <1>13, TargetType, PoolType, LocalTypes DEF Release, SharedTypeOK,
       Holding
  <2>2. TaskTypeOK'
    BY <1>13 DEF Release, TaskTypeOK, PC, Goto
  <2>3. LocalsOK'
    BY <1>13, NoneAssumption DEF Release, TaskTypeOK, PC, Goto, Forwarding,
       Holding, LocalsOK
  <2>4. ConnTypeOK'
    BY <1>13, LocalTypes, HangupType DEF Release, Holding
  <2> QED
    BY <1>13, Frames, <2>1, <2>2, <2>3, <2>4 DEF Release
<1>14. ASSUME NEW h \in Client, Evict(h) PROVE TypeInv'
  <2>1. SharedTypeOK'
    BY <1>14, TargetType, PoolType DEF Evict, SharedTypeOK
  <2>2. TaskTypeOK'
    BY <1>14, UpstreamCountAssumption DEF Evict, TaskTypeOK, PC, Goto,
       LocalsOK, Forwarding
  <2>3. LocalsOK'
    BY <1>14, NoneAssumption, UpstreamCountAssumption DEF Evict, TaskTypeOK,
       PC, Goto, Forwarding, Holding, MoreUpstreams, LocalsOK
  <2>4. ConnTypeOK'
    BY <1>14, TargetType, EntriesType, HangupType DEF Evict
  <2> QED
    BY <1>14, Frames, <2>1, <2>2, <2>3, <2>4 DEF Evict
<1>15. ASSUME NEW h \in Client, Respond(h) PROVE TypeInv'
  <2>1. TaskTypeOK'
    BY <1>15, UpstreamCountAssumption DEF Respond, Settle, TaskTypeOK, PC,
       Goto, Upstream
  <2>2. LocalsOK'
    BY <1>15, NoneAssumption DEF Respond, Settle, TaskTypeOK, PC, Goto,
       Forwarding, Holding, LocalsOK
  <2>3. ClientTypeOK'
    BY <1>15, LocalTypes DEF Respond, Settle, ClientTypeOK, TaskTypeOK,
       Status, Forwarding, PC
  <2>4. HistoryTypeOK'
    BY <1>15 DEF Respond, Settle, HistoryTypeOK
  <2> QED
    BY <1>15, Frames, <2>1, <2>2, <2>3, <2>4 DEF Respond, Settle
<1>16. ASSUME NEW h \in Client, RespondFail(h) PROVE TypeInv'
  <2>1. TaskTypeOK'
    BY <1>16, UpstreamCountAssumption DEF RespondFail, Settle, TaskTypeOK,
       PC, Goto, Upstream
  <2>2. LocalsOK'
    BY <1>16, NoneAssumption DEF RespondFail, Settle, TaskTypeOK, PC, Goto,
       Forwarding, Holding, LocalsOK
  <2>3. ClientTypeOK'
    BY <1>16, LocalTypes DEF RespondFail, Settle, ClientTypeOK, TaskTypeOK,
       Status, Forwarding, PC
  <2>4. HistoryTypeOK'
    BY <1>16 DEF RespondFail, Settle, HistoryTypeOK
  <2> QED
    BY <1>16, Frames, <2>1, <2>2, <2>3, <2>4 DEF RespondFail, Settle
<1>17. ASSUME NEW h \in Client, SendBadGateway(h) PROVE TypeInv'
  <2>1. TaskTypeOK'
    BY <1>17, UpstreamCountAssumption DEF SendBadGateway, Settle,
       TaskTypeOK, PC, Goto, Upstream
  <2>2. LocalsOK'
    BY <1>17, NoneAssumption DEF SendBadGateway, Settle, TaskTypeOK, PC,
       Goto, Forwarding, Holding, LocalsOK
  <2>3. ClientTypeOK'
    <3>1. request[h] \in Request
      BY <1>17, LocalTypes DEF SendBadGateway, Forwarding, PC
    <3> QED
      BY <1>17, <3>1 DEF SendBadGateway, Settle, ClientTypeOK, Status
  <2>4. HistoryTypeOK'
    BY <1>17 DEF SendBadGateway, Settle, HistoryTypeOK
  <2> QED
    BY <1>17, Frames, <2>1, <2>2, <2>3, <2>4 DEF SendBadGateway, Settle
<1>18. ASSUME NEW h \in Client, NEW r \in Request, SendRequest(h, r) PROVE TypeInv'
  <2>1. TaskTypeOK'
    BY <1>18 DEF SendRequest, TaskTypeOK, PC, Goto
  <2>2. LocalsOK'
    BY <1>18, NoneAssumption DEF SendRequest, TaskTypeOK, PC, Goto,
       Forwarding, Holding, LocalsOK
  <2>3. ClientTypeOK'
    BY <1>18 DEF SendRequest, ClientTypeOK, Status
  <2> QED
    BY <1>18, Frames, <2>1, <2>2, <2>3 DEF SendRequest
<1>19. ASSUME Exit PROVE TypeInv'
  <2>1. SharedTypeOK'
    <3>1. << >> \in Seq(Conn)
      OBVIOUS
    <3>2. idle' \in [Upstream -> Seq(Conn)]
      BY <1>19, <3>1 DEF Exit
    <3> QED
      BY <1>19, <3>2 DEF Exit, SharedTypeOK
  <2>2. TaskTypeOK'
    BY <1>19, UpstreamCountAssumption DEF Exit, TaskTypeOK, PC, Goto,
       Upstream
  <2>3. LocalsOK'
    BY <1>19, NoneAssumption DEF Exit, TaskTypeOK, PC, Goto, Forwarding,
       Holding, LocalsOK
  <2>4. ConnTypeOK'
    BY <1>19, HangupType DEF Exit
  <2>5. ClientTypeOK'
    BY <1>19 DEF Exit, ClientTypeOK, Status
  <2>6. HistoryTypeOK'
    BY <1>19 DEF Exit, HistoryTypeOK
  <2> QED
    BY <1>19, Frames, <2>1, <2>2, <2>3, <2>4, <2>5, <2>6 DEF Exit
<1>20. ASSUME NEW c \in Conn, Serve(c) PROVE TypeInv'
  <2>1. ConnTypeOK'
    BY <1>20 DEF Serve, ConnTypeOK
  <2> QED
    BY <1>20, Frames, <2>1 DEF Serve
<1>21. ASSUME NEW c \in Conn, CloseIdle(c) PROVE TypeInv'
  <2>1. ConnTypeOK'
    BY <1>21 DEF CloseIdle, ConnTypeOK
  <2> QED
    BY <1>21, Frames, <2>1 DEF CloseIdle
<1>22. ASSUME NEW u \in Upstream, Crash(u) PROVE TypeInv'
  <2>1. SharedTypeOK'
    BY <1>22 DEF Crash, SharedTypeOK
  <2>2. ConnTypeOK'
    BY <1>22 DEF Crash, ConnTypeOK
  <2>3. HistoryTypeOK'
    BY <1>22 DEF Crash, HistoryTypeOK, TaskTypeOK
  <2> QED
    BY <1>22, Frames, <2>1, <2>2, <2>3 DEF Crash
<1>23. ASSUME NEW u \in Upstream, Restart(u) PROVE TypeInv'
  <2>1. SharedTypeOK'
    BY <1>23 DEF Restart, SharedTypeOK
  <2> QED
    BY <1>23, Frames, <2>1 DEF Restart
<1>24. ASSUME UNCHANGED vars PROVE TypeInv'
  <2> QED
    BY <1>24, Frames DEF vars
<1> QED
  BY <1>1, <1>2, <1>3, <1>4, <1>5, <1>6, <1>7, <1>8, <1>9, <1>10, <1>11,
     <1>12, <1>13, <1>14, <1>15, <1>16, <1>17, <1>18, <1>19, <1>20, <1>21,
     <1>22, <1>23, <1>24 DEF Next, Task

\* Whatever the tasks, clients and instances do, the variables of the load
\* balancer keep their types: every ticket and every retry names an upstream,
\* and a task that holds a stream or forwards a request really has one.
THEOREM TypeCorrect == Spec => []TypeOK
<1>1. TypeInv => TypeOK
  BY DEF TypeInv
<1> QED
  BY InitTypeInv, NextTypeInv, <1>1, PTL DEF Spec

-----------------------------------------------------------------------------
(* The connections.                                                        *)

Clean(c) == sent[c] = << >> /\ ready[c] = << >>

\* Nothing but request r, or the response to it, is on connection c.
CarriesOnly(c, r) ==
    \/ Clean(c)
    \/ sent[c] = <<r>> /\ ready[c] = << >>
    \/ sent[c] = << >> /\ ready[c] = <<r>>

\* The stream of a task leads to the upstream of the attempt, and carries
\* nothing but the request of the task.
HeldOK(h) ==
    pc[h] \in Holding =>
        /\ link[stream[h]] # "free"
        /\ peer[stream[h]] = Target(h)
        /\ pc[h] \in {"write", "release"} => Clean(stream[h])
        /\ pc[h] = "await" => CarriesOnly(stream[h], request[h])

\* The connection in slot i of the pool of u leads to u, carries nothing, is
\* held by no task and is in no other slot of the pool.
PooledOK(u, i) ==
    /\ link[idle[u][i]] # "free"
    /\ peer[idle[u][i]] = u
    /\ Clean(idle[u][i])
    /\ \A h \in Client : stream[h] # idle[u][i]
    /\ \A j \in DOMAIN idle[u] : idle[u][j] = idle[u][i] => j = i

AllHeldOK == \A h \in Client : HeldOK(h)

AllPooledOK == \A u \in Upstream : \A i \in DOMAIN idle[u] : PooledOK(u, i)

HeldOnce ==
    \A g, h \in Client : stream[g] # None /\ stream[g] = stream[h] => g = h

FreeAreClean == \A c \in Conn : link[c] = "free" => Clean(c)

\* With TypeInv, inductive.
ConnInv == AllHeldOK /\ AllPooledOK /\ HeldOnce /\ FreeAreClean

ResponsesAreOwn ==
    \A h \in Client :
        pc[h] \in {"release", "respond"} => response[h] = request[h]

\* With TypeInv and ConnInv, inductive.
AnswerInv == ResponsesAreOwn /\ AnswersAreOwn

-----------------------------------------------------------------------------
(* Lemmas: what a step that leaves a task, a connection or a pool alone    *)
(* keeps of the invariant.                                                 *)

SameTask(h) ==
    /\ pc'[h] = pc[h]
    /\ request'[h] = request[h]
    /\ first'[h] = first[h]
    /\ offset'[h] = offset[h]
    /\ stream'[h] = stream[h]

SameConn(c) ==
    /\ link'[c] = link[c]
    /\ peer'[c] = peer[c]
    /\ sent'[c] = sent[c]
    /\ ready'[c] = ready[c]

\* A step that touches neither the task nor its stream keeps HeldOK.
LEMMA HeldFrame ==
    ASSUME NEW h \in Client, HeldOK(h), SameTask(h),
           pc[h] \in Holding => SameConn(stream[h])
    PROVE  HeldOK(h)'
BY DEF HeldOK, SameTask, SameConn, Clean, CarriesOnly, Target

\* A task outside Holding has nothing to keep.
LEMMA HeldVacuous ==
    ASSUME NEW h \in Client, pc'[h] \notin Holding
    PROVE  HeldOK(h)'
BY DEF HeldOK

\* A pool that only loses connections, none of them touched, keeps PooledOK.
LEMMA PooledFrame ==
    ASSUME NEW u \in Upstream, NEW i \in DOMAIN idle'[u],
           DOMAIN idle'[u] \subseteq DOMAIN idle[u],
           \A j \in DOMAIN idle'[u] : idle'[u][j] = idle[u][j],
           PooledOK(u, i), SameConn(idle[u][i]),
           \A h \in Client : stream'[h] # idle[u][i]
    PROVE  PooledOK(u, i)'
BY DEF PooledOK, SameConn, Clean

\* A pooled connection has a number.
LEMMA SlotType ==
    ASSUME TypeOK, NEW u \in Upstream, NEW i \in DOMAIN idle[u]
    PROVE  idle[u][i] \in Conn /\ idle[u][i] # None
BY NoneAssumption DEF TypeOK, SharedTypeOK

\* A task that holds a stream holds a connection, which is in no pool and
\* which no other task holds.
LEMMA HeldAlone ==
    ASSUME TypeInv, ConnInv, NEW h \in Client, pc[h] \in Holding
    PROVE  /\ stream[h] \in Conn /\ stream[h] # None
           /\ \A g \in Client : stream[g] = stream[h] => g = h
           /\ \A u \in Upstream : \A i \in DOMAIN idle[u] :
                 idle[u][i] # stream[h]
<1>1. stream[h] \in Conn /\ stream[h] # None
  BY LocalTypes, NoneAssumption
<1>2. \A g \in Client : stream[g] = stream[h] => g = h
  BY <1>1 DEF ConnInv, HeldOnce
<1>3. \A u \in Upstream : \A i \in DOMAIN idle[u] : idle[u][i] # stream[h]
  BY DEF ConnInv, AllPooledOK, PooledOK
<1> QED
  BY <1>1, <1>2, <1>3

\* Hanging up frees the connections it names and leaves the others alone.
LEMMA HangupFrame ==
    ASSUME NEW conns \in SUBSET Conn, Hangup(conns)
    PROVE  /\ \A c \in Conn \ conns : SameConn(c)
           /\ \A c \in conns : Clean(c)'
           /\ FreeAreClean => FreeAreClean'
<1>1. \A c \in Conn \ conns : SameConn(c)
  BY DEF Hangup, SameConn
<1>2. \A c \in conns : Clean(c)'
  BY DEF Hangup, Clean
<1>3. ASSUME FreeAreClean PROVE FreeAreClean'
  BY <1>1, <1>2, <1>3 DEF FreeAreClean, SameConn, Clean
<1> QED
  BY <1>1, <1>2, <1>3

\* A step of tasks that hold no stream, before or after, keeps ConnInv.
LEMMA LocalStep ==
    ASSUME TypeInv, ConnInv, UNCHANGED <<idle, connVars, stream>>,
           \A h \in Client : SameTask(h) \/ pc'[h] \notin Holding
    PROVE  ConnInv'
<1>1. AllHeldOK'
  <2>1. ASSUME NEW h \in Client, SameTask(h) PROVE HeldOK(h)'
    BY <2>1, HeldFrame DEF ConnInv, AllHeldOK, connVars, SameConn
  <2> QED
    BY <2>1, HeldVacuous DEF AllHeldOK
<1>2. AllPooledOK'
  BY DEF ConnInv, AllPooledOK, PooledOK, Clean, connVars
<1>3. HeldOnce' /\ FreeAreClean'
  BY DEF ConnInv, HeldOnce, FreeAreClean, Clean, connVars
<1> QED
  BY <1>1, <1>2, <1>3 DEF ConnInv

\* So does a step of the API instances that adds no message to a clean
\* connection and moves a request only to its answer.
LEMMA PeerStep ==
    ASSUME TypeInv, ConnInv, UNCHANGED <<idle, taskVars, peer>>,
           \A c \in Conn :
              /\ link'[c] = "free" <=> link[c] = "free"
              /\ Clean(c) => Clean(c)'
              /\ \A r \in Request : CarriesOnly(c, r) => CarriesOnly(c, r)'
    PROVE  ConnInv'
<1>1. AllHeldOK'
  <2>1. ASSUME NEW h \in Client, pc[h] \in Holding PROVE HeldOK(h)'
    <3>1. stream[h] \in Conn
      BY <2>1, LocalTypes
    <3>2. request[h] \in Request
      BY <2>1, LocalTypes DEF Holding, Forwarding, PC
    <3> QED
      BY <2>1, <3>1, <3>2 DEF ConnInv, AllHeldOK, HeldOK, taskVars, Target
  <2> QED
    BY <2>1, HeldVacuous DEF AllHeldOK, taskVars
<1>2. AllPooledOK'
  <2>1. ASSUME NEW u \in Upstream, NEW i \in DOMAIN idle[u]
        PROVE  PooledOK(u, i)'
    <3>1. idle[u][i] \in Conn
      BY SlotType DEF TypeInv
    <3> QED
      BY <3>1 DEF ConnInv, AllPooledOK, PooledOK, taskVars
  <2> QED
    BY <2>1 DEF AllPooledOK
<1>3. HeldOnce' /\ FreeAreClean'
  BY DEF ConnInv, HeldOnce, FreeAreClean, taskVars
<1> QED
  BY <1>1, <1>2, <1>3 DEF ConnInv

-----------------------------------------------------------------------------
(* The operations that move a connection.                                  *)

\* A step in which a task drops its stream, and touches no other connection,
\* keeps ConnInv.
LEMMA DropStep ==
    ASSUME TypeInv, ConnInv, NEW h \in Client, pc[h] \in Holding,
           idle' = idle,
           \A c \in Conn : c # stream[h] => SameConn(c),
           \A g \in Client : g # h => SameTask(g),
           pc'[h] \notin Holding, stream'[h] = None,
           FreeAreClean'
    PROVE  ConnInv'
<1>1. AllHeldOK'
  <2>1. ASSUME NEW g \in Client, g # h PROVE HeldOK(g)'
    <3>1. pc[g] \in Holding => stream[g] \in Conn /\ stream[g] # stream[h]
      BY <2>1, HeldAlone
    <3>2. pc[g] \in Holding => SameConn(stream[g])
      BY <3>1
    <3> QED
      BY <2>1, <3>2, HeldFrame DEF ConnInv, AllHeldOK
  <2> QED
    BY <2>1, HeldVacuous DEF AllHeldOK
<1>2. AllPooledOK'
  <2>1. ASSUME NEW u \in Upstream, NEW i \in DOMAIN idle[u]
        PROVE  PooledOK(u, i)'
    <3>1. idle[u][i] \in Conn /\ idle[u][i] # None /\ idle[u][i] # stream[h]
      BY SlotType, HeldAlone DEF TypeInv
    <3>2. SameConn(idle[u][i]) /\ PooledOK(u, i)
      BY <3>1 DEF ConnInv, AllPooledOK
    <3>3. \A g \in Client : stream'[g] # idle[u][i]
      BY <3>1, <3>2 DEF PooledOK, SameTask
    <3> QED
      BY <3>2, <3>3, PooledFrame
  <2> QED
    BY <2>1 DEF AllPooledOK
<1>3. HeldOnce'
  BY DEF ConnInv, HeldOnce, SameTask
<1> QED
  BY <1>1, <1>2, <1>3 DEF ConnInv

\* A failed attempt drops the stream of its task, and no other connection.
LEMMA FailAttemptConn ==
    ASSUME TypeInv, ConnInv, NEW h \in Client, pc[h] \in Holding,
           FailAttempt(h)
    PROVE  ConnInv'
<1>1. stream[h] \in Conn /\ Hangup({stream[h]}) /\ idle' = idle
  BY HeldAlone DEF FailAttempt
<1>2. \A g \in Client : g # h => SameTask(g)
  BY DEF FailAttempt, Goto, SameTask, TypeInv, TypeOK, TaskTypeOK
<1>3. pc'[h] \notin Holding /\ stream'[h] = None
  BY DEF FailAttempt, Goto, Holding, TypeInv, TypeOK, TaskTypeOK
<1>4. /\ \A c \in Conn : c # stream[h] => SameConn(c)
      /\ FreeAreClean'
  BY <1>1, HangupFrame DEF ConnInv
<1> QED
  BY <1>1, <1>2, <1>3, <1>4, DropStep

\* acquire, from the pool: the stream leaves the pool with its taker.
LEMMA AcquireIdleConn ==
    ASSUME TypeInv, ConnInv, NEW h \in Client, AcquireIdle(h)
    PROVE  ConnInv'
<1> DEFINE t == Target(h)
           n == Len(idle[t])
           c == idle[t][n]
<1>1. t \in Upstream /\ idle \in [Upstream -> Seq(Conn)]
  BY TargetType DEF TypeInv, TypeOK, SharedTypeOK
<1>2. n \in DOMAIN idle[t] /\ DOMAIN idle[t] = 1 .. n /\ n \in Nat
  BY <1>1 DEF AcquireIdle, PoolEmpty
<1>3. idle' = [idle EXCEPT ![t] = SubSeq(idle[t], 1, n - 1)]
  BY DEF AcquireIdle, Pop
<1>4. stream' = [stream EXCEPT ![h] = c] /\ UNCHANGED connVars
  BY DEF AcquireIdle, Top
<1>5. \A g \in Client : g # h => SameTask(g)
  BY DEF AcquireIdle, Goto, SameTask, TypeInv, TypeOK, TaskTypeOK
<1>6. stream \in [Client -> Conn \cup {None}]
  BY DEF TypeInv, TypeOK, TaskTypeOK
<1>7. PooledOK(t, n)
  BY <1>1, <1>2 DEF ConnInv, AllPooledOK
<1>8. DOMAIN idle'[t] = 1 .. n - 1
      /\ \A i \in 1 .. n - 1 : idle'[t][i] = idle[t][i]
  <2>1. idle'[t] = SubSeq(idle[t], 1, n - 1) /\ idle[t] \in Seq(Conn)
    BY <1>1, <1>3
  <2> QED
    BY <1>2, <2>1
<1>9. \A x \in Conn : SameConn(x)
  BY <1>4 DEF connVars, SameConn
<1>10. c \in Conn /\ c # None
  BY <1>1, <1>2, SlotType DEF TypeInv
<1> HIDE DEF t, n, c
<1>11. AllHeldOK'
  <2>1. HeldOK(h)'
    <3>1. pc'[h] = "write" /\ stream'[h] = c
      BY <1>4, <1>6 DEF AcquireIdle, Goto, TypeInv, TypeOK, TaskTypeOK
    <3>2. Target(h)' = Target(h)
      BY DEF AcquireIdle, Target
    <3>3. link[c] # "free" /\ peer[c] = Target(h) /\ Clean(c)
      BY <1>7 DEF PooledOK, c, t
    <3> QED
      BY <1>4, <3>1, <3>2, <3>3 DEF HeldOK, connVars, Clean
  <2>2. ASSUME NEW g \in Client, g # h PROVE HeldOK(g)'
    <3>1. pc[g] \in Holding => SameConn(stream[g])
      BY <1>9, LocalTypes
    <3> QED
      BY <1>5, <2>2, <3>1, HeldFrame DEF ConnInv, AllHeldOK
  <2> QED
    BY <2>1, <2>2 DEF AllHeldOK
<1>12. AllPooledOK'
  <2>1. ASSUME NEW u \in Upstream, NEW i \in DOMAIN idle'[u]
        PROVE  PooledOK(u, i)'
    <3>1. DOMAIN idle'[u] \subseteq DOMAIN idle[u]
          /\ \A j \in DOMAIN idle'[u] : idle'[u][j] = idle[u][j]
      <4>1. CASE u = t
        BY <4>1, <1>2, <1>8
      <4>2. CASE u # t
        BY <4>2, <1>1, <1>3
      <4> QED
        BY <4>1, <4>2
    <3>2. PooledOK(u, i) /\ SameConn(idle[u][i])
      BY <1>9, <3>1, SlotType DEF ConnInv, AllPooledOK, TypeInv
    <3>3. idle[u][i] # c
      <4>1. CASE u = t
        <5>1. i \in 1 .. n - 1
          BY <4>1, <1>8
        <5>2. i \in DOMAIN idle[t] /\ i # n
          BY <5>1, <1>2
        <5> QED
          BY <4>1, <5>2, <1>7 DEF PooledOK, c
      <4>2. CASE u # t
        BY <4>2, <1>7, <3>2 DEF PooledOK, c
      <4> QED
        BY <4>1, <4>2
    <3>4. \A g \in Client : stream'[g] # idle[u][i]
      BY <1>4, <1>6, <3>2, <3>3 DEF PooledOK
    <3> QED
      BY <3>1, <3>2, <3>4, PooledFrame
  <2> QED
    BY <2>1 DEF AllPooledOK
<1>13. HeldOnce'
  <2>1. \A g \in Client : stream[g] # c
    BY <1>7 DEF PooledOK, c
  <2> QED
    BY <1>4, <1>6, <2>1 DEF ConnInv, HeldOnce
<1>14. FreeAreClean'
  BY <1>4 DEF ConnInv, FreeAreClean, Clean, connVars
<1> QED
  BY <1>11, <1>12, <1>13, <1>14 DEF ConnInv

\* connect: the new stream was free, so nobody held it and no pool had it.
LEMMA ConnectConn ==
    ASSUME TypeInv, ConnInv, NEW h \in Client, Connect(h)
    PROVE  ConnInv'
<1>1. PICK c \in Conn : /\ link[c] = "free"
                        /\ link' = [link EXCEPT ![c] = "open"]
                        /\ peer' = [peer EXCEPT ![c] = Target(h)]
                        /\ stream' = [stream EXCEPT ![h] = c]
  BY DEF Connect, LowestFree
<1>2. UNCHANGED <<idle, sent, ready, first, offset>>
  BY DEF Connect
<1>3. \A g \in Client : g # h => SameTask(g)
  BY <1>1 DEF Connect, Goto, SameTask, TypeInv, TypeOK, TaskTypeOK
<1>4. \A x \in Conn : x # c => SameConn(x)
  BY <1>1, <1>2 DEF SameConn, TypeInv, TypeOK, ConnTypeOK
<1>5. stream \in [Client -> Conn \cup {None}]
  BY DEF TypeInv, TypeOK, TaskTypeOK
<1>6. ASSUME NEW g \in Client PROVE stream[g] # c
  <2>1. CASE pc[g] \in Holding
    BY <1>1, <2>1 DEF ConnInv, AllHeldOK, HeldOK
  <2>2. CASE pc[g] \notin Holding
    BY <2>2, NoneAssumption DEF TypeInv, LocalsOK
  <2> QED
    BY <2>1, <2>2
<1>7. AllHeldOK'
  <2>1. HeldOK(h)'
    <3>1. pc'[h] = "write" /\ stream'[h] = c
      BY <1>1, <1>5 DEF Connect, Goto, TypeInv, TypeOK, TaskTypeOK
    <3>2. Target(h)' = Target(h)
      BY <1>2 DEF Target
    <3>3. link'[c] = "open" /\ peer'[c] = Target(h)
      BY <1>1 DEF TypeInv, TypeOK, ConnTypeOK
    <3>4. sent'[c] = << >> /\ ready'[c] = << >>
      BY <1>1, <1>2 DEF ConnInv, FreeAreClean, Clean
    <3> QED
      BY <3>1, <3>2, <3>3, <3>4 DEF HeldOK, Clean
  <2>2. ASSUME NEW g \in Client, g # h PROVE HeldOK(g)'
    <3>1. pc[g] \in Holding => SameConn(stream[g])
      BY <1>4, <1>6, LocalTypes
    <3> QED
      BY <1>3, <2>2, <3>1, HeldFrame DEF ConnInv, AllHeldOK
  <2> QED
    BY <2>1, <2>2 DEF AllHeldOK
<1>8. AllPooledOK'
  <2>1. ASSUME NEW u \in Upstream, NEW i \in DOMAIN idle[u]
        PROVE  PooledOK(u, i)'
    <3>1. PooledOK(u, i) /\ idle[u][i] \in Conn /\ idle[u][i] # c
      BY <1>1, SlotType DEF ConnInv, AllPooledOK, PooledOK, TypeInv
    <3>2. \A g \in Client : stream'[g] # idle[u][i]
      BY <1>1, <1>5, <3>1 DEF PooledOK
    <3> QED
      BY <1>2, <1>4, <3>1, <3>2, PooledFrame
  <2> QED
    BY <1>2, <2>1 DEF AllPooledOK
<1>9. HeldOnce'
  BY <1>1, <1>5, <1>6 DEF ConnInv, HeldOnce
<1>10. FreeAreClean'
  <2>1. \A x \in Conn : link'[x] = "free" => link[x] = "free"
    BY <1>1 DEF TypeInv, TypeOK, ConnTypeOK
  <2> QED
    BY <1>2, <2>1 DEF ConnInv, FreeAreClean, Clean
<1> QED
  BY <1>7, <1>8, <1>9, <1>10 DEF ConnInv

\* A step of a task that keeps its stream, and touches no connection but that
\* one and of that one only the messages, needs only HeldOK of its own.
LEMMA StreamStep ==
    ASSUME TypeInv, ConnInv, NEW h \in Client, pc[h] \in Holding,
           UNCHANGED <<idle, stream, link, peer>>,
           \A g \in Client : g # h => SameTask(g),
           \A c \in Conn : c # stream[h] => SameConn(c),
           HeldOK(h)'
    PROVE  ConnInv'
<1>1. AllHeldOK'
  <2>1. ASSUME NEW g \in Client, g # h PROVE HeldOK(g)'
    <3>1. pc[g] \in Holding => stream[g] \in Conn /\ stream[g] # stream[h]
      BY <2>1, HeldAlone
    <3> QED
      BY <2>1, <3>1, HeldFrame DEF ConnInv, AllHeldOK
  <2> QED
    BY <2>1 DEF AllHeldOK
<1>2. AllPooledOK'
  <2>1. ASSUME NEW u \in Upstream, NEW i \in DOMAIN idle[u]
        PROVE  PooledOK(u, i)'
    <3>1. idle[u][i] \in Conn /\ idle[u][i] # stream[h] /\ PooledOK(u, i)
      BY SlotType, HeldAlone DEF TypeInv, ConnInv, AllPooledOK
    <3>2. \A g \in Client : stream'[g] # idle[u][i]
      BY <3>1 DEF PooledOK
    <3> QED
      BY <3>1, <3>2, PooledFrame
  <2> QED
    BY <2>1 DEF AllPooledOK
<1>3. HeldOnce'
  BY DEF ConnInv, HeldOnce
<1>4. FreeAreClean'
  <2>1. ASSUME NEW c \in Conn, link'[c] = "free" PROVE Clean(c)'
    <3>1. c # stream[h]
      BY <2>1 DEF ConnInv, AllHeldOK, HeldOK
    <3> QED
      BY <2>1, <3>1 DEF ConnInv, FreeAreClean, SameConn, Clean
  <2> QED
    BY <2>1 DEF FreeAreClean
<1> QED
  BY <1>1, <1>2, <1>3, <1>4 DEF ConnInv

\* The request goes out on a clean stream: it is all the stream carries.
LEMMA WriteConn ==
    ASSUME TypeInv, ConnInv, NEW h \in Client, Write(h)
    PROVE  ConnInv'
<1> DEFINE s == stream[h]
<1>1. pc[h] = "write" /\ pc[h] \in Holding /\ pc[h] \in Forwarding
  BY DEF Write, Holding, Forwarding, PC
<1>2. s \in Conn /\ request[h] \in Request
  BY <1>1, LocalTypes
<1>3. \A g \in Client : g # h => SameTask(g)
  BY DEF Write, Goto, SameTask, TypeInv, TypeOK, TaskTypeOK
<1>4. \A c \in Conn : c # s => SameConn(c)
  BY <1>2 DEF Write, SameConn, TypeInv, TypeOK, ConnTypeOK
<1>5. HeldOK(h) /\ sent[s] = << >> /\ ready[s] = << >>
  BY <1>1 DEF ConnInv, AllHeldOK, HeldOK, Clean
<1>6. sent'[s] = << >> \/ sent'[s] = <<request[h]>>
  <2>1. Append(sent[s], request[h]) = <<request[h]>>
    BY <1>2, <1>5
  <2> QED
    BY <1>2, <1>5, <2>1 DEF Write, TypeInv, TypeOK, ConnTypeOK
<1>7. HeldOK(h)'
  <2>1. pc'[h] = "await"
    BY DEF Write, Goto, TypeInv, TypeOK, TaskTypeOK
  <2>2. UNCHANGED <<first, offset, stream, request, link, peer, ready>>
    BY DEF Write
  <2>3. CarriesOnly(s, request[h])'
    BY <1>5, <1>6, <2>2 DEF CarriesOnly, Clean
  <2> QED
    BY <1>1, <1>5, <2>1, <2>2, <2>3 DEF HeldOK, Target
<1> QED
  BY <1>1, <1>3, <1>4, <1>7, StreamStep DEF Write

\* The response is the only message on the stream: reading it leaves it clean.
LEMMA ReadResponseConn ==
    ASSUME TypeInv, ConnInv, NEW h \in Client, ReadResponse(h)
    PROVE  ConnInv' /\ response'[h] = request[h]
<1> DEFINE s == stream[h]
<1>1. pc[h] = "await" /\ pc[h] \in Holding /\ pc[h] \in Forwarding
  BY DEF ReadResponse, Holding, Forwarding, PC
<1>2. s \in Conn /\ request[h] \in Request
  BY <1>1, LocalTypes
<1>3. \A g \in Client : g # h => SameTask(g)
  BY DEF ReadResponse, Goto, SameTask, TypeInv, TypeOK, TaskTypeOK
<1>4. \A c \in Conn : c # s => SameConn(c)
  BY <1>2 DEF ReadResponse, SameConn, TypeInv, TypeOK, ConnTypeOK
<1>5. HeldOK(h) /\ sent[s] = << >> /\ ready[s] = <<request[h]>>
  BY <1>1 DEF ConnInv, AllHeldOK, HeldOK, Clean, CarriesOnly, ReadResponse
<1>6. Head(ready[s]) = request[h] /\ Tail(ready[s]) = << >>
  BY <1>2, <1>5
<1>7. HeldOK(h)'
  <2>1. pc'[h] = "release"
    BY DEF ReadResponse, Goto, TypeInv, TypeOK, TaskTypeOK
  <2>2. UNCHANGED <<first, offset, stream, link, peer, sent>>
    BY DEF ReadResponse
  <2>3. Clean(s)'
    BY <1>2, <1>5, <1>6, <2>2
       DEF ReadResponse, Clean, TypeInv, TypeOK, ConnTypeOK
  <2> QED
    BY <1>1, <1>5, <2>1, <2>2, <2>3 DEF HeldOK, Target
<1>8. response'[h] = request[h]
  BY <1>6 DEF ReadResponse, TypeInv, TypeOK, TaskTypeOK
<1> QED
  BY <1>1, <1>3, <1>4, <1>7, <1>8, StreamStep DEF ReadResponse

\* What release does to the pool: one more connection on top, or nothing.
LEMMA PushSlots ==
    ASSUME TypeOK, NEW t \in Upstream, NEW c \in Conn, Push(t, c)
    PROVE  /\ \A u \in Upstream : u # t => idle'[u] = idle[u]
           /\ ~HasRoom(idle[t]) => idle'[t] = idle[t]
           /\ HasRoom(idle[t]) =>
                 /\ DOMAIN idle'[t] = 1 .. Len(idle[t]) + 1
                 /\ DOMAIN idle[t] = 1 .. Len(idle[t])
                 /\ \A i \in DOMAIN idle[t] : idle'[t][i] = idle[t][i]
                 /\ idle'[t][Len(idle[t]) + 1] = c
<1>1. idle \in [Upstream -> Seq(Conn)] /\ idle[t] \in Seq(Conn)
  BY DEF TypeOK, SharedTypeOK
<1>2. idle' = [idle EXCEPT ![t] =
                  IF HasRoom(idle[t]) THEN Append(idle[t], c) ELSE idle[t]]
  BY DEF Push
<1>3. /\ \A u \in Upstream : u # t => idle'[u] = idle[u]
      /\ idle'[t] = IF HasRoom(idle[t]) THEN Append(idle[t], c) ELSE idle[t]
  BY <1>1, <1>2
<1>4. /\ DOMAIN Append(idle[t], c) = 1 .. Len(idle[t]) + 1
      /\ DOMAIN idle[t] = 1 .. Len(idle[t])
      /\ \A i \in DOMAIN idle[t] : Append(idle[t], c)[i] = idle[t][i]
      /\ Append(idle[t], c)[Len(idle[t]) + 1] = c
  BY <1>1
<1> QED
  BY <1>3, <1>4

\* release, into a pool with room: the clean stream of the task becomes the
\* top of the pool of its own upstream.
LEMMA KeptConn ==
    ASSUME TypeInv, ConnInv, NEW h \in Client, Release(h),
           HasRoom(idle[Target(h)])
    PROVE  ConnInv'
<1>1. pc[h] = "release" /\ pc[h] \in Holding
  BY DEF Release, Holding
<1>2. PICK t \in Upstream, s \in Conn, n \in Nat :
        /\ t = Target(h) /\ s = stream[h] /\ n = Len(idle[t]) + 1
        /\ DOMAIN idle[t] = 1 .. n - 1
  <2>1. Target(h) \in Upstream /\ stream[h] \in Conn
    BY <1>1, TargetType, LocalTypes DEF TypeInv
  <2>2. idle[Target(h)] \in Seq(Conn)
    BY <2>1 DEF TypeInv, TypeOK, SharedTypeOK
  <2>3. /\ Len(idle[Target(h)]) + 1 \in Nat
        /\ DOMAIN idle[Target(h)] = 1 .. Len(idle[Target(h)])
    BY <2>2
  <2>4. Len(idle[Target(h)]) = (Len(idle[Target(h)]) + 1) - 1
    BY <2>2
  <2> QED
    BY <2>1, <2>3, <2>4
<1>3. \A c \in Conn : SameConn(c)
  <2>1. Hangup({})
    BY DEF Release
  <2> QED
    BY <2>1, HangupFrame
<1>4. \A g \in Client : g # h => SameTask(g)
  BY DEF Release, Goto, SameTask, TypeInv, TypeOK, TaskTypeOK
<1>5. pc'[h] \notin Holding /\ stream'[h] = None
  BY DEF Release, Goto, Holding, TypeInv, TypeOK, TaskTypeOK
<1>6. /\ \A u \in Upstream : u # t => idle'[u] = idle[u]
      /\ DOMAIN idle'[t] = 1 .. n
      /\ \A i \in DOMAIN idle[t] : idle'[t][i] = idle[t][i]
      /\ idle'[t][n] = s
  BY <1>2, PushSlots DEF Release, TypeInv
<1>7. link[s] # "free" /\ peer[s] = t /\ Clean(s)
  BY <1>1, <1>2 DEF ConnInv, AllHeldOK, HeldOK
<1>8. /\ s # None
      /\ \A g \in Client : stream[g] = s => g = h
      /\ \A u \in Upstream : \A i \in DOMAIN idle[u] : idle[u][i] # s
  BY <1>1, <1>2, HeldAlone
<1>9. AllHeldOK'
  <2>1. ASSUME NEW g \in Client, g # h PROVE HeldOK(g)'
    <3>1. pc[g] \in Holding => SameConn(stream[g])
      BY <1>3, LocalTypes
    <3> QED
      BY <1>4, <2>1, <3>1, HeldFrame DEF ConnInv, AllHeldOK
  <2> QED
    BY <1>5, <2>1, HeldVacuous DEF AllHeldOK
<1>10. AllPooledOK'
  <2>1. ASSUME NEW u \in Upstream, NEW i \in DOMAIN idle[u]
        PROVE  /\ PooledOK(u, i) /\ idle[u][i] \in Conn
               /\ SameConn(idle[u][i]) /\ idle[u][i] # s
               /\ \A g \in Client : stream'[g] # idle[u][i]
    <3>1. PooledOK(u, i) /\ idle[u][i] \in Conn /\ idle[u][i] # None
      BY SlotType DEF ConnInv, AllPooledOK, TypeInv
    <3>2. \A g \in Client : stream'[g] # idle[u][i]
      BY <1>4, <1>5, <3>1 DEF PooledOK, SameTask
    <3> QED
      BY <1>3, <1>8, <3>1, <3>2
  <2>2. ASSUME NEW u \in Upstream, NEW i \in DOMAIN idle'[u], u # t
        PROVE  PooledOK(u, i)'
    <3>1. idle'[u] = idle[u]
      BY <1>6, <2>2
    <3> QED
      BY <2>1, <2>2, <3>1, PooledFrame
  <2>3. ASSUME NEW i \in DOMAIN idle[t] PROVE PooledOK(t, i)'
    <3>1. /\ idle'[t][i] = idle[t][i] /\ PooledOK(t, i)
          /\ SameConn(idle[t][i]) /\ idle[t][i] # s
          /\ \A g \in Client : stream'[g] # idle[t][i]
      BY <1>2, <1>6, <2>1, <2>3
    <3>2. ASSUME NEW j \in DOMAIN idle'[t], idle'[t][j] = idle[t][i]
          PROVE  j = i
      <4>1. j \in DOMAIN idle[t]
        BY <1>2, <1>6, <3>1, <3>2
      <4> QED
        BY <1>6, <3>1, <3>2, <4>1 DEF PooledOK
    <3> QED
      BY <3>1, <3>2 DEF PooledOK, SameConn, Clean
  <2>4. PooledOK(t, n)'
    <3>1. ASSUME NEW j \in DOMAIN idle'[t], idle'[t][j] = s PROVE j = n
      <4>1. j \notin DOMAIN idle[t]
        BY <1>2, <1>6, <1>8, <3>1
      <4> QED
        BY <1>2, <1>6, <3>1, <4>1
    <3>2. SameConn(s)
      BY <1>2, <1>3
    <3>3. \A g \in Client : stream'[g] # s
      BY <1>4, <1>5, <1>8 DEF SameTask
    <3>4. idle'[t][n] = s
      BY <1>6
    <3>5. /\ link'[s] # "free" /\ peer'[s] = t
          /\ sent'[s] = << >> /\ ready'[s] = << >>
      BY <1>7, <3>2 DEF SameConn, Clean
    <3> QED
      BY <3>1, <3>3, <3>4, <3>5 DEF PooledOK, Clean
  <2>5. ASSUME NEW i \in DOMAIN idle'[t] PROVE PooledOK(t, i)'
    <3>1. i \in DOMAIN idle[t] \/ i = n
      BY <1>2, <1>6, <2>5
    <3> QED
      BY <2>3, <2>4, <3>1
  <2> QED
    BY <2>2, <2>5 DEF AllPooledOK
<1>11. HeldOnce'
  BY <1>4, <1>5 DEF ConnInv, HeldOnce, SameTask
<1>12. FreeAreClean'
  BY <1>3 DEF ConnInv, FreeAreClean, SameConn, Clean
<1> QED
  BY <1>9, <1>10, <1>11, <1>12 DEF ConnInv

\* release, into a full pool: the stream is dropped, as after a failure.
LEMMA DroppedConn ==
    ASSUME TypeInv, ConnInv, NEW h \in Client, Release(h),
           ~HasRoom(idle[Target(h)])
    PROVE  ConnInv'
<1>1. pc[h] \in Holding /\ stream[h] \in Conn
  BY LocalTypes DEF Release, Holding
<1>2. idle' = idle
  BY DEF Release, Push, TypeInv, TypeOK, SharedTypeOK
<1>3. \A c \in Conn : c # stream[h] => SameConn(c)
  BY <1>1, HangupFrame DEF Release
<1>4. \A g \in Client : g # h => SameTask(g)
  BY DEF Release, Goto, SameTask, TypeInv, TypeOK, TaskTypeOK
<1>5. pc'[h] \notin Holding /\ stream'[h] = None
  BY DEF Release, Goto, Holding, TypeInv, TypeOK, TaskTypeOK
<1>6. FreeAreClean'
  BY <1>1, HangupFrame DEF Release, ConnInv
<1> QED
  BY <1>1, <1>2, <1>3, <1>4, <1>5, <1>6, DropStep

\* clear_idle frees the connections of one pool, which no task holds and no
\* other pool has.
LEMMA EvictConn ==
    ASSUME TypeInv, ConnInv, NEW h \in Client, Evict(h)
    PROVE  ConnInv'
<1>1. PICK t \in Upstream : t = Target(h) /\ Entries(idle[t]) \subseteq Conn
  BY TargetType, EntriesType DEF TypeInv
<1>2. Hangup(Entries(idle[t])) /\ idle' = [idle EXCEPT ![t] = << >>]
  BY <1>1 DEF Evict, Clear
<1>3. /\ \A c \in Conn \ Entries(idle[t]) : SameConn(c)
      /\ FreeAreClean'
  BY <1>1, <1>2, HangupFrame DEF ConnInv
<1>4. \A c \in Entries(idle[t]) : \E i \in DOMAIN idle[t] : c = idle[t][i]
  BY DEF Entries
<1>5. stream' = stream /\ \A g \in Client : g # h => SameTask(g)
  BY DEF Evict, Goto, SameTask, TypeInv, TypeOK, TaskTypeOK
<1>6. pc'[h] \notin Holding
  BY DEF Evict, Goto, Holding, TypeInv, TypeOK, TaskTypeOK
<1>7. AllHeldOK'
  <2>1. ASSUME NEW g \in Client, g # h PROVE HeldOK(g)'
    <3>1. pc[g] \in Holding =>
             stream[g] \in Conn /\ stream[g] \notin Entries(idle[t])
      BY <1>4, HeldAlone
    <3>2. pc[g] \in Holding => SameConn(stream[g])
      BY <1>3, <3>1
    <3> QED
      BY <1>5, <2>1, <3>2, HeldFrame DEF ConnInv, AllHeldOK
  <2> QED
    BY <1>6, <2>1, HeldVacuous DEF AllHeldOK
<1>8. AllPooledOK'
  <2>1. ASSUME NEW u \in Upstream, NEW i \in DOMAIN idle'[u], u # t
        PROVE  PooledOK(u, i)'
    <3>1. idle'[u] = idle[u]
      BY <1>2, <2>1 DEF TypeInv, TypeOK, SharedTypeOK
    <3>2. PooledOK(u, i) /\ idle[u][i] \in Conn
      BY <2>1, <3>1, SlotType DEF ConnInv, AllPooledOK, TypeInv
    <3>3. \A j \in DOMAIN idle[t] : peer[idle[t][j]] = t
      BY DEF ConnInv, AllPooledOK, PooledOK
    <3>4. idle[u][i] \notin Entries(idle[t])
      BY <1>4, <2>1, <3>2, <3>3 DEF PooledOK
    <3>5. SameConn(idle[u][i])
      BY <1>3, <3>2, <3>4
    <3>6. \A g \in Client : stream'[g] # idle[u][i]
      BY <1>5, <3>2 DEF PooledOK
    <3> QED
      BY <2>1, <3>1, <3>2, <3>5, <3>6, PooledFrame
  <2>2. DOMAIN idle'[t] = {}
    BY <1>2 DEF TypeInv, TypeOK, SharedTypeOK
  <2> QED
    BY <2>1, <2>2 DEF AllPooledOK
<1>9. HeldOnce'
  BY <1>5 DEF ConnInv, HeldOnce
<1> QED
  BY <1>3, <1>7, <1>8, <1>9 DEF ConnInv

\* When the process ends, nothing is held and nothing is pooled.
LEMMA ExitConn ==
    ASSUME TypeInv, Exit
    PROVE  ConnInv'
<1>1. \A h \in Client : pc'[h] = "closed" /\ stream'[h] = None
  BY DEF Exit
<1>2. \A u \in Upstream : DOMAIN idle'[u] = {}
  BY DEF Exit
<1>3. FreeAreClean'
  BY HangupFrame DEF Exit, FreeAreClean, Clean
<1> QED
  BY <1>1, <1>2, <1>3
     DEF ConnInv, AllHeldOK, HeldOK, Holding, AllPooledOK, HeldOnce

\* An instance answers what is on the connection with its answer.
LEMMA ServeConn ==
    ASSUME TypeInv, ConnInv, NEW c \in Conn, Serve(c)
    PROVE  ConnInv'
<1>1. sent[c] # << >> /\ sent[c] \in Seq(Request) /\ ready[c] \in Seq(Request)
  BY DEF Serve, TypeInv, TypeOK, ConnTypeOK
<1>2. \A d \in Conn : d # c => sent'[d] = sent[d] /\ ready'[d] = ready[d]
  BY DEF Serve, TypeInv, TypeOK, ConnTypeOK
<1>3. ASSUME NEW r \in Request, CarriesOnly(c, r) PROVE CarriesOnly(c, r)'
  <2>1. sent[c] = <<r>> /\ ready[c] = << >>
    BY <1>1, <1>3 DEF CarriesOnly, Clean
  <2>2. Head(sent[c]) = r /\ Tail(sent[c]) = << >> /\ Append(<< >>, r) = <<r>>
    BY <2>1
  <2>3. sent'[c] = << >> /\ ready'[c] = <<r>>
    BY <2>1, <2>2 DEF Serve, TypeInv, TypeOK, ConnTypeOK
  <2> QED
    BY <2>3 DEF CarriesOnly
<1>4. ASSUME NEW d \in Conn
      PROVE  /\ link'[d] = "free" <=> link[d] = "free"
             /\ Clean(d) => Clean(d)'
             /\ \A r \in Request : CarriesOnly(d, r) => CarriesOnly(d, r)'
  <2>1. CASE d = c
    BY <1>1, <1>3, <2>1 DEF Serve, Clean
  <2>2. CASE d # c
    BY <1>2, <2>2 DEF Serve, Clean, CarriesOnly
  <2> QED
    BY <2>1, <2>2
<1> QED
  BY <1>4, PeerStep DEF Serve, taskVars

\* An instance that closes a connection or crashes only takes messages away.
LEMMA CloseIdleConn ==
    ASSUME TypeInv, ConnInv, NEW c \in Conn, CloseIdle(c)
    PROVE  ConnInv'
<1>1. \A d \in Conn : /\ link'[d] = "free" <=> link[d] = "free"
                      /\ sent'[d] \in {sent[d], << >>}
                      /\ ready'[d] = ready[d]
  BY DEF CloseIdle, TypeInv, TypeOK, ConnTypeOK
<1> QED
  BY <1>1, PeerStep DEF CloseIdle, Clean, CarriesOnly, taskVars

LEMMA CrashConn ==
    ASSUME TypeInv, ConnInv, NEW u \in Upstream, Crash(u)
    PROVE  ConnInv'
<1>1. \A d \in Conn : /\ link'[d] = "free" <=> link[d] = "free"
                      /\ sent'[d] \in {sent[d], << >>}
                      /\ ready'[d] \in {ready[d], << >>}
  BY DEF Crash, TypeInv, TypeOK, ConnTypeOK
<1> QED
  BY <1>1, PeerStep DEF Crash, Clean, CarriesOnly, taskVars

-----------------------------------------------------------------------------
(* The invariants of the connections and of the answers.                   *)

LEMMA InitConnInv == Init => ConnInv
BY DEF Init, ConnInv, AllHeldOK, HeldOK, Holding, AllPooledOK, HeldOnce,
       FreeAreClean, Clean

\* Every operation keeps what the pools and the tasks hold in order.
LEMMA NextConnInv == TypeInv /\ ConnInv /\ [Next]_vars => ConnInv'
<1> SUFFICES ASSUME TypeInv, ConnInv, [Next]_vars PROVE ConnInv'
  OBVIOUS
<1>1. ASSUME NEW h \in Client,
             \/ Accept(h) \/ ReadRequest(h) \/ CloseReading(h)
             \/ AcquireEmpty(h) \/ ConnectFail(h)
             \/ Respond(h) \/ RespondFail(h) \/ SendBadGateway(h)
      PROVE  ConnInv'
  <2>1. UNCHANGED <<idle, connVars, stream>>
    BY <1>1 DEF Accept, ReadRequest, CloseReading, AcquireEmpty,
       ConnectFail, Respond, RespondFail, SendBadGateway, Settle
  <2>2. pc'[h] \notin Holding
    BY <1>1 DEF Accept, ReadRequest, CloseReading, AcquireEmpty,
       ConnectFail, Respond, RespondFail, SendBadGateway, Settle, Goto,
       Holding, TypeInv, TypeOK, TaskTypeOK
  <2>3. \A g \in Client : g # h => SameTask(g)
    BY <1>1 DEF Accept, ReadRequest, CloseReading, AcquireEmpty,
       ConnectFail, Respond, RespondFail, SendBadGateway, Settle, Goto,
       SameTask, TypeInv, TypeOK, TaskTypeOK
  <2> QED
    BY <2>1, <2>2, <2>3, LocalStep
<1>2. ASSUME NEW h \in Client, WriteFail(h) \/ ReadEof(h) \/ ReadTimeout(h)
      PROVE  ConnInv'
  <2>1. pc[h] \in Holding /\ FailAttempt(h)
    BY <1>2 DEF WriteFail, ReadEof, ReadTimeout, Holding
  <2> QED
    BY <2>1, FailAttemptConn
<1>3. ASSUME NEW h \in Client, Release(h) PROVE ConnInv'
  BY <1>3, KeptConn, DroppedConn
<1>4. ASSUME \/ \E h \in Client, r \in Request : SendRequest(h, r)
             \/ \E u \in Upstream : Restart(u)
             \/ UNCHANGED vars
      PROVE  ConnInv'
  <2>1. UNCHANGED <<idle, connVars, stream>>
        /\ \A g \in Client : SameTask(g)
    BY <1>4 DEF SendRequest, Restart, vars, taskVars, SameTask
  <2> QED
    BY <2>1, LocalStep
<1> QED
  BY <1>1, <1>2, <1>3, <1>4, AcquireIdleConn, ConnectConn, WriteConn,
     ReadResponseConn, EvictConn, ExitConn, ServeConn, CloseIdleConn,
     CrashConn DEF Next, Task

LEMMA InitAnswerInv == Init => AnswerInv
BY DEF Init, AnswerInv, ResponsesAreOwn, AnswersAreOwn

\* A task has read the answer to its own request once it is past the read, and
\* that is what it hands to its client.
LEMMA NextAnswerInv ==
    TypeInv /\ ConnInv /\ AnswerInv /\ [Next]_vars => AnswerInv'
<1> SUFFICES ASSUME TypeInv, ConnInv, AnswerInv, [Next]_vars
             PROVE  AnswerInv'
  OBVIOUS
<1> DEFINE SameAnswers(h) ==
      /\ \A g \in Client : g # h =>
            /\ pc'[g] = pc[g]
            /\ request'[g] = request[g]
            /\ response'[g] = response[g]
      /\ pc'[h] \in {"release", "respond"} => response'[h] = request'[h]
<1>1. ASSUME NEW h \in Client, SameAnswers(h), AnswersAreOwn'
      PROVE  AnswerInv'
  BY <1>1 DEF AnswerInv, ResponsesAreOwn
<1>2. ASSUME NEW h \in Client,
             \/ Accept(h) \/ ReadRequest(h) \/ CloseReading(h)
             \/ AcquireIdle(h) \/ AcquireEmpty(h) \/ Connect(h)
             \/ ConnectFail(h) \/ Write(h) \/ Evict(h)
             \/ RespondFail(h) \/ SendBadGateway(h)
      PROVE  AnswerInv'
  <2>1. pc'[h] \notin {"release", "respond"}
    BY <1>2 DEF Accept, ReadRequest, CloseReading, AcquireIdle,
       AcquireEmpty, Connect, ConnectFail, Write, Evict, RespondFail,
       SendBadGateway, Goto, TypeInv, TypeOK, TaskTypeOK
  <2>2. \A g \in Client : g # h =>
           /\ pc'[g] = pc[g]
           /\ request'[g] = request[g]
           /\ response'[g] = response[g]
    BY <1>2 DEF Accept, ReadRequest, CloseReading, AcquireIdle,
       AcquireEmpty, Connect, ConnectFail, Write, Evict, RespondFail,
       SendBadGateway, Settle, Goto, TypeInv, TypeOK, TaskTypeOK
  <2>3. UNCHANGED answer
    BY <1>2 DEF Accept, ReadRequest, CloseReading, AcquireIdle,
       AcquireEmpty, Connect, ConnectFail, Write, Evict, RespondFail,
       SendBadGateway, clientVars
  <2> QED
    BY <1>1, <2>1, <2>2, <2>3 DEF AnswerInv, AnswersAreOwn
<1>3. ASSUME NEW h \in Client, WriteFail(h) \/ ReadEof(h) \/ ReadTimeout(h)
      PROVE  AnswerInv'
  <2>1. SameAnswers(h) /\ UNCHANGED answer
    BY <1>3 DEF WriteFail, ReadEof, ReadTimeout, FailAttempt, Goto,
       clientVars, TypeInv, TypeOK, TaskTypeOK
  <2> QED
    BY <1>1, <2>1 DEF AnswerInv, AnswersAreOwn
<1>4. ASSUME NEW h \in Client, ReadResponse(h) PROVE AnswerInv'
  <2>1. response'[h] = request[h] /\ UNCHANGED <<request, answer>>
    BY <1>4, ReadResponseConn DEF ReadResponse, clientVars
  <2>2. SameAnswers(h)
    BY <1>4, <2>1 DEF ReadResponse, Goto, TypeInv, TypeOK, TaskTypeOK
  <2> QED
    BY <1>1, <2>1, <2>2 DEF AnswerInv, AnswersAreOwn
<1>5. ASSUME NEW h \in Client, Release(h) PROVE AnswerInv'
  <2>1. SameAnswers(h) /\ UNCHANGED answer
    BY <1>5 DEF Release, Goto, clientVars, AnswerInv, ResponsesAreOwn,
       TypeInv, TypeOK, TaskTypeOK
  <2> QED
    BY <1>1, <2>1 DEF AnswerInv, AnswersAreOwn
<1>6. ASSUME NEW h \in Client, Respond(h) PROVE AnswerInv'
  <2>1. SameAnswers(h)
    BY <1>6 DEF Respond, Settle, Goto, TypeInv, TypeOK, TaskTypeOK
  <2>2. response[h] = request[h]
    BY <1>6 DEF Respond, AnswerInv, ResponsesAreOwn
  <2>3. AnswersAreOwn'
    BY <1>6, <2>2 DEF Respond, AnswerInv, AnswersAreOwn, TypeInv, TypeOK,
       ClientTypeOK
  <2> QED
    BY <1>1, <2>1, <2>3
<1>7. ASSUME Exit PROVE AnswerInv'
  BY <1>7 DEF Exit, AnswerInv, ResponsesAreOwn, AnswersAreOwn
<1>8. ASSUME \/ \E h \in Client, r \in Request : SendRequest(h, r)
             \/ \E c \in Conn : Serve(c) \/ CloseIdle(c)
             \/ \E u \in Upstream : Crash(u) \/ Restart(u)
             \/ UNCHANGED vars
      PROVE  AnswerInv'
  <2>1. UNCHANGED <<pc, request, response, answer>>
    BY <1>8 DEF SendRequest, Serve, CloseIdle, Crash, Restart, vars,
       taskVars, clientVars
  <2> QED
    BY <2>1 DEF AnswerInv, ResponsesAreOwn, AnswersAreOwn
<1> QED
  BY <1>2, <1>3, <1>4, <1>5, <1>6, <1>7, <1>8 DEF Next, Task

-----------------------------------------------------------------------------
(* Theorems.                                                               *)

\* Whatever failed, was evicted or timed out before, a pool holds only
\* connections to its own upstream.
THEOREM PoolsLeadHome == Spec => []PooledWhereTheyLead
<1>1. TypeInv /\ ConnInv => PooledWhereTheyLead
  BY DEF ConnInv, AllPooledOK, PooledOK, PooledWhereTheyLead, Entries
<1> QED
  BY InitTypeInv, NextTypeInv, InitConnInv, NextConnInv, <1>1, PTL DEF Spec

\* And no connection in a pool carries a request without its answer, or a
\* response nobody read.
THEOREM PoolsAreClean == Spec => []PooledConnsAreClean
<1>1. ConnInv => PooledConnsAreClean
  BY DEF ConnInv, AllPooledOK, PooledOK, PooledConnsAreClean, Entries, Clean
<1> QED
  BY InitTypeInv, NextTypeInv, InitConnInv, NextConnInv, <1>1, PTL DEF Spec

\* So no client ever gets the response to a request of another, however the
\* tasks interleave with each other, with crashes and with timeouts.
THEOREM AnswersStayOwn == Spec => []AnswersAreOwn
<1>1. AnswerInv => AnswersAreOwn
  BY DEF AnswerInv
<1> QED
  BY InitTypeInv, NextTypeInv, InitConnInv, NextConnInv, InitAnswerInv,
     NextAnswerInv, <1>1, PTL DEF Spec
-----------------------------------------------------------------------------
(* No connection is forgotten: what is not free is held or pooled.         *)
Held(c) == \E h \in Client : stream[h] = c
Pooled(c) == \E u \in Upstream : \E i \in DOMAIN idle[u] : idle[u][i] = c
PoolsFit == \A u \in Upstream : Len(idle[u]) <= MaxIdle

\* With TypeInv and ConnInv, inductive.
AccountInv ==
    PoolsFit /\ \A c \in Conn : link[c] # "free" => Held(c) \/ Pooled(c)

\* A step that frees what it no longer accounts for.
LEMMA AccountStep ==
    ASSUME AccountInv, PoolsFit',
           \A c \in Conn : link'[c] # "free" =>
                \/ link[c] # "free" /\ (Held(c) => Held(c)' \/ Pooled(c)')
                                    /\ (Pooled(c) => Held(c)' \/ Pooled(c)')
                \/ Held(c)' \/ Pooled(c)'
    PROVE  AccountInv'
BY DEF AccountInv

\* A task that drops its stream.
LEMMA FailAttemptAccount ==
    ASSUME TypeInv, ConnInv, AccountInv, NEW h \in Client, pc[h] \in Holding,
           FailAttempt(h)
    PROVE  AccountInv'
<1>1. stream[h] \in Conn /\ Hangup({stream[h]}) /\ idle' = idle
  BY HeldAlone DEF FailAttempt
<1>2. \A g \in Client : g # h => stream'[g] = stream[g]
  BY DEF FailAttempt, TypeInv, TypeOK, TaskTypeOK
<1>3. ASSUME NEW c \in Conn, link'[c] # "free"
      PROVE  link[c] # "free" /\ (Held(c) => Held(c)') /\ (Pooled(c) => Pooled(c)')
  <2>1. c # stream[h] /\ link[c] # "free"
    BY <1>1, <1>3 DEF Hangup
  <2> QED
    BY <1>1, <1>2, <2>1 DEF Held, Pooled
<1>4. PoolsFit'
  BY <1>1 DEF AccountInv, PoolsFit
<1> QED
  BY <1>3, <1>4, AccountStep

\* acquire, from the pool: the top of the pool is with its taker now.
LEMMA AcquireIdleAccount ==
    ASSUME TypeInv, AccountInv, NEW h \in Client, AcquireIdle(h)
    PROVE  AccountInv'
<1> DEFINE t == Target(h)
           n == Len(idle[t])
<1>1. t \in Upstream /\ idle \in [Upstream -> Seq(Conn)] /\ n \in Nat /\ n > 0
  <2>1. t \in Upstream /\ idle \in [Upstream -> Seq(Conn)]
    BY TargetType DEF TypeInv, TypeOK, SharedTypeOK
  <2>2. idle[t] \in Seq(Conn) /\ idle[t] # << >>
    BY <2>1 DEF AcquireIdle, PoolEmpty
  <2> QED
    BY <2>1, <2>2
<1>2. /\ idle' = [idle EXCEPT ![t] = SubSeq(idle[t], 1, n - 1)]
      /\ stream' = [stream EXCEPT ![h] = idle[t][n]]
      /\ link' = link /\ pc[h] = "acquire"
  BY DEF AcquireIdle, Pop, Top, connVars
<1>3. stream \in [Client -> Conn \cup {None}] /\ stream[h] = None
  BY <1>2 DEF TypeInv, TypeOK, TaskTypeOK, LocalsOK, Holding
<1> HIDE DEF t, n
<1>4. idle'[t] = SubSeq(idle[t], 1, n - 1) /\ idle[t] \in Seq(Conn)
  BY <1>1, <1>2
<1>5. /\ Len(idle'[t]) = n - 1 /\ DOMAIN idle'[t] = 1 .. n - 1
      /\ DOMAIN idle[t] = 1 .. n
      /\ \A i \in 1 .. n - 1 : idle'[t][i] = idle[t][i]
  <2>1. ASSUME NEW q \in Seq(Conn), NEW p, NEW m \in Nat, m = Len(q), m > 0,
               p = SubSeq(q, 1, m - 1)
        PROVE  /\ Len(p) = m - 1 /\ DOMAIN p = 1 .. m - 1 /\ DOMAIN q = 1 .. m
               /\ \A i \in 1 .. m - 1 : p[i] = q[i]
    <3>1. m - 1 \in Nat
      BY <2>1
    <3>2. Len(p) = m - 1 /\ \A i \in 1 .. m - 1 : p[i] = q[i]
      BY <2>1, <3>1
    <3>3. DOMAIN p = 1 .. m - 1 /\ DOMAIN q = 1 .. m
      BY <2>1, <3>1
    <3> QED
      BY <3>2, <3>3
  <2>2. n = Len(idle[t])
    BY DEF n
  <2> QED
    BY <1>1, <1>4, <2>1, <2>2
<1>6. \A u \in Upstream : u # t => idle'[u] = idle[u]
  BY <1>1, <1>2
<1>7. PoolsFit'
  <2>1. n <= MaxIdle
    BY <1>1 DEF AccountInv, PoolsFit, n
  <2>2. n - 1 <= MaxIdle
    BY <1>1, <2>1, MaxIdleAssumption
  <2> QED
    BY <1>5, <1>6, <2>2 DEF AccountInv, PoolsFit
<1>8. ASSUME NEW c \in Conn, Held(c) PROVE Held(c)'
  BY <1>2, <1>3, <1>8, NoneAssumption DEF Held
<1>9. ASSUME NEW c \in Conn, Pooled(c) PROVE Held(c)' \/ Pooled(c)'
  <2>0. PICK u \in Upstream : \E i \in DOMAIN idle[u] : idle[u][i] = c
    BY <1>9 DEF Pooled
  <2>1. PICK i \in DOMAIN idle[u] : idle[u][i] = c
    BY <2>0
  <2>2. CASE u # t
    BY <1>6, <2>1, <2>2 DEF Pooled
  <2>3. CASE u = t /\ i = n
    BY <1>2, <1>3, <2>1, <2>3 DEF Held
  <2>4. CASE u = t /\ i # n
    <3>1. i \in 1 .. n - 1
      BY <1>1, <1>5, <2>1, <2>4
    <3>2. i \in DOMAIN idle'[u] /\ idle'[u][i] = c
      BY <1>5, <2>1, <2>4, <3>1
    <3> QED
      BY <3>2 DEF Pooled
  <2> QED
    BY <2>2, <2>3, <2>4
<1> QED
  BY <1>2, <1>7, <1>8, <1>9, AccountStep

\* connect: the new connection is with its task.
LEMMA ConnectAccount ==
    ASSUME TypeInv, AccountInv, NEW h \in Client, Connect(h)
    PROVE  AccountInv'
<1>1. PICK c \in Conn : /\ link' = [link EXCEPT ![c] = "open"]
                        /\ stream' = [stream EXCEPT ![h] = c]
  BY DEF Connect
<1>2. idle' = idle /\ pc[h] = "connect"
  BY DEF Connect
<1>3. stream \in [Client -> Conn \cup {None}] /\ stream[h] = None
  BY <1>2 DEF TypeInv, TypeOK, TaskTypeOK, LocalsOK, Holding
<1>4. ASSUME NEW d \in Conn, Held(d) PROVE Held(d)'
  BY <1>1, <1>3, <1>4, NoneAssumption DEF Held
<1>5. Held(c)'
  BY <1>1, <1>3 DEF Held
<1>6. \A d \in Conn : d # c => link'[d] = link[d]
  BY <1>1 DEF TypeInv, TypeOK, ConnTypeOK
<1>7. \A d \in Conn : Pooled(d)' = Pooled(d)
  BY <1>2 DEF Pooled
<1>8. PoolsFit'
  BY <1>2 DEF AccountInv, PoolsFit
<1> QED
  BY <1>4, <1>5, <1>6, <1>7, <1>8, AccountStep

\* release: the stream is in the pool, or closed because the pool is full.
LEMMA ReleaseAccount ==
    ASSUME TypeInv, ConnInv, AccountInv, NEW h \in Client, Release(h)
    PROVE  AccountInv'
<1>0. PICK t, s : t = Target(h) /\ s = stream[h]
  OBVIOUS
<1>1. /\ pc[h] = "release" /\ Push(t, s)
      /\ Hangup(IF HasRoom(idle[t]) THEN {} ELSE {s})
      /\ stream' = [stream EXCEPT ![h] = None]
  BY <1>0 DEF Release
<1>2. s \in Conn /\ t \in Upstream /\ idle \in [Upstream -> Seq(Conn)]
  BY <1>0, <1>1, HeldAlone, TargetType DEF TypeInv, TypeOK, SharedTypeOK, Holding
<1>3. \A g \in Client : g # h => stream'[g] = stream[g]
  BY <1>1 DEF TypeInv, TypeOK, TaskTypeOK
<1>4. CASE ~HasRoom(idle[t])
  <2>1. idle' = idle
    BY <1>1, <1>2, <1>4 DEF Push
  <2>2. Hangup({s})
    BY <1>1, <1>4
  <2>3. ASSUME NEW c \in Conn, link'[c] # "free"
        PROVE  link[c] # "free" /\ (Held(c) => Held(c)') /\ (Pooled(c) => Pooled(c)')
    <3>1. c # s /\ link[c] # "free"
      BY <2>2, <2>3 DEF Hangup
    <3> QED
      BY <1>0, <1>3, <2>1, <3>1 DEF Held, Pooled
  <2>4. PoolsFit'
    BY <2>1 DEF AccountInv, PoolsFit
  <2> QED
    BY <2>3, <2>4, AccountStep
<1>5. CASE HasRoom(idle[t])
  <2>0. PICK n : n = Len(idle[t])
    OBVIOUS
  <2>1. idle' = [idle EXCEPT ![t] = Append(idle[t], s)] /\ Hangup({})
    BY <1>1, <1>5 DEF Push
  <2>2. idle'[t] = Append(idle[t], s) /\ idle[t] \in Seq(Conn)
    BY <1>2, <2>1
  <2>3. \A u \in Upstream : u # t => idle'[u] = idle[u]
    BY <1>2, <2>1
  <2>4. /\ n \in Nat /\ Len(idle'[t]) = n + 1 /\ n + 1 \in 1 .. n + 1
        /\ DOMAIN idle[t] = 1 .. n /\ DOMAIN idle'[t] = 1 .. n + 1
        /\ idle'[t][n + 1] = s
        /\ \A i \in 1 .. n : idle'[t][i] = idle[t][i]
    BY <1>2, <2>0, <2>2
  <2>5. n < MaxIdle
    BY <1>5, <2>0 DEF HasRoom
  <2>6. PoolsFit'
    <3>1. n + 1 <= MaxIdle
      BY <2>4, <2>5, MaxIdleAssumption
    <3> QED
      BY <2>3, <2>4, <3>1 DEF AccountInv, PoolsFit
  <2>7. link' = link
    BY <2>1 DEF Hangup, TypeInv, TypeOK, ConnTypeOK
  <2>8. Pooled(s)'
    <3>1. n + 1 \in DOMAIN idle'[t] /\ idle'[t][n + 1] = s
      BY <2>4
    <3>2. \E i \in DOMAIN idle'[t] : idle'[t][i] = s
      BY <3>1
    <3> QED
      BY <1>2, <3>2 DEF Pooled
  <2>9. ASSUME NEW c \in Conn, Held(c) PROVE Held(c)' \/ Pooled(c)'
    BY <1>0, <1>3, <2>8, <2>9 DEF Held
  <2>10. ASSUME NEW c \in Conn, Pooled(c) PROVE Pooled(c)'
    <3>0. PICK u \in Upstream : \E i \in DOMAIN idle[u] : idle[u][i] = c
      BY <2>10 DEF Pooled
    <3>1. PICK i \in DOMAIN idle[u] : idle[u][i] = c
      BY <3>0
    <3>2. i \in DOMAIN idle'[u] /\ idle'[u][i] = c
      BY <2>3, <2>4, <3>1
    <3> QED
      BY <3>2 DEF Pooled
  <2> QED
    BY <2>6, <2>7, <2>9, <2>10, AccountStep
<1> QED
  BY <1>4, <1>5

\* clear_idle: the pool is empty, and what was in it is closed.
LEMMA EvictAccount ==
    ASSUME TypeInv, AccountInv, NEW h \in Client, Evict(h)
    PROVE  AccountInv'
<1> DEFINE t == Target(h)
<1>1. Hangup(Entries(idle[t])) /\ Clear(t) /\ stream' = stream
  BY DEF Evict
<1>2. t \in Upstream /\ idle \in [Upstream -> Seq(Conn)]
  BY TargetType DEF TypeInv, TypeOK, SharedTypeOK
<1> HIDE DEF t
<1>3. idle'[t] = << >> /\ \A u \in Upstream : u # t => idle'[u] = idle[u]
  BY <1>1, <1>2 DEF Clear
<1>4. PoolsFit'
  <2>1. Len(idle'[t]) <= MaxIdle
    BY <1>3, MaxIdleAssumption
  <2> QED
    BY <1>3, <2>1 DEF AccountInv, PoolsFit
<1>5. ASSUME NEW c \in Conn, link'[c] # "free"
      PROVE  link[c] # "free" /\ (Held(c) => Held(c)') /\ (Pooled(c) => Pooled(c)')
  <2>1. c \notin Entries(idle[t]) /\ link[c] # "free"
    BY <1>1, <1>5 DEF Hangup
  <2>2. Held(c) => Held(c)'
    BY <1>1 DEF Held
  <2>3. ASSUME Pooled(c) PROVE Pooled(c)'
    <3>0. PICK u \in Upstream : \E i \in DOMAIN idle[u] : idle[u][i] = c
      BY <2>3 DEF Pooled
    <3>1. PICK i \in DOMAIN idle[u] : idle[u][i] = c
      BY <3>0
    <3>2. u # t
      BY <2>1, <3>1 DEF Entries
    <3> QED
      BY <1>3, <3>1, <3>2 DEF Pooled
  <2> QED
    BY <2>1, <2>2, <2>3
<1> QED
  BY <1>4, <1>5, AccountStep

LEMMA InitAccount == Init => AccountInv
BY MaxIdleAssumption DEF Init, AccountInv, PoolsFit

LEMMA NextAccount ==
    TypeInv /\ ConnInv /\ AccountInv /\ [Next]_vars => AccountInv'
<1>1. SUFFICES ASSUME TypeInv, ConnInv, AccountInv, [Next]_vars
               PROVE  AccountInv'
  OBVIOUS
<1>2. ASSUME UNCHANGED <<idle, stream>>,
             \A c \in Conn : link'[c] # "free" => link[c] # "free"
      PROVE  AccountInv'
  BY <1>1, <1>2 DEF AccountInv, PoolsFit, Held, Pooled
<1>3. ASSUME NEW h \in Client,
             \/ Accept(h) \/ ReadRequest(h) \/ CloseReading(h)
             \/ AcquireEmpty(h) \/ ConnectFail(h) \/ Write(h)
             \/ ReadResponse(h)
             \/ Respond(h) \/ RespondFail(h) \/ SendBadGateway(h)
      PROVE  AccountInv'
  <2>1. UNCHANGED <<idle, stream, link>>
    BY <1>3 DEF Accept, ReadRequest, CloseReading, AcquireEmpty, ConnectFail,
       Write, ReadResponse, Respond, RespondFail, SendBadGateway, Settle,
       connVars
  <2> QED
    BY <1>2, <2>1
<1>4. ASSUME NEW h \in Client, WriteFail(h) \/ ReadEof(h) \/ ReadTimeout(h)
      PROVE  AccountInv'
  BY <1>1, <1>4, FailAttemptAccount DEF WriteFail, ReadEof, ReadTimeout, Holding
<1>5. ASSUME NEW h \in Client,
             AcquireIdle(h) \/ Connect(h) \/ Release(h) \/ Evict(h)
      PROVE  AccountInv'
  BY <1>1, <1>5, AcquireIdleAccount, ConnectAccount, ReleaseAccount, EvictAccount
<1>6. ASSUME Exit PROVE AccountInv'
  <2>1. \A c \in Conn : link'[c] = "free"
    BY <1>6 DEF Exit, Hangup
  <2>2. PoolsFit'
    BY <1>6, MaxIdleAssumption DEF Exit, PoolsFit
  <2> QED
    BY <2>1, <2>2 DEF AccountInv
<1>7. ASSUME \/ \E h \in Client, r \in Request : SendRequest(h, r)
             \/ \E c \in Conn : Serve(c) \/ CloseIdle(c)
             \/ \E u \in Upstream : Crash(u) \/ Restart(u)
             \/ UNCHANGED vars
      PROVE  AccountInv'
  <2>1. UNCHANGED <<idle, stream>>
    BY <1>7 DEF SendRequest, Serve, CloseIdle, Crash, Restart, vars, taskVars
  <2>2. \A c \in Conn : link'[c] # "free" => link[c] # "free"
    BY <1>1, <1>7 DEF SendRequest, Serve, CloseIdle, Crash, Restart, vars,
       connVars, TypeInv, TypeOK, ConnTypeOK
  <2> QED
    BY <1>2, <2>1, <2>2
<1> QED
  BY <1>1, <1>3, <1>4, <1>5, <1>6, <1>7 DEF Next, Task

\* Every connection is in one place: no path of forward_once leaks one, and
\* none is shared (proxy.rs, pool.rs).
THEOREM EveryConnHasOnePlace == Spec => []ConnsAccountedFor
<1>1. ASSUME TypeInv, ConnInv, AccountInv PROVE ConnsAccountedFor
  <2>1. ASSUME NEW c \in Conn
        PROVE  Cardinality(HeldBy(c)) + Cardinality(Slots(c))
                 = IF link[c] = "free" THEN 0 ELSE 1
    <3>1. c # None
      BY NoneAssumption
    <3>2. ASSUME NEW h \in Client, stream[h] = c
          PROVE  /\ link[c] # "free" /\ HeldBy(c) = {h} /\ Slots(c) = {}
      <4>1. link[c] # "free"
        BY <1>1, <3>1, <3>2 DEF TypeInv, LocalsOK, ConnInv, AllHeldOK, HeldOK
      <4>2. HeldBy(c) = {h}
        BY <1>1, <3>1, <3>2 DEF HeldBy, ConnInv, HeldOnce
      <4>3. Slots(c) = {}
        <5>1. ASSUME NEW u \in Upstream, NEW i \in 1 .. MaxIdle,
                     i <= Len(idle[u]), idle[u][i] = c
              PROVE  FALSE
          <6>1. i \in DOMAIN idle[u]
            BY <1>1, <5>1, MaxIdleAssumption DEF TypeInv, TypeOK, SharedTypeOK
          <6> QED
            BY <1>1, <3>2, <5>1, <6>1 DEF ConnInv, AllPooledOK, PooledOK
        <5> QED
          BY <5>1 DEF Slots
      <4> QED
        BY <4>1, <4>2, <4>3
    <3>3. ASSUME NEW u \in Upstream, NEW i \in DOMAIN idle[u], idle[u][i] = c
          PROVE  link[c] # "free" /\ HeldBy(c) = {} /\ Slots(c) = {<<u, i>>}
      <4>1. PooledOK(u, i)
        BY <1>1 DEF ConnInv, AllPooledOK
      <4>2. link[c] # "free" /\ HeldBy(c) = {}
        BY <3>3, <4>1 DEF PooledOK, HeldBy
      <4>3. idle[u] \in Seq(Conn) /\ Len(idle[u]) <= MaxIdle
        BY <1>1 DEF AccountInv, PoolsFit, TypeInv, TypeOK, SharedTypeOK
      <4>4. i \in 1 .. MaxIdle /\ i <= Len(idle[u])
        BY <4>3, MaxIdleAssumption
      <4>5. ASSUME NEW v \in Upstream, NEW j \in 1 .. MaxIdle,
                   j <= Len(idle[v]), idle[v][j] = c
            PROVE  v = u /\ j = i
        <5>1. j \in DOMAIN idle[v]
          BY <1>1, <4>5, MaxIdleAssumption DEF TypeInv, TypeOK, SharedTypeOK
        <5>2. PooledOK(v, j)
          BY <1>1, <5>1 DEF ConnInv, AllPooledOK
        <5> QED
          BY <3>3, <4>1, <4>5, <5>1, <5>2 DEF PooledOK
      <4>6. Slots(c) = {<<u, i>>}
        BY <3>3, <4>4, <4>5 DEF Slots
      <4> QED
        BY <4>2, <4>6
    <3>4. CASE Held(c)
      <4>1. PICK h \in Client : stream[h] = c
        BY <3>4 DEF Held
      <4>2. Cardinality(HeldBy(c)) = 1 /\ Cardinality(Slots(c)) = 0
        BY <3>2, <4>1, FS_Singleton, FS_EmptySet
      <4> QED
        BY <3>2, <4>1, <4>2
    <3>5. CASE Pooled(c)
      <4>0. PICK u \in Upstream : \E i \in DOMAIN idle[u] : idle[u][i] = c
        BY <3>5 DEF Pooled
      <4>1. PICK i \in DOMAIN idle[u] : idle[u][i] = c
        BY <4>0
      <4>2. Cardinality(HeldBy(c)) = 0 /\ Cardinality(Slots(c)) = 1
        BY <3>3, <4>1, FS_Singleton, FS_EmptySet
      <4> QED
        BY <3>3, <4>1, <4>2
    <3>6. CASE ~Held(c) /\ ~Pooled(c)
      <4>1. link[c] = "free"
        BY <1>1, <3>6 DEF AccountInv
      <4>2. HeldBy(c) = {}
        BY <3>6 DEF HeldBy, Held
      <4>3. Slots(c) = {}
        <5>1. ASSUME NEW u \in Upstream, NEW i \in 1 .. MaxIdle,
                     i <= Len(idle[u]), idle[u][i] = c
              PROVE  FALSE
          <6>1. i \in DOMAIN idle[u]
            BY <1>1, <5>1, MaxIdleAssumption DEF TypeInv, TypeOK, SharedTypeOK
          <6> QED
            BY <3>6, <5>1, <6>1 DEF Pooled
        <5> QED
          BY <5>1 DEF Slots
      <4> QED
        BY <4>1, <4>2, <4>3, FS_EmptySet
    <3> QED
      BY <3>4, <3>5, <3>6
  <2> QED
    BY <2>1 DEF ConnsAccountedFor
<1> QED
  BY InitTypeInv, NextTypeInv, InitConnInv, NextConnInv, InitAccount,
     NextAccount, <1>1, PTL DEF Spec

-----------------------------------------------------------------------------
(* LoadBalancer implements RequestReply.                                   *)

\* The abstract state, as the refinement mapping of LoadBalancer gives it.
sessions == [h \in Client |-> Session(h)]
askings == [h \in Client |-> Asking(h)]

\* What the position of a task says about its session.
LEMMA SessionOf ==
    ASSUME TypeInv, NEW h \in Client
    PROVE  /\ pc[h] = "closed" => Session(h) = "closed" /\ Asking(h) = None
           /\ pc[h] = "reading" /\ inbox[h] = None =>
                 Session(h) = "idle" /\ Asking(h) = None
           /\ pc[h] = "reading" /\ inbox[h] # None =>
                 Session(h) = "busy" /\ Asking(h) = inbox[h]
           /\ pc[h] \in Forwarding =>
                 Session(h) = "busy" /\ Asking(h) = request[h]
BY NoneAssumption DEF TypeInv, LocalsOK, Session, Asking, Forwarding

\* A step that leaves the position of a task, its inbox and its request alone
\* leaves its session alone.
LEMMA SameSession ==
    ASSUME NEW h \in Client, pc'[h] = pc[h], inbox'[h] = inbox[h],
           request'[h] = request[h]
    PROVE  Session(h)' = Session(h) /\ Asking(h)' = Asking(h)
BY DEF Session, Asking

\* A step of one task changes one session.
LEMMA OneSession ==
    ASSUME TypeOK, NEW h \in Client,
           \A g \in Client : g # h =>
              pc'[g] = pc[g] /\ inbox'[g] = inbox[g] /\ request'[g] = request[g]
    PROVE  /\ \A s : Session(h)' = s => sessions' = [sessions EXCEPT ![h] = s]
           /\ \A r : Asking(h)' = r => askings' = [askings EXCEPT ![h] = r]
           /\ Session(h)' = Session(h) => sessions' = sessions
           /\ Asking(h)' = Asking(h) => askings' = askings
<1>1. \A g \in Client : g # h =>
         Session(g)' = Session(g) /\ Asking(g)' = Asking(g)
  BY SameSession
<1> QED
  BY <1>1 DEF sessions, askings

\* Initially every session is closed.
LEMMA InitService == Init => Service!Init
BY DEF Init, Service!Init, Session, Asking

\* Forwarding a request, whatever becomes of the attempts, and everything the
\* instances do is no step of the service: the session stays busy.
LEMMA InternalStep ==
    ASSUME TypeInv, TypeInv', NEW h \in Client,
           \/ ReadRequest(h)
           \/ AcquireIdle(h) \/ AcquireEmpty(h) \/ Connect(h)
           \/ ConnectFail(h) \/ Write(h) \/ WriteFail(h)
           \/ ReadResponse(h) \/ ReadEof(h) \/ ReadTimeout(h)
           \/ Release(h) \/ Evict(h)
    PROVE  UNCHANGED <<sessions, askings, status, answer>>
<1>1. UNCHANGED <<status, answer>>
  BY DEF ReadRequest, AcquireIdle, AcquireEmpty, Connect, ConnectFail, Write,
     WriteFail, ReadResponse, ReadEof, ReadTimeout, FailAttempt, Release,
     Evict, clientVars
<1>2. \A g \in Client : g # h =>
         pc'[g] = pc[g] /\ inbox'[g] = inbox[g] /\ request'[g] = request[g]
  BY DEF ReadRequest, AcquireIdle, AcquireEmpty, Connect, ConnectFail, Write,
     WriteFail, ReadResponse, ReadEof, ReadTimeout, FailAttempt, Release,
     Evict, Goto, TypeInv, TypeOK, TaskTypeOK
<1>3. Session(h)' = Session(h) /\ Asking(h)' = Asking(h)
  <2>1. CASE ReadRequest(h)
    <3>1. pc[h] = "reading" /\ inbox[h] # None
      BY <2>1 DEF ReadRequest
    <3>2. pc'[h] \in Forwarding /\ request'[h] = inbox[h]
      BY <2>1 DEF ReadRequest, Goto, Forwarding, PC, TypeInv, TypeOK,
         TaskTypeOK
    <3>3. Session(h)' = "busy" /\ Asking(h)' = request'[h]
      <4>1. inbox'[h] = None
        BY <3>2 DEF TypeInv, LocalsOK
      <4> QED
        BY <3>2, <4>1 DEF Session, Asking, Forwarding
    <3> QED
      BY <3>1, <3>2, <3>3, SessionOf
  <2>2. CASE ~ReadRequest(h)
    <3>1. pc[h] \in Forwarding /\ pc'[h] \in Forwarding
          /\ inbox'[h] = inbox[h] /\ request'[h] = request[h]
      BY <2>2 DEF AcquireIdle, AcquireEmpty, Connect, ConnectFail, Write,
         WriteFail, ReadResponse, ReadEof, ReadTimeout, FailAttempt, Release,
         Evict, Goto, Forwarding, PC, TypeInv, TypeOK, TaskTypeOK
    <3> QED
      BY <3>1 DEF Session, Asking, Forwarding
  <2> QED
    BY <2>1, <2>2
<1> QED
  BY <1>1, <1>2, <1>3, OneSession DEF TypeInv

\* The outcome of a request ends the work of its session on it.
LEMMA SettleStep ==
    ASSUME TypeInv, NEW h \in Client, NEW label, NEW outcome,
           pc[h] \in Forwarding, Goto(h, label), Settle(h, outcome),
           label \in {"closed", "reading"}
    PROVE  Service!Finish(h, IF label = "closed" THEN "closed" ELSE "idle",
                          outcome)
<1>1. Session(h) = "busy" /\ Asking(h) = request[h] /\ inbox[h] = None
  BY SessionOf DEF TypeInv, LocalsOK
<1>2. \A g \in Client : g # h =>
         pc'[g] = pc[g] /\ inbox'[g] = inbox[g] /\ request'[g] = request[g]
  BY DEF Goto, Settle, TypeInv, TypeOK, TaskTypeOK
<1>3. pc'[h] = label /\ inbox'[h] = None /\ request'[h] = None
  BY <1>1 DEF Goto, Settle, TypeInv, TypeOK, TaskTypeOK
<1>4. /\ Session(h)' = IF label = "closed" THEN "closed" ELSE "idle"
      /\ Asking(h)' = None
  BY <1>3 DEF Session, Asking
<1>5. /\ sessions' =
            [sessions EXCEPT ![h] = IF label = "closed" THEN "closed" ELSE "idle"]
      /\ askings' = [askings EXCEPT ![h] = None]
  BY <1>2, <1>4, OneSession DEF TypeInv
<1>6. sessions[h] = "busy" /\ askings[h] = request[h]
  BY <1>1 DEF sessions, askings
<1>7. status' = [status EXCEPT ![askings[h]] = outcome]
  BY <1>6 DEF Settle
<1> QED
  BY <1>5, <1>6, <1>7 DEF Service!Finish, sessions, askings

\* Every step of the load balancer is one step of the service, or none.
LEMMA NextService ==
    TypeInv /\ TypeInv' /\ AnswerInv /\ [Next]_vars
        => [Service!Next]_(Service!vars)
<1> SUFFICES ASSUME TypeInv, TypeInv', AnswerInv, [Next]_vars
             PROVE  Service!Next \/ UNCHANGED Service!vars
  OBVIOUS
<1>1. ASSUME NEW h \in Client, Accept(h) PROVE Service!Open(h)
  <2>1. \A g \in Client : g # h => pc'[g] = pc[g]
    BY <1>1 DEF Accept, Goto, TypeInv, TypeOK, TaskTypeOK
  <2>2. UNCHANGED <<inbox, request, status, answer>> /\ pc'[h] = "reading"
        /\ pc[h] = "closed" /\ inbox[h] = None
    BY <1>1 DEF Accept, Goto, clientVars, TypeInv, LocalsOK, TypeOK,
       TaskTypeOK
  <2>3. Session(h) = "closed" /\ Session(h)' = "idle" /\ Asking(h)' = Asking(h)
    BY <2>2 DEF Session, Asking
  <2>4. sessions' = [sessions EXCEPT ![h] = "idle"] /\ askings' = askings
    BY <2>1, <2>2, <2>3, OneSession DEF TypeInv
  <2> QED
    BY <2>2, <2>3, <2>4 DEF Service!Open, sessions, askings
<1>2. ASSUME NEW h \in Client, NEW r \in Request, SendRequest(h, r)
      PROVE  Service!Ask(h, r)
  <2>1. pc[h] = "reading" /\ inbox[h] = None /\ status[r] = "unsent"
    BY <1>2 DEF SendRequest
  <2>2. /\ UNCHANGED <<pc, request, answer>>
        /\ inbox' = [inbox EXCEPT ![h] = r]
        /\ status' = [status EXCEPT ![r] = "pending"]
    BY <1>2 DEF SendRequest
  <2>3. inbox'[h] = r /\ r # None
        /\ \A g \in Client : g # h => inbox'[g] = inbox[g]
    BY <2>2, NoneAssumption DEF TypeInv, TypeOK, TaskTypeOK
  <2>4. Session(h) = "idle" /\ Session(h)' = "busy" /\ Asking(h)' = r
    BY <2>1, <2>2, <2>3 DEF Session, Asking
  <2>5. /\ sessions' = [sessions EXCEPT ![h] = "busy"]
        /\ askings' = [askings EXCEPT ![h] = r]
    BY <2>2, <2>3, <2>4, OneSession DEF TypeInv
  <2> QED
    BY <2>1, <2>2, <2>4, <2>5 DEF Service!Ask, sessions, askings
<1>3. ASSUME NEW h \in Client, CloseReading(h)
      PROVE  Service!Close(h) \/ Service!Drop(h)
  <2>1. /\ pc[h] = "reading" /\ request[h] = None
        /\ UNCHANGED <<request, answer>>
        /\ \A g \in Client : g # h => pc'[g] = pc[g] /\ inbox'[g] = inbox[g]
        /\ pc'[h] = "closed" /\ inbox'[h] = None
    BY <1>3 DEF CloseReading, Goto, TypeInv, LocalsOK, TypeOK, TaskTypeOK,
       Forwarding
  <2>2. Session(h)' = "closed" /\ Asking(h)' = None
    BY <2>1 DEF Session, Asking
  <2>3. /\ sessions' = [sessions EXCEPT ![h] = "closed"]
        /\ askings' = [askings EXCEPT ![h] = None]
        /\ Asking(h)' = Asking(h) => askings' = askings
    BY <2>1, <2>2, OneSession DEF TypeInv
  <2>4. CASE inbox[h] = None
    <3>1. Session(h) = "idle" /\ Asking(h) = None
      BY <2>1, <2>4, SessionOf
    <3>2. status' = status
      BY <1>3, <2>4, NoneAssumption
         DEF CloseReading, TypeInv, TypeOK, ClientTypeOK
    <3> QED
      BY <2>1, <2>2, <2>3, <3>1, <3>2 DEF Service!Close, sessions, askings
  <2>5. CASE inbox[h] # None
    <3>1. Session(h) = "busy" /\ Asking(h) = inbox[h]
      BY <2>1, <2>5, SessionOf
    <3>2. status' = [status EXCEPT ![inbox[h]] = "dropped"]
      BY <1>3 DEF CloseReading, TypeInv, TypeOK, ClientTypeOK
    <3>3. sessions[h] = "busy" /\ askings[h] = inbox[h]
      BY <3>1 DEF sessions, askings
    <3> QED
      BY <2>1, <2>3, <3>2, <3>3
         DEF Service!Drop, Service!Finish, sessions, askings
  <2> QED
    BY <2>4, <2>5
<1>4. ASSUME NEW h \in Client, Respond(h) PROVE Service!Answer(h)
  <2>1. /\ pc[h] \in Forwarding /\ Goto(h, "reading") /\ Settle(h, "answered")
        /\ response[h] = request[h]
    BY <1>4 DEF Respond, Forwarding, PC, AnswerInv, ResponsesAreOwn
  <2>2. Service!Finish(h, "idle", "answered")
    BY <2>1, SettleStep
  <2>3. askings[h] = request[h]
    BY <2>1, SessionOf DEF askings
  <2>4. answer' = [answer EXCEPT ![askings[h]] = askings[h]]
    BY <1>4, <2>1, <2>3 DEF Respond
  <2> QED
    BY <2>2, <2>4 DEF Service!Answer, askings
<1>5. ASSUME NEW h \in Client, RespondFail(h) PROVE Service!Drop(h)
  <2>1. /\ pc[h] \in Forwarding /\ Goto(h, "closed") /\ Settle(h, "dropped")
        /\ UNCHANGED answer
    BY <1>5 DEF RespondFail, Forwarding, PC
  <2> QED
    BY <2>1, SettleStep DEF Service!Drop
<1>6. ASSUME NEW h \in Client, SendBadGateway(h)
      PROVE  Service!Refuse(h) \/ Service!Drop(h)
  <2>1. pc[h] \in Forwarding /\ Goto(h, "closed") /\ UNCHANGED answer
    BY <1>6 DEF SendBadGateway, Forwarding, PC
  <2>2. Settle(h, "refused") \/ Settle(h, "dropped")
    BY <1>6 DEF SendBadGateway
  <2>3. Service!Finish(h, "closed", "refused")
        \/ Service!Finish(h, "closed", "dropped")
    BY <2>1, <2>2, SettleStep
  <2> QED
    BY <2>1, <2>3 DEF Service!Refuse, Service!Drop
<1>7. ASSUME Exit PROVE Service!Stop
  <2>1. \A h \in Client : Session(h)' = "closed" /\ Asking(h)' = None
    BY <1>7 DEF Exit, Session, Asking
  <2> QED
    BY <1>7, <2>1 DEF Exit, Service!Stop
<1>8. ASSUME \/ \E c \in Conn : Serve(c) \/ CloseIdle(c)
             \/ \E u \in Upstream : Crash(u) \/ Restart(u)
             \/ UNCHANGED vars
      PROVE  UNCHANGED <<sessions, askings, status, answer>>
  <2>1. UNCHANGED <<pc, inbox, request, status, answer>>
    BY <1>8 DEF Serve, CloseIdle, Crash, Restart, vars, taskVars, clientVars
  <2> QED
    BY <2>1 DEF sessions, askings, Session, Asking
<1>9. UNCHANGED <<sessions, askings, status, answer>> => UNCHANGED Service!vars
  BY DEF Service!vars, sessions, askings
<1> QED
  BY <1>1, <1>2, <1>3, <1>4, <1>5, <1>6, <1>7, <1>8, <1>9, InternalStep
     DEF Next, Task, Service!Next

\* The load balancer implements the request-reply service, for any number of
\* upstreams and clients: a session works on one request at a time, a request
\* gets at most one outcome, an answer is its own, and a session that ends
\* leaves its request dropped.
THEOREM ImplementsService == Spec => ImplementsRequestReply
<1>1. Spec => [](TypeInv /\ AnswerInv)
  BY InitTypeInv, NextTypeInv, InitConnInv, NextConnInv, InitAnswerInv,
     NextAnswerInv, PTL DEF Spec
<1> QED
  BY <1>1, InitService, NextService, PTL
     DEF Spec, ImplementsRequestReply, Service!Spec
-----------------------------------------------------------------------------
(* What a request has tried.                                               *)
\* How many attempts a task has begun.
Begun(h) == IF pc[h] \in {"acquire", "badGateway"} THEN offset[h] ELSE offset[h] + 1

\* They went to the upstreams from the first on, one after another.
TriedOK(h) ==
    /\ pc[h] \notin Forwarding => attempts[h] = << >>
    /\ pc[h] \in Forwarding =>
        /\ Len(attempts[h]) = Begun(h)
        /\ \A i \in 1 .. Len(attempts[h]) :
            attempts[h][i].upstream = (first[h] + (i - 1)) % UpstreamCount
    /\ pc[h] = "badGateway" => offset[h] = UpstreamCount

TriedInv == \A h \in Client : TriedOK(h)
-----------------------------------------------------------------------------
\* The remainder of a number that exceeds the upstreams less than twice.
LEMMA RemainderTwice ==
    ASSUME NEW a \in Nat, a < UpstreamCount + UpstreamCount
    PROVE  a % UpstreamCount = IF a < UpstreamCount THEN a ELSE a - UpstreamCount
<1>1. UpstreamCount \in Nat /\ UpstreamCount > 0
  BY UpstreamCountAssumption
<1>2. CASE a < UpstreamCount
  BY <1>1, <1>2
<1>3. CASE a >= UpstreamCount
  <2>1. a \div UpstreamCount = 1
    BY <1>1, <1>3
  <2>2. a = UpstreamCount * (a \div UpstreamCount) + (a % UpstreamCount)
    BY <1>1
  <2> QED
    BY <1>1, <1>3, <2>1, <2>2
<1> QED
  BY <1>1, <1>2, <1>3

\* So as many upstreams in a row as there are, are all of them.
LEMMA RowOfUpstreams ==
    ASSUME NEW f \in Upstream
    PROVE  /\ \A i, j \in 0 .. UpstreamCount - 1 :
                (f + i) % UpstreamCount = (f + j) % UpstreamCount => i = j
           /\ \A u \in Upstream : \E i \in 0 .. UpstreamCount - 1 :
                (f + i) % UpstreamCount = u
<1>1. UpstreamCount \in Nat /\ UpstreamCount > 0 /\ f \in Nat /\ f < UpstreamCount
  BY UpstreamCountAssumption DEF Upstream
<1>2. \A i \in 0 .. UpstreamCount - 1 :
        (f + i) % UpstreamCount
            = IF f + i < UpstreamCount THEN f + i ELSE f + i - UpstreamCount
  BY <1>1, RemainderTwice
<1>3. ASSUME NEW i \in 0 .. UpstreamCount - 1, NEW j \in 0 .. UpstreamCount - 1,
             (f + i) % UpstreamCount = (f + j) % UpstreamCount
      PROVE  i = j
  <2>1. (IF f + i < UpstreamCount THEN f + i ELSE f + i - UpstreamCount)
          = IF f + j < UpstreamCount THEN f + j ELSE f + j - UpstreamCount
    BY <1>2, <1>3
  <2> QED
    BY <1>1, <2>1
<1>4. ASSUME NEW u \in Upstream
      PROVE  \E i \in 0 .. UpstreamCount - 1 : (f + i) % UpstreamCount = u
  <2>1. u \in Nat /\ u < UpstreamCount
    BY <1>1 DEF Upstream
  <2>2. CASE u >= f
    <3>1. u - f \in 0 .. UpstreamCount - 1 /\ f + (u - f) < UpstreamCount
          /\ f + (u - f) = u
      BY <1>1, <2>1, <2>2
    <3> QED
      BY <1>2, <3>1
  <2>3. CASE u < f
    <3> DEFINE i == u + UpstreamCount - f
    <3>1. i \in 0 .. UpstreamCount - 1 /\ ~(f + i < UpstreamCount)
          /\ f + i - UpstreamCount = u
      BY <1>1, <2>1, <2>3
    <3> HIDE DEF i
    <3> QED
      BY <1>2, <3>1
  <2> QED
    BY <1>1, <2>1, <2>2, <2>3
<1> QED
  BY <1>3, <1>4

\* A task that goes on with the same attempts.
LEMMA TriedFrame ==
    ASSUME NEW h \in Client, TriedOK(h),
           first'[h] = first[h], attempts'[h] = attempts[h],
           \/ pc'[h] = pc[h] /\ offset'[h] = offset[h]
           \/ /\ pc[h] \notin Forwarding /\ pc'[h] \notin Forwarding
           \/ /\ {pc[h], pc'[h]} \subseteq Forwarding \ {"acquire", "badGateway"}
              /\ offset'[h] = offset[h]
    PROVE  TriedOK(h)'
<1>1. CASE pc'[h] = pc[h] /\ offset'[h] = offset[h]
  BY <1>1 DEF TriedOK, Begun
<1>2. CASE pc[h] \notin Forwarding /\ pc'[h] \notin Forwarding
  <2>1. pc'[h] # "badGateway"
    BY <1>2 DEF Forwarding, PC
  <2> QED
    BY <1>2, <2>1 DEF TriedOK
<1>3. CASE /\ {pc[h], pc'[h]} \subseteq Forwarding \ {"acquire", "badGateway"}
           /\ offset'[h] = offset[h]
  <2>1. /\ pc[h] \in Forwarding /\ pc'[h] \in Forwarding
        /\ pc'[h] # "badGateway" /\ Begun(h) = offset[h] + 1
        /\ Begun(h)' = offset[h] + 1
    BY <1>3 DEF Begun
  <2> QED
    BY <2>1 DEF TriedOK
<1> QED
  BY <1>1, <1>2, <1>3

\* A task that no longer, or not yet, works on a request.
LEMMA TriedNothing ==
    ASSUME NEW h \in Client, pc'[h] \notin Forwarding, attempts'[h] = << >>
    PROVE  TriedOK(h)'
BY DEF TriedOK, Forwarding, PC

\* acquire begins an attempt.
LEMMA AcquireTried ==
    ASSUME TypeInv, NEW h \in Client, TriedOK(h),
           AcquireIdle(h) \/ AcquireEmpty(h)
    PROVE  TriedOK(h)'
<1>1. PICK how : Attempted(h, how)
  BY DEF AcquireIdle, AcquireEmpty
<1> DEFINE entry == [upstream |-> Target(h), how |-> how]
<1>2. /\ pc[h] = "acquire" /\ pc'[h] \in {"write", "connect"}
      /\ UNCHANGED <<first, offset>>
  BY DEF AcquireIdle, AcquireEmpty, Goto, TypeInv, TypeOK, TaskTypeOK
<1>3. attempts[h] \in Seq(Attempt) /\ attempts'[h] = Append(attempts[h], entry)
  BY <1>1 DEF Attempted, TypeInv, TypeOK, HistoryTypeOK
<1>4. /\ Len(attempts[h]) = offset[h]
      /\ \A i \in 1 .. Len(attempts[h]) :
            attempts[h][i].upstream = (first[h] + (i - 1)) % UpstreamCount
  BY <1>2 DEF TriedOK, Begun, Forwarding, PC
<1>5. offset[h] \in Nat /\ first[h] \in Nat
  BY UpstreamCountAssumption DEF TypeInv, TypeOK, TaskTypeOK, Upstream
<1>6. entry.upstream = (first[h] + offset[h]) % UpstreamCount
  BY DEF Target
<1> HIDE DEF entry
<1>7. Len(attempts'[h]) = offset[h] + 1
  BY <1>3, <1>4
<1>8. ASSUME NEW i \in 1 .. offset[h] + 1
      PROVE  attempts'[h][i].upstream = (first[h] + (i - 1)) % UpstreamCount
  <2> DEFINE InTurn == attempts'[h][i].upstream = (first[h] + (i - 1)) % UpstreamCount
  <2>1. CASE i <= offset[h]
    <3>1. i \in 1 .. Len(attempts[h]) /\ attempts'[h][i] = attempts[h][i]
      BY <1>3, <1>4, <1>5, <2>1
    <3> QED
      BY <1>4, <3>1
  <2>2. CASE i = offset[h] + 1
    <3>1. attempts'[h][i] = entry /\ i - 1 = offset[h]
      BY <1>3, <1>4, <1>5, <2>2
    <3> QED
      BY <1>6, <3>1
  <2>3. i <= offset[h] \/ i = offset[h] + 1
    BY <1>5
  <2>4. InTurn
    <3> HIDE DEF InTurn
    <3>1. i <= offset[h] => InTurn
      BY <2>1 DEF InTurn
    <3>2. i = offset[h] + 1 => InTurn
      BY <2>2 DEF InTurn
    <3> QED
      BY <2>3, <3>1, <3>2
  <2> QED
    BY <2>4
<1>9. Begun(h)' = offset[h] + 1
  BY <1>2 DEF Begun
<1> QED
  BY <1>2, <1>7, <1>8, <1>9 DEF TriedOK, Forwarding, PC

\* What a step leaves of a task for these invariants.
SameTries(h) ==
    /\ pc'[h] = pc[h] /\ first'[h] = first[h] /\ offset'[h] = offset[h]
    /\ attempts'[h] = attempts[h]

\* A step of a task leaves the others alone.
LEMMA OthersTried ==
    ASSUME TypeInv, NEW h \in Client, Accept(h) \/ Task(h),
           NEW g \in Client, g # h
    PROVE  SameTries(g)
<1>1. CASE Accept(h) \/ ReadRequest(h) \/ CloseReading(h)
  BY <1>1 DEF Accept, ReadRequest, CloseReading, Goto, SameTries, historyVars,
     TypeInv, TypeOK, TaskTypeOK, HistoryTypeOK
<1>2. CASE AcquireIdle(h) \/ AcquireEmpty(h)
  BY <1>2 DEF AcquireIdle, AcquireEmpty, Attempted, Goto, SameTries,
     TypeInv, TypeOK, TaskTypeOK, HistoryTypeOK
<1>3. CASE Connect(h) \/ ConnectFail(h) \/ Write(h) \/ ReadResponse(h)
  BY <1>3 DEF Connect, ConnectFail, Write, ReadResponse, Goto, SameTries,
     historyVars, TypeInv, TypeOK, TaskTypeOK, HistoryTypeOK
<1>4. CASE WriteFail(h) \/ ReadEof(h) \/ ReadTimeout(h)
  BY <1>4 DEF WriteFail, ReadEof, ReadTimeout, FailAttempt, Goto, SameTries,
     TypeInv, TypeOK, TaskTypeOK, HistoryTypeOK
<1>5. CASE Release(h) \/ Evict(h)
  BY <1>5 DEF Release, Evict, Goto, SameTries, historyVars,
     TypeInv, TypeOK, TaskTypeOK, HistoryTypeOK
<1>6. CASE Respond(h) \/ RespondFail(h) \/ SendBadGateway(h)
  BY <1>6 DEF Respond, RespondFail, SendBadGateway, Settle, Goto, SameTries,
     TypeInv, TypeOK, TaskTypeOK, HistoryTypeOK
<1> QED
  BY <1>1, <1>2, <1>3, <1>4, <1>5, <1>6 DEF Task

LEMMA TaskTried ==
    ASSUME TypeInv, NEW h \in Client, TriedOK(h), Accept(h) \/ Task(h)
    PROVE  TriedOK(h)'
<1>1. CASE Accept(h) \/ CloseReading(h)
  <2>1. /\ pc[h] \notin Forwarding /\ pc'[h] \notin Forwarding
        /\ UNCHANGED <<first, attempts>>
    BY <1>1 DEF Accept, CloseReading, Goto, historyVars, Forwarding,
       TypeInv, TypeOK, TaskTypeOK
  <2> QED
    BY <2>1, TriedFrame
<1>2. CASE ReadRequest(h)
  <2>1. pc'[h] = "acquire" /\ offset'[h] = 0 /\ attempts'[h] = << >>
    BY <1>2 DEF ReadRequest, Goto, TypeInv, TypeOK, TaskTypeOK, HistoryTypeOK
  <2> QED
    BY <2>1 DEF TriedOK, Begun, Forwarding
<1>3. CASE AcquireIdle(h) \/ AcquireEmpty(h)
  BY <1>3, AcquireTried
<1>4. CASE \/ Connect(h) \/ ConnectFail(h) \/ Write(h) \/ ReadResponse(h)
           \/ Release(h)
  <2>1. /\ {pc[h], pc'[h]} \subseteq Forwarding \ {"acquire", "badGateway"}
        /\ UNCHANGED <<first, offset, attempts>>
    BY <1>4 DEF Connect, ConnectFail, Write, ReadResponse, Release, Goto,
       historyVars, Forwarding, PC, TypeInv, TypeOK, TaskTypeOK
  <2> QED
    BY <2>1, TriedFrame
<1>5. CASE WriteFail(h) \/ ReadEof(h) \/ ReadTimeout(h)
  <2>1. /\ {pc[h], pc'[h]} \subseteq Forwarding \ {"acquire", "badGateway"}
        /\ UNCHANGED <<first, offset, attempts>>
    BY <1>5 DEF WriteFail, ReadEof, ReadTimeout, FailAttempt, Goto,
       Forwarding, PC, TypeInv, TypeOK, TaskTypeOK
  <2> QED
    BY <2>1, TriedFrame
<1>6. CASE Evict(h)
  <2>1. /\ pc[h] = "evict" /\ offset'[h] = offset[h] + 1
        /\ pc'[h] = IF MoreUpstreams(h) THEN "acquire" ELSE "badGateway"
        /\ UNCHANGED <<first, attempts>>
    BY <1>6 DEF Evict, Goto, historyVars, TypeInv, TypeOK, TaskTypeOK
  <2>2. offset[h] \in Nat /\ offset[h] < UpstreamCount /\ UpstreamCount \in Nat
    BY <2>1, UpstreamCountAssumption DEF TypeInv, TypeOK, TaskTypeOK, LocalsOK,
       Forwarding, PC
  <2>3. Begun(h) = offset[h] + 1 /\ pc[h] \in Forwarding
    BY <2>1 DEF Begun, Forwarding, PC
  <2>4. Begun(h)' = offset[h] + 1 /\ pc'[h] \in Forwarding
    BY <2>1 DEF Begun, Forwarding, PC
  <2>5. pc'[h] = "badGateway" => offset'[h] = UpstreamCount
    BY <2>1, <2>2 DEF MoreUpstreams
  <2> QED
    BY <2>1, <2>3, <2>4, <2>5 DEF TriedOK
<1>7. CASE Respond(h) \/ RespondFail(h) \/ SendBadGateway(h)
  <2>1. pc'[h] \in {"closed", "reading"} /\ attempts'[h] = << >>
    BY <1>7 DEF Respond, RespondFail, SendBadGateway, Settle, Goto,
       TypeInv, TypeOK, TaskTypeOK, HistoryTypeOK
  <2> QED
    BY <2>1, TriedNothing DEF Forwarding
<1> QED
  BY <1>1, <1>2, <1>3, <1>4, <1>5, <1>6, <1>7 DEF Task

LEMMA InitTried == Init => TriedInv
BY DEF Init, TriedInv, TriedOK, Forwarding

LEMMA NextTried == TypeInv /\ TriedInv /\ [Next]_vars => TriedInv'
<1>1. SUFFICES ASSUME TypeInv, TriedInv, [Next]_vars PROVE TriedInv'
  OBVIOUS
<1>2. ASSUME NEW h \in Client, SameTries(h) PROVE TriedOK(h)'
  BY <1>1, <1>2, TriedFrame DEF TriedInv, SameTries
<1>3. ASSUME NEW h \in Client, Accept(h) \/ Task(h) PROVE TriedInv'
  BY <1>1, <1>2, <1>3, OthersTried, TaskTried DEF TriedInv
<1>4. ASSUME Exit PROVE TriedInv'
  <2>1. \A h \in Client : pc'[h] = "closed" /\ attempts'[h] = << >>
    BY <1>4 DEF Exit
  <2> QED
    BY <2>1, TriedNothing DEF TriedInv, Forwarding
<1>5. ASSUME \/ \E h \in Client, r \in Request : SendRequest(h, r)
             \/ \E c \in Conn : Serve(c) \/ CloseIdle(c)
             \/ \E u \in Upstream : Crash(u) \/ Restart(u)
             \/ UNCHANGED vars
      PROVE  TriedInv'
  <2>1. UNCHANGED <<pc, first, offset, attempts>>
    BY <1>5 DEF SendRequest, Serve, CloseIdle, Crash, Restart, taskVars,
       historyVars, vars
  <2> QED
    BY <1>2, <2>1 DEF TriedInv, SameTries
<1> QED
  BY <1>1, <1>3, <1>4, <1>5 DEF Next

\* "Try each upstream once": whatever ticket the request got, no upstream has
\* it twice, and a 502 means that each has had it (balancer.rs, proxy.rs).
THEOREM EachUpstreamOnce == Spec => []TriesEachUpstreamOnce
<1>1. ASSUME TypeInv, TriedInv PROVE TriesEachUpstreamOnce
  <2>1. ASSUME NEW h \in Client, NEW i \in DOMAIN attempts[h],
               NEW j \in DOMAIN attempts[h],
               attempts[h][i].upstream = attempts[h][j].upstream
        PROVE  i = j
    <3>1. attempts[h] \in Seq(Attempt) /\ first[h] \in Upstream
          /\ offset[h] \in 0 .. UpstreamCount /\ UpstreamCount \in Nat
      BY <1>1, UpstreamCountAssumption DEF TypeInv, TypeOK, TaskTypeOK, HistoryTypeOK
    <3>2. i \in 1 .. Len(attempts[h]) /\ j \in 1 .. Len(attempts[h])
      BY <3>1
    <3>3. pc[h] \in Forwarding /\ TriedOK(h)
      BY <1>1, <3>1, <3>2 DEF TriedInv, TriedOK
    <3>4. Len(attempts[h]) <= UpstreamCount
      BY <1>1, <3>1, <3>3 DEF TriedOK, Begun, TypeInv, LocalsOK
    <3>5. (first[h] + (i - 1)) % UpstreamCount = (first[h] + (j - 1)) % UpstreamCount
      BY <2>1, <3>2, <3>3 DEF TriedOK
    <3>6. i - 1 \in 0 .. UpstreamCount - 1 /\ j - 1 \in 0 .. UpstreamCount - 1
      BY <3>1, <3>2, <3>4
    <3>7. i - 1 = j - 1
      BY <3>1, <3>5, <3>6, RowOfUpstreams
    <3> QED
      BY <3>2, <3>7
  <2>2. ASSUME NEW h \in Client, pc[h] = "badGateway"
        PROVE  {attempts[h][i].upstream : i \in DOMAIN attempts[h]} = Upstream
    <3>1. /\ attempts[h] \in Seq(Attempt) /\ first[h] \in Upstream
          /\ Len(attempts[h]) = UpstreamCount /\ UpstreamCount \in Nat
          /\ \A i \in 1 .. Len(attempts[h]) :
                attempts[h][i].upstream = (first[h] + (i - 1)) % UpstreamCount
      <4>1. /\ attempts[h] \in Seq(Attempt) /\ first[h] \in Upstream
            /\ UpstreamCount \in Nat
        BY <1>1, UpstreamCountAssumption
           DEF TypeInv, TypeOK, TaskTypeOK, HistoryTypeOK
      <4>2. TriedOK(h) /\ pc[h] \in Forwarding
        BY <1>1, <2>2 DEF TriedInv, Forwarding, PC
      <4>3. Begun(h) = UpstreamCount
        BY <2>2, <4>2 DEF TriedOK, Begun
      <4> QED
        BY <4>1, <4>2, <4>3 DEF TriedOK
    <3>2. \A i \in DOMAIN attempts[h] : attempts[h][i].upstream \in Upstream
      <4>1. \A i \in DOMAIN attempts[h] : attempts[h][i] \in Attempt
        BY <3>1
      <4> QED
        BY <4>1 DEF Attempt
    <3>3. ASSUME NEW u \in Upstream
          PROVE  \E i \in DOMAIN attempts[h] : attempts[h][i].upstream = u
      <4>1. PICK k \in 0 .. UpstreamCount - 1 : (first[h] + k) % UpstreamCount = u
        BY <3>1, RowOfUpstreams
      <4>2. k + 1 \in 1 .. Len(attempts[h]) /\ (k + 1) - 1 = k
        BY <3>1
      <4>3. attempts[h][k + 1].upstream = u
        BY <3>1, <4>1, <4>2
      <4> QED
        BY <3>1, <4>2, <4>3
    <3> QED
      BY <3>2, <3>3
  <2> QED
    BY <2>1, <2>2 DEF TriesEachUpstreamOnce
<1> QED
  BY InitTypeInv, NextTypeInv, InitTried, NextTried, <1>1, PTL DEF Spec
-----------------------------------------------------------------------------
(* While nothing but idle closing goes wrong, a stream that was connected  *)
(* for the request stays open until its response is there.                 *)
FreshOpen(c) == link[c] = "open" /\ ~warm[c]

FreshOK(h) ==
    calm[h] /\ pc[h] \in Forwarding =>
        \A i \in 1 .. Len(attempts[h]) : attempts[h][i].how = "fresh" =>
            /\ i = Len(attempts[h])
            /\ pc[h] \in {"connect", "write", "await", "release", "respond"}
            /\ pc[h] = "write" => FreshOpen(stream[h])
            /\ pc[h] = "await" =>
                \/ FreshOpen(stream[h])
                \/ ready[stream[h]] # << >>

\* A connection number that is free has no past.
FreeAreCold == \A c \in Conn : link[c] = "free" => ~warm[c]

FreshInv == FreeAreCold /\ \A h \in Client : FreshOK(h)

SameFresh(c) == link'[c] = link[c] /\ warm'[c] = warm[c] /\ ready'[c] = ready[c]

\* A task that is left alone, and whose stream is.
LEMMA FreshFrame ==
    ASSUME NEW h \in Client, FreshOK(h),
           pc'[h] = pc[h], attempts'[h] = attempts[h],
           calm'[h] => calm[h], stream'[h] = stream[h],
           pc[h] \in Holding => SameFresh(stream[h])
    PROVE  FreshOK(h)'
<1>1. CASE pc[h] \in Holding
  BY <1>1 DEF FreshOK, SameFresh, FreshOpen
<1>2. CASE pc[h] \notin Holding
  BY <1>2 DEF FreshOK, Holding
<1> QED
  BY <1>1, <1>2

\* No attempt on a new stream has been made, or none that failed quietly.
LEMMA FreshNothing ==
    ASSUME NEW h \in Client,
           \/ ~calm'[h]
           \/ pc'[h] \notin Forwarding
           \/ attempts'[h] = << >>
           \/ \A i \in 1 .. Len(attempts'[h]) : attempts'[h][i].how # "fresh"
    PROVE  FreshOK(h)'
BY DEF FreshOK

\* Hanging up leaves no past.
LEMMA HangupFresh ==
    ASSUME NEW conns \in SUBSET Conn, Hangup(conns)
    PROVE  /\ \A c \in Conn \ conns : SameFresh(c)
           /\ FreeAreCold => FreeAreCold'
BY DEF Hangup, SameFresh, FreeAreCold

\* The streams of the other tasks are not touched by a step of a task.
LEMMA OthersFresh ==
    ASSUME TypeInv, ConnInv, NEW h \in Client, Accept(h) \/ Task(h),
           NEW g \in Client, g # h
    PROVE  /\ pc'[g] = pc[g] /\ attempts'[g] = attempts[g]
           /\ calm'[g] = calm[g] /\ stream'[g] = stream[g]
           /\ pc[g] \in Holding => SameFresh(stream[g])
<1> USE DEF TypeInv, TypeOK, TaskTypeOK, HistoryTypeOK, Goto
<1>1. SameTries(g)
  BY OthersTried
<1>2. pc[g] \in Holding =>
        /\ stream[g] \in Conn /\ stream[g] # None
        /\ \A f \in Client : stream[f] = stream[g] => f = g
        /\ \A u \in Upstream : \A i \in DOMAIN idle[u] : idle[u][i] # stream[g]
  BY HeldAlone
<1>3. UNCHANGED connVars => (pc[g] \in Holding => SameFresh(stream[g]))
  BY DEF connVars, SameFresh
<1>4. CASE \/ Accept(h) \/ ReadRequest(h) \/ CloseReading(h)
           \/ AcquireEmpty(h) \/ ConnectFail(h)
  <2>1. UNCHANGED connVars /\ stream' = stream /\ calm'[g] = calm[g]
    BY <1>4 DEF Accept, ReadRequest, CloseReading, AcquireEmpty, ConnectFail,
       historyVars
  <2> QED
    BY <1>1, <1>3, <2>1 DEF SameTries
<1>5. CASE AcquireIdle(h)
  <2>1. UNCHANGED connVars /\ stream'[g] = stream[g] /\ calm' = calm
    BY <1>5 DEF AcquireIdle
  <2> QED
    BY <1>1, <1>3, <2>1 DEF SameTries
<1>6. CASE Connect(h)
  <2>1. PICK c \in Conn : /\ LowestFree(c)
                          /\ link' = [link EXCEPT ![c] = "open"]
                          /\ stream' = [stream EXCEPT ![h] = c]
    BY <1>6 DEF Connect
  <2>2. stream'[g] = stream[g] /\ UNCHANGED <<calm, warm, ready>>
    BY <1>6, <2>1 DEF Connect, historyVars
  <2>3. pc[g] \in Holding => stream[g] # c
    BY <2>1 DEF LowestFree, ConnInv, AllHeldOK, HeldOK
  <2>4. pc[g] \in Holding => SameFresh(stream[g])
    BY <1>2, <2>1, <2>2, <2>3 DEF SameFresh, ConnTypeOK
  <2> QED
    BY <1>1, <2>2, <2>4 DEF SameTries
<1>7. CASE Write(h)
  <2>1. UNCHANGED <<link, warm, ready, stream, calm>>
    BY <1>7 DEF Write, historyVars
  <2> QED
    BY <1>1, <2>1 DEF SameTries, SameFresh
<1>8. CASE WriteFail(h) \/ ReadEof(h) \/ ReadTimeout(h)
  <2>1. /\ FailAttempt(h) /\ pc[h] \in Holding
        /\ calm'[g] = calm[g]
    BY <1>8 DEF WriteFail, ReadEof, ReadTimeout, Holding
  <2>2. Hangup({stream[h]}) /\ stream'[g] = stream[g] /\ stream[h] \in Conn
    BY <2>1, HeldAlone DEF FailAttempt
  <2>3. pc[g] \in Holding => stream[g] \in Conn \ {stream[h]}
    BY <1>2
  <2> QED
    BY <1>1, <2>1, <2>2, <2>3, HangupFresh DEF SameTries
<1>9. CASE ReadResponse(h)
  <2>1. /\ UNCHANGED <<link, warm, stream, calm>>
        /\ ready' = [ready EXCEPT ![stream[h]] = Tail(@)]
    BY <1>9 DEF ReadResponse, historyVars
  <2>2. pc[g] \in Holding => stream[g] # stream[h] /\ stream[g] \in Conn
    BY <1>2
  <2>3. pc[g] \in Holding => SameFresh(stream[g])
    BY <2>1, <2>2 DEF SameFresh, ConnTypeOK
  <2> QED
    BY <1>1, <2>1, <2>3 DEF SameTries
<1>10. CASE Release(h)
  <2> DEFINE conns == IF HasRoom(idle[Target(h)]) THEN {} ELSE {stream[h]}
  <2>1. Hangup(conns) /\ stream'[g] = stream[g] /\ calm' = calm
    BY <1>10 DEF Release, historyVars
  <2>2. conns \in SUBSET Conn /\ conns \subseteq {stream[h]}
    BY <1>10, HeldAlone DEF Release, Holding
  <2> HIDE DEF conns
  <2>3. pc[g] \in Holding => stream[g] \in Conn \ conns
    BY <1>2, <2>2
  <2> QED
    BY <1>1, <2>1, <2>2, <2>3, HangupFresh DEF SameTries
<1>11. CASE Evict(h)
  <2> DEFINE conns == Entries(idle[Target(h)])
  <2>1. Hangup(conns) /\ stream' = stream /\ calm' = calm
    BY <1>11 DEF Evict, historyVars
  <2>2. conns \in SUBSET Conn
    BY TargetType, EntriesType
  <2>3. pc[g] \in Holding => stream[g] \in Conn \ conns
    BY <1>2, TargetType DEF Entries
  <2> HIDE DEF conns
  <2> QED
    BY <1>1, <2>1, <2>2, <2>3, HangupFresh DEF SameTries
<1>12. CASE Respond(h) \/ RespondFail(h) \/ SendBadGateway(h)
  <2>1. UNCHANGED connVars /\ stream' = stream /\ calm'[g] = calm[g]
    BY <1>12 DEF Respond, RespondFail, SendBadGateway, Settle
  <2> QED
    BY <1>1, <1>3, <2>1 DEF SameTries
<1> QED
  BY <1>4, <1>5, <1>6, <1>7, <1>8, <1>9, <1>10, <1>11, <1>12 DEF Task

\* A step of the task itself.
LEMMA TaskFresh ==
    ASSUME TypeInv, ConnInv, FreshInv, NEW h \in Client, Accept(h) \/ Task(h)
    PROVE  FreshOK(h)'
<1> USE DEF TypeInv, TypeOK, TaskTypeOK, HistoryTypeOK, Goto
<1>1. FreshOK(h)
  BY DEF FreshInv
<1>2. attempts[h] \in Seq(Attempt)
  OBVIOUS
<1>3. CASE Accept(h) \/ CloseReading(h)
  <2>1. pc'[h] \notin Forwarding
    BY <1>3 DEF Accept, CloseReading, Forwarding
  <2> QED
    BY <2>1, FreshNothing
<1>4. CASE ReadRequest(h)
  <2>1. attempts'[h] = << >>
    BY <1>4 DEF ReadRequest
  <2> QED
    BY <2>1, FreshNothing
<1>5. CASE AcquireIdle(h) \/ AcquireEmpty(h)
  <2>1. PICK how \in {"pooled", "fresh"} :
          /\ Attempted(h, how)
          /\ pc'[h] = IF how = "pooled" THEN "write" ELSE "connect"
    BY <1>5 DEF AcquireIdle, AcquireEmpty
  <2> DEFINE entry == [upstream |-> Target(h), how |-> how]
  <2>2. attempts'[h] = Append(attempts[h], entry) /\ entry.how = how
    BY <2>1 DEF Attempted
  <2>3. pc[h] = "acquire" /\ calm' = calm /\ pc[h] \in Forwarding
    BY <1>5 DEF AcquireIdle, AcquireEmpty, Forwarding, PC
  <2> HIDE DEF entry
  <2>4. /\ Len(attempts'[h]) = Len(attempts[h]) + 1
        /\ attempts'[h][Len(attempts[h]) + 1] = entry
        /\ \A i \in 1 .. Len(attempts[h]) : attempts'[h][i] = attempts[h][i]
        /\ Len(attempts[h]) \in Nat
    BY <1>2, <2>2
  <2>5. calm[h] => \A i \in 1 .. Len(attempts[h]) : attempts[h][i].how # "fresh"
    BY <1>1, <2>3 DEF FreshOK
  <2>6. ASSUME calm'[h], NEW i \in 1 .. Len(attempts'[h]),
               attempts'[h][i].how = "fresh"
        PROVE  i = Len(attempts'[h]) /\ how = "fresh"
    <3>1. i \notin 1 .. Len(attempts[h])
      BY <2>3, <2>4, <2>5, <2>6
    <3>2. i = Len(attempts[h]) + 1
      BY <2>4, <2>6, <3>1
    <3> QED
      BY <2>2, <2>4, <2>6, <3>2
  <2>7. how = "fresh" => pc'[h] = "connect"
    BY <2>1
  <2> QED
    BY <2>6, <2>7 DEF FreshOK
<1>6. CASE Connect(h)
  <2>1. PICK c \in Conn : /\ LowestFree(c)
                          /\ link' = [link EXCEPT ![c] = "open"]
                          /\ stream' = [stream EXCEPT ![h] = c]
    BY <1>6 DEF Connect
  <2>2. /\ pc[h] = "connect" /\ pc'[h] = "write" /\ pc[h] \in Forwarding
        /\ UNCHANGED <<attempts, calm, warm>>
    BY <1>6 DEF Connect, historyVars, Forwarding, PC
  <2>3. stream'[h] = c /\ link'[c] = "open" /\ ~warm[c]
    BY <2>1 DEF LowestFree, FreshInv, FreeAreCold, ConnTypeOK
  <2>4. FreshOpen(stream[h])'
    BY <2>2, <2>3 DEF FreshOpen
  <2> QED
    BY <1>1, <2>2, <2>4 DEF FreshOK
<1>7. CASE ConnectFail(h) \/ ReadTimeout(h)
  <2>1. ~calm'[h]
    BY <1>7 DEF ConnectFail, ReadTimeout
  <2> QED
    BY <2>1, FreshNothing
<1>8. CASE Write(h)
  <2>1. /\ pc[h] = "write" /\ pc'[h] = "await" /\ pc[h] \in Forwarding
        /\ UNCHANGED <<attempts, calm, stream, link, warm>>
    BY <1>8 DEF Write, historyVars, Forwarding, PC
  <2> QED
    BY <1>1, <2>1 DEF FreshOK, FreshOpen
<1>9. CASE WriteFail(h)
  <2>1. /\ pc[h] = "write" /\ pc[h] \in Forwarding /\ attempts' = attempts
        /\ calm'[h] = (calm[h] /\ link[stream[h]] = "closed")
    BY <1>9 DEF WriteFail, FailAttempt, Forwarding, PC
  <2>2. calm'[h] => \A i \in 1 .. Len(attempts[h]) : attempts[h][i].how # "fresh"
    BY <1>1, <2>1 DEF FreshOK, FreshOpen
  <2> QED
    BY <2>1, <2>2, FreshNothing
<1>10. CASE ReadEof(h)
  <2>1. /\ pc[h] = "await" /\ pc[h] \in Forwarding /\ attempts' = attempts
        /\ link[stream[h]] = "closed" /\ ready[stream[h]] = << >>
        /\ calm' = calm
    BY <1>10 DEF ReadEof, FailAttempt, Forwarding, PC
  <2>2. calm'[h] => \A i \in 1 .. Len(attempts[h]) : attempts[h][i].how # "fresh"
    BY <1>1, <2>1 DEF FreshOK, FreshOpen
  <2> QED
    BY <2>1, <2>2, FreshNothing
<1>11. CASE ReadResponse(h) \/ Release(h)
  <2>1. /\ pc[h] \in Forwarding /\ pc'[h] \in {"release", "respond"}
        /\ UNCHANGED <<attempts, calm>>
    BY <1>11 DEF ReadResponse, Release, historyVars, Forwarding, PC
  <2> QED
    BY <1>1, <2>1 DEF FreshOK
<1>12. CASE Evict(h)
  <2>1. pc[h] = "evict" /\ pc[h] \in Forwarding /\ UNCHANGED <<attempts, calm>>
    BY <1>12 DEF Evict, historyVars, Forwarding, PC
  <2>2. calm'[h] => \A i \in 1 .. Len(attempts[h]) : attempts[h][i].how # "fresh"
    BY <1>1, <2>1 DEF FreshOK
  <2> QED
    BY <2>1, <2>2, FreshNothing
<1>13. CASE Respond(h) \/ RespondFail(h) \/ SendBadGateway(h)
  <2>1. attempts'[h] = << >>
    BY <1>13 DEF Respond, RespondFail, SendBadGateway, Settle
  <2> QED
    BY <2>1, FreshNothing
<1> QED
  BY <1>3, <1>4, <1>5, <1>6, <1>7, <1>8, <1>9, <1>10, <1>11, <1>12, <1>13 DEF Task

\* No step of a task leaves a free connection number with a past.
LEMMA ColdTask ==
    ASSUME TypeInv, ConnInv, FreeAreCold, NEW h \in Client, Accept(h) \/ Task(h)
    PROVE  FreeAreCold'
<1>1. ASSUME NEW conns \in SUBSET Conn, Hangup(conns) PROVE FreeAreCold'
  BY <1>1, HangupFresh
<1>2. ASSUME UNCHANGED <<link, warm>> PROVE FreeAreCold'
  BY <1>2 DEF FreeAreCold
<1>3. CASE \/ Accept(h) \/ ReadRequest(h) \/ CloseReading(h) \/ AcquireIdle(h)
           \/ AcquireEmpty(h) \/ ConnectFail(h) \/ Write(h) \/ ReadResponse(h)
           \/ Respond(h) \/ RespondFail(h) \/ SendBadGateway(h)
  BY <1>2, <1>3 DEF Accept, ReadRequest, CloseReading, AcquireIdle,
     AcquireEmpty, ConnectFail, Write, ReadResponse, Respond, RespondFail,
     SendBadGateway, Settle, connVars
<1>4. CASE Connect(h)
  <2>1. PICK c \in Conn : link' = [link EXCEPT ![c] = "open"] /\ warm' = warm
    BY <1>4 DEF Connect
  <2> QED
    BY <2>1 DEF FreeAreCold, TypeInv, TypeOK, ConnTypeOK
<1>5. CASE WriteFail(h) \/ ReadEof(h) \/ ReadTimeout(h)
  <2>1. FailAttempt(h) /\ pc[h] \in Holding
    BY <1>5 DEF WriteFail, ReadEof, ReadTimeout, Holding
  <2>2. stream[h] \in Conn /\ Hangup({stream[h]})
    BY <2>1, HeldAlone DEF FailAttempt
  <2> QED
    BY <1>1, <2>2
<1>6. CASE Release(h)
  <2>1. stream[h] \in Conn
    BY <1>6, HeldAlone DEF Release, Holding
  <2>2. PICK conns \in {{}, {stream[h]}} : Hangup(conns)
    BY <1>6 DEF Release
  <2> QED
    BY <1>1, <2>1, <2>2
<1>7. CASE Evict(h)
  <2>1. Entries(idle[Target(h)]) \subseteq Conn /\ Hangup(Entries(idle[Target(h)]))
    BY <1>7, TargetType, EntriesType DEF Evict, TypeInv
  <2> QED
    BY <1>1, <2>1
<1> QED
  BY <1>3, <1>4, <1>5, <1>6, <1>7 DEF Task

LEMMA InitFresh == Init => FreshInv
BY DEF Init, FreshInv, FreeAreCold, FreshOK, Forwarding

LEMMA NextFresh == TypeInv /\ ConnInv /\ FreshInv /\ [Next]_vars => FreshInv'
<1>1. SUFFICES ASSUME TypeInv, ConnInv, FreshInv, [Next]_vars PROVE FreshInv'
  OBVIOUS
<1>2. ASSUME NEW h \in Client, Accept(h) \/ Task(h) PROVE FreshInv'
  <2>1. FreshOK(h)' /\ FreeAreCold'
    BY <1>1, <1>2, TaskFresh, ColdTask DEF FreshInv
  <2>2. ASSUME NEW g \in Client, g # h PROVE FreshOK(g)'
    BY <1>1, <1>2, <2>2, OthersFresh, FreshFrame DEF FreshInv
  <2> QED
    BY <2>1, <2>2 DEF FreshInv
<1>3. ASSUME Exit PROVE FreshInv'
  <2>1. Hangup(Conn) /\ \A h \in Client : pc'[h] = "closed"
    BY <1>3 DEF Exit
  <2>2. FreeAreCold'
    BY <1>1, <2>1, HangupFresh DEF FreshInv
  <2> QED
    BY <2>1, <2>2, FreshNothing DEF FreshInv, Forwarding
<1>4. ASSUME \/ \E h \in Client, r \in Request : SendRequest(h, r)
             \/ \E u \in Upstream : Restart(u)
             \/ UNCHANGED vars
      PROVE  FreshInv'
  <2>1. UNCHANGED <<pc, stream, connVars, attempts, calm>>
    BY <1>4 DEF SendRequest, Restart, vars, taskVars, historyVars
  <2>2. \A h \in Client : FreshOK(h)'
    BY <1>1, <2>1, FreshFrame DEF FreshInv, connVars, SameFresh
  <2> QED
    BY <1>1, <2>1, <2>2 DEF FreshInv, FreeAreCold, connVars
<1>5. ASSUME NEW c \in Conn, Serve(c) PROVE FreshInv'
  <2>1. /\ link[c] = "open" /\ sent[c] # << >>
        /\ ready' = [ready EXCEPT ![c] = Append(@, Head(sent[c]))]
        /\ warm' = [warm EXCEPT ![c] = TRUE]
        /\ UNCHANGED <<pc, stream, link, attempts, calm>>
    BY <1>5 DEF Serve, taskVars, historyVars
  <2>2. FreeAreCold'
    BY <1>1, <2>1 DEF FreshInv, FreeAreCold, TypeInv, TypeOK, ConnTypeOK
  <2>3. ready'[c] # << >> /\ \A d \in Conn \ {c} : SameFresh(d)
    <3>1. ready[c] \in Seq(Request) /\ Head(sent[c]) \in Request
      BY <1>1, <2>1 DEF TypeInv, TypeOK, ConnTypeOK
    <3> QED
      BY <1>1, <2>1, <3>1 DEF SameFresh, TypeInv, TypeOK, ConnTypeOK
  <2>4. ASSUME NEW h \in Client PROVE FreshOK(h)'
    <3>1. CASE pc[h] \in Holding /\ stream[h] = c
      <4>1. pc[h] # "write"
        BY <1>1, <2>1, <3>1 DEF ConnInv, AllHeldOK, HeldOK, Clean
      <4>2. FreshOK(h)
        BY <1>1 DEF FreshInv
      <4> QED
        BY <2>1, <2>3, <3>1, <4>1, <4>2 DEF FreshOK
    <3>2. CASE pc[h] \in Holding /\ stream[h] # c
      <4>1. SameFresh(stream[h])
        BY <1>1, <2>3, <3>2, LocalTypes
      <4> QED
        BY <1>1, <2>1, <4>1, FreshFrame DEF FreshInv
    <3>3. CASE pc[h] \notin Holding
      BY <1>1, <2>1, <3>3, FreshFrame DEF FreshInv
    <3> QED
      BY <3>1, <3>2, <3>3
  <2> QED
    BY <2>2, <2>4 DEF FreshInv
<1>6. ASSUME NEW c \in Conn, CloseIdle(c) PROVE FreshInv'
  <2>1. /\ warm[c] /\ link' = [link EXCEPT ![c] = "closed"]
        /\ UNCHANGED <<pc, stream, warm, ready, attempts, calm>>
    BY <1>6 DEF CloseIdle, taskVars, historyVars
  <2>2. FreeAreCold'
    BY <1>1, <2>1 DEF FreshInv, FreeAreCold, TypeInv, TypeOK, ConnTypeOK
  <2>3. ASSUME NEW h \in Client PROVE FreshOK(h)'
    <3>1. pc[h] \in Holding => stream[h] \in Conn
      BY <1>1, LocalTypes
    <3>2. pc[h] \in Holding /\ FreshOpen(stream[h]) => FreshOpen(stream[h])'
      BY <1>1, <2>1, <3>1 DEF FreshOpen, TypeInv, TypeOK, ConnTypeOK
    <3>3. FreshOK(h)
      BY <1>1 DEF FreshInv
    <3> QED
      BY <2>1, <3>2, <3>3 DEF FreshOK, Holding
  <2> QED
    BY <2>2, <2>3 DEF FreshInv
<1>7. ASSUME NEW u \in Upstream, Crash(u) PROVE FreshInv'
  <2>1. \A h \in Client : pc[h] \in Forwarding => ~calm'[h]
    BY <1>7 DEF Crash, Forwarding
  <2>2. pc' = pc /\ warm' = warm
        /\ \A c \in Conn : link'[c] = "free" => link[c] = "free"
    BY <1>7 DEF Crash, taskVars
  <2>3. FreeAreCold'
    BY <1>1, <2>2 DEF FreshInv, FreeAreCold
  <2>4. \A h \in Client : FreshOK(h)'
    BY <2>1, <2>2 DEF FreshOK
  <2> QED
    BY <2>3, <2>4 DEF FreshInv
<1> QED
  BY <1>1, <1>2, <1>3, <1>4, <1>5, <1>6, <1>7 DEF Next

\* While every instance is up, answers in time and accepts connections, a
\* request fails only when each upstream had a pooled socket that the API had
\* closed: an attempt on a new stream never fails (proxy.rs).
THEOREM FailuresAreStalePools == Spec => []CalmFailureIsStalePools
<1>1. ASSUME TypeInv, FreshInv PROVE CalmFailureIsStalePools
  <2>1. ASSUME NEW h \in Client, pc[h] = "badGateway", calm[h],
               NEW i \in DOMAIN attempts[h]
        PROVE  attempts[h][i].how = "pooled"
    <3>1. attempts[h] \in Seq(Attempt)
      BY <1>1 DEF TypeInv, TypeOK, HistoryTypeOK
    <3>2. i \in 1 .. Len(attempts[h]) /\ attempts[h][i] \in Attempt
      BY <3>1
    <3>3. attempts[h][i].how # "fresh"
      BY <1>1, <2>1, <3>2 DEF FreshInv, FreshOK, Forwarding, PC
    <3> QED
      BY <3>2, <3>3 DEF Attempt
  <2> QED
    BY <2>1 DEF CalmFailureIsStalePools
<1> QED
  BY InitTypeInv, NextTypeInv, InitConnInv, NextConnInv, InitFresh, NextFresh,
     <1>1, PTL DEF Spec
-----------------------------------------------------------------------------
(* No more sockets than clients: a connect begins only when every          *)
(* connection to the upstream is in the hands of another task.             *)
Conns(u) == {c \in Conn : link[c] # "free" /\ peer[c] = u}
Connecting(u) == {h \in Client : pc[h] = "connect" /\ Target(h) = u}
Bound(u) ==
    /\ IsFiniteSet(Conns(u))
    /\ Cardinality(Conns(u)) + Cardinality(Connecting(u)) <= Cardinality(Client)

SocketInv == \A u \in Upstream : Bound(u)

LEMMA ConnectingFinite ==
    ASSUME NEW u
    PROVE  /\ IsFiniteSet(Connecting(u)) /\ Cardinality(Connecting(u)) \in Nat
           /\ IsFiniteSet(Client) /\ Cardinality(Client) \in Nat
<1>1. Connecting(u) \in SUBSET Client
  BY DEF Connecting
<1>2. IsFiniteSet(Connecting(u)) /\ IsFiniteSet(Client)
  BY <1>1, ClientAssumption, FS_Subset
<1> QED
  BY <1>2, FS_CardinalityType

\* A step that connects nothing and begins no connect.
LEMMA BoundShrinks ==
    ASSUME NEW u \in Upstream, Bound(u),
           Conns(u)' \subseteq Conns(u), Connecting(u)' \subseteq Connecting(u)
    PROVE  Bound(u)'
<1>1. PICK old, new : old = Conns(u) /\ new = Conns(u)'
  OBVIOUS
<1>2. PICK o, n : o = Connecting(u) /\ n = Connecting(u)'
  OBVIOUS
<1>3. /\ IsFiniteSet(old) /\ IsFiniteSet(o)
      /\ Cardinality(old) + Cardinality(o) <= Cardinality(Client)
  BY <1>1, <1>2, ConnectingFinite DEF Bound
<1>4. /\ IsFiniteSet(new) /\ Cardinality(new) <= Cardinality(old)
      /\ IsFiniteSet(n) /\ Cardinality(n) <= Cardinality(o)
  BY <1>1, <1>2, <1>3, FS_Subset
<1>5. Cardinality(new) + Cardinality(n) <= Cardinality(Client)
  <2>1. /\ Cardinality(old) \in Nat /\ Cardinality(new) \in Nat
        /\ Cardinality(o) \in Nat /\ Cardinality(n) \in Nat
        /\ Cardinality(Client) \in Nat
    BY <1>3, <1>4, ConnectingFinite, FS_CardinalityType
  <2> QED
    BY <1>3, <1>4, <2>1
<1>6. Bound(u)' <=> (IsFiniteSet(new) /\ Cardinality(new) + Cardinality(n)
                                          <= Cardinality(Client))
  BY <1>1, <1>2 DEF Bound
<1> QED
  BY <1>4, <1>5, <1>6

\* An empty pool leaves only the streams of the other tasks.
LEMMA ConnsAreHeld ==
    ASSUME TypeInv, ConnInv, AccountInv, NEW u \in Upstream, PoolEmpty(u),
           NEW h \in Client, pc[h] = "acquire"
    PROVE  /\ IsFiniteSet(Conns(u))
           /\ Cardinality(Conns(u)) + Cardinality(Connecting(u) \cup {h})
                <= Cardinality(Client)
<1> DEFINE K == Connecting(u) \cup {h}
           S == Client \ K
           f == [c \in Conns(u) |-> CHOOSE g \in Client : stream[g] = c]
<1>1. ASSUME NEW c \in Conns(u)
      PROVE  \E g \in Client : stream[g] = c
  <2>1. c \in Conn /\ link[c] # "free" /\ peer[c] = u
    BY DEF Conns
  <2>2. Held(c) \/ Pooled(c)
    BY <2>1 DEF AccountInv
  <2>3. ASSUME NEW v \in Upstream, NEW i \in DOMAIN idle[v], idle[v][i] = c
        PROVE  FALSE
    <3>1. v = u
      BY <2>1, <2>3 DEF ConnInv, AllPooledOK, PooledOK
    <3> QED
      BY <2>3, <3>1 DEF PoolEmpty
  <2> QED
    BY <2>2, <2>3 DEF Held, Pooled
<1>2. \A g \in Client : stream[g] \in Conn => g \in S
  <2>1. ASSUME NEW g \in Client, stream[g] \in Conn PROVE g \notin K
    <3>1. pc[g] \in Holding
      BY <2>1, NoneAssumption DEF TypeInv, LocalsOK
    <3> QED
      BY <3>1 DEF Holding, Connecting
  <2> QED
    BY <2>1
<1>3. \A c \in Conns(u) : f[c] \in S /\ stream[f[c]] = c
  <2>1. \A c \in Conns(u) : f[c] \in Client /\ stream[f[c]] = c
    BY <1>1
  <2>2. Conns(u) \subseteq Conn
    BY DEF Conns
  <2> HIDE DEF f, S
  <2> QED
    BY <1>2, <2>1, <2>2
<1>4. f \in Injection(Conns(u), S)
  <2>1. f = [c \in Conns(u) |-> f[c]]
    OBVIOUS
  <2> HIDE DEF f, S
  <2>2. f \in [Conns(u) -> S]
    BY <1>3, <2>1
  <2> QED
    BY <1>3, <2>2 DEF Injection, IsInjective
<1>5. IsFiniteSet(K) /\ IsFiniteSet(S)
  <2>1. K \in SUBSET Client /\ S \in SUBSET Client
    BY DEF Connecting
  <2> QED
    BY <2>1, ClientAssumption, FS_Subset
<1>6. Cardinality(K) + Cardinality(S) = Cardinality(Client)
  <2>1. K \cup S = Client /\ K \cap S = {}
    BY DEF Connecting
  <2> HIDE DEF K, S
  <2>2. Cardinality(Client) = Cardinality(K) + Cardinality(S) - Cardinality({})
    BY <1>5, <2>1, FS_Union
  <2> QED
    BY <1>5, <2>2, FS_EmptySet, FS_CardinalityType
<1> HIDE DEF f, S
<1>7. IsFiniteSet(Conns(u)) /\ Cardinality(Conns(u)) <= Cardinality(S)
  BY <1>4, <1>5, FS_Injection
<1> HIDE DEF K
<1>8. Cardinality(Conns(u)) + Cardinality(K) <= Cardinality(Client)
  <2>1. /\ Cardinality(K) \in Nat /\ Cardinality(S) \in Nat
        /\ Cardinality(Conns(u)) \in Nat
    BY <1>5, <1>7, FS_CardinalityType
  <2> QED
    BY <1>6, <1>7, <2>1
<1> QED
  BY <1>7, <1>8 DEF K

\* acquire finds the pool empty: this task is one more that connects.
LEMMA AcquireEmptySocket ==
    ASSUME TypeInv, ConnInv, AccountInv, SocketInv, NEW h \in Client,
           AcquireEmpty(h)
    PROVE  SocketInv'
<1>1. PICK t : t = Target(h)
  OBVIOUS
<1>2. /\ pc[h] = "acquire" /\ PoolEmpty(t) /\ t \in Upstream
      /\ pc' = [pc EXCEPT ![h] = "connect"]
      /\ UNCHANGED <<first, offset, link, peer>>
  BY <1>1, TargetType DEF AcquireEmpty, Goto, connVars, TypeInv
<1>3. \A u : Conns(u)' = Conns(u)
  BY <1>2 DEF Conns
<1>4. \A g \in Client : Target(g)' = Target(g)
  BY <1>2 DEF Target
<1>5. \A g \in Client : pc'[g] = IF g = h THEN "connect" ELSE pc[g]
  BY <1>2 DEF TypeInv, TypeOK, TaskTypeOK
<1>6. ASSUME NEW u \in Upstream, u # t PROVE Bound(u)'
  <2>1. Connecting(u)' \subseteq Connecting(u)
    BY <1>1, <1>4, <1>5, <1>6 DEF Connecting
  <2> QED
    BY <1>3, <2>1, BoundShrinks DEF SocketInv
<1>7. Bound(t)'
  <2>1. Connecting(t)' = Connecting(t) \cup {h}
    BY <1>1, <1>4, <1>5 DEF Connecting
  <2>2. /\ IsFiniteSet(Conns(t))
        /\ Cardinality(Conns(t)) + Cardinality(Connecting(t) \cup {h})
             <= Cardinality(Client)
    BY <1>2, ConnsAreHeld
  <2>3. Conns(t)' = Conns(t)
    BY <1>3
  <2> QED
    BY <2>1, <2>2, <2>3 DEF Bound
<1> QED
  BY <1>6, <1>7 DEF SocketInv

\* connect: one connection more, and one task less that connects.
LEMMA ConnectSocket ==
    ASSUME TypeInv, SocketInv, NEW h \in Client, Connect(h)
    PROVE  SocketInv'
<1>1. PICK t : t = Target(h)
  OBVIOUS
<1>2. PICK c \in Conn : /\ link[c] = "free"
                        /\ link' = [link EXCEPT ![c] = "open"]
                        /\ peer' = [peer EXCEPT ![c] = t]
  BY <1>1 DEF Connect, LowestFree
<1>3. /\ pc[h] = "connect" /\ t \in Upstream
      /\ pc' = [pc EXCEPT ![h] = "write"] /\ UNCHANGED <<first, offset>>
  BY <1>1, TargetType DEF Connect, Goto, TypeInv
<1>4. \A g \in Client : Target(g)' = Target(g)
  BY <1>3 DEF Target
<1>5. \A g \in Client : pc'[g] = IF g = h THEN "write" ELSE pc[g]
  BY <1>3 DEF TypeInv, TypeOK, TaskTypeOK
<1>6. \A d \in Conn : /\ link'[d] = IF d = c THEN "open" ELSE link[d]
                      /\ peer'[d] = IF d = c THEN t ELSE peer[d]
  BY <1>2 DEF TypeInv, TypeOK, ConnTypeOK
<1>7. ASSUME NEW u \in Upstream, u # t PROVE Bound(u)'
  <2>1. Conns(u)' \subseteq Conns(u)
    BY <1>6, <1>7 DEF Conns
  <2>2. Connecting(u)' \subseteq Connecting(u)
    BY <1>4, <1>5 DEF Connecting
  <2> QED
    BY <2>1, <2>2, BoundShrinks DEF SocketInv
<1>8. Bound(t)'
  <2>1. PICK old, o : old = Conns(t) /\ o = Connecting(t)
    OBVIOUS
  <2>2. c \notin old /\ Conns(t)' = old \cup {c}
    BY <1>2, <1>6, <2>1 DEF Conns
  <2>3. h \in o /\ Connecting(t)' = o \ {h}
    <3>1. h \in o
      BY <1>1, <1>3, <2>1 DEF Connecting
    <3>2. ASSUME NEW g \in Client
          PROVE  g \in Connecting(t)' <=> g \in o /\ g # h
      BY <1>4, <1>5, <2>1 DEF Connecting
    <3>3. Connecting(t)' \subseteq Client /\ o \subseteq Client
      BY <2>1 DEF Connecting
    <3> QED
      BY <3>1, <3>2, <3>3
  <2>4. /\ IsFiniteSet(old) /\ IsFiniteSet(o)
        /\ Cardinality(old) + Cardinality(o) <= Cardinality(Client)
    BY <1>3, <2>1, ConnectingFinite DEF SocketInv, Bound
  <2>5. /\ IsFiniteSet(old \cup {c})
        /\ Cardinality(old \cup {c}) = Cardinality(old) + 1
        /\ Cardinality(o \ {h}) = Cardinality(o) - 1
    BY <2>2, <2>3, <2>4, FS_AddElement, FS_RemoveElement
  <2>6. /\ Cardinality(old) \in Nat /\ Cardinality(o) \in Nat
        /\ Cardinality(Client) \in Nat
    BY <2>4, ConnectingFinite, FS_CardinalityType
  <2>7. Cardinality(old \cup {c}) + Cardinality(o \ {h}) <= Cardinality(Client)
    BY <2>4, <2>5, <2>6
  <2> QED
    BY <2>2, <2>3, <2>5, <2>7 DEF Bound
<1> QED
  BY <1>7, <1>8 DEF SocketInv

\* Every other step.
LEMMA ShrinkStep ==
    ASSUME TypeInv, SocketInv,
           \A c \in Conn : link'[c] # "free" =>
                link[c] # "free" /\ peer'[c] = peer[c],
           \A g \in Client : pc'[g] = "connect" =>
                /\ pc[g] = "connect"
                /\ first'[g] = first[g] /\ offset'[g] = offset[g]
    PROVE  SocketInv'
<1>1. ASSUME NEW u \in Upstream PROVE Bound(u)'
  <2>1. Conns(u)' \subseteq Conns(u)
    BY DEF Conns
  <2>2. Connecting(u)' \subseteq Connecting(u)
    BY DEF Connecting, Target
  <2> QED
    BY <2>1, <2>2, BoundShrinks DEF SocketInv
<1> QED
  BY <1>1 DEF SocketInv

LEMMA HangupShrinks ==
    ASSUME NEW conns, Hangup(conns), NEW c \in Conn, link'[c] # "free"
    PROVE  link[c] # "free" /\ peer'[c] = peer[c]
BY DEF Hangup

LEMMA TaskSocket ==
    ASSUME TypeInv, ConnInv, AccountInv, SocketInv, NEW h \in Client,
           Accept(h) \/ Task(h)
    PROVE  SocketInv'
<1>1. CASE AcquireEmpty(h)
  BY <1>1, AcquireEmptySocket
<1>2. CASE Connect(h)
  BY <1>2, ConnectSocket
<1>3. CASE ~AcquireEmpty(h) /\ ~Connect(h)
  <2>1. pc'[h] # "connect"
    BY <1>3 DEF Accept, Task, ReadRequest, CloseReading, AcquireIdle,
       ConnectFail, Write, WriteFail, ReadResponse, ReadEof, ReadTimeout,
       FailAttempt, Release, Evict, Respond, RespondFail, SendBadGateway,
       Goto, TypeInv, TypeOK, TaskTypeOK
  <2>2. \A g \in Client : pc'[g] = "connect" =>
            /\ pc[g] = "connect"
            /\ first'[g] = first[g] /\ offset'[g] = offset[g]
    BY <2>1, OthersTried DEF SameTries
  <2>3. ASSUME NEW c \in Conn, link'[c] # "free"
        PROVE  link[c] # "free" /\ peer'[c] = peer[c]
    <3>1. UNCHANGED <<link, peer>> \/ \E conns : Hangup(conns)
      BY <1>3 DEF Accept, Task, ReadRequest, CloseReading, AcquireIdle,
         ConnectFail, Write, WriteFail, ReadResponse, ReadEof, ReadTimeout,
         FailAttempt, Release, Evict, Respond, RespondFail, SendBadGateway,
         Settle, connVars
    <3> QED
      BY <2>3, <3>1, HangupShrinks
  <2> QED
    BY <2>2, <2>3, ShrinkStep
<1> QED
  BY <1>1, <1>2, <1>3

LEMMA InitSocket == Init => SocketInv
<1>1. SUFFICES ASSUME Init, NEW u \in Upstream PROVE Bound(u)
  BY DEF SocketInv
<1>2. Conns(u) = {} /\ Connecting(u) = {}
  BY <1>1 DEF Init, Conns, Connecting
<1>3. Cardinality(Client) \in Nat
  BY ConnectingFinite
<1> QED
  BY <1>2, <1>3, FS_EmptySet DEF Bound

LEMMA NextSocket ==
    TypeInv /\ ConnInv /\ AccountInv /\ SocketInv /\ [Next]_vars => SocketInv'
<1>1. SUFFICES ASSUME TypeInv, ConnInv, AccountInv, SocketInv, [Next]_vars
               PROVE  SocketInv'
  OBVIOUS
<1>2. ASSUME NEW h \in Client, Accept(h) \/ Task(h) PROVE SocketInv'
  BY <1>1, <1>2, TaskSocket
<1>3. ASSUME Exit PROVE SocketInv'
  <2>1. /\ \A h \in Client : pc'[h] # "connect"
        /\ \A c \in Conn : link'[c] = "free"
    BY <1>3 DEF Exit, Hangup
  <2> QED
    BY <1>1, <2>1, ShrinkStep
<1>4. ASSUME \/ \E h \in Client, r \in Request : SendRequest(h, r)
             \/ \E c \in Conn : Serve(c) \/ CloseIdle(c)
             \/ \E u \in Upstream : Crash(u) \/ Restart(u)
             \/ UNCHANGED vars
      PROVE  SocketInv'
  <2>1. UNCHANGED <<pc, first, offset, peer>>
    BY <1>4 DEF SendRequest, Serve, CloseIdle, Crash, Restart, vars, taskVars,
       connVars
  <2>2. \A c \in Conn : link'[c] # "free" => link[c] # "free"
    BY <1>1, <1>4 DEF SendRequest, Serve, CloseIdle, Crash, Restart, vars,
       connVars, TypeInv, TypeOK, ConnTypeOK
  <2> QED
    BY <1>1, <2>1, <2>2, ShrinkStep
<1> QED
  BY <1>1, <1>2, <1>3, <1>4 DEF Next

\* There are never more sockets to an upstream than client connections, and
\* no pool outgrows its capacity (pool.rs).
THEOREM SocketsStayBounded == Spec => []SocketsBounded
<1>1. AccountInv /\ SocketInv => SocketsBounded
  BY DEF AccountInv, PoolsFit, SocketInv, Bound, Conns, Connecting, SocketsBounded
<1> QED
  BY InitTypeInv, NextTypeInv, InitConnInv, NextConnInv, InitAccount,
     NextAccount, InitSocket, NextSocket, <1>1, PTL DEF Spec
-----------------------------------------------------------------------------
(* The tickets of the balancer.                                            *)

\* The requests that were read, or lost before.
Taken == {r \in Request : status[r] # "unsent" /\ \A h \in Client : inbox[h] # r}

\* A request on the wire was sent, by one client.
WireInv ==
    \A h \in Client : inbox[h] # None =>
        /\ status[inbox[h]] # "unsent"
        /\ \A g \in Client : inbox[g] = inbox[h] => g = h

\* The upstreams before that of the next ticket are one request ahead.
Ahead(p) ==
    \E q \in Nat : \A u \in Upstream : starts[u] = IF u < p THEN q + 1 ELSE q

\* The counter has not wrapped, or makes no difference when it does.
NeverWraps == IsFiniteSet(Request) /\ Cardinality(Request) < CounterMod

TicketInv ==
    /\ WireInv
    /\ NeverWraps => next <= Cardinality(Taken)
    /\ Ahead(next % UpstreamCount)

\* The remainders go round.
LEMMA RemaindersGoRound ==
    ASSUME NEW n \in Nat
    PROVE  (n + 1) % UpstreamCount
             = IF (n % UpstreamCount) + 1 = UpstreamCount THEN 0
               ELSE (n % UpstreamCount) + 1
<1> DEFINE U == UpstreamCount
<1> DEFINE d == n \div U
<1> DEFINE p == n % U
<1>1. U \in Nat \ {0}
  BY UpstreamCountAssumption
<1>2. d \in Nat /\ p \in 0 .. U - 1 /\ n = U * d + p
  BY <1>1
<1> DEFINE e == (n + 1) \div U
<1> DEFINE r == (n + 1) % U
<1>3. e \in Nat /\ r \in 0 .. U - 1 /\ n + 1 = U * e + r
  BY <1>1
<1> HIDE DEF U, d, p, e, r
<1>4. U * d + p + 1 = U * e + r
  BY <1>1, <1>2, <1>3
<1>5. U * (e - d) = p + 1 - r
  BY <1>1, <1>2, <1>3, <1>4
<1> DEFINE k == e - d
<1>6. k \in Int /\ U * k = p + 1 - r
  BY <1>2, <1>3, <1>5
<1> HIDE DEF k
<1>7. p + 1 - r <= U /\ p + 1 - r > -U
  BY <1>1, <1>2, <1>3
<1>8. k < 2
  <2> SUFFICES ASSUME k >= 2 PROVE FALSE
    BY <1>6
  <2>1. PICK j \in Nat : k = j + 2
    BY <1>6
  <2>2. U * k = U * j + U + U /\ U * j \in Nat
    BY <1>1, <2>1
  <2> QED
    BY <1>1, <1>2, <1>3, <1>6, <1>7, <2>2
<1>9. k > -1
  <2> SUFFICES ASSUME k <= -1 PROVE FALSE
    BY <1>6
  <2>1. PICK j \in Nat : k = -1 - j
    BY <1>6
  <2>2. U * k = -U - U * j /\ U * j \in Nat
    BY <1>1, <2>1
  <2> QED
    BY <1>1, <1>2, <1>3, <1>6, <1>7, <2>2
<1>10. k = 0 \/ k = 1
  BY <1>6, <1>8, <1>9
<1>11. CASE k = 0
  <2>1. U * k = 0
    BY <1>1, <1>11
  <2> QED
    BY <1>1, <1>2, <1>3, <1>6, <2>1 DEF U, p, r
<1>12. CASE k = 1
  <2>1. U * k = U
    BY <1>1, <1>12
  <2>2. r = 0 /\ p + 1 = U
    BY <1>1, <1>2, <1>3, <1>6, <2>1
  <2> QED
    BY <2>2 DEF U, p, r
<1> QED
  BY <1>10, <1>11, <1>12

\* The counter goes on to the next upstream, unless it wraps out of step.
LEMMA NextTicket ==
    ASSUME NEW n \in 0 .. CounterMod - 1,
           CounterMod % UpstreamCount = 0 \/ n + 1 < CounterMod
    PROVE  ((n + 1) % CounterMod) % UpstreamCount
             = IF (n % UpstreamCount) + 1 = UpstreamCount THEN 0
               ELSE (n % UpstreamCount) + 1
<1>1. n \in Nat /\ CounterMod \in Nat \ {0} /\ UpstreamCount \in Nat \ {0}
  BY CounterModAssumption, UpstreamCountAssumption
<1>2. CASE n + 1 < CounterMod
  <2>1. (n + 1) % CounterMod = n + 1
    BY <1>1, <1>2
  <2> QED
    BY <1>1, <2>1, RemaindersGoRound
<1>3. CASE n + 1 = CounterMod /\ CounterMod % UpstreamCount = 0
  <2>1. (n + 1) % CounterMod = 0 /\ 0 % UpstreamCount = 0
    BY <1>1, <1>3
  <2>2. (n + 1) % UpstreamCount = 0
    BY <1>3
  <2>3. (n % UpstreamCount) + 1 # 0
    BY <1>1
  <2> QED
    BY <1>1, <2>1, <2>2, <2>3, RemaindersGoRound
<1> QED
  BY <1>1, <1>2, <1>3

\* A step that reads no request loses none, and sends none twice.
LEMMA WireFrame ==
    ASSUME TypeInv, TicketInv, UNCHANGED <<next, starts>>,
           \A r \in Request : status[r] # "unsent" => status'[r] # "unsent",
           \A h \in Client : inbox'[h] \in {inbox[h], None}
    PROVE  TicketInv'
<1>1. WireInv'
  <2>1. \A h \in Client : inbox[h] \in Request \cup {None}
    BY DEF TypeInv, TypeOK, TaskTypeOK
  <2> QED
    BY <2>1, NoneAssumption DEF TicketInv, WireInv
<1>2. Taken \subseteq Taken'
  BY NoneAssumption DEF Taken
<1>3. NeverWraps => next' <= Cardinality(Taken')
  <2> SUFFICES ASSUME NeverWraps PROVE next <= Cardinality(Taken')
    OBVIOUS
  <2>1. IsFiniteSet(Taken')
    <3>1. Taken' \subseteq Request
      BY DEF Taken
    <3> QED
      BY <3>1, FS_Subset DEF NeverWraps
  <2>2. Cardinality(Taken) <= Cardinality(Taken')
    BY <1>2, <2>1, FS_Subset
  <2>3. Cardinality(Taken) \in Nat /\ Cardinality(Taken') \in Nat
    BY <1>2, <2>1, FS_Subset, FS_CardinalityType
  <2>4. next \in Nat /\ next <= Cardinality(Taken)
    BY CounterModAssumption DEF TypeInv, TypeOK, SharedTypeOK, TicketInv
  <2> QED
    BY <2>2, <2>3, <2>4
<1>4. Ahead(next % UpstreamCount)'
  BY DEF TicketInv, Ahead
<1> QED
  BY <1>1, <1>3, <1>4 DEF TicketInv, NeverWraps

\* A client sends a request on one connection.
LEMMA SendTicket ==
    ASSUME TypeInv, TicketInv, NEW h \in Client, NEW r \in Request, SendRequest(h, r)
    PROVE  TicketInv'
<1>1. /\ inbox \in [Client -> Request \cup {None}] /\ status \in [Request -> Status]
      /\ inbox' = [inbox EXCEPT ![h] = r] /\ status' = [status EXCEPT ![r] = "pending"]
      /\ status[r] = "unsent" /\ inbox[h] = None /\ UNCHANGED <<next, starts>>
  BY DEF SendRequest, TypeInv, TypeOK, TaskTypeOK, ClientTypeOK, historyVars
<1>2. \A g \in Client : inbox[g] # r
  BY <1>1, NoneAssumption DEF TicketInv, WireInv
<1>3. WireInv'
  BY <1>1, <1>2, NoneAssumption DEF TicketInv, WireInv
<1>4. Taken' = Taken
  <2>1. r \notin Taken /\ r \notin Taken'
    BY <1>1 DEF Taken
  <2>2. \A s \in Request : s # r =>
            /\ status'[s] = status[s]
            /\ \A g \in Client : inbox'[g] = s <=> inbox[g] = s
    BY <1>1, NoneAssumption
  <2>3. \A s \in Request : s # r => (s \in Taken <=> s \in Taken')
    BY <2>2 DEF Taken
  <2>4. Taken \subseteq Request /\ Taken' \subseteq Request
    BY DEF Taken
  <2> QED
    BY <2>1, <2>3, <2>4
<1> QED
  BY <1>1, <1>3, <1>4 DEF TicketInv, Ahead, NeverWraps

\* A task that reads a request takes the ticket of it.
LEMMA ReadTicket ==
    ASSUME TypeInv, TicketInv, NEW h \in Client, ReadRequest(h),
           CounterMod % UpstreamCount = 0 \/ NeverWraps
    PROVE  TicketInv'
<1> DEFINE r == inbox[h]
<1> DEFINE p == next % UpstreamCount
<1>1. /\ inbox \in [Client -> Request \cup {None}] /\ starts \in [Upstream -> Nat]
      /\ next \in 0 .. CounterMod - 1 /\ next \in Nat
  BY CounterModAssumption
     DEF TypeInv, TypeOK, SharedTypeOK, TaskTypeOK, HistoryTypeOK
<1>2. /\ r \in Request /\ inbox' = [inbox EXCEPT ![h] = None] /\ UNCHANGED status
      /\ next' = (next + 1) % CounterMod /\ starts' = [starts EXCEPT ![p] = @ + 1]
  BY <1>1 DEF ReadRequest, FetchAdd, FirstOf, clientVars
<1>3. WireInv'
  BY <1>1, <1>2 DEF TicketInv, WireInv
<1>4. Taken' = Taken \cup {r} /\ r \notin Taken
  <2>1. status[r] # "unsent" /\ \A g \in Client : inbox[g] = r => g = h
    BY <1>2, NoneAssumption DEF TicketInv, WireInv
  <2>2. r \in Taken' /\ r \notin Taken
    BY <1>1, <1>2, <2>1, NoneAssumption DEF Taken
  <2>3. \A s \in Request : s # r =>
            \A g \in Client : inbox'[g] = s <=> inbox[g] = s
    BY <1>1, <1>2, NoneAssumption
  <2>4. \A s \in Request : s # r => (s \in Taken <=> s \in Taken')
    BY <1>2, <2>3 DEF Taken
  <2>5. Taken \subseteq Request /\ Taken' \subseteq Request
    BY DEF Taken
  <2> QED
    BY <1>2, <2>2, <2>4, <2>5
<1> HIDE DEF r
<1>5. ASSUME NeverWraps
      PROVE  next + 1 < CounterMod /\ next + 1 <= Cardinality(Taken')
  <2>1. IsFiniteSet(Taken) /\ Taken' \subseteq Request
    <3>1. Taken \subseteq Request /\ Taken' \subseteq Request
      BY DEF Taken
    <3> QED
      BY <1>5, <3>1, FS_Subset DEF NeverWraps
  <2>2. Cardinality(Taken') = Cardinality(Taken) + 1 /\ Cardinality(Taken) \in Nat
    BY <1>4, <2>1, FS_AddElement, FS_CardinalityType
  <2>3. Cardinality(Taken') <= Cardinality(Request) /\ Cardinality(Request) \in Nat
    BY <1>5, <2>1, FS_Subset, FS_CardinalityType DEF NeverWraps
  <2>4. next <= Cardinality(Taken) /\ Cardinality(Request) < CounterMod
    BY <1>5 DEF TicketInv, NeverWraps
  <2> QED
    BY <1>1, <2>2, <2>3, <2>4, CounterModAssumption
<1>6. NeverWraps => next' <= Cardinality(Taken')
  <2> SUFFICES ASSUME NeverWraps PROVE next' <= Cardinality(Taken')
    OBVIOUS
  <2>1. next + 1 < CounterMod /\ next + 1 <= Cardinality(Taken')
    BY <1>5
  <2>2. next' = next + 1
    BY <1>1, <1>2, <2>1, CounterModAssumption
  <2> QED
    BY <2>1, <2>2
<1>7. next' % UpstreamCount = IF p + 1 = UpstreamCount THEN 0 ELSE p + 1
  <2>1. CounterMod % UpstreamCount = 0 \/ next + 1 < CounterMod
    BY <1>5
  <2> QED
    BY <1>1, <1>2, <2>1, NextTicket
<1>8. Ahead(next % UpstreamCount)'
  <2>1. PICK q \in Nat :
          \A u \in Upstream : starts[u] = IF u < p THEN q + 1 ELSE q
    BY DEF TicketInv, Ahead
  <2>2. UpstreamCount \in Nat \ {0} /\ p \in 0 .. UpstreamCount - 1
    BY <1>1, UpstreamCountAssumption
  <2> HIDE DEF p
  <2>3. ASSUME NEW u \in Upstream
        PROVE  starts'[u] = IF u < p + 1 THEN q + 1 ELSE q
    <3>1. u \in Nat /\ starts[u] = (IF u < p THEN q + 1 ELSE q)
      BY <2>1, <2>2 DEF Upstream
    <3>2. starts'[u] = IF u = p THEN starts[u] + 1 ELSE starts[u]
      BY <1>1, <1>2
    <3> QED
      BY <2>2, <3>1, <3>2
  <2>4. CASE p + 1 = UpstreamCount
    <3>1. \A u \in Upstream : u < p + 1 /\ ~(u < 0)
      BY <2>2, <2>4 DEF Upstream
    <3>2. \A u \in Upstream : starts'[u] = IF u < 0 THEN (q + 1) + 1 ELSE q + 1
      BY <2>3, <3>1
    <3>3. q + 1 \in Nat
      BY <2>1
    <3>4. \E k \in Nat : \A u \in Upstream : starts'[u] = IF u < 0 THEN k + 1 ELSE k
      BY <3>2, <3>3
    <3> QED
      BY <1>7, <2>4, <3>4 DEF Ahead
  <2>5. CASE p + 1 # UpstreamCount
    <3>1. \E k \in Nat : \A u \in Upstream :
                starts'[u] = IF u < p + 1 THEN k + 1 ELSE k
      BY <2>1, <2>3
    <3> QED
      BY <1>7, <2>5, <3>1 DEF Ahead
  <2> QED
    BY <2>4, <2>5
<1> QED
  BY <1>3, <1>6, <1>8 DEF TicketInv, NeverWraps

LEMMA NextTickets ==
    ASSUME CounterMod % UpstreamCount = 0 \/ NeverWraps
    PROVE  TypeInv /\ TicketInv /\ [Next]_vars => TicketInv'
<1> SUFFICES ASSUME TypeInv, TicketInv, [Next]_vars PROVE TicketInv'
  OBVIOUS
<1>1. /\ status \in [Request -> Status] /\ inbox \in [Client -> Request \cup {None}]
      /\ request \in [Client -> Request \cup {None}]
  BY DEF TypeInv, TypeOK, TaskTypeOK, ClientTypeOK
<1>2. ASSUME NEW h \in Client, ReadRequest(h) PROVE TicketInv'
  BY <1>2, ReadTicket
<1>3. ASSUME NEW h \in Client, NEW r \in Request, SendRequest(h, r)
      PROVE  TicketInv'
  BY <1>3, SendTicket
<1>4. ASSUME Exit PROVE TicketInv'
  BY <1>1, <1>4, WireFrame DEF Exit
<1>5. ASSUME NEW h \in Client, CloseReading(h) PROVE TicketInv'
  BY <1>1, <1>5, WireFrame DEF CloseReading, historyVars
<1>6. ASSUME NEW h \in Client, Respond(h) \/ RespondFail(h) \/ SendBadGateway(h)
      PROVE  TicketInv'
  <2>1. PICK outcome \in {"answered", "dropped", "refused"} : Settle(h, outcome)
    BY <1>6 DEF Respond, RespondFail, SendBadGateway
  <2> QED
    BY <1>1, <2>1, WireFrame DEF Settle
<1>7. ASSUME UNCHANGED <<next, starts, status, inbox>> PROVE TicketInv'
  BY <1>7, WireFrame
<1>8. ASSUME NEW h \in Client,
             \/ Accept(h) \/ AcquireIdle(h) \/ AcquireEmpty(h) \/ Connect(h)
             \/ ConnectFail(h) \/ Write(h) \/ WriteFail(h) \/ ReadResponse(h)
             \/ ReadEof(h) \/ ReadTimeout(h) \/ Release(h) \/ Evict(h)
      PROVE  UNCHANGED <<next, starts, status, inbox>>
  BY <1>8 DEF Accept, AcquireIdle, AcquireEmpty, Connect, ConnectFail, Write,
     WriteFail, ReadResponse, ReadEof, ReadTimeout, FailAttempt, Release, Evict,
     clientVars, historyVars
<1>9. ASSUME \/ \E c \in Conn : Serve(c) \/ CloseIdle(c)
             \/ \E u \in Upstream : Crash(u) \/ Restart(u)
             \/ UNCHANGED vars
      PROVE  UNCHANGED <<next, starts, status, inbox>>
  BY <1>9 DEF Serve, CloseIdle, Crash, Restart, vars, taskVars, clientVars,
     historyVars
<1> QED
  BY <1>2, <1>3, <1>4, <1>5, <1>6, <1>7, <1>8, <1>9 DEF Next, Task

\* However the tasks interleave, the numbers of requests that started at each
\* upstream differ by at most one: fetch_add gives every task a ticket of its
\* own.  It holds for ever if the number of upstreams divides 2^64, as that of
\* the two of docker-compose.yml does; any other number of them stays balanced
\* until the counter wraps, for fewer than 2^64 requests (round_robin.rs:18-25).
THEOREM TicketsAreBalanced ==
    ASSUME CounterMod % UpstreamCount = 0 \/ NeverWraps
    PROVE  Spec => []RoundRobinBalanced
<1>1. Init => TicketInv
  <2> SUFFICES ASSUME Init PROVE TicketInv
    OBVIOUS
  <2>1. WireInv
    BY DEF Init, WireInv
  <2>2. next = 0 /\ Taken = {}
    BY DEF Init, RoundRobinInit, Taken
  <2>3. next <= Cardinality(Taken)
    BY <2>2, FS_EmptySet
  <2>4. 0 % UpstreamCount = 0
    BY UpstreamCountAssumption
  <2>5. \A u \in Upstream : ~(u < 0) /\ starts[u] = 0
    BY UpstreamCountAssumption DEF Upstream, Init
  <2>6. Ahead(next % UpstreamCount)
    BY <2>2, <2>4, <2>5 DEF Ahead
  <2> QED
    BY <2>1, <2>3, <2>6 DEF TicketInv
<1>2. TypeInv /\ TicketInv => RoundRobinBalanced
  <2> SUFFICES ASSUME TicketInv, NEW u \in Upstream, NEW v \in Upstream
               PROVE  starts[u] - starts[v] \in -1 .. 1
    BY DEF RoundRobinBalanced
  <2> DEFINE p == next % UpstreamCount
  <2>1. PICK q \in Nat :
          \A w \in Upstream : starts[w] = IF w < p THEN q + 1 ELSE q
    BY DEF TicketInv, Ahead
  <2>2. starts[u] \in {q, q + 1} /\ starts[v] \in {q, q + 1}
    BY <2>1
  <2> QED
    BY <2>1, <2>2
<1> QED
  BY InitTypeInv, NextTypeInv, <1>1, NextTickets, <1>2, PTL DEF Spec
=============================================================================
