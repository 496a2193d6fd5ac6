---------------------------- MODULE UpstreamPool ----------------------------
(***************************************************************************)
(* The idle-connection pools of apps/load-balancer, one stack per          *)
(* upstream.  Each operation holds the pool's mutex for its whole body and *)
(* awaits nothing while it holds it, so each is one atomic step.  The      *)
(* operations constrain only idle; the module that uses them says what     *)
(* becomes of the connections themselves.                                  *)
(***************************************************************************)
EXTENDS Integers, Sequences

CONSTANTS Conn,      \* connection numbers
          MaxIdle    \* max_idle: the capacity of a pool

ASSUME ConnAssumption == Conn \subseteq Nat
ASSUME MaxIdleAssumption == MaxIdle \in Nat

VARIABLE idle        \* idle[u]: the pooled connections of upstream u

Entries(stack) == {stack[i] : i \in DOMAIN stack}

PoolEmpty(u) == idle[u] = << >>

\* acquire, when a pooled connection exists: the most recently released one.
Top(u) == idle[u][Len(idle[u])]
Peek(u) == UNCHANGED idle   \* faulty: the connection stays in the pool
Pop(u) == idle' = [idle EXCEPT ![u] = SubSeq(@, 1, Len(@) - 1)]

\* release: keep the connection unless the pool is full.
HasRoomForOneMore(stack) == Len(stack) <= MaxIdle   \* faulty
HasRoom(stack) == Len(stack) < MaxIdle
PushToFirstPool(u, c) ==   \* faulty: every stream to the pool of upstream 0
    idle' = [idle EXCEPT ![0] = IF HasRoom(@) THEN Append(@, c) ELSE @]
Push(u, c) ==
    idle' = [idle EXCEPT ![u] = IF HasRoom(@) THEN Append(@, c) ELSE @]

\* clear_idle: drop every pooled connection of the upstream.
Clear(u) == idle' = [idle EXCEPT ![u] = << >>]
=============================================================================
