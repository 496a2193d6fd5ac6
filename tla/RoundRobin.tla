----------------------------- MODULE RoundRobin -----------------------------
(***************************************************************************)
(* The balancer of apps/load-balancer: one atomic counter shared by every  *)
(* connection task.  The counter is a usize that wraps; CounterMod is      *)
(* 2^64 in the program and small in the runs.                              *)
(***************************************************************************)
EXTENDS Integers

CONSTANTS UpstreamCount,   \* number of configured upstreams
          CounterMod       \* the counter wraps here (2^w for a w-bit usize)

\* RoundRobin::new panics on zero upstreams.
ASSUME UpstreamCountAssumption == UpstreamCount \in Nat \ {0}
ASSUME CounterModAssumption == CounterMod \in Nat \ {0}

VARIABLE next

Upstream == 0 .. UpstreamCount - 1

RoundRobinInit == next = 0

\* The upstream a ticket stands for; "value & 1" is "value % 2".
FirstOf(value) == value % UpstreamCount

\* fetch_add(1): the caller gets the old value, nobody else can.
FetchAdd == next' = (next + 1) % CounterMod
=============================================================================
