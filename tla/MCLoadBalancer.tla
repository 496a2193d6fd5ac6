--------------------------- MODULE MCLoadBalancer ---------------------------
(***************************************************************************)
(* Instances of LoadBalancer for TLC.                                      *)
(***************************************************************************)
EXTENDS LoadBalancer, TLC

Conns(n) == 1 .. n

MCConn4 == Conns(4)
MCConn5 == Conns(5)
MCConn6 == Conns(6)

\* Tasks and requests are interchangeable; connection numbers are not, since
\* the lowest free one is taken.
TaskSymmetry == Permutations(Client) \cup Permutations(Request)
=============================================================================
