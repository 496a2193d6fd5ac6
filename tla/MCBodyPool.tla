----------------------------- MODULE MCBodyPool -----------------------------
(***************************************************************************)
(* Instances of BodyPool for TLC.                                          *)
(***************************************************************************)
EXTENDS BodyPool, TLC

\* No limit, nothing allowed, pooled buffers of two bytes, and a limit too
\* large for the pool.
AllLimits == {-1, 0, 2, 3}

BodySymmetry == Permutations(Request) \cup Permutations(Buffer)
=============================================================================
