---------------------------- MODULE MCKeepAlive ----------------------------
(***************************************************************************)
(* Instances of KeepAlive for TLC.                                         *)
(***************************************************************************)
EXTENDS KeepAlive

\* Without a body; one byte; one byte announced twice; a length that is no
\* number, and one that no integer holds.
Requests == {[lengths |-> << >>, body |-> 0],
             [lengths |-> <<<<0, 1>>>>, body |-> 1],
             [lengths |-> <<<<10>>>>, body |-> 1],
             [lengths |-> <<<<1, 7>>, <<1>>>>, body |-> 1]}

\* A body of one byte with its length, and without it, as a chunked one.
Responses == {[lengths |-> <<<<1>>>>, body |-> 1],
              [lengths |-> << >>, body |-> 1]}
=============================================================================
