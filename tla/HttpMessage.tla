---------------------------- MODULE HttpMessage ----------------------------
(***************************************************************************)
(* How read_http_message (apps/load-balancer/src/proxy.rs) recognises a    *)
(* message in the bytes it has read.  A stream is a sequence of units: a   *)
(* header line, the two halves of the empty line that ends the headers     *)
(* (which may arrive in two reads), a byte of the body.  A unit knows the  *)
(* message it is part of, so that a stray one shows.  The value of a       *)
(* Content-Length line is a sequence of digits, larger numbers standing for *)
(* a character that is not one; case and blanks are left out.              *)
(***************************************************************************)
EXTENDS Integers, Sequences, SequencesExt, FiniteSetsExt

CONSTANT MaxUsize   \* the largest usize: 2^64 - 1

ASSUME MaxUsizeAssumption == MaxUsize \in Nat

Digit == 0 .. 9

Unit(id, kind, value) == [of |-> id, kind |-> kind, value |-> value]

\* The units of message id: `lengths` are the values of its Content-Length
\* lines, `body` the number of bytes that really follow the headers.
Message(id, shape) ==
    <<Unit(id, "line", << >>)>>
    \o [i \in 1 .. Len(shape.lengths) |-> Unit(id, "length", shape.lengths[i])]
    \o <<Unit(id, "cr", << >>), Unit(id, "lf", << >>)>>
    \o [i \in 1 .. shape.body |-> Unit(id, "body", << >>)]

\* What a value means, whatever the width of an integer.
Meaning(value) == FoldLeft(LAMBDA n, d : 10 * n + d, 0, value)
Numeric(value) == value # << >> /\ ToSet(value) \subseteq Digit

\* A sender that announces its body: equal lengths that tell the body's size,
\* or none at all and no body.
Shape == [lengths : Seq(Seq(Nat)), body : Nat]
Framed(shape) ==
    /\ \A i \in 1 .. Len(shape.lengths) :
        /\ shape.lengths[i] = shape.lengths[1]
        /\ Numeric(shape.lengths[i]) /\ Meaning(shape.lengths[i]) = shape.body
    /\ shape.lengths = << >> => shape.body = 0
-----------------------------------------------------------------------------
(* find_header_end: the place where the body starts.                       *)
BodyStarts(out) ==
    {i \in 2 .. Len(out) : out[i].kind = "lf" /\ out[i - 1].kind = "cr"}
HasHeader(out) == BodyStarts(out) # {}
BodyStart(out) == Min(BodyStarts(out))

(* parse_usize: anything that is not a number is 0, large numbers saturate.*)
Wrapped(n) == n % (MaxUsize + 1)   \* faulty: wrapping_add, wrapping_mul
Saturated(n) == IF n > MaxUsize THEN MaxUsize ELSE n

ParseUsize(value) ==
    IF \E i \in 1 .. Len(value) : value[i] \notin Digit THEN 0
    ELSE FoldLeft(LAMBDA n, d : Saturated(Saturated(10 * n) + d), 0, value)

(* parse_content_length: the first such line counts; without one it is 0.  *)
LengthLines(header) == {i \in 1 .. Len(header) : header[i].kind = "length"}
Announced(header) == header[Min(LengthLines(header))].value
ContentLength(header) ==
    IF LengthLines(header) = {} THEN 0 ELSE ParseUsize(Announced(header))

\* The condition of both loops of read_http_message.
HeadersOnly(out) == HasHeader(out)   \* faulty: does not wait for the body
Complete(out) ==
    /\ HasHeader(out)
    /\ Len(out) - BodyStart(out)
         >= ContentLength(SubSeq(out, 1, BodyStart(out)))
=============================================================================
