---------------------------- MODULE MCVectorize ----------------------------
(***************************************************************************)
(* Instances of Vectorize for TLC.                                         *)
(***************************************************************************)
EXTENDS Vectorize

At(date, ago, hh, mm, ss) ==
    [date |-> date, ago |-> ago, hh |-> hh, mm |-> mm, ss |-> ss]

Sections == <<"id", "transaction", "customer", "merchant", "terminal",
              "last_transaction">>

Plain(date) ==
    [arrived |-> TRUE, order |-> Sections, reversed |-> FALSE, missing |-> << >>,
     amount |-> 410, installments |-> 2, requested |-> At(date, 0, 18, 45, 53),
     customerAvg |-> 82, txCount |-> 3, list |-> <<<<"a">>, <<"b">>>>, tx |-> <<"t">>,
     id |-> <<"b">>, mcc |-> <<"c5411">>, merchantAvg |-> 60, online |-> FALSE,
     present |-> TRUE, kmHome |-> 29, new |-> TRUE,
     last |-> At(date, 0, 18, 40, 0), kmCurrent |-> 18]

\* On every day: a last transaction minutes ago, seconds later, more than a
\* day later, and one before midnight with a request after it.
Daily(date) ==
    {Plain(date), [Plain(date) EXCEPT
                    !.new = FALSE, !.last = At(date, 0, 23, 58, 59),
                    !.requested = At(Following(date), -1, 0, 3, 0)]}
    \cup {[Plain(date) EXCEPT !.new = FALSE, !.last = t] :
            t \in {At(date, 0, 18, 40, 59), At(date, 0, 18, 46, 1),
                   At(Following(date), -1, 18, 46, 0)}}

\* On 1970-01-01: the objects and fields in many orders, fields left out,
\* amounts out of range, every combination of short ids and lists, and texts
\* that are names, brackets or punctuation.
Orders ==
    {order \in [1 .. 6 -> ToSet(Sections)] :
        IsInjective(order) /\ "id" \in {order[1], order[6]}}
AllFields == {<<s, Fields(Plain(1), s)[i][1]>> :
                s \in ToSet(Sections) \ {"id"}, i \in 1 .. 2}
             \cup {<<s, Fields(Plain(1), s)[3][1]>> :
                    s \in ToSet(Sections) \ {"id", "last_transaction"}}
Ids == {<< >>, <<"a">>, <<"a", "a">>, <<"b">>}
Odd == {<<"merchant">>, <<"mcc">>, <<"id">>, <<"avg_amount">>, <<"customer">>,
        <<"last_transaction">>, <<"known_merchants">>, <<"comma">>, <<"a", "]">>,
        <<"a", "mcc">>}
Lists == UNION {[1 .. n -> {<< >>, <<"a">>, <<"a", "a">>, <<"b">>}] : n \in 0 .. 2}
OddTexts(r) ==
    UNION {{[r EXCEPT !.tx = odd], [r EXCEPT !.id = odd], [r EXCEPT !.mcc = odd],
            [r EXCEPT !.list = <<odd, <<"b">>>>],
            [r EXCEPT !.list = <<<<"b">>, odd>>, !.id = odd]} : odd \in Odd}

Varied(date) ==
    {[Plain(date) EXCEPT !.order = o, !.reversed = b, !.missing = m, !.new = n] :
        o \in Orders, b \in BOOLEAN, m \in {<< >>} \cup AllFields, n \in BOOLEAN}
    \cup {[Plain(date) EXCEPT !.id = id, !.list = list, !.order = o] :
            id \in Ids, list \in Lists, o \in {Sections, Reverse(Sections)}}
    \cup {[Plain(date) EXCEPT !.amount = n, !.customerAvg = a, !.mcc = <<"c">>] :
            n \in {-1, 0, 20000}, a \in {-1, 0, 1}}
    \cup {[q EXCEPT !.order = o, !.reversed = b, !.missing = m] :
            q \in OddTexts(Plain(date)), o \in {Sections, Reverse(Sections)},
            b \in BOOLEAN,
            m \in {<< >>, <<"merchant", "mcc">>, <<"customer", "avg_amount">>}}

Sent(date) ==
    IF date = [y |-> 1970, m |-> 1, d |-> 1] THEN Varied(date) \cup Daily(date)
                                             ELSE Daily(date)

\* The epoch, the leap year 2000, and 2100, which is none.
Beginnings ==
    {<<[y |-> 1970, m |-> 1, d |-> 1], 0>>,
     <<[y |-> 1999, m |-> 12, d |-> 1], 10926>>,
     <<[y |-> 2100, m |-> 2, d |-> 1], 47513>>}
=============================================================================
