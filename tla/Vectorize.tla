----------------------------- MODULE Vectorize -----------------------------
(***************************************************************************)
(* VectorizeJSONQuantized (apps/api/internal/fraud/vectorize_json.go): the *)
(* scanner that finds the fields of a request without parsing it, the      *)
(* dates, and the quantised vector.  Requests arrive day after day, with   *)
(* their objects and fields in any order.                                  *)
(*                                                                         *)
(* A document is a sequence of tokens: keys, values of a type, brackets.   *)
(* A search for a key finds its name in quotes, in a text as in a key, so  *)
(* a text is a sequence of symbols as a key is: <<"mcc">> reads the same   *)
(* as a key and as an id, <<"a", "mcc">> does not.  Texts hold no quotes   *)
(* and, except dates, fewer than 20 characters.  Amounts are whole numbers *)
(* and a coordinate is the exact quotient, rounded, where the code         *)
(* computes in float64.                                                    *)
(***************************************************************************)
EXTENDS Integers, Sequences, SequencesExt, FiniteSetsExt

CONSTANTS
    Requests(_),   \* Requests(d): what clients may send on day d
    FirstDays,     \* bound of the model: <<date, days since 1970-01-01>> ...
    Days           \* ... and for how many days the calendar goes on from there

VARIABLES
    today,     \* the date
    days,      \* its distance from 1970-01-01, counted day by day
    left,      \* days the calendar still goes on
    request    \* the request in a handler, or none

vars == <<today, days, left, request>>

NoRequest == [arrived |-> FALSE]
-----------------------------------------------------------------------------
(* The calendar, as everybody knows it.                                    *)
IsLeap(y) == (y % 4 = 0 /\ y % 100 # 0) \/ y % 400 = 0
DaysIn(y, m) == CASE m \in {4, 6, 9, 11} -> 30
                  [] m = 2 -> IF IsLeap(y) THEN 29 ELSE 28
                  [] OTHER -> 31

Following(date) ==
    IF date.d < DaysIn(date.y, date.m) THEN [date EXCEPT !.d = @ + 1]
    ELSE IF date.m < 12 THEN [y |-> date.y, m |-> date.m + 1, d |-> 1]
    ELSE [y |-> date.y + 1, m |-> 1, d |-> 1]

Init ==
    /\ \E first \in FirstDays : today = first[1] /\ days = first[2]
    /\ left = Days
    /\ request = NoRequest

NextDay ==
    /\ ~request.arrived
    /\ left > 0
    /\ today' = Following(today)
    /\ days' = days + 1 /\ left' = left - 1
    /\ UNCHANGED request

Arrive ==
    /\ ~request.arrived
    /\ request' \in Requests(today)
    /\ UNCHANGED <<today, days, left>>

Next == NextDay \/ Arrive
Spec == Init /\ [][Next]_vars
-----------------------------------------------------------------------------
(* daysFromCivil, epochMinutes and weekdayMonday0. Go's % keeps the sign.  *)
Rem(a, b) == IF a >= 0 THEN a % b ELSE -((-a) % b)

NoCenturies(yoe, doy) == yoe * 365 + yoe \div 4 + doy   \* faulty: the Julian rule
DayOfEra(yoe, doy) == yoe * 365 + yoe \div 4 - yoe \div 100 + doy

DaysFromCivil(date) ==
    LET y == IF date.m <= 2 THEN date.y - 1 ELSE date.y
        era == y \div 400
        mp == IF date.m > 2 THEN date.m - 3 ELSE date.m + 9
        doy == (153 * mp + 2) \div 5 + date.d - 1
    IN era * 146097 + DayOfEra(y - era * 400, doy) - 719468

EpochMinutes(t) == DaysFromCivil(t.date) * 1440 + t.hh * 60 + t.mm

WeekdayMonday0(date) == Rem(DaysFromCivil(date) + 3, 7)
-----------------------------------------------------------------------------
(* bytes.Index for a key, and the functions that read what follows it.     *)
None == [t |-> "none", v |-> 0]

FromZero(start) == 1   \* faulty: searches from the beginning of the document
FromStart(start) == start

\* The name in quotes, whether it is a key there or a text.
Reads(token, name) == token.t \in {"key", "str"} /\ token.v = <<name>>

Position(doc, key, start) ==
    LET found == {i \in FromStart(start) .. Len(doc) : Reads(doc[i], key)}
    IN IF found = {} THEN 0 ELSE Min(found)

\* numberAfter and boolAfter want the value at once; stringAfter takes the next
\* text in quotes, and may find that in a key. A time has 20 characters.
ValueAfter(doc, types, key, start) ==
    LET p == Position(doc, key, start)
        next == {i \in p + 1 .. Len(doc) : doc[i].t \in types}
    IN IF p = 0 \/ next = {} THEN None
       ELSE IF "str" \notin types /\ Min(next) # p + 1 THEN None
       ELSE doc[Min(next)]

NumberAfter(doc, key, start) == ValueAfter(doc, {"num"}, key, start)
StringAfter(doc, key, start) == ValueAfter(doc, {"str", "key", "time"}, key, start)
BoolAfter(doc, key, start) == ValueAfter(doc, {"bool"}, key, start)

TimeAfter(doc, key, start) ==
    LET text == StringAfter(doc, key, start)
    IN IF text.t = "time" THEN text ELSE None

(* knownMerchantJSON: the text from the key to the first "]", before the   *)
(* merchant, or anywhere if the merchant came first.                       *)
Chars(token) ==
    CASE token.t = "key" -> <<"quote">> \o token.v \o <<"quote", "colon">>
      [] token.t = "str" -> <<"quote">> \o token.v \o <<"quote", "comma">>
      [] OTHER -> <<token.t>>
Text(tokens) == FlattenSeq([i \in 1 .. Len(tokens) |-> Chars(tokens[i])])

AnyText(section, id, p) == TRUE   \* faulty: parts of other ids count
Quoted(section, id, p) ==
    /\ p > 1 /\ section[p - 1] = "quote"
    /\ p + Len(id) <= Len(section) /\ section[p + Len(id)] = "quote"

Occurrences(section, id) ==
    {p \in 1 .. Len(section) + 1 - Len(id) : SubSeq(section, p, p + Len(id) - 1) = id}

\* An empty id occurs everywhere; when no occurrence is quoted the search runs
\* past the end of the section and panics.
KnownIn(section, id) ==
    IF \E q \in Occurrences(section, id) : Quoted(section, id, q) THEN "yes"
    ELSE IF id = << >> THEN "panic" ELSE "no"

KnownMerchantJSON(doc, id, start, end) ==
    LET last == IF end <= start THEN Len(doc) ELSE end - 1
        p == Position(SubSeq(doc, 1, last), "known_merchants", start)
        closing == {i \in p .. last : "]" \in ToSet(Chars(doc[i]))}
        text == Text(SubSeq(doc, p, Min(closing)))
        sectionEnd == Min({i \in 1 .. Len(text) : text[i] = "]"})
    IN IF p = 0 \/ closing = {} THEN "no"
       ELSE KnownIn(SubSeq(text, 1, sectionEnd - 1), id)
-----------------------------------------------------------------------------
(* VectorizeJSONQuantized: the fields it finds.                            *)
Unchecked(found) == FALSE   \* faulty: the second result is ignored
Missing(found) == \E f \in DOMAIN found : found[f].t = "none"

Scan(doc) ==
    LET customer == Position(doc, "customer", 1)
        merchant == Position(doc, "merchant", 1)
        terminal == Position(doc, "terminal", 1)
        last == Position(doc, "last_transaction", 1)
        found == [amount |-> NumberAfter(doc, "amount", 1),
                  installments |-> NumberAfter(doc, "installments", 1),
                  requested |-> TimeAfter(doc, "requested_at", 1),
                  customerAvg |-> NumberAfter(doc, "avg_amount", customer),
                  txCount |-> NumberAfter(doc, "tx_count_24h", customer),
                  id |-> StringAfter(doc, "id", merchant),
                  mcc |-> StringAfter(doc, "mcc", merchant),
                  merchantAvg |-> NumberAfter(doc, "avg_amount", merchant),
                  online |-> BoolAfter(doc, "is_online", terminal),
                  present |-> BoolAfter(doc, "card_present", terminal),
                  kmHome |-> NumberAfter(doc, "km_from_home", terminal)]
        history == [timestamp |-> TimeAfter(doc, "timestamp", last),
                    kmCurrent |-> NumberAfter(doc, "km_from_current", last)]
        new == last = 0 \/ (last < Len(doc) /\ doc[last + 1].t = "null")
    IN IF \/ 0 \in {customer, merchant, terminal}
          \/ Missing(found) \/ (~new /\ Missing(history))
       THEN [ok |-> FALSE]
       ELSE [ok |-> TRUE, new |-> new, field |-> found, history |-> history,
             known |-> KnownMerchantJSON(doc, found.id.v, customer, merchant)]
-----------------------------------------------------------------------------
(* div, clamp and quantizeFloat64: n / d in ten thousandths.               *)
QuantScale == 10000

QuantizeFloat64(n, d) ==
    CASE n <= -d -> -QuantScale
      [] n > -d /\ n < 0 -> 0
      [] n > d -> QuantScale
      [] OTHER -> (2 * n * QuantScale + d) \div (2 * d)

Unclamped(n, d) == n   \* faulty: a negative quotient goes through
Clamp(n, d) == CASE n < 0 -> 0 [] n > d -> d [] OTHER -> n

Coordinate(n, d) ==
    IF d <= 0 THEN QuantScale ELSE QuantizeFloat64(Clamp(n, d), d)
Flag(b) == IF b THEN QuantScale ELSE 0

\* mccRisk, and 50 for a code that is not known, in hundredths.
MccRisk == [c5411 |-> 15, c5812 |-> 30, c5912 |-> 20, c5944 |-> 45, c7801 |-> 80,
            c7802 |-> 75, c7995 |-> 85, c4511 |-> 35, c5311 |-> 25, c5999 |-> 50]
Risk(mcc) == IF \E c \in DOMAIN MccRisk : mcc = <<c>> THEN MccRisk[mcc[1]] ELSE 50

\* The vector of either vectorizer, from the fields and what it makes of them.
\* `minutes` is a fraction; without a last transaction its two coordinates are -1.
Vector(f, x) ==
    << Coordinate(f.amount, 10000), Coordinate(f.installments, 12),
       IF f.customerAvg <= 0 THEN Coordinate(1, 10)
                             ELSE Coordinate(f.amount, 10 * f.customerAvg),
       QuantizeFloat64(x.hour, 23), QuantizeFloat64(x.weekday, 6),
       IF x.new THEN -QuantScale ELSE Coordinate(x.minutes[1], x.minutes[2] * 1440),
       IF x.new THEN -QuantScale ELSE Coordinate(x.kmCurrent, 1000),
       Coordinate(f.kmHome, 1000), Coordinate(f.txCount, 20),
       Flag(f.online), Flag(f.present), Flag(~x.known),
       QuantizeFloat64(Risk(f.mcc), 100), Coordinate(f.merchantAvg, 10000) >>

VectorizeJSONQuantized(doc) ==
    LET s == Scan(doc)
        time == s.field.requested.v
    IN Vector([f \in DOMAIN s.field |-> s.field[f].v],
              [hour |-> time.hh, weekday |-> WeekdayMonday0(time.date),
               new |-> s.new, known |-> s.known = "yes",
               minutes |-> IF s.new THEN <<0, 1>>
                           ELSE <<EpochMinutes(time)
                                    - EpochMinutes(s.history.timestamp.v), 1>>,
               kmCurrent |-> s.history.kmCurrent.v])
-----------------------------------------------------------------------------
(* The document of a request, as a client writes it.                       *)
Value(type, v) == [t |-> type, v |-> v]
Listed(list) == <<Value("[", 0)>> \o [i \in 1 .. Len(list) |-> Value("str", list[i])]
                \o <<Value("]", 0)>>

Fields(r, section) ==
    CASE section = "transaction" ->
            << <<"amount", <<Value("num", r.amount)>>>>,
               <<"installments", <<Value("num", r.installments)>>>>,
               <<"requested_at", <<Value("time", r.requested)>>>> >>
      [] section = "customer" ->
            << <<"avg_amount", <<Value("num", r.customerAvg)>>>>,
               <<"tx_count_24h", <<Value("num", r.txCount)>>>>,
               <<"known_merchants", Listed(r.list)>> >>
      [] section = "merchant" ->
            << <<"id", <<Value("str", r.id)>>>>, <<"mcc", <<Value("str", r.mcc)>>>>,
               <<"avg_amount", <<Value("num", r.merchantAvg)>>>> >>
      [] section = "terminal" ->
            << <<"is_online", <<Value("bool", r.online)>>>>,
               <<"card_present", <<Value("bool", r.present)>>>>,
               <<"km_from_home", <<Value("num", r.kmHome)>>>> >>
      [] section = "last_transaction" ->
            << <<"timestamp", <<Value("time", r.last)>>>>,
               <<"km_from_current", <<Value("num", r.kmCurrent)>>>> >>

Key(name) == Value("key", <<name>>)
Written(r, section) ==
    LET all == Fields(r, section)
        order == IF r.reversed THEN Reverse(all) ELSE all
        Kept(f) == <<section, f[1]>> # r.missing
        tokens == [i \in 1 .. Len(order) |->
                    IF Kept(order[i]) THEN <<Key(order[i][1])>> \o order[i][2]
                                      ELSE << >>]
    IN CASE section = "id" -> <<Key("id"), Value("str", r.tx)>>
         [] section = "last_transaction" /\ r.new ->
                <<Key(section), Value("null", 0)>>
         [] OTHER -> <<Key(section), Value("{", 0)>> \o FlattenSeq(tokens)

Document(r) == FlattenSeq([i \in 1 .. Len(r.order) |-> Written(r, r.order[i])])

(* Vectorize (vectorize.go), on the parsed request. A time t is t.ago days *)
(* before the day on which the request arrives.                            *)
SecondsSince(t, u) ==
    (((u.ago - t.ago) * 24 + t.hh - u.hh) * 60 + t.mm - u.mm) * 60 + t.ss - u.ss

StructVector(r, day) ==
    Vector(r, [hour |-> r.requested.hh, weekday |-> (day - r.requested.ago + 3) % 7,
               new |-> r.new, known |-> \E i \in 1 .. Len(r.list) : r.list[i] = r.id,
               minutes |-> <<SecondsSince(r.requested, r.last), 60>>,
               kmCurrent |-> r.kmCurrent])
-----------------------------------------------------------------------------
(* Properties.                                                             *)
Received == request.arrived
Complete == Received /\ request.missing = << >>
Distance(a, b) == IF a < b THEN b - a ELSE a - b
IsListed(r) == \E i \in 1 .. Len(r.list) : r.list[i] = r.id

\* The names that the scanner searches for.
Keys == {"amount", "installments", "requested_at", "customer", "merchant", "terminal",
         "avg_amount", "tx_count_24h", "known_merchants", "id", "mcc", "is_online",
         "card_present", "km_from_home", "last_transaction", "timestamp",
         "km_from_current"}

\* What the scanner takes for granted of a request's texts: none is a name that
\* it searches for, the list holds no "]", and the merchant's id is neither
\* the punctuation around the texts of the list nor, unless listed, empty.
Ordinary(r) ==
    /\ \A key \in Keys : <<key>> \notin {r.tx, r.id, r.mcc} \cup ToSet(r.list)
    /\ \A text \in ToSet(r.list) : "]" \notin ToSet(text)
    /\ r.id \notin {<<"comma">>, <<"colon", "[">>}
    /\ r.id = << >> => IsListed(r)

Matches(json, struct) ==
    \A i \in 1 .. 14 : IF i = 6 THEN Distance(json[i], struct[i]) <= 7
                                ELSE json[i] = struct[i]

\* daysFromCivil, with its eras beginning in March, counts what the calendar
\* counts one day at a time, through leap years, centuries and the year 2000
\* (vectorize_json.go:403).
DaysAreCounted == DaysFromCivil(today) = days

\* A complete request of ordinary texts gives the vector that the parser and
\* Vectorize would give, whatever the order of objects and fields: no key search
\* strays into the wrong object, and the weekday is right. The minutes may be
\* off by less than one, as seconds are not read (vectorize_json.go:95-183, :302,
\* :394; vectorize_test.go:41, :61 test it for one request without a last
\* transaction).
JSONMatchesStruct ==
    Complete /\ Ordinary(request) =>
        Matches(VectorizeJSONQuantized(Document(request)), StructVector(request, days))

\* With ordinary texts the text search finds exactly the merchants of the list:
\* no part of an id, none missed for overlapping another, and it does not panic
\* (vectorize_json.go:281-310).
KnownMerchantIsInList ==
    Complete /\ Ordinary(request) =>
        Scan(Document(request)).known = IF IsListed(request) THEN "yes" ELSE "no"

\* With ordinary texts the coordinates stay within the scale, and -1, which the
\* search takes for "no last transaction", is given to nothing else: not even a
\* last transaction later than the request (vectorize_json.go:165-180, :356).
MinusOneMeansNoHistory ==
    Complete /\ Ordinary(request) =>
        LET vector == VectorizeJSONQuantized(Document(request))
        IN /\ \A i \in 1 .. 14 \ {6, 7} : vector[i] \in 0 .. QuantScale
           /\ \A i \in {6, 7} :
                vector[i] \in IF request.new THEN {-QuantScale} ELSE 0 .. QuantScale

\* With ordinary texts a missing field is noticed, not read from another object.
\* Exempt are a name that a later object may have too, an amount's average or an
\* id, which is then read there, and known_merchants, which may be left out: the
\* merchant then counts as unknown (vectorize_json.go:185-290).
MissingFieldIsNoticed ==
    Received /\ ~Complete /\ Ordinary(request) /\ Scan(Document(request)).ok =>
        \/ request.missing[2] \in {"avg_amount", "id", "known_merchants"}
        \/ request.new /\ request.missing[1] = "last_transaction"

\* What vectorize_test.go:41 says of one request, that the scanner finds every
\* field and gives the vector that Vectorize gives, said of all complete requests,
\* ordinary texts or not: it takes no text for a key, and the search for the
\* merchant does not panic (vectorize_json.go:111-147, :300).
EveryRequestMatchesStruct ==
    Complete =>
        LET scan == Scan(Document(request))
        IN  /\ scan.ok /\ scan.known # "panic"
            /\ Matches(VectorizeJSONQuantized(Document(request)),
                       StructVector(request, days))
=============================================================================
