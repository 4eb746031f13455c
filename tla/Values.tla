------------------------------- MODULE Values -------------------------------
(***************************************************************************)
(* Query values of maharit-query/src/executor.rs and the operators on them.*)
(*                                                                         *)
(* Query values are the property values of PropertyIndex and <<"node", n>>,*)
(* <<"list", vs>>, <<"path", ns, es>>, <<"date", days>>, <<"dur", d>> and  *)
(* <<"map", f>>.  A string is a sequence of letters (see Fulltext), with 0 *)
(* for a character that is neither letter nor digit.  Err is an error the  *)
(* statement returns; Panic is an integer division by zero, which the code *)
(* does not catch.                                                         *)
(*                                                                         *)
(* A binding is a node, an edge, a path, or <<"val", v>>.  The context of  *)
(* an evaluation is [g, pi, params].                                       *)
(***************************************************************************)
EXTENDS Integers, Sequences, Matching, Traversal

(***************************************************************************)
(* The calendar of maharit-core/src/property.rs (mod temporal).  A date is *)
(* a number of days since 1970-01-01, a date and time a number of          *)
(* milliseconds, a duration a record of months, days and milliseconds.     *)
(*                                                                         *)
(* The code computes ymd_to_days with 365.25 and 30.6001 in floating point *)
(* and truncates; for the years of the calendar the products are exact     *)
(* enough for the quotients below to be the same integers.                 *)
(***************************************************************************)

EpochJdn == 2440588
DayMillis == 86400000

DaysToYmd(days) ==
    LET a == days + EpochJdn + 32044
        b == (4 * a + 3) \div 146097
        c == a - ((146097 * b) \div 4)
        d == (4 * c + 3) \div 1461
        e == c - ((1461 * d) \div 4)
        m == (5 * e + 2) \div 153
    IN <<((100 * b + d) - 4800) + (m \div 10),
         (m + 3) - 12 * (m \div 10),
         (e - ((153 * m + 2) \div 5)) + 1>>

YmdToDays(year, month, day) ==
    LET y == IF month <= 2 THEN year - 1 ELSE year
        m == IF month <= 2 THEN month + 12 ELSE month
        a == y \div 100
        b == (2 - a) + (a \div 4)
    IN (((1461 * (y + 4716)) \div 4) + ((306001 * (m + 1)) \div 10000)
         + day + b - 1524) - EpochJdn

ClockToMillis(h, mi, s, frac) == h * 3600000 + mi * 60000 + s * 1000 + frac

DaysInMonth(year, month) ==
    CASE month \in {1, 3, 5, 7, 8, 10, 12} -> 31
      [] month \in {4, 6, 9, 11} -> 30
      [] month = 2 -> IF (year % 4 = 0 /\ year % 100 # 0) \/ year % 400 = 0 THEN 29 ELSE 28
      [] OTHER -> 30

(* A date string is the sequence of the numbers between its dashes.  The   *)
(* day is only compared with 31, whatever the month.                       *)
NoValue == <<>>
ParseDate(parts) ==
    IF /\ Len(parts) = 3
       /\ parts[2] \in 1 .. 12
       /\ parts[3] \in 1 .. 31
    THEN <<YmdToDays(parts[1], parts[2], parts[3])>>
    ELSE NoValue

(* A date and time string: the date, the numbers between the colons and    *)
(* the digits of the fraction (its value and its number of digits).        *)
ParseDateTime(date, time, frac, digits) ==
    LET days == ParseDate(date)
        ms == CASE digits = 1 -> frac * 100 [] digits = 2 -> frac * 10 [] OTHER -> frac
    IN IF days = NoValue \/ Len(time) < 2 THEN NoValue
       ELSE <<days[1], ClockToMillis(time[1], time[2],
                                     IF Len(time) >= 3 THEN time[3] ELSE 0,
                                     IF Len(time) >= 3 THEN ms ELSE 0)>>

(* A duration string: the sequence of its <<number, unit>> parts before    *)
(* and after the T; a second may have a fraction, in milliseconds.         *)
DateUnits == {"Y", "M", "W", "D"}
TimeUnits == {"H", "M", "S"}

SumOf(parts, unit, scale) ==
    LET total[i \in 0 .. Len(parts)] ==
          IF i = 0 THEN 0
          ELSE total[i - 1] + IF parts[i][2] = unit THEN parts[i][1] * scale ELSE 0
    IN total[Len(parts)]

ParseDuration(date, time) ==
    IF \/ \E i \in DOMAIN date : date[i][2] \notin DateUnits
       \/ \E i \in DOMAIN time : time[i][2] \notin TimeUnits
    THEN NoValue
    ELSE <<[months |-> SumOf(date, "Y", 12) + SumOf(date, "M", 1),
            days |-> SumOf(date, "W", 7) + SumOf(date, "D", 1),
            millis |-> SumOf(time, "H", 3600000) + SumOf(time, "M", 60000)
                         + SumOf(time, "S", 1)]>>

AddDurationToDate(date, d) ==
    LET ymd == DaysToYmd(date)
        months == ((ymd[1] * 12 + ymd[2]) - 1) + d.months
        year == months \div 12
        month == (months % 12) + 1
        max == DaysInMonth(year, month)
    IN YmdToDays(year, month, IF ymd[3] < max THEN ymd[3] ELSE max)
         + d.days + (d.millis \div DayMillis)

-----------------------------------------------------------------------------

LOCAL FT == INSTANCE Fulltext

Err == <<"err", 0>>
Panic == <<"panic", 0>>
ListV(vs) == <<"list", vs>>
DateV(d) == <<"date", d>>
DurV(d) == <<"dur", d>>

True == BoolV(TRUE)
False == BoolV(FALSE)
Failed(v) == v \in {Err, Panic}

-----------------------------------------------------------------------------
(* Comparisons *)

ValuesEqual(a, b) ==
    \/ IsNumber(a) /\ IsNumber(b) /\ Doubled(a) = Doubled(b)
    \/ a = b /\ a[1] \in {"null", "bool", "str", "node", "date", "dur"}

(* Letter by letter, the shorter one first. *)
LexLess(a, b) ==
    \E i \in 1 .. Len(b) :
        /\ \A j \in 1 .. i - 1 : j <= Len(a) /\ a[j] = b[j]
        /\ i > Len(a) \/ a[i] < b[i]

SameOrder(a, b) ==
    \/ IsNumber(a) /\ IsNumber(b)
    \/ a[1] = b[1] /\ a[1] \in {"str", "date"}

OrderLess(a, b) ==
    CASE IsNumber(a) -> Doubled(a) < Doubled(b)
      [] a[1] = "str" -> LexLess(a[2], b[2])
      [] OTHER -> a[2] < b[2]

CompareValues(a, op, b) ==
    IF ~ SameOrder(a, b) THEN Err
    ELSE BoolV(CASE op = "<" -> OrderLess(a, b)
                 [] op = ">" -> OrderLess(b, a)
                 [] op = "<=" -> ~ OrderLess(b, a)
                 [] OTHER -> ~ OrderLess(a, b))

-----------------------------------------------------------------------------
(* Arithmetic.  Integer division truncates; floats keep one binary digit.  *)

TruncDiv(a, b) ==
    LET q == (IF a < 0 THEN -a ELSE a) \div (IF b < 0 THEN -b ELSE b)
    IN IF (a < 0) = (b < 0) THEN q ELSE -q

ArithmeticOp(a, op, b) ==
    IF ~ (IsNumber(a) /\ IsNumber(b)) THEN Err
    ELSE IF a[1] = "int" /\ b[1] = "int"
    THEN CASE op = "+" -> IntV(a[2] + b[2])
           [] op = "-" -> IntV(a[2] - b[2])
           [] op = "*" -> IntV(a[2] * b[2])
           [] OTHER -> IF b[2] = 0 THEN Panic ELSE IntV(TruncDiv(a[2], b[2]))
    ELSE CASE op = "+" -> FloatV(Doubled(a) + Doubled(b))
           [] op = "-" -> FloatV(Doubled(a) - Doubled(b))
           [] op = "*" -> FloatV(TruncDiv(Doubled(a) * Doubled(b), 2))
           [] OTHER -> IF Doubled(b) = 0 THEN <<"float", "inf">>
                       ELSE FloatV(TruncDiv(2 * Doubled(a), Doubled(b)))

NegDuration(d) == [months |-> -d.months, days |-> -d.days, millis |-> -d.millis]

(* Concatenation and calendar arithmetic come before numbers. *)
AddValues(a, b) ==
    CASE a[1] = "list" /\ b[1] = "list" -> ListV(a[2] \o b[2])
      [] a[1] = "date" /\ b[1] = "dur" -> DateV(AddDurationToDate(a[2], b[2]))
      [] a[1] = "str" /\ b[1] = "str" -> StrV(a[2] \o b[2])
      [] OTHER -> ArithmeticOp(a, "+", b)

SubValues(a, b) ==
    CASE a[1] = "date" /\ b[1] = "date" ->
           DurV([months |-> 0, days |-> a[2] - b[2], millis |-> 0])
      [] a[1] = "date" /\ b[1] = "dur" -> DateV(AddDurationToDate(a[2], NegDuration(b[2])))
      [] OTHER -> ArithmeticOp(a, "-", b)

-----------------------------------------------------------------------------
(* Strings *)

LowerText(s) == FT!Lower(s)

StartsAt(s, t, i) == (i + Len(t)) - 1 <= Len(s) /\ \A j \in 1 .. Len(t) : s[(i + j) - 1] = t[j]

StartsWith(s, t) == StartsAt(LowerText(s), LowerText(t), 1)
EndsWith(s, t) == Len(t) <= Len(s) /\ StartsAt(LowerText(s), LowerText(t), (Len(s) - Len(t)) + 1)

ContainsPhrase(s, phrase) ==
    LET hay == FT!Tokenize(s)
        tokens == FT!Tokenize(phrase)
    IN tokens # <<>> /\ \E i \in DOMAIN hay : StartsAt(hay, tokens, i)

(* The words of the text keep their case, the term loses it. *)
ContainsFuzzy(s, term, max) ==
    \E w \in Range(FT!Words(s)) : FT!Levenshtein(w, LowerText(term)) <= max

(* A needle is a string, or [form, text, max] for a quoted phrase and for  *)
(* term~ or term~n.                                                        *)
StringContains(s, form, needle, max) ==
    CASE form = "phrase" -> ContainsPhrase(s, needle)
      [] form = "fuzzy" /\ needle # <<>> -> ContainsFuzzy(s, needle, max)
      [] OTHER -> \E i \in 1 .. Len(s) + 1 : StartsAt(LowerText(s), LowerText(needle), i)

StringOp(a, op, b) ==
    IF a[1] # "str" \/ b[1] # "str" THEN Err
    ELSE BoolV(CASE op = "starts" -> StartsWith(a[2], b[2])
                 [] op = "ends" -> EndsWith(a[2], b[2])
                 [] OTHER -> StringContains(a[2], "plain", b[2], 0))

-----------------------------------------------------------------------------
(* Operators *)

InList(a, b) ==
    CASE b[1] = "list" -> BoolV(\E i \in DOMAIN b[2] : ValuesEqual(a, b[2][i]))
      [] b = Null -> Null
      [] OTHER -> False

(* Both operands are evaluated; a logical operator takes nothing but       *)
(* booleans, null included.                                                *)
LogicalOp(a, op, b) ==
    IF a[1] # "bool" \/ b[1] # "bool" THEN Err
    ELSE BoolV(IF op = "and" THEN a[2] /\ b[2] ELSE a[2] \/ b[2])

ApplyBinaryOp(a, op, b) ==
    CASE op = "=" -> BoolV(ValuesEqual(a, b))
      [] op = "<>" -> BoolV(~ ValuesEqual(a, b))
      [] op \in {"<", ">", "<=", ">="} -> CompareValues(a, op, b)
      [] op \in {"and", "or"} -> LogicalOp(a, op, b)
      [] op = "+" -> AddValues(a, b)
      [] op = "-" -> SubValues(a, b)
      [] op \in {"*", "/"} -> ArithmeticOp(a, op, b)
      [] op \in {"contains", "starts", "ends"} -> StringOp(a, op, b)
      [] OTHER -> InList(a, b)

ApplyUnaryOp(op, v) ==
    CASE op = "not" -> IF v[1] = "bool" THEN BoolV(~ v[2]) ELSE Err
      [] op = "neg" -> IF IsNumber(v) THEN <<v[1], -v[2]>> ELSE Err
      [] op = "isnull" -> BoolV(v = Null)
      [] OTHER -> BoolV(v # Null)

-----------------------------------------------------------------------------
(* Lists *)

IndexAccess(list, i) ==
    IF list[1] # "list" \/ i[1] # "int" THEN Null
    ELSE LET at == IF i[2] < 0 THEN Len(list[2]) + i[2] ELSE i[2]
         IN IF at \in 0 .. Len(list[2]) - 1 THEN list[2][at + 1] ELSE Null

SliceBound(i, len) ==
    IF i < 0 THEN IF len + i > 0 THEN len + i ELSE 0
    ELSE IF i < len THEN i ELSE len

(* The bounds are put in order when they are not. *)
ListSlice(list, s, e) ==
    IF list[1] # "list" \/ s[1] # "int" \/ e[1] # "int" THEN Null
    ELSE LET a == SliceBound(s[2], Len(list[2]))
             b == SliceBound(e[2], Len(list[2]))
         IN ListV(IF a <= b THEN SubSeq(list[2], a + 1, b) ELSE SubSeq(list[2], b + 1, a))

(* A variant of QuantifierHolds that takes one element for all. *)
QuantifierLenient(kind, count, len) ==
    CASE kind \in {"all", "any"} -> count > 0
      [] kind = "none" -> count = 0
      [] OTHER -> count = 1

QuantifierHolds(kind, count, len) ==
    CASE kind = "all" -> count = len
      [] kind = "any" -> count > 0
      [] kind = "none" -> count = 0
      [] OTHER -> count = 1

IsEmptyValue(v) ==
    CASE v[1] \in {"list", "str"} -> BoolV(v[2] = <<>>)
      [] v = Null -> Null
      [] OTHER -> Err

-----------------------------------------------------------------------------
(* Variables and properties *)

FieldIndex(f) == CASE f = "year" -> 1 [] f = "month" -> 2 [] f = "day" -> 3 [] OTHER -> 0

AccessTemporalField(v, f) ==
    CASE v[1] = "date" /\ FieldIndex(f) > 0 -> IntV(DaysToYmd(v[2])[FieldIndex(f)])
      [] v[1] = "dur" /\ f = "years" -> IntV(TruncDiv(v[2].months, 12))
      [] v[1] = "dur" /\ f = "months" -> IntV(v[2].months - 12 * TruncDiv(v[2].months, 12))
      [] v[1] = "dur" /\ f = "days" -> IntV(v[2].days)
      [] v[1] = "dur" /\ f = "hours" -> IntV(TruncDiv(v[2].millis, 3600000))
      [] OTHER -> Null

ValueOfBinding(bv) ==
    CASE bv[1] = "val" -> bv[2]
      [] bv[1] = "edge" -> IntV(bv[2])
      [] OTHER -> bv

PropOrNull(props, p) == IF p \in DOMAIN props THEN props[p] ELSE Null

EvaluateProperty(g, b, x, p) ==
    IF x \notin DOMAIN b THEN Err
    ELSE CASE b[x][1] = "node" ->
                IF ContainsNode(g, b[x][2]) THEN PropOrNull(g.nodes[b[x][2]].props, p) ELSE Err
           [] b[x][1] = "edge" ->
                IF ContainsEdge(g, b[x][2]) THEN PropOrNull(g.edges[b[x][2]].props, p) ELSE Err
           [] b[x][1] = "path" -> Err
           [] b[x][2][1] = "map" -> PropOrNull(b[x][2][2], p)
           [] b[x][2][1] = "node" ->
                IF ContainsNode(g, b[x][2][2]) THEN PropOrNull(g.nodes[b[x][2][2]].props, p)
                ELSE Null
           [] OTHER -> AccessTemporalField(b[x][2], p)
=============================================================================
