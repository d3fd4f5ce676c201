-------------------------------- MODULE Money --------------------------------
(***************************************************************************)
(* The exact numbers of a script: $std.decimal (runlet-core decimal.rs,    *)
(* js/decimal.js), $std.money (js/money.js) and the aggregates of          *)
(* $std.list (js/list.js).                                                 *)
(*                                                                         *)
(* A decimal is a mantissa and a scale, as in rust_decimal: 1.50 and 1.5   *)
(* compare equal and print differently.  The script keeps a column of      *)
(* values and turns them into others; an error is thrown and caught.  What *)
(* the column ought to be worth is kept beside it.                         *)
(***************************************************************************)
EXTENDS Integers, Sequences, SequencesExt, FiniteSetsExt

CONSTANTS
    Currencies,   \* the ISO codes the script names, known or not
    EXP,          \* known code -> its minor-unit exponent
    Default,      \* the default currency of the box, or ""
    Amounts,      \* the decimals the script starts from
    Scalars,      \* the numbers and numeric strings it starts from
    Percents,     \* the percentages it takes
    WeightLists,  \* the weights it allocates by
    MaxScale,     \* the most decimal places of a quotient (28 in rust_decimal)
    MaxMantissa,  \* the largest mantissa of a quotient (2^96 - 1 in rust_decimal)
    MaxRows,      \* bound: the rows of the column
    MaxOps        \* bound: the operations of the script

ASSUME MoneyAssumption ==
    /\ EXP \in [DOMAIN EXP -> Nat]
    /\ MaxScale \in Nat /\ MaxMantissa \in Nat /\ MaxRows \in Nat /\ MaxOps \in Nat

-----------------------------------------------------------------------------
(* Decimals                                                                *)

Dec(mantissa, scale) == [m |-> mantissa, s |-> scale]
Whole(n) == Dec(n, 0)

\* The mantissa of d at a scale that is not below its own.
At(d, scale) == d.m * 10^(scale - d.s)

CommonScale(a, b) == IF a.s < b.s THEN b.s ELSE a.s

\* compare
Compare(a, b) ==
    LET s == CommonScale(a, b) IN
    IF At(a, s) < At(b, s) THEN -1 ELSE IF At(a, s) > At(b, s) THEN 1 ELSE 0

\* arithmetic, on rust_decimal's checked operations (external): a sum has the larger
\* scale, a product the sum of the scales, and a product that is zero has none.
Plus(a, b) == LET s == CommonScale(a, b) IN Dec(At(a, s) + At(b, s), s)
Negate(a) == Dec(-a.m, a.s)
Times(a, b) == Dec(a.m * b.m, IF a.m * b.m = 0 THEN 0 ELSE a.s + b.s)
Abs(a) == IF a.m < 0 THEN Negate(a) ELSE a

\* rounding_strategy: no mode is half_up; any other word throws.
RoundingModes == {"half_up", "half_even", "up", "down", "ceil", "floor"}
RoundingStrategy(mode) == IF mode = "" THEN "half_up" ELSE mode

\* n / k to an integer under a strategy of rust_decimal, for k > 0.
Rounded(n, k, mode) ==
    LET q == n \div k
        r == n % k
        up == CASE mode = "half_up" -> 2 * r > k \/ (2 * r = k /\ n > 0)
                [] mode = "half_even" -> 2 * r > k \/ (2 * r = k /\ q % 2 = 1)
                [] mode = "up" -> n > 0
                [] mode = "down" -> n < 0
                [] mode = "ceil" -> TRUE
                [] mode = "floor" -> FALSE
    IN IF r # 0 /\ up THEN q + 1 ELSE q

\* checked_div: exact at the smallest scale that is not below the operands', or rounded at
\* the largest scale at which the mantissa fits, so that a larger quotient has fewer places.
Quotient(a, b) ==
    LET n(s) == (IF b.m < 0 THEN -a.m ELSE a.m) * 10^Max({0, b.s + s - a.s})
        k(s) == Abs(b).m * 10^Max({0, a.s - b.s - s})
        at(s) == Dec(Rounded(n(s), k(s), "half_even"), s)
        fitting == {s \in 0 .. MaxScale : Abs(at(s)).m <= MaxMantissa}
        exact == {s \in fitting : s >= a.s - b.s /\ n(s) % k(s) = 0}
    IN IF a.m = 0 THEN Whole(0) ELSE at(IF exact = {} THEN Max(fitting) ELSE Min(exact))

\* round_dp_with_strategy: fewer places than asked for stay as they are.
RoundDp(d, places, mode) ==
    IF places >= d.s THEN d ELSE Dec(Rounded(d.m, 10^(d.s - places), mode), places)

\* to_minor: rounded half-up to a whole number of minor units.
ToMinor(d, places) == RoundDp(Times(d, Whole(10^places)), 0, "half_up").m

\* Dec.pct
Pct(d, p) == Quotient(Times(d, p), Whole(100))

-----------------------------------------------------------------------------
(* Allocation                                                              *)

SumOf(seq) == FoldLeft(Plus, Whole(0), seq)

\* parse_weights, and the check of their sum.
WeightsOk(weights) ==
    /\ weights # <<>>
    /\ \A i \in DOMAIN weights : weights[i].m >= 0
    /\ SumOf(weights).m > 0

\* floor_shares: the exact share of each weight in minor units.
ExactShare(total, weights, i) == Quotient(Times(Whole(total), weights[i]), SumOf(weights))
Floor(d) == d.m \div 10^d.s
FloorShares(total, weights) == [i \in DOMAIN weights |-> Floor(ExactShare(total, weights, i))]
Remainders(total, weights) ==
    [i \in DOMAIN weights |->
        LET exact == ExactShare(total, weights, i)
        IN Plus(exact, Whole(-Floor(exact)))]

\* Mutant: the first shares get the units left over, whatever their remainders.
DistributeInOrder(total, shares, remainders) ==
    [i \in DOMAIN shares |->
        IF i <= total - FoldLeft(+, 0, shares) THEN shares[i] + 1 ELSE shares[i]]

\* distribute_leftover: one unit each to the largest remainders, ties to the first.
DistributeLeftover(total, shares, remainders) ==
    LET leftover == total - FoldLeft(+, 0, shares)
        ahead(i) == {j \in DOMAIN remainders :
                        \/ Compare(remainders[j], remainders[i]) > 0
                        \/ Compare(remainders[j], remainders[i]) = 0 /\ j < i}
    IN [i \in DOMAIN shares |->
           IF Cardinality(ahead(i)) < leftover THEN shares[i] + 1 ELSE shares[i]]

\* allocate, in minor units.
Allocate(d, places, weights) ==
    LET total == ToMinor(d, places)
    IN DistributeLeftover(total, FloorShares(total, weights), Remainders(total, weights))

-----------------------------------------------------------------------------
(* Values                                                                  *)

MoneyOf(a, c) == [is |-> "money", a |-> a, c |-> c]
DecimalOf(a) == [is |-> "dec", a |-> a]
Blank == [is |-> "blank"]      \* null, or text that is no number

\* A number of the script.  exp: it is written with an exponent, as 1e-7 is.
NumberOf(a, exp) == [is |-> "number", a |-> a, exp |-> exp]
\* A string of the script that reads as a number: its place among strings is another than
\* that of its amount among numbers.
StringOf(a, place) == [is |-> "string", a |-> a, place |-> place, exp |-> FALSE]

Throws == [is |-> "throws"]    \* a verb that throws instead of returning
Null == [is |-> "null"]        \* a verb that has nothing to return

IsMoney(v) == v.is = "money"
Numeric(v) == v.is # "blank"

\* num_of: a number or a numeric string becomes a decimal by its text, in which an exponent
\* throws; what is no number is skipped.
NumOf(v) ==
    CASE v.is = "dec" -> v
      [] v.is \in {"number", "string"} -> IF v.exp THEN Throws ELSE DecimalOf(v.a)
      [] OTHER -> Null

\* agg_of
AggOf(v) == IF IsMoney(v) THEN v ELSE NumOf(v)

\* resolveCurrency: the argument, else that of the amount, else the default.
ResolveCurrency(explicit, inherited) ==
    IF explicit # "" THEN explicit ELSE IF inherited # "" THEN inherited ELSE Default

\* exponentOf, the table of KNOWN codes: any other throws.
Known(c) == c \in DOMAIN EXP

\* make: a code that is missing or unknown throws, and an amount that is no decimal.
Make(v, explicit) ==
    LET c == ResolveCurrency(explicit, IF IsMoney(v) THEN v.c ELSE "")
    IN IF Known(c) /\ AggOf(v) # Throws THEN MoneyOf(AggOf(v).a, c) ELSE Throws

\* fromDec: rounded to the minor unit of the currency.
FromDec(d, c, mode) == MoneyOf(RoundDp(d, EXP[c], RoundingStrategy(mode)), c)

\* sameCurrency
SameCurrency(v, w) == IsMoney(w) /\ v.c = w.c

\* Money.add
AddMoney(v, w) == IF SameCurrency(v, w) THEN MoneyOf(Plus(v.a, w.a), v.c) ELSE Throws

\* cmp: money with money of its currency only, a decimal with any amount.
Comparable(v, w) == IsMoney(v) => SameCurrency(v, w)

-----------------------------------------------------------------------------
(* Columns                                                                 *)

\* Mutant: a number in a column of money is added to it.
SumStepCounts(total, v) ==
    CASE total = Throws \/ AggOf(v) = Null -> total
      [] IsMoney(v) -> IF IsMoney(total) THEN AddMoney(total, v) ELSE v
      [] OTHER -> IF NumOf(v) = Throws THEN Throws ELSE [total EXCEPT !.a = Plus(@, v.a)]

\* One row of sum: the first money value makes it a column of money, in which other
\* values are skipped unread and the decimals before it do not count.
SumStep(total, v) ==
    CASE total = Throws \/ (IsMoney(total) /\ ~IsMoney(v)) \/ AggOf(v) = Null -> total
      [] IsMoney(v) -> IF IsMoney(total) THEN AddMoney(total, v) ELSE v
      [] OTHER -> IF NumOf(v) = Throws THEN Throws ELSE DecimalOf(Plus(total.a, v.a))

\* Lst.sum
SumColumn(rows) == FoldLeft(SumStep, DecimalOf(Whole(0)), rows)

\* Lst.avg: over the values that are part of the sum.
AvgColumn(rows) ==
    LET total == SumColumn(rows)
        n == Len(SelectSeq(rows, LAMBDA v : AggOf(v).is = total.is))
    IN CASE total = Throws -> Throws
         [] total # Throws /\ n = 0 -> Null
         [] OTHER -> [total EXCEPT !.a = Quotient(@, Whole(n))]

\* extremum: sign is -1 for min and 1 for max; of equal values the first is kept.
Extremum(rows, sign) ==
    FoldLeft(LAMBDA best, row :
                LET v == AggOf(row) IN
                CASE best = Throws \/ v = Null -> best
                  [] best = Null \/ v = Throws -> v
                  [] OTHER -> IF ~Comparable(v, best) THEN Throws
                              ELSE IF Compare(v.a, best.a) = sign THEN v ELSE best,
             Null, rows)

\* cmp_order: amounts of money and decimals exactly, whatever the currency, and the scalars
\* as JavaScript compares them: two strings by their characters.
CmpOrder(v, w) ==
    IF v.is = "string" /\ w.is = "string" THEN Compare(Whole(v.place), Whole(w.place))
    ELSE Compare(v.a, w.a)

\* sort_by with no field, stable, of numeric rows that are all strings or none of them.
SortBy(rows, dir) ==
    LET before(i, j) == \/ CmpOrder(rows[i], rows[j]) = -dir
                        \/ CmpOrder(rows[i], rows[j]) = 0 /\ i < j
        place(i) == Cardinality({j \in DOMAIN rows : before(j, i)}) + 1
    IN [k \in DOMAIN rows |-> rows[CHOOSE i \in DOMAIN rows : place(i) = k]]

\* __id_key: the printed amount and the currency; unique keeps the first of each.
Unique(rows) ==
    LET firsts == {i \in DOMAIN rows : \A j \in 1 .. i - 1 : rows[j] # rows[i]}
    IN [k \in 1 .. Cardinality(firsts) |->
           rows[CHOOSE i \in firsts : Cardinality({j \in firsts : j <= i}) = k]]

-----------------------------------------------------------------------------
(* The script                                                              *)

VARIABLES
    column,     \* the values at hand
    worth,      \* currency -> what they ought to be worth, exactly
    roundings,  \* currency -> the halves of a minor unit its roundings may be off by
    split,      \* the allocations made: what was split, by which weights, into what
    ops         \* operations so far

vars == <<column, worth, roundings, split, ops>>

Init ==
    /\ column = <<>>
    /\ worth = [c \in DOMAIN EXP |-> Whole(0)]
    /\ roundings = [c \in DOMAIN EXP |-> 0]
    /\ split = {}
    /\ ops = 0

Step == ops < MaxOps /\ ops' = ops + 1

\* Row i of the column makes way for new ones.
Replace(i, new) ==
    /\ Len(column) + Len(new) - 1 <= MaxRows
    /\ column' = SubSeq(column, 1, i - 1) \o new \o SubSeq(column, i + 1, Len(column))

Books(c, d) == worth' = [worth EXCEPT ![c] = Plus(@, d)]

\* A value comes in: an amount of a currency, made from a number or from another row, a
\* bare decimal, a number, a numeric string, or a blank.
Enter ==
    /\ Step /\ Len(column) < MaxRows
    /\ \/ \E from \in {DecimalOf(a) : a \in Amounts} \cup {v \in Range(column) : Numeric(v)},
             c \in Currencies :
             LET v == Make(from, c)
             IN IF v = Throws THEN UNCHANGED <<column, worth>>
                ELSE column' = Append(column, v) /\ Books(v.c, v.a)
       \/ \E v \in {DecimalOf(a) : a \in Amounts} \cup Scalars \cup {Blank} :
             column' = Append(column, v) /\ UNCHANGED worth
    /\ UNCHANGED <<roundings, split>>

\* Money.add and sub of two rows, which become one.
Add(i, j) ==
    /\ Step /\ i # j /\ IsMoney(column[i])
    /\ IF ~SameCurrency(column[i], column[j]) THEN UNCHANGED <<column, worth>>
       ELSE LET v == column[i]
                w == column[j].a
            IN \/ /\ column' = RemoveAt([column EXCEPT ![i] = AddMoney(v, column[j])], j)
                  /\ UNCHANGED worth
               \/ /\ column' = RemoveAt([column EXCEPT ![i].a = Plus(@, Negate(w))], j)
                  /\ Books(v.c, Times(w, Whole(-2)))
    /\ UNCHANGED <<roundings, split>>

\* Money.mul, div, neg, abs: the amount changes and with it what the column is worth.
Rework(i) ==
    /\ Step /\ IsMoney(column[i])
    /\ \E a \in {Times(column[i].a, Whole(3)), Quotient(column[i].a, Whole(3)),
                 Negate(column[i].a), Abs(column[i].a)} :
          /\ column' = [column EXCEPT ![i].a = a]
          /\ Books(column[i].c, Plus(a, Negate(column[i].a)))
    /\ UNCHANGED <<roundings, split>>

\* n halves of a minor unit that a rounding of d may be off by: none if it has no more
\* places than the currency.
Rounds(d, c, n) ==
    roundings' = [roundings EXCEPT ![c] = @ + (IF d.s > EXP[c] THEN n ELSE 0)]

\* Money.round, in any mode; an unknown one throws.
Round(i) ==
    /\ Step /\ IsMoney(column[i])
    /\ \E mode \in RoundingModes \cup {"", "sideways"} :
          LET v == column[i]
          IN IF mode = "sideways" THEN UNCHANGED <<column, roundings>>
             ELSE /\ column' = [column EXCEPT ![i] = FromDec(v.a, v.c, mode)]
                  /\ Rounds(v.a, v.c, IF mode \in {"", "half_up", "half_even"} THEN 1 ELSE 2)
    /\ UNCHANGED <<worth, split>>

\* Money.add_pct
AddPct(i) ==
    /\ Step /\ IsMoney(column[i])
    /\ \E p \in Percents :
          LET v == column[i]
              sum == Plus(v.a, Pct(v.a, p))
          IN /\ column' = [column EXCEPT ![i] = FromDec(sum, v.c, "")]
             /\ Books(v.c, Pct(v.a, p))
             /\ Rounds(sum, v.c, 1)
    /\ UNCHANGED split

\* A part is taken off: sub_pct beside pct, each rounded to the minor unit.
Deduct(i) ==
    /\ Step /\ IsMoney(column[i])
    /\ \E p \in Percents :
          LET v == column[i]
              part == Pct(v.a, p)
              rest == Plus(v.a, Negate(part))
          IN /\ Replace(i, <<FromDec(rest, v.c, ""), FromDec(part, v.c, "")>>)
             /\ Rounds(rest, v.c, 2)
    /\ UNCHANGED <<worth, split>>

\* Money.allocate: the shares take the place of the amount.
Split(i) ==
    /\ Step /\ IsMoney(column[i])
    /\ \E weights \in WeightLists :
          LET v == column[i]
              places == EXP[v.c]
              shares == Allocate(v.a, places, weights)
          IN IF ~WeightsOk(weights) THEN UNCHANGED <<column, roundings, split>>
             ELSE /\ Replace(i, [k \in DOMAIN shares |-> MoneyOf(Dec(shares[k], places), v.c)])
                  /\ Rounds(v.a, v.c, 1)
                  /\ split' = split \cup {[total |-> ToMinor(v.a, places), weights |-> weights,
                                           shares |-> shares]}
    /\ UNCHANGED worth

\* Money.amount, and div by money: the bare number of a row, or its ratio to another,
\* joins the column.
Amount(i) ==
    /\ Step /\ IsMoney(column[i]) /\ Len(column) < MaxRows
    /\ LET by == {w \in Range(column) : SameCurrency(column[i], w) /\ w.a.m # 0}
       IN \E a \in {column[i].a} \cup {Quotient(column[i].a, w.a) : w \in by} :
             column' = Append(column, DecimalOf(a))
    /\ UNCHANGED <<worth, roundings, split>>

Next ==
    \/ Enter
    \/ \E i \in DOMAIN column :
          \/ Rework(i) \/ Round(i) \/ AddPct(i) \/ Deduct(i) \/ Split(i) \/ Amount(i)
          \/ \E j \in DOMAIN column : Add(i, j)

Spec == Init /\ [][Next]_vars

-----------------------------------------------------------------------------
(* Properties                                                              *)

\* Rows are money of a known currency, decimals, numbers, strings or blanks.
TypeOK ==
    /\ ops \in 0 .. MaxOps /\ Len(column) <= MaxRows
    /\ roundings \in [DOMAIN EXP -> Nat] /\ DOMAIN worth = DOMAIN EXP
    /\ \A v \in Range(column) :
          /\ v.is \in {"money", "dec", "number", "string", "blank"}
          /\ Numeric(v) => v.a \in [m : Int, s : Nat]
          /\ IsMoney(v) => Known(v.c)

\* The money of currency c in the column, exactly.
Held(c) == SumOf([i \in DOMAIN column |-> IF IsMoney(column[i]) /\ column[i].c = c
                                          THEN column[i].a ELSE Whole(0)])

\* However amounts are split, added and deducted from, a currency's total is off by at
\* most half a minor unit for each rounding to the nearest, one for each directed one,
\* and by nothing without (allocate, fromDec, to_minor).
WorthKept ==
    \A c \in DOMAIN EXP :
        \A off \in {Plus(held, Negate(worth[c])) : held \in {Held(c)}} :
           Compare(Times(Abs(off), Whole(2 * 10^EXP[c])), Whole(roundings[c])) <= 0

\* The weights of a split as whole numbers, and as fractions of their sum the part of a
\* quota that is whole and what remains of it.
Weights(x) ==
    LET scale == Max({x.weights[i].s : i \in DOMAIN x.weights})
    IN [i \in DOMAIN x.weights |-> At(x.weights[i], scale)]
WholePart(x, i) == (x.total * Weights(x)[i]) \div FoldLeft(+, 0, Weights(x))
Remainder(x, i) == (x.total * Weights(x)[i]) % FoldLeft(+, 0, Weights(x))

\* An allocation is the largest-remainder one: the shares add up to the total, each is
\* its quota rounded down or up, and who is rounded up has no smaller remainder than who is
\* not; of equal weights the first come first.  Quotas are compared as fractions, which the
\* code has in decimals of as many places as fit (allocate).
SharesFair ==
    \A x \in split :
        LET w == Weights(x)
            low(i) == WholePart(x, i)
            rest(i) == Remainder(x, i)
        IN /\ FoldLeft(+, 0, x.shares) = x.total
           /\ \A i \in DOMAIN w :
                 /\ x.shares[i] \in {low(i), low(i) + 1}
                 /\ x.shares[i] = low(i) + 1 => rest(i) > 0
           /\ \A i, j \in DOMAIN w :
                 x.shares[i] = low(i) + 1 /\ x.shares[j] = low(j)
                 => rest(i) >= rest(j) /\ (w[i] = w[j] => i < j)

\* Splitting, adding and deducting lose no money beyond the roundings asked for, and no
\* share of a split gets what is another's (allocate, fromDec, add_pct, sub_pct).
SplitsKeepWorth == WorthKept /\ SharesFair

\* A column of money is summed as money whatever lies between: mixed currencies throw in
\* any order of the rows, and numbers and blanks do not count, except that a number written
\* with an exponent throws where no money comes before it.  In a column of money of one
\* currency, or of none, without such a number the mean lies between the extrema, and
\* without strings they are what sort_by puts first (list.js).
AggregatesAgree ==
    LET money == SelectSeq(column, IsMoney)
        codes == {money[i].c : i \in DOMAIN money}
        numbers == SelectSeq(column, Numeric)
        unread == {i \in DOMAIN column : NumOf(column[i]) = Throws}
        low == Extremum(column, -1)
        high == Extremum(column, 1)
        mean == AvgColumn(column)
    IN /\ SumColumn(column) =
             CASE \E i \in unread : \A j \in 1 .. i : ~IsMoney(column[j]) -> Throws
               [] OTHER ->
             CASE codes = {} -> DecimalOf(SumOf([i \in DOMAIN numbers |-> numbers[i].a]))
               [] Cardinality(codes) = 1 ->
                     MoneyOf(FoldLeft(Plus, Head(money).a, [i \in DOMAIN Tail(money) |-> Tail(money)[i].a]),
                             Head(money).c)
               [] OTHER -> Throws
       /\ Cardinality(codes) <= 1 /\ money \in {<<>>, numbers} /\ numbers # <<>> /\ unread = {} =>
             /\ Compare(low.a, mean.a) <= 0 /\ Compare(mean.a, high.a) <= 0
             /\ (\A v \in Range(numbers) : v.is # "string") =>
                   /\ low = AggOf(Head(SortBy(numbers, 1)))
                   /\ high = AggOf(Head(SortBy(numbers, -1)))

-----------------------------------------------------------------------------
(* Claims of comments and specifications that the code does not meet       *)

\* openspec money/spec.md:153-154, "Tie-breaking SHALL be deterministic and order-stable
\* (earlier-listed shares receive leftover units first)": a larger quota has fewer places, so
\* that of equal remainders the one of the smaller quota may be the larger decimal.
TiesToTheFirst ==
    \A x \in split : \A i, j \in DOMAIN x.shares :
        /\ x.shares[i] = WholePart(x, i) + 1 /\ x.shares[j] = WholePart(x, j)
        /\ Remainder(x, i) = Remainder(x, j)
        => i < j

\* openspec list/spec.md:141-142, "Over a column of `number`/numeric-string/`Decimal` values,
\* `sum`/`avg`/`min`/`max` SHALL return an exact `Decimal`": 1e-7 is a number.
NumbersHaveASum ==
    SelectSeq(column, IsMoney) = <<>> => SumColumn(column).is = "dec"

\* list.js:203-204, "A column is treated as money once any money value is seen; other
\* values are then skipped": the extrema of a column are those of its money.
ExtremaSkipStrays ==
    LET money == SelectSeq(column, IsMoney)
    IN money # <<>> => Extremum(column, 1) = Extremum(money, 1)

\* list.js:157-158, "Equal wrapper values (money by amount+currency, decimal/datetime/text
\* by value) collapse".
EqualValuesCollapse ==
    LET rows == Unique(SelectSeq(column, Numeric))
    IN \A i, j \in DOMAIN rows :
          i # j /\ rows[i].is = rows[j].is /\ rows[i].is \in {"money", "dec"} /\ Compare(rows[i].a, rows[j].a) = 0
          => IsMoney(rows[i]) /\ rows[i].c # rows[j].c
=============================================================================
