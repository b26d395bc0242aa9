----------------------------- MODULE Aggregate -----------------------------
(***************************************************************************)
(* What the aggregates of src/chic/aggregate share: money, ranking, the    *)
(* truncating envelope, and the reports that consist of these alone.       *)
(*                                                                         *)
(* An amount is a whole number of Cent-ths of a minor unit, so that what   *)
(* the code holds in a Decimal stays whole here; Cent is chosen with the   *)
(* divisors the inputs need.  A quantity is a number of Piece-ths.         *)
(* Percentages and labels that only restate the amounts are left out.      *)
(***************************************************************************)
EXTENDS Integers, Sequences, FiniteSets, FiniteSetsExt, Functions, SequencesExt

CONSTANTS
    Cent, Piece,                \* the parts of a minor unit and of a piece
    DefaultLimit, MaxLimit      \* clamp_limit's 100 and 1000

ASSUME UnitsAssumption == Cent \in Nat \ {0} /\ Piece \in Nat \ {0}
ASSUME LimitsAssumption == DefaultLimit \in 1 .. MaxLimit /\ MaxLimit \in Nat

-----------------------------------------------------------------------------
Least(a, b) == IF a <= b THEN a ELSE b

Magnitude(v) == IF v >= 0 THEN v ELSE - v

\* a / b to a whole number, halves away from zero.
Rounded(a, b) ==
    LET Up(x) == (2 * x + b) \div (2 * b) IN IF a >= 0 THEN Up(a) ELSE - Up(- a)

\* money_round of an amount that is one of so many parts of v.
MoneyRoundOf(v, parts) == Rounded(v, parts * Cent) * Cent

\* money_round, and minor_to_major too: whole minor units.
MoneyRound(v) == MoneyRoundOf(v, 1)

\* days_between: whole days, truncated toward zero.
DaysBetween(now, earlier, day) ==
    IF now >= earlier THEN (now - earlier) \div day ELSE - ((earlier - now) \div day)

\* The rows of a list that a condition holds of, by their positions.
Where(s, Holds(_)) == {i \in DOMAIN s : Holds(s[i])}

CountBy(s, Holds(_)) == Cardinality(Where(s, Holds))

\* The sum of a value over a set, over rows of a list, and over all of them.
SumOver(S, Val(_)) == SumFunction([x \in S |-> Val(x)])
SumAt(S, s, Val(_)) == SumFunction([i \in S |-> Val(s[i])])
SumBy(s, Val(_)) == SumAt(DOMAIN s, s, Val)

\* i comes before j: it has the larger value, or came first.
Before(v, i, j) == v[i] > v[j] \/ (v[i] = v[j] /\ i < j)

\* sorted(..., reverse=True): the positions of the values, the largest first, ties
\* in the order they came.
Order(v) ==
    [k \in 1 .. Cardinality(DOMAIN v) |->
        CHOOSE i \in DOMAIN v : Cardinality({j \in DOMAIN v : Before(v, j, i)}) = k - 1]

\* Rows of a list, and all of them, so ranked.
RankedAt(S, s, Val(_)) ==
    LET order == Order([i \in S |-> Val(s[i])]) IN [k \in DOMAIN order |-> s[order[k]]]
Ranked(s, Val(_)) == RankedAt(DOMAIN s, s, Val)

\* The entries of a dict filled from a list: of each key where it first came.
Firsts(s, Key(_)) == {i \in DOMAIN s : ~ \E j \in 1 .. i - 1 : Key(s[j]) = Key(s[i])}

\* clamp_limit
ClampLimit(n) == IF n <= 0 THEN DefaultLimit ELSE IF n > MaxLimit THEN MaxLimit ELSE n

\* Mutant of Truncated: a list of exactly the limit counts as truncated.
TruncatedInclusive(rows, limit) == 0 < limit /\ limit <= Len(rows)

Truncated(rows, limit) == 0 < limit /\ limit < Len(rows)

\* truncate, and the Report envelope around it.
Report(totals, rows, limit) ==
    LET shown == IF Truncated(rows, limit) THEN SubSeq(rows, 1, limit) ELSE rows
    IN  [totals |-> totals, rowCount |-> Len(rows), returned |-> Len(shown),
         truncated |-> Truncated(rows, limit), rows |-> shown]

-----------------------------------------------------------------------------
(* Reports whose rows are converted, ranked and summed.                    *)

\* What a product is known by: its reference or its name.
ProductIds == {"href", "name"} \X STRING

\* product_key: the reference, or the name where there is none.
ProductKey(r) == IF r.href # "" THEN <<"href", r.href>> ELSE <<"name", r.name>>

\* profit_by_product, profit_by_entity.
ProfitLine(r) ==
    [id |-> ProductKey(r), qty |-> r.qty, revenue |-> MoneyRound(r.revenue),
     cost |-> MoneyRound(r.cost)]

ProfitLines(rows) == [i \in DOMAIN rows |-> ProfitLine(rows[i])]

\* profit_product_report, profit_entity_report.
ProfitReport(rows, limit) ==
    LET lines == Ranked(ProfitLines(rows), LAMBDA x : x.revenue)
    IN  Report([revenue |-> SumBy(lines, LAMBDA x : x.revenue),
                cost |-> SumBy(lines, LAMBDA x : x.cost),
                qty |-> SumBy(lines, LAMBDA x : x.qty)], lines, limit)

\* stock: what is available, and its value at cost.
StockLine(r) ==
    [id |-> ProductKey(r), href |-> r.href, stock |-> r.stock, available |-> r.stock - r.reserve,
     transit |-> r.transit, cost |-> MoneyRound(r.price),
     value |-> MoneyRoundOf(r.stock * MoneyRound(r.price), Piece), days |-> r.days]

StockLines(rows) == [i \in DOMAIN rows |-> StockLine(rows[i])]

\* stock_report.
StockReport(rows, limit) ==
    LET lines == Ranked(StockLines(rows), LAMBDA x : x.value)
    IN  Report([units |-> SumBy(lines, LAMBDA x : x.stock),
                available |-> SumBy(lines, LAMBDA x : x.available),
                value |-> SumBy(lines, LAMBDA x : x.value)], lines, limit)

\* stock_by_store: the per-product, per-store rows pivoted into one line a store.
\* Of a product's rows in one store each counts; a position that is all zero does not.
StockByStore(rows) ==
    LET places == FlattenSeq([i \in DOMAIN rows |-> rows[i].stores])
        In(name) == Where(places, LAMBDA p : p.store = name)
        Held == Where(places, LAMBDA p : p.stock # 0 \/ p.reserve # 0 \/ p.transit # 0)
        Line(name) ==
            [store |-> name, positions |-> Cardinality(In(name) \cap Held),
             units |-> SumAt(In(name), places, LAMBDA p : p.stock),
             reserve |-> SumAt(In(name), places, LAMBDA p : p.reserve),
             available |-> SumAt(In(name), places, LAMBDA p : p.stock - p.reserve)]
        lines == RankedAt(Firsts(places, LAMBDA p : p.store),
                          [i \in DOMAIN places |-> Line(places[i].store)], LAMBDA x : x.units)
    IN  Report([stores |-> Len(lines), units |-> SumBy(lines, LAMBDA x : x.units),
                available |-> SumBy(lines, LAMBDA x : x.available)], lines, 0)

\* counterparty_metrics.
Metric(r) ==
    [last |-> r.last, at |-> r.at, count |-> r.count, revenue |-> MoneyRound(r.revenue),
     receipt |-> MoneyRound(r.receipt), balance |-> MoneyRound(r.balance),
     profit |-> MoneyRound(r.profit)]

Metrics(rows) == [i \in DOMAIN rows |-> Metric(rows[i])]

\* counterparty_report.
CounterpartyReport(rows, limit) ==
    LET lines == Ranked(Metrics(rows), LAMBDA x : x.revenue)
    IN  Report([revenue |-> SumBy(lines, LAMBDA x : x.revenue),
                profit |-> SumBy(lines, LAMBDA x : x.profit),
                balance |-> SumBy(lines, LAMBDA x : x.balance)], lines, limit)

\* turnover_report: what came in, went out and is left of each product.
TurnoverReport(rows, limit) ==
    LET Line(r) == [income |-> r.income, outcome |-> r.outcome, value |-> MoneyRound(r.value)]
        lines == Ranked([i \in DOMAIN rows |-> Line(rows[i])], LAMBDA x : x.value)
    IN  Report([income |-> SumBy(lines, LAMBDA x : x.income),
                outcome |-> SumBy(lines, LAMBDA x : x.outcome),
                value |-> SumBy(lines, LAMBDA x : x.value)], lines, limit)

\* document_report: in the order of the search, most recent first.
DocumentReport(docs, limit) ==
    LET lines == [i \in DOMAIN docs |->
                    [name |-> docs[i].name, sum |-> MoneyRound(docs[i].sum),
                     paid |-> MoneyRound(docs[i].paid)]]
    IN  Report([sum |-> SumBy(lines, LAMBDA x : x.sum),
                paid |-> SumBy(lines, LAMBDA x : x.paid)], lines, limit)

\* document_detail_of: the lines are worked out anew, from the rounded price, and
\* net of the discount, which the sum of the document is net of too.
DocumentDetail(d) ==
    LET Total(p) == MoneyRoundOf(MoneyRound(p.price) * p.qty * (100 - p.discount), 100 * Piece)
    IN  [sum |-> MoneyRound(d.sum),
         positions |-> [i \in DOMAIN d.positions |->
                          [price |-> MoneyRound(d.positions[i].price),
                           total |-> Total(d.positions[i])]]]

-----------------------------------------------------------------------------
(* Series, of which the API gives the points and, of money, the totals.    *)

\* money
MoneyFlow(m) ==
    [income |-> MoneyRound(m.credit), outcome |-> MoneyRound(m.debit),
     net |-> MoneyRound(MoneyRound(m.credit) - MoneyRound(m.debit)),
     series |-> [i \in DOMAIN m.series |->
                   [income |-> MoneyRound(m.series[i].credit),
                    outcome |-> MoneyRound(m.series[i].debit)]]]

\* sales_series: the totals are those of the rounded points.
SalesSeries(series) ==
    LET points == [i \in DOMAIN series |-> [qty |-> series[i].qty, sum |-> MoneyRound(series[i].sum)]]
    IN  [qty |-> SumBy(points, LAMBDA p : p.qty), sum |-> SumBy(points, LAMBDA p : p.sum),
         series |-> points]
=============================================================================
