------------------------------- MODULE Demand -------------------------------
(***************************************************************************)
(* What is made of the demand history: the statistics of                   *)
(* src/chic/history/olap.py, the XYZ classes and the matrix of             *)
(* src/chic/history/analytics.py, and the purchase plan of                 *)
(* src/chic/aggregate/purchase.py with the sources src/chic/usecases.py    *)
(* gives it.                                                               *)
(*                                                                         *)
(* A mean is kept as the total over the days and a variance as the sums    *)
(* it is made from, so that comparisons are exact where the code's are of  *)
(* floats.  The safety stock, the product of a quantile and two roots, is  *)
(* an input.                                                               *)
(***************************************************************************)
EXTENDS Analytics

CONSTANTS
    XCut, YCut,         \* DEFAULT_X, DEFAULT_Y, in percent
    MinDays,            \* DEFAULT_MIN_DAYS, min_days
    FallbackDays        \* _FALLBACK_WINDOW_DAYS

ASSUME HistoryAssumption ==
    /\ XCut \in Nat /\ YCut \in Nat /\ MinDays \in Nat \ {0} /\ FallbackDays \in Nat \ {0}

-----------------------------------------------------------------------------
(* The statistics.  A demand row: day, href and quantity; one for each day *)
(* and product at most.                                                    *)

\* all_dates and spine: the days with any demand, from the product's first on.
Spine(rows, p) ==
    LET own == {r \in rows : r.href = p}
    IN  {d \in {r.day : r \in rows} : \E r \in own : r.day <= d}

\* The rows since a day, where one is given.
Since(rows, since) == {r \in rows : \A d \in since : r.day >= d}

\* demand_stats: of each product the days of the spine, a missing one counting
\* zero, and the sums that give mean and deviation over them.
DemandStats(rows) ==
    [p \in {r.href : r \in rows} |->
       LET own == {r \in rows : r.href = p}
       IN  [days |-> Cardinality(Spine(rows, p)), total |-> SumOver(own, LAMBDA r : r.qty),
            squares |-> SumOver(own, LAMBDA r : r.qty * r.qty)]]

\* _norm_thresholds: not below zero, and in order.
NormThresholds(x, y) ==
    LET low == Positive(x) IN [x |-> low, y |-> IF y >= low THEN y ELSE low]

\* cv <= cut percent, for cv = deviation / mean, and 0 without a positive mean.
Within(s, cut) ==
    \/ s.total <= 0
    \/ 10000 * (s.days * s.squares - s.total * s.total) <= cut * cut * s.total * s.total

\* _xyz_class
XyzClass(s, cuts) == IF Within(s, cuts.x) THEN "X" ELSE IF Within(s, cuts.y) THEN "Y" ELSE "Z"

\* The products with enough days.
Classified(stats, minDays) == {p \in DOMAIN stats : stats[p].days >= minDays}

\* sales_coverage: of the days between the first and the last that was captured,
\* how many were not.
Coverage(captured) ==
    IF captured = {} THEN [days |-> 0, gaps |-> 0, first |-> 0, last |-> 0]
    ELSE [days |-> Cardinality(captured),
          gaps |-> Cardinality((Min(captured) .. Max(captured)) \ captured),
          first |-> Min(captured), last |-> Max(captured)]

\* mean_demand, of whole pieces and to two decimals.
Mean(s) == Rounded(100 * s.total, s.days * Piece)

\* xyz_analysis: the products with enough days, those with the largest mean first; they
\* come in the order of the database, which is any order.
Xyz(stats, p, captured, limit) ==
    LET cuts == NormThresholds(p.x, p.y)
        enough == SetToSeq(Classified(stats, p.minDays))
        Item(k) == [id |-> k, mean |-> Mean(stats[k]), class |-> XyzClass(stats[k], cuts)]
        items == Ranked([i \in DOMAIN enough |-> Item(enough[i])], LAMBDA x : x.mean)
        Of(c) == CountBy(items, LAMBDA x : x.class = c)
    IN  Report([count |-> Len(items), x |-> Of("X"), y |-> Of("Y"), z |-> Of("Z"),
                unclassified |-> Cardinality(DOMAIN stats) - Len(items),
                coverage |-> Coverage(captured)], items, limit)

\* abc_xyz_matrix: the rows of the ABC that have a class in the history.
Matrix(pairs, stats, minDays, limit) ==
    LET abc == Abc(pairs)
        both == Where(abc, LAMBDA x : x.name \in Classified(stats, minDays))
        cuts == NormThresholds(XCut, YCut)
        Cell(x) == <<x.class, XyzClass(stats[x.name], cuts)>>
        In(c) == {i \in both : Cell(abc[i]) = c}
    IN  Report([classified |-> Cardinality(both), abcOnly |-> Len(pairs) - Cardinality(both),
                cells |-> [c \in {Cell(abc[i]) : i \in both} |->
                             [count |-> Cardinality(In(c)),
                              revenue |-> SumAt(In(c), abc, LAMBDA x : x.value)]]],
               RankedAt(both, abc, LAMBDA x : x.value), limit)

-----------------------------------------------------------------------------
(* The purchase plan.                                                      *)

NoDemand == [source |-> "none", total |-> 0, days |-> 1]

\* The statistics the plan is given: the history where it is long enough, else
\* the first line of recent sales that sold anything, else nothing.
SourceOf(p, stats, recent) ==
    LET sold == Where(recent, LAMBDA x : x.id = p /\ x.qty > 0)
    IN  IF p \in Classified(stats, MinDays)
        THEN [source |-> "history", total |-> stats[p].total, days |-> stats[p].days]
        ELSE IF sold # {}
        THEN [source |-> "estimate", total |-> recent[Min(sold)].qty, days |-> FallbackDays]
        ELSE NoDemand

\* math.ceil of a quotient.
Ceiling(a, b) == - ((- a) \div b)

\* Mutant of ToOrder: rounded down.
ToOrderFloor(upTo, available, days) == (upTo - days * available) \div (days * Piece)

\* What is missing up to the level, in whole pieces.
ToOrder(upTo, available, days) == Ceiling(upTo - days * available, days * Piece)

\* One line of purchase_plan.  reorder and upTo are the levels times the days.
PlanLine(line, d, p) ==
    LET safety == IF d.total > 0 THEN d.days * p.safety ELSE 0
        reorder == d.total * p.lead + safety
        upTo == d.total * (p.lead + p.review) + safety
        available == line.available + line.transit
        short == d.total > 0 /\ d.days * available < reorder
        order == IF short THEN ToOrder(upTo, available, d.days) ELSE 0
        toOrder == IF order > 0 THEN order ELSE 0
    IN  [id |-> line.id, source |-> d.source, available |-> available, demand |-> d,
         reorder |-> reorder, upTo |-> upTo, toOrder |-> toOrder,
         value |-> MoneyRound(toOrder * line.cost)]

\* purchase, purchase_plan: the products on stock, those to order most first.
PurchasePlan(stock, stats, recent, p, limit) ==
    LET lines == StockLines(stock)
        items == [i \in DOMAIN lines |->
                    PlanLine(lines[i], SourceOf(lines[i].id, stats, recent), p)]
    IN  Report([count |-> Len(items), needOrder |-> CountBy(items, LAMBDA x : x.toOrder > 0),
                value |-> SumBy(items, LAMBDA x : x.value)],
               Ranked(items, LAMBDA x : x.toOrder), limit)
=============================================================================
