----------------------------- MODULE Analytics -----------------------------
(***************************************************************************)
(* The analytics of src/chic/aggregate/analytics.py: ABC, segments of      *)
(* counterparties, dead stock, the comparison of two periods and the aging *)
(* of receivables, each an operator from the rows of the API to the answer *)
(* of the tool.  Shares are compared exactly; the code divides floats.     *)
(*                                                                         *)
(* Time is counted in parts of a day, Day of them to a day.                *)
(***************************************************************************)
EXTENDS Aggregate

CONSTANTS
    Day,            \* the parts of a day
    ACut, BCut      \* a_cut and b_cut, in percent

ASSUME CutsAssumption == ACut \in Nat \ {0} /\ BCut \in Nat /\ ACut < BCut /\ BCut < 100
ASSUME DayAssumption == Day \in Nat \ {0}

-----------------------------------------------------------------------------
(* ABC.                                                                    *)

Positive(v) == IF v > 0 THEN v ELSE 0

\* Mutant of Cumulative: the row's own value is left out.
CumulativeBefore(s, i) == SumAt(1 .. i - 1, s, LAMBDA x : Positive(x.value))

\* cum: the positive values down to row i of the ranking.
Cumulative(s, i) == SumAt(1 .. i, s, LAMBDA x : Positive(x.value))

\* abc: rank by value, class by the cumulative share; no value, no class but C.
Abc(pairs) ==
    LET s == Ranked(pairs, LAMBDA x : x.value)
        total == SumBy(s, LAMBDA x : Positive(x.value))
        Class(i) == IF s[i].value <= 0 THEN "C"
                    ELSE IF 100 * Cumulative(s, i) <= ACut * total THEN "A"
                    ELSE IF 100 * Cumulative(s, i) <= BCut * total THEN "B" ELSE "C"
    IN  [i \in DOMAIN s |-> [name |-> s[i].name, value |-> s[i].value, class |-> Class(i)]]

\* abc_report
AbcReport(items, limit) ==
    LET Of(c) == CountBy(items, LAMBDA x : x.class = c)
    IN  Report([count |-> Len(items), a |-> Of("A"), b |-> Of("B"), c |-> Of("C"),
                value |-> SumBy(items, LAMBDA x : Positive(x.value))], items, limit)

-----------------------------------------------------------------------------
(* Segments of counterparties.                                             *)

\* _seg_defaults: zero means the default.
OrDefault(n, default) == IF n = 0 THEN default ELSE n

\* int() of n times a share in percent: truncated toward zero.
PartOf(n, percent) == IF percent >= 0 THEN (n * percent) \div 100 ELSE - ((n * (- percent)) \div 100)

\* idx: the place in the ranking of revenues, from 0, that the VIPs must reach; one below
\* zero counts from the end of the list.
VipIndex(n, percent) ==
    LET idx == Least(PartOf(n, percent), n - 1) IN IF idx < 0 THEN n + idx ELSE idx

\* vip_threshold
VipThreshold(rows, percent) ==
    LET s == Ranked(Metrics(rows), LAMBDA m : m.revenue)
    IN  s[VipIndex(Len(s), percent) + 1].revenue

\* The days since the last purchase; -1 when there is none.
DaysSince(m, now) == IF m.last = "never" THEN -1 ELSE DaysBetween(now, m.at, Day)

\* The labels of one counterparty.
Segments(m, threshold, now, p) ==
    LET days == DaysSince(m, now)
        sleeping == days >= OrDefault(p.sleeping, 90)
        Holds == [vip |-> m.revenue > 0 /\ m.revenue >= threshold,
                  sleeping |-> days >= 0 /\ sleeping,
                  at_risk |-> days >= 0 /\ ~ sleeping /\ days >= OrDefault(p.atRisk, 45),
                  low_check |-> p.lowCheck > 0 /\ m.count > 0 /\ m.receipt < p.lowCheck,
                  debtor |-> m.balance > 0,
                  negative_margin |-> m.revenue > 0 /\ m.profit < 0]
    IN  {l \in DOMAIN Holds : Holds[l]}

\* segment_counterparties and segment_report.
SegmentReport(rows, now, p, limit) ==
    LET threshold == VipThreshold(rows, OrDefault(p.vip, 20))
        Segment(m) == [revenue |-> m.revenue, days |-> DaysSince(m, now),
                       labels |-> Segments(m, threshold, now, p)]
        segs == [i \in DOMAIN rows |-> Segment(Metric(rows[i]))]
        labels == {"vip", "sleeping", "at_risk", "low_check", "debtor", "negative_margin"}
    IN  Report([l \in labels |-> CountBy(segs, LAMBDA s : l \in s.labels)],
               Ranked(segs, LAMBDA s : s.revenue), limit)

-----------------------------------------------------------------------------
(* Dead stock.                                                             *)

\* dead_stock and dead_stock_report; outcome is a function of the references
\* that moved, with no element when no window was given.
DeadStockReport(rows, outcome, threshold, limit) ==
    LET Dead(r) == /\ r.stock > 0 /\ r.days >= threshold
                   /\ ~ (r.href \in DOMAIN outcome /\ outcome[r.href] > 0)
        lines == RankedAt(Where(rows, Dead), StockLines(rows), LAMBDA x : x.value)
    IN  Report([count |-> Len(lines), value |-> SumBy(lines, LAMBDA x : x.value)], lines, limit)

-----------------------------------------------------------------------------
(* The comparison of two periods.                                          *)

\* _fold: the values of a key add up; a key that is not there has none.
Folded(pairs, k) == SumAt(Where(pairs, LAMBDA p : p.key = k), pairs, LAMBDA p : p.value)

\* compare_periods: one change for each key of either period, the first period's
\* keys first, each in the order they came.
Compare(a, b, topN) ==
    LET pairs == a \o b
        keys == Firsts(pairs, LAMBDA p : p.key)
        Change(k) == [key |-> k, a |-> MoneyRound(Folded(a, k)), b |-> MoneyRound(Folded(b, k)),
                      delta |-> MoneyRound(Folded(b, k) - Folded(a, k))]
        changes == [i \in DOMAIN pairs |-> Change(pairs[i].key)]
        Top(Val(_)) ==
            LET s == RankedAt({i \in keys : Val(changes[i]) > 0}, changes, Val)
            IN  SubSeq(s, 1, Least(topN, Len(s)))
        TotalOf(period) == SumAt(keys, pairs, LAMBDA p : Folded(period, p.key))
    IN  [a |-> MoneyRound(TotalOf(a)), b |-> MoneyRound(TotalOf(b)),
         delta |-> MoneyRound(TotalOf(b) - TotalOf(a)),
         gainers |-> Top(LAMBDA c : c.delta), decliners |-> Top(LAMBDA c : - c.delta)]

-----------------------------------------------------------------------------
(* Receivables.                                                            *)

\* _bucket_index
BucketIndex(days) ==
    IF days <= 0 THEN 0 ELSE IF days <= 30 THEN 1 ELSE IF days <= 60 THEN 2
    ELSE IF days <= 90 THEN 3 ELSE 4

\* overdue_days: whole days past the planned payment; none without one.
OverdueDays(d, now) == IF d.due # "none" /\ d.at < now THEN DaysBetween(now, d.at, Day) ELSE 0

\* receivables_aging
Aging(docs, now, limit) ==
    LET Item(d) == [outstanding |-> MoneyRound(d.sum - d.paid), days |-> OverdueDays(d, now)]
        items == [i \in DOMAIN docs |-> Item(docs[i])]
        owed == Where(items, LAMBDA x : x.outstanding > 0)
        In(b) == {i \in owed : BucketIndex(items[i].days) = b}
    IN  Report([outstanding |-> SumAt(owed, items, LAMBDA x : x.outstanding),
                overdue |-> SumAt(owed, items, LAMBDA x : IF x.days > 0 THEN x.outstanding ELSE 0),
                buckets |-> [b \in 0 .. 4 |->
                               [count |-> Cardinality(In(b)),
                                amount |-> SumAt(In(b), items, LAMBDA x : x.outstanding)]]],
               RankedAt(owed, items, LAMBDA x : x.days), limit)
=============================================================================
