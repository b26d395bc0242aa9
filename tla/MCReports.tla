------------------------------ MODULE MCReports ------------------------------
\* Small answers of the API for each tool: amounts on and around every boundary.
EXTENDS Reports

Key(p) == <<"href", p>>

Sold(href, qty, revenue, cost) ==
    [href |-> href, name |-> "n", qty |-> qty, revenue |-> revenue, cost |-> cost]
MCProfitRows == BoundedSeq({Sold("p", 2, 90, 60), Sold("", 1, 89, 0), Sold("q", 1, -30, 60)}, 3)

OnStock(href, stock, reserve, transit, price, days) ==
    [href |-> href, name |-> "n", stock |-> stock, reserve |-> reserve,
     transit |-> transit, price |-> price, days |-> days]
MCStockRows == BoundedSeq({OnStock("p", 2, 0, 0, 90, 30), OnStock("q", 3, 2, 4, 60, 29),
                           OnStock("", 0, 1, 0, 60, 40)}, 3)

MCTurnoverRows == BoundedSeq({[income |-> i, outcome |-> 1, value |-> 30 * i] : i \in 0 .. 3}, 3)

Place(store, stock, reserve, transit) ==
    [store |-> store, stock |-> stock, reserve |-> reserve, transit |-> transit]
MCStoreRows == BoundedSeq({[stores |-> s] :
    s \in BoundedSeq({Place("a", 2, 1, 0), Place("b", 0, 0, 0), Place("b", 3, 0, 1)}, 2)}, 2)

MCDocuments == BoundedSeq({[name |-> "o", sum |-> s, paid |-> p] : s \in {60, 90}, p \in {0, 30}}, 3)

MCValuePairs == BoundedSeq({[name |-> Key("p"), value |-> v * 60] : v \in {-1, 1, 3, 16}}, 4)

Buyer(revenue, last, at, balance, profit) ==
    [revenue |-> revenue, last |-> last, at |-> at, count |-> 1, receipt |-> revenue,
     balance |-> balance, profit |-> profit]
MCCounterparties == BoundedSeq({Buyer(0, "never", 0, 60, 0), Buyer(60, "day", 20, 0, -60),
                                Buyer(120, "day", 110, 0, 60)}, 5)
MCSegmentParams == {[sleeping |-> 0, atRisk |-> 0, lowCheck |-> 0, vip |-> 0],
                    [sleeping |-> 40, atRisk |-> 60, lowCheck |-> 120, vip |-> 40],
                    [sleeping |-> 0, atRisk |-> 0, lowCheck |-> 0, vip |-> -40]}

MCOutcomes == {<<>>, [p \in {"p"} |-> 1], [p \in {"p", "q"} |-> 0]}
MCThresholds == {-1, 30}

MCKeyedPairs == BoundedSeq({[key |-> k, value |-> v] : k \in {"k", "l"}, v \in {-60, 60, 120}}, 2)
MCTopNs == {0, 1}

\* Invoices due in the future, half a day ago, and on both sides of each boundary.
MCInvoices ==
    BoundedSeq({[sum |-> 120, paid |-> 0, due |-> "day", at |-> 200 - h] : h \in {-2, 1, 2, 60, 62, 122, 182}}
               \cup {[sum |-> 60, paid |-> 90, due |-> "day", at |-> 0],
                     [sum |-> 60, paid |-> 0, due |-> "none", at |-> 0]}, 3)

MCPeriodRows ==
    BoundedSeq({Sold("p", 2, 180, 60),
                Sold("p", 3, 240, 300),
                Sold("p", 3, 270, 90),
                Sold("q", 1, 60, 0),
                Sold("r", 3, 60, 60),
                Sold("r", 0, -60, 0)}, 2)

Demanded(d, p, q) == [day |-> d, href |-> Key(p), qty |-> q]
MCDemandRows ==
    {{Demanded(d, "p", 2) : d \in P} \cup {Demanded(d, "q", 10 * d) : d \in Q} :
        P \in {{}, {1}, {1, 3}, 1 .. 3}, Q \in {{}, {2}, {2, 3}, {3, 4}}}

\* Thresholds out of order and below zero, and no days at all.
MCXyzParams == {[minDays |-> 2, x |-> 10, y |-> 25, since |-> {}],
                [minDays |-> 0, x |-> 60, y |-> -10, since |-> {2}]}
MCMinDayCounts == {0, 3}

MCMatrixPairs == BoundedSeq({[name |-> Key(p), value |-> v * 60] : p \in {"p", "q", "r"}, v \in {1, 4}}, 2)

MCRecentLines == {<<>>, <<[id |-> Key("p"), qty |-> -2], [id |-> Key("p"), qty |-> 7]>>,
                  <<[id |-> Key("q"), qty |-> 1]>>}
MCCapturedDays == {{}, {2}, {1, 2, 5}}

\* Documents whose sum the API worked out from the prices it did not round.
Position(price, qty, discount) == [price |-> price, qty |-> qty, discount |-> discount]
MCDetails ==
    {[positions |-> p,
      sum |-> SumBy(p, LAMBDA x : MoneyRoundOf(x.price * x.qty * (100 - x.discount), 100 * Piece))] :
        p \in BoundedSeq({Position(c, q, d) : c \in {20, 100, 6000}, q \in {1, 6}, d \in {0, 10}}, 2)}

Flow(series) == [credit |-> SumBy(series, LAMBDA x : x.credit), debit |-> SumBy(series, LAMBDA x : x.debit),
                 series |-> series]
MCMoneyFlows == {Flow(s) : s \in BoundedSeq({[credit |-> c, debit |-> d] : c \in {20, 90}, d \in {0, 40}}, 3)}
MCSalesPoints == BoundedSeq({[qty |-> 1, sum |-> s] : s \in {20, 90}}, 2)

\* No limit, no turn at all, and one or two turns an hour.
MCRates == {-1, 0, 1, 2}

\* 9980 is a slip of 9990 that is just outside the window; 2020 may be a year.
Shown(v, style) == [value |-> Unit * v, style |-> style]
MCFigures == {{Shown(v, s)} : v \in {12, 999, 1000, 1001, 1010, 1020, 1990, 2020, 2120, 9980, 9990,
                                    847320, 843320, 847420}, s \in {"bare", "grouped"}}
             \cup {{Shown(9990, "bare"), Shown(9980, "bare"), [value |-> 25, style |-> "percent"]}}
MCOutputs == {{{Unit * v : v \in S}} : S \in SUBSET {12, 1000, 2020, 9990, 847320}}
MCUserFigures == {{}, {Unit * 9980}}

\* Every placement of newlines in a text of up to nine characters.
MCTexts == UNION {{[i \in 1 .. n |-> IF i \in S THEN Newline ELSE i] : S \in SUBSET (1 .. n)} : n \in 1 .. 9}
MCOptionLists == BoundedSeq({"", "a", "b"}, 3)

ThreeMonths == <<3, 2, 4>>

MCPlanParams == {[safety |-> s, lead |-> 2, review |-> r] : s \in {1}, r \in {0, 3}}

\* One argument of a call at most is not the usual one.
MCCalls ==
    UNION {{[method |-> m, arguments |-> [a \in Signatures[m] |-> IF a = b THEN 2 ELSE 1]] :
                b \in Signatures[m] \cup {""}} : m \in DOMAIN Signatures}
==============================================================================
