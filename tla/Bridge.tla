------------------------------- MODULE Bridge -------------------------------
(***************************************************************************)
(* profit_bridge of src/chic/aggregate/bridge.py: the change of the gross  *)
(* profit between two periods taken apart into price, cost, volume, mix,   *)
(* new and discontinued products.                                          *)
(*                                                                         *)
(* Unit prices, unit costs and the average margin are to a Cent-th of a    *)
(* minor unit, where the code's divisions are to 28 digits.                *)
(***************************************************************************)
EXTENDS Aggregate

\* _by_id: the lines with a positive quantity, those of one id taken together.
ById(lines) ==
    LET sold == Where(lines, LAMBDA x : x.qty > 0)
        Of(k) == {i \in sold : lines[i].id = k}
    IN  [k \in {lines[i].id : i \in sold} |->
           [qty |-> SumAt(Of(k), lines, LAMBDA x : x.qty),
            revenue |-> SumAt(Of(k), lines, LAMBDA x : x.revenue),
            cost |-> SumAt(Of(k), lines, LAMBDA x : x.cost)]]

Gross(x) == x.revenue - x.cost

\* price_i and cost_i: the change of the unit price and of the unit cost, at the
\* quantity of the second period.
PriceEffect(x, y) == y.qty * ((y.revenue \div y.qty) - (x.revenue \div x.qty))
CostEffect(x, y)  == - (y.qty * ((y.cost \div y.qty) - (x.cost \div x.qty)))

\* qty_i: what price and cost leave of the product's change, the divisions' rests included.
QuantityEffect(x, y) == Gross(y) - Gross(x) - PriceEffect(x, y) - CostEffect(x, y)

\* Mutant of DiscontinuedEffect: the sign is lost.
DiscontinuedEffectGain(a, only) == SumOver(only, LAMBDA k : Gross(a[k]))

\* disc_eff and new_eff: what the products of one period alone brought.
DiscontinuedEffect(a, only) == - SumOver(only, LAMBDA k : Gross(a[k]))
NewEffect(b, only)          == SumOver(only, LAMBDA k : Gross(b[k]))

\* volume: the change of the common products' quantity at their average margin.
Volume(a, b, common) ==
    LET qa == SumOver(common, LAMBDA k : a[k].qty)
        qb == SumOver(common, LAMBDA k : b[k].qty)
    IN  IF qa > 0 THEN (qb - qa) * (SumOver(common, LAMBDA k : Gross(a[k])) \div qa) ELSE 0

\* The driver of a product of either period, with effects where it was sold in both.
Driver(a, b, k) ==
    LET GrossIn(lines) == IF k \in DOMAIN lines THEN Gross(lines[k]) ELSE 0
        Effect(Of(_, _)) == IF k \in DOMAIN a \cap DOMAIN b THEN MoneyRound(Of(a[k], b[k])) ELSE 0
    IN  [id |-> k, delta |-> MoneyRound(GrossIn(b) - GrossIn(a)), price |-> Effect(PriceEffect),
         cost |-> Effect(CostEffect), qty |-> Effect(QuantityEffect)]

\* The drivers: the largest changes first, topN of them.  The code goes through the
\* products of each kind in the order of a set of strings, which is any order.
Drivers(a, b, topN) ==
    LET ids == SetToSeq(DOMAIN a \cap DOMAIN b) \o SetToSeq(DOMAIN b \ DOMAIN a)
                 \o SetToSeq(DOMAIN a \ DOMAIN b)
        ranked == Ranked([i \in DOMAIN ids |-> Driver(a, b, ids[i])], LAMBDA d : Magnitude(d.delta))
    IN  SubSeq(ranked, 1, Least(topN, Len(ranked)))

\* profit_bridge: the exact effects, the rounded ones and the rounding between, and the
\* drivers.
ProfitBridge(aLines, bLines, topN) ==
    LET a == ById(aLines)
        b == ById(bLines)
        common == DOMAIN a \cap DOMAIN b
        volume == Volume(a, b, common)
        delta == SumOver(DOMAIN b, LAMBDA k : Gross(b[k])) - SumOver(DOMAIN a, LAMBDA k : Gross(a[k]))
        exact == [price |-> SumOver(common, LAMBDA k : PriceEffect(a[k], b[k])),
                  cost |-> SumOver(common, LAMBDA k : CostEffect(a[k], b[k])),
                  volume |-> volume,
                  mix |-> SumOver(common, LAMBDA k : QuantityEffect(a[k], b[k])) - volume,
                  new |-> NewEffect(b, DOMAIN b \ DOMAIN a),
                  discontinued |-> DiscontinuedEffect(a, DOMAIN a \ DOMAIN b)]
        effects == [e \in DOMAIN exact |-> MoneyRound(exact[e])]
    IN  [delta |-> MoneyRound(delta),
         exact |-> exact, effects |-> effects,
         residual |-> SumOver(DOMAIN exact, LAMBDA e : exact[e]) - delta,
         rounding |-> MoneyRound(delta) - SumOver(DOMAIN effects, LAMBDA e : effects[e]),
         drivers |-> Drivers(a, b, topN)]
=============================================================================
