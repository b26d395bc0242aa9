------------------------------ MODULE Reports ------------------------------
(***************************************************************************)
(* What the program works out without waiting.  First the tools of         *)
(* src/chic/mcpserver/server.py that aggregate what the API answers: a     *)
(* tool is called with a limit, fetches its rows, and answers.  What the   *)
(* API may answer is a set for each tool; the fetching itself is the       *)
(* subject of Pagination and Transport.  Then what a turn works out on its *)
(* way: the figures to report, the chunks and buttons of its answer, the   *)
(* periods it asks for, and the keys under which the cache holds what it   *)
(* fetched.  One behaviour is one call; or it is a row of turns, before    *)
(* each of which the limiter is asked.                                     *)
(***************************************************************************)
EXTENDS Demand, Bridge, Limiter, Grounding, Replies, Periods, Keys

CONSTANTS
    Limits,                 \* the limits tools are called with
    Now,                    \* the clock of a call
    ProfitRows, StockRows, TurnoverRows, StoreRows, Documents,        \* what the API may answer
    ValuePairs, Counterparties, SegmentParams, Outcomes, Thresholds,
    KeyedPairs, TopNs, Invoices, PeriodRows,
    DemandRows, XyzParams, MinDayCounts, MatrixPairs, RecentLines, PlanParams, CapturedDays,
    Details, MoneyFlows, SalesPoints,
    Figures, Outputs, UserFigures,      \* what was answered, returned by the tools, asked
    Texts, OptionLists,                     \* what is answered, and the options of a question
    Calendar,                           \* days
    Calls                               \* calls to MoySklad: a method and its arguments

\* What the rows of the API, and what the tools are given beside them, are made of:
\* amounts, quantities and moments are whole numbers of their parts.  Of a share of VIPs
\* below -100 percent the code fails with an IndexError, which is left out.
ASSUME SalesAssumption ==
    /\ ProfitRows \cup PeriodRows \subseteq
         Seq([href : STRING, name : STRING, qty : Int, revenue : Int, cost : Int])
    /\ Counterparties \subseteq
         Seq([revenue : Int, last : {"never", "day"}, at : Int, count : Int, receipt : Int,
              balance : Int, profit : Int])
    /\ ValuePairs \cup MatrixPairs \subseteq Seq([name : ProductIds, value : Int])
    /\ KeyedPairs \subseteq Seq([key : STRING, value : Int])
    /\ SegmentParams \subseteq [sleeping : Int, atRisk : Int, lowCheck : Int, vip : Int]
    /\ \A p \in SegmentParams : p.vip >= -100
    /\ TopNs \subseteq Int /\ Limits \subseteq Int /\ Now \in Int

ASSUME GoodsAssumption ==
    /\ StockRows \subseteq
         Seq([href : STRING, name : STRING, stock : Int, reserve : Int, transit : Int,
              price : Int, days : Int])
    /\ TurnoverRows \subseteq Seq([income : Int, outcome : Int, value : Int])
    /\ StoreRows \subseteq
         Seq([stores : Seq([store : STRING, stock : Int, reserve : Int, transit : Int])])
    /\ Thresholds \subseteq Int

ASSUME DocumentsAssumption ==
    /\ Documents \subseteq Seq([name : STRING, sum : Int, paid : Int])
    /\ Invoices \subseteq Seq([sum : Int, paid : Int, due : {"day", "none"}, at : Int])
    /\ Details \subseteq [sum : Int, positions : Seq([price : Int, qty : Nat, discount : 0 .. 100])]
    /\ MoneyFlows \subseteq [credit : Int, debit : Int, series : Seq([credit : Int, debit : Int])]

\* The plan is never given a lead or a review time below zero: it clamps them.
ASSUME DemandAssumption ==
    /\ \A rows \in DemandRows :
         IsFiniteSet(rows) /\ rows \subseteq [day : Int, href : ProductIds, qty : Int]
    /\ XyzParams \subseteq [minDays : Int, x : Int, y : Int, since : SUBSET Int]
    /\ MinDayCounts \subseteq Int
    /\ RecentLines \subseteq Seq([id : ProductIds, qty : Int])
    /\ PlanParams \subseteq [safety : Int, lead : Nat, review : Nat]
    /\ \A days \in CapturedDays : IsFiniteSet(days) /\ days \subseteq Int

\* What is compared is of whole cents: it comes out of a report that has rounded it.
ASSUME PairsAssumption ==
    \A pairs \in KeyedPairs : \A i \in DOMAIN pairs : pairs[i].value % Cent = 0

\* An answer's figures and characters; the calendar goes on for a month before and after any day
\* asked for; and a call has the arguments of its method.
ASSUME TurnAssumption ==
    /\ \A figures \in Figures : \A f \in figures : f.value \in Int
    /\ \A outputs \in Outputs : \A numbers \in outputs : numbers \subseteq Int
    /\ \A numbers \in UserFigures : numbers \subseteq Int
    /\ Texts \subseteq Seq(Nat) /\ OptionLists \subseteq Seq(STRING)
    /\ \A d \in Calendar : d \in Int /\ FirstOf(2) <= d /\ d < FirstOf(Len(Months) + 1)
    /\ \A call \in Calls :
         /\ call.method \in DOMAIN Signatures
         /\ call = [method |-> call.method,
                    arguments |-> [a \in Signatures[call.method] |-> call.arguments[a]]]

VARIABLES tool, input, limit, answer

vars == <<tool, input, limit, answer, perHour, buckets, calls>>

Inputs == [
    profit    |-> [rows : ProfitRows],
    stock     |-> [rows : StockRows],
    turnover  |-> [rows : TurnoverRows],
    customers |-> [rows : Counterparties],
    stores    |-> [rows : StoreRows],
    documents |-> [rows : Documents],
    abc       |-> [rows : ValuePairs],
    segments  |-> [rows : Counterparties, params : SegmentParams],
    dead      |-> [rows : StockRows, outcome : Outcomes, threshold : Thresholds],
    compare   |-> [a : KeyedPairs, b : KeyedPairs, topN : TopNs],
    aging     |-> [rows : Invoices],
    bridge    |-> [a : PeriodRows, b : PeriodRows, topN : TopNs],
    detail    |-> [document : Details],
    money     |-> [flow : MoneyFlows],
    sales     |-> [series : SalesPoints],
    xyz       |-> [demand : DemandRows, captured : CapturedDays, params : XyzParams],
    matrix    |-> [rows : MatrixPairs, demand : DemandRows, minDays : MinDayCounts],
    plan      |-> [rows : StockRows, demand : DemandRows, recent : RecentLines,
                   params : PlanParams],
    ground    |-> [figures : Figures, outputs : Outputs, message : UserFigures],
    chunks    |-> [text : Texts],
    clarify   |-> [options : OptionLists, custom : {"yes", "no"}],
    periods   |-> [from : Calendar, to : Calendar, until : Calendar],
    keys      |-> [one : Calls, other : Calls],
    turns     |-> {<<>>}]

\* The calls with a limit.
Limited == {"profit", "stock", "turnover", "customers", "documents", "abc", "segments", "dead",
            "aging", "xyz", "matrix", "plan"}

NoAnswer == [returned |-> -1]

\* There is a limit to speak of where there are turns.
Init ==
    /\ tool \in DOMAIN Inputs
    /\ input \in Inputs[tool]
    /\ limit \in IF tool \in Limited THEN Limits ELSE {0}
    /\ answer = NoAnswer
    /\ LimiterInit
    /\ tool # "turns" => perHour < 0

-----------------------------------------------------------------------------
(* The tools, in the groups they are registered in; l caps the rows, 0 for   *)
(* all of them.                                                            *)

ReportTool(t, in, l) ==
    CASE t = "profit"    -> ProfitReport(in.rows, l)
      [] t = "turnover"  -> TurnoverReport(in.rows, l)
      [] t = "stock"     -> StockReport(in.rows, l)
      [] t = "customers" -> CounterpartyReport(in.rows, l)
      [] t = "money"     -> MoneyFlow(in.flow)

TopN(n) == IF n <= 0 THEN 10 ELSE n

MinAge(days) == IF days < 0 THEN 90 ELSE days

AnalyticsTool(t, in, l) ==
    CASE t = "compare"   -> Compare(in.a, in.b, TopN(in.topN))
      [] t = "bridge"    -> ProfitBridge(ProfitLines(in.a), ProfitLines(in.b), TopN(in.topN))
      [] t = "abc"       -> AbcReport(Abc(in.rows), l)
      [] t = "segments"  -> SegmentReport(in.rows, Now, in.params, l)
      [] t = "dead"      -> DeadStockReport(in.rows, in.outcome, MinAge(in.threshold), l)
      [] t = "aging"     -> Aging(in.rows, Now, l)

DocumentTool(t, in, l) ==
    CASE t = "documents" -> DocumentReport(in.rows, l)
      [] t = "detail"    -> DocumentDetail(in.document)

CatalogTool(t, in) ==
    CASE t = "stores"    -> StockByStore(in.rows)
      [] t = "sales"     -> SalesSeries(in.series)

AtLeastOne(n) == IF n < 1 THEN 1 ELSE n

HistoryTool(t, in, l) ==
    CASE t = "xyz"       -> Xyz(DemandStats(Since(in.demand, in.params.since)),
                                [in.params EXCEPT !.minDays = AtLeastOne(@)], in.captured, l)
      [] t = "matrix"    -> Matrix(in.rows, DemandStats(in.demand), AtLeastOne(in.minDays), l)
      [] t = "plan"      -> PurchasePlan(in.rows, DemandStats(in.demand), in.recent, in.params, l)

\* What a turn works out on its way.
TurnStep(t, in) ==
    CASE t = "ground"    -> CheckAnswer(in.figures, KnownNumbers(in.outputs, in.message))
      [] t = "chunks"    -> [chunks |-> SourceChunks(in.text)]
      [] t = "clarify"   -> [buttons |-> Keyboard(Options(in.options), in.custom)]
      [] t = "periods"   -> [first |-> Window(Date(in.from), Date(in.to)),
                             second |-> Window(Date(in.to + 1), Date(in.until)),
                             before |-> PrevMonth(in.to)]
      [] t = "keys"      -> [one |-> KeyOf(in.one), other |-> KeyOf(in.other)]

Answer(t, in, l) ==
    CASE t \in {"profit", "turnover", "stock", "customers", "money"} -> ReportTool(t, in, l)
      [] t \in {"compare", "bridge", "abc", "segments", "dead", "aging"} -> AnalyticsTool(t, in, l)
      [] t \in {"documents", "detail"} -> DocumentTool(t, in, l)
      [] t \in {"stores", "sales"} -> CatalogTool(t, in)
      [] t \in {"xyz", "matrix", "plan"} -> HistoryTool(t, in, l)
      [] t \in {"ground", "chunks", "clarify", "periods", "keys"} -> TurnStep(t, in)

\* The tool returns its answer.
Return ==
    /\ tool # "turns" /\ answer = NoAnswer
    /\ answer' = Answer(tool, input, ClampLimit(limit))
    /\ UNCHANGED <<tool, input, limit, limiterVars>>

\* A turn of a user begins: the limiter is asked first.
Turn ==
    /\ tool = "turns"
    /\ LimiterNext
    /\ UNCHANGED <<tool, input, limit, answer>>

Next == Return \/ Turn

Spec == Init /\ [][Next]_vars

-----------------------------------------------------------------------------
(* Properties.                                                             *)

Answered(t) == tool = t /\ answer # NoAnswer

\* The tools whose rows are ranked and cut, and what by.
RankOf(t, x) ==
    CASE t = "profit" -> x.revenue
      [] t \in {"stock", "dead", "turnover", "abc", "matrix"} -> x.value
      [] t \in {"segments", "customers"} -> x.revenue
      [] t = "aging" -> x.days
      [] t = "plan" -> x.toOrder
      [] t = "xyz" -> x.mean

RankedTools == {"profit", "stock", "dead", "turnover", "abc", "matrix", "segments", "customers",
                "aging", "plan", "xyz"}

\* The answer is cut from the rows of the whole one to the limit asked for, no shorter,
\* and says so.
CutFrom(whole) ==
    /\ answer.rowCount = Len(whole)
    /\ answer.returned = Least(ClampLimit(limit), Len(whole))
    /\ answer.truncated <=> answer.returned < answer.rowCount
    /\ \A i \in DOMAIN answer.rows :
         \A j \in answer.returned + 1 .. answer.rowCount :
            RankOf(tool, answer.rows[i]) >= RankOf(tool, whole[j])

\* The rows a capped report leaves out are those that rank lowest, it says whether it
\* left any out, and it shows as many as the limit allows, clamped by the tool.
LargestShown ==
    answer # NoAnswer /\ tool \in RankedTools => CutFrom(Answer(tool, input, 0).rows)

\* What a bridge compares: the products sold in a period.
SoldIn(rows) == ById(ProfitLines(rows))
InBoth == DOMAIN SoldIn(input.a) \cap DOMAIN SoldIn(input.b)

\* Of the products sold in both periods of a bridge, each is the same in both.
SameInBoth(Same(_, _)) == \A k \in InBoth : Same(SoldIn(input.a)[k], SoldIn(input.b)[k])

\* The buckets of the aging.
AgingAddsUp ==
    LET t == answer.totals
    IN  /\ SumOver(0 .. 4, LAMBDA b : t.buckets[b].count) = answer.rowCount
        /\ SumOver(0 .. 4, LAMBDA b : t.buckets[b].amount) = t.outstanding
        /\ t.overdue = t.outstanding - t.buckets[0].amount

\* The changes of a comparison that shows them all.
ChangesAddUp ==
    TopN(input.topN) >= Len(input.a) + Len(input.b) =>
        /\ SumBy(answer.gainers \o answer.decliners, LAMBDA c : c.delta) = answer.delta
        /\ answer.delta = SumBy(input.b, LAMBDA p : p.value) - SumBy(input.a, LAMBDA p : p.value)

\* The effects of a bridge, to two cents of rounding, which it reports.  Nor does an
\* effect hold what is another's: there is none of price or cost where unit prices or
\* unit costs did not change, and where quantities did not, none of volume and no more
\* of mix than the rests of the divisions.
EffectsAddUp ==
    /\ answer.residual = 0
    /\ Magnitude(answer.rounding) <= 2 * Cent
    /\ SameInBoth(LAMBDA x, y : x.revenue * y.qty = y.revenue * x.qty) => answer.exact.price = 0
    /\ SameInBoth(LAMBDA x, y : x.cost * y.qty = y.cost * x.qty) => answer.exact.cost = 0
    /\ SameInBoth(LAMBDA x, y : x.qty = y.qty) =>
         /\ answer.exact.volume = 0
         /\ Magnitude(answer.exact.mix) <= 2 * SumOver(InBoth, LAMBDA k : SoldIn(input.a)[k].qty)

\* The change of one product's profit between the periods of a bridge.
ProductChange(k) ==
    LET GrossIn(sold) == IF k \in DOMAIN sold THEN Gross(sold[k]) ELSE 0
    IN  GrossIn(SoldIn(input.b)) - GrossIn(SoldIn(input.a))

\* The drivers of a bridge are as many products as were asked for, each once and with its
\* change, which its effects make up to a cent and a half; no other product changed more;
\* and all of them together make up the whole change.
DriversAddUp ==
    LET shown == answer.drivers
        products == DOMAIN SoldIn(input.a) \cup DOMAIN SoldIn(input.b)
        ids == {shown[i].id : i \in DOMAIN shown}
    IN  /\ ids \subseteq products
        /\ Len(shown) = Cardinality(ids)
        /\ Len(shown) = Least(TopN(input.topN), Cardinality(products))
        /\ \A i \in DOMAIN shown :
             LET d == shown[i]
             IN  /\ d.delta = ProductChange(d.id)
                 /\ d.id \in InBoth =>
                      2 * Magnitude(d.delta - d.price - d.cost - d.qty) <= 3 * Cent
                 /\ \A k \in products \ ids : Magnitude(d.delta) >= Magnitude(ProductChange(k))
        /\ ids = products => SumBy(shown, LAMBDA d : d.delta) = answer.delta

\* The cells of the matrix.
CellsAddUp ==
    LET t == answer.totals
    IN  SumOver(DOMAIN t.cells, LAMBDA c : t.cells[c].count) + t.abcOnly = Len(input.rows)

\* The stores of the pivot.
StoresAddUp ==
    answer.totals.available =
        SumBy(input.rows, LAMBDA r : SumBy(r.stores, LAMBDA p : p.stock - p.reserve))

\* The lines of a document and its sum, to half a cent for each rounding, where the API
\* gives the sum to half a cent for each line.
LinesAddUp ==
    LET d == input.document
        Net(p) == p.price * p.qty * (100 - p.discount)
    IN  2 * Magnitude(100 * Piece * d.sum - SumBy(d.positions, Net)) <=
            100 * Piece * Cent * Len(d.positions)
        => 2 * Piece * Magnitude(SumBy(answer.positions, LAMBDA p : p.total) - answer.sum) <=
               Cent * (Piece + SumBy(d.positions, LAMBDA p : p.qty + 2 * Piece))

\* The points of a cash flow and its net, to half a cent for each rounding, where the
\* totals the API gives are those of its points.
PointsAddUp ==
    LET flow == input.flow
    IN  /\ flow.credit = SumBy(flow.series, LAMBDA x : x.credit)
        /\ flow.debit = SumBy(flow.series, LAMBDA x : x.debit)
        => 2 * Magnitude(SumBy(answer.series, LAMBDA p : p.income - p.outcome) - answer.net) <=
               Cent * 2 * (1 + Len(answer.series))

\* The days captured and the gaps between them.
DaysAddUp ==
    input.captured # {} =>
        LET c == answer.totals.coverage IN c.days + c.gaps = c.last - c.first + 1

\* Every breakdown adds up to its total, although each part is computed and
\* rounded for itself.
PartsAddUp ==
    /\ Answered("aging")   => AgingAddsUp
    /\ Answered("compare") => ChangesAddUp
    /\ Answered("bridge")  => EffectsAddUp /\ DriversAddUp
    /\ Answered("matrix")  => CellsAddUp
    /\ Answered("stores")  => StoresAddUp
    /\ Answered("detail")  => LinesAddUp
    /\ Answered("money")   => PointsAddUp
    /\ Answered("xyz")     => DaysAddUp

\* The classes of an ABC fall with the rank; the A rows hold at most ACut percent of
\* the value, A and B at most BCut, and neither could take in one row more.
ClassesFull(abc) ==
    LET total == SumBy(abc, LAMBDA x : Positive(x.value))
        Share(S) == 100 * SumAt(S, abc, LAMBDA x : Positive(x.value))
        Of(C) == {i \in DOMAIN abc : abc[i].class \in C}
        Full(C, cut) == /\ Share(Of(C)) <= cut * total
                        /\ \A i \in DOMAIN abc \ Of(C) : abc[i].value > 0 =>
                             Share(Of(C) \cup {i} \cup 1 .. i) > cut * total
    IN  /\ \A i, j \in DOMAIN abc : i < j =>
             /\ abc[j].class = "A" => abc[i].class = "A"
             /\ abc[i].class = "C" => abc[j].class = "C"
        /\ Full({"A"}, ACut)
        /\ Full({"A", "B"}, BCut)

\* Whose revenue is larger.
Above(all, i) == Where(all, LAMBDA s : s.revenue > all[i].revenue)

\* The share of VIPs asked for, in percent.
VipShare == OrDefault(input.params.vip, 20)

\* Who brings at least what a VIP does is one too; whoever brings something and is
\* within the share of the counterparties that bring most is one; nobody is asleep and
\* at risk at once.
SegmentsFollow(all) ==
    \A i \in DOMAIN all :
        /\ "vip" \in all[i].labels =>
             /\ all[i].revenue > 0
             /\ \A j \in DOMAIN all : all[j].revenue >= all[i].revenue => "vip" \in all[j].labels
        /\ all[i].revenue > 0 /\ 100 * (Cardinality(Above(all, i)) + 1) <= VipShare * Len(all)
             => "vip" \in all[i].labels
        /\ ~ {"sleeping", "at_risk"} \subseteq all[i].labels

\* The classes of the ABC and the segments of the counterparties go by rank:
\* a cumulative share that meets a cut-off, equal values and values of zero or
\* less neither split nor swap them.
ClassesFollowRank ==
    /\ Answered("abc") => ClassesFull(Abc(input.rows))
    /\ Answered("segments") => SegmentsFollow(SegmentReport(input.rows, Now, input.params, 0).rows)


\* The plan orders exactly where stock and what is under way fall below the
\* reorder point, enough to come up to the level and no piece more; what it knows
\* of a product's demand it has from the longest source there is.
PlanCovers ==
    Answered("plan") =>
        \A i \in DOMAIN answer.rows :
            LET x == answer.rows[i]
                d == x.demand
                missing == x.upTo - d.days * x.available
            IN  /\ x.toOrder > 0 <=> d.total > 0 /\ d.days * x.available < x.reorder
                /\ x.toOrder > 0 =>
                     /\ x.toOrder * d.days * Piece >= missing
                     /\ (x.toOrder - 1) * d.days * Piece < missing
                /\ x.source = "history" <=>
                     \E r \in input.demand :
                        /\ r.href = x.id
                        /\ Cardinality({q.day : q \in {s \in input.demand : s.day >= r.day}}) >= MinDays
                /\ x.source = "none" => ~ \E k \in DOMAIN input.recent :
                     input.recent[k].id = x.id /\ input.recent[k].qty > 0

\* What k becomes by a wrong digit where one is worth unit; the first is not zero.
SlipsAt(k, unit) ==
    LET digit == (k \div unit) % 10
    IN  {k + (d - digit) * unit : d \in IF k < 10 * unit THEN 1 .. 9 ELSE 0 .. 9} \ {k}

\* What k becomes by one wrong digit among its first three.
Powers == {1, 10, 100, 1000, 10000, 100000}
Slips(k) ==
    UNION {SlipsAt(k, p * Unit) : p \in {q \in Powers : q * Unit <= k /\ k < 1000 * q * Unit}}

\* Of an amount of four digits or more a wrong digit is reported, unless another known
\* number is near or the result reads as a year.
SlipsReported ==
    LET known == KnownNumbers(input.outputs, input.message)
        Far(v, k) == Distance(v, k) * 50 > Max({v, k, 50 * Unit})
    IN  \A f \in input.figures, k \in known :
            /\ k >= 1000 * Unit /\ f.value \in Slips(k)
            /\ f.style = "grouped" \/ f.value \notin 1900 * Unit .. 2099 * Unit
            /\ \A other \in known \ {k} : Far(f.value, other)
            => f \in answer.unexplained

\* What the tolerance of guardrail.py is chosen for, as far as it goes: a slip in one of
\* the first three digits is reported; an amount as it was returned is not.
SlipSeen ==
    Answered("ground") =>
        /\ SlipsReported
        /\ \A f \in input.figures :
             f.value \in KnownNumbers(input.outputs, input.message) => f \notin answer.unexplained

\* The chunks hold all of an answer but newlines, in order, and none is longer than
\* Telegram takes; pressing the n-th button gives the text that is on it.
NothingLost ==
    /\ Answered("chunks") =>
         LET Letters(s) == Without(s, Newline)
         IN  /\ Letters(FlattenSeq(answer.chunks)) = Letters(input.text)
             /\ \A i \in DOMAIN answer.chunks : Len(answer.chunks[i]) <= SplitTarget
    /\ Answered("clarify") =>
         \A i \in DOMAIN answer.buttons :
            ButtonLabel(answer.buttons, answer.buttons[i].data) = answer.buttons[i].text

\* A period and the one that begins a day after it take in each moment once, and
\* their days add up; the month before ends where the month of its day begins, and
\* is a whole one.
PeriodsMeet ==
    Answered("periods") /\ input.from <= input.to /\ input.to < input.until =>
        LET Days(from, to) == PeriodTicks(Date(from), Date(to), 0)
        IN  /\ answer.first \cap answer.second = {}
            /\ answer.first \cup answer.second = Window(Date(input.from), Date(input.until))
            /\ Days(input.from, input.to) = Cardinality(answer.first)
            /\ Days(input.from, input.to) + Days(input.to + 1, input.until)
                   = Days(input.from, input.until)
            /\ \E m \in DOMAIN Months :
                 /\ answer.before.from = FirstOf(m) /\ answer.before.to + 1 = FirstOf(m + 1)
                 /\ answer.before.to < input.to /\ input.to < FirstOf(m + 2)

\* A call is never answered with what another fetched: calls that differ in their
\* method or in any argument have different keys.
KeysTellApart ==
    Answered("keys") /\ answer.one = answer.other => input.one = input.other
=============================================================================
