--------------------------- MODULE SnapshotProofs ---------------------------
(***************************************************************************)
(* The safety properties of module Snapshot for every window, calendar and *)
(* number of failures.  None of them is inductive by itself: what a run    *)
(* may assume when it enters or marks a day comes from what it read in     *)
(* Plan and from the days it has walked since.  ReadInv and LoopInv state  *)
(* that, and LatestExists that latest_sales_date has a value to return.    *)
(***************************************************************************)
EXTENDS Snapshot, TLAPS

USE WindowAssumption, CalendarAssumption

\* The table of sales days, when not empty, has a latest day.
LatestExists == sales # {} => \E m \in sales : \A s \in sales : s <= m

\* A run that has not read the latest sales day yet finds the tables as the
\* clock it has read allows: nothing stored of its own day or later, and no day
\* of its window stepped over.
ReadInv ==
    pc \in {"stock", "plan"} => NoneSkippedAt(now) /\ \A s \in sales : s < now

\* A run that is at a day of its loop: the day is complete and in the run's
\* window, the run has left no day of its window behind, and no stored day is
\* younger (nor, before the day's own rows are saved, the same).
LoopInv ==
    pc \in {"fetch", "save", "mark"} =>
        /\ Floor(now) <= day /\ day <= LastComplete(now)
        /\ \A d \in Floor(now) .. day - 1 : d \in Done
        /\ \A s \in sales : s <= day
        /\ pc \in {"fetch", "save"} => day \notin sales
        /\ pc = "mark" /\ report = "rows" => day \in sales

\* The calendar never falls back before the deployment, nor a run before it.
ClockInv ==
    /\ today >= FirstDay
    /\ pc # "idle" => now >= FirstDay

IInv == TypeOK /\ LatestExists /\ ReadInv /\ LoopInv /\ ClockInv /\ NoDaySkipped /\ OnlyCompleteDays

-----------------------------------------------------------------------------
\* latest_sales_date returns the maximum of a table that has one.
LEMMA LatestIsMaximum ==
    ASSUME NEW S \in SUBSET Nat, S # {}, \E m \in S : \A s \in S : s <= m
    PROVE  LatestSalesDate(S) \in S /\ \A s \in S : s <= LatestSalesDate(S)
BY DEF LatestSalesDate

\* _sales_days starts after every stored day, inside the window, and the days
\* it passes over are not younger than the latest stored day.
LEMMA FirstMissingBounds ==
    ASSUME NEW t \in Nat, t >= FirstDay, NEW S \in SUBSET Nat,
           S # {} => \E m \in S : \A s \in S : s <= m,
           \A s \in S : s < t
    PROVE  /\ FirstMissing(t, S) \in 0 .. t
           /\ Floor(t) <= FirstMissing(t, S)
           /\ \A s \in S : s < FirstMissing(t, S)
           /\ \A d \in Floor(t) .. FirstMissing(t, S) - 1 : \E s \in S : d <= s
<1>1. CASE S = {}
  BY <1>1 DEF FirstMissing, LatestSalesDate, Floor
<1>2. CASE S # {}
  <2>1. LatestSalesDate(S) \in S /\ \A s \in S : s <= LatestSalesDate(S)
    BY <1>2, LatestIsMaximum
  <2>2. LatestSalesDate(S) \in Nat /\ LatestSalesDate(S) < t
    BY <2>1
  <2>3. CASE LatestSalesDate(S) + 1 > Floor(t)
    BY <2>1, <2>2, <2>3 DEF FirstMissing, Floor
  <2>4. CASE ~ (LatestSalesDate(S) + 1 > Floor(t))
    BY <2>1, <2>2, <2>4 DEF FirstMissing, Floor
  <2>5. QED BY <2>3, <2>4
<1>3. QED BY <1>1, <1>2

-----------------------------------------------------------------------------
\* The steps that leave the tables and the loop alone.
LEMMA QuietStep ==
    ASSUME IInv, UNCHANGED <<today, sales, captured, now>>,
           TypeOK', pc' \in {"idle", "stock", "plan"},
           pc' \in {"stock", "plan"} => pc \in {"stock", "plan"}
    PROVE  IInv'
<1>1. LatestExists' /\ OnlyCompleteDays' /\ NoDaySkipped' /\ ClockInv'
  BY DEF IInv, LatestExists, OnlyCompleteDays, NoDaySkipped, NoneSkippedAt, ClockInv, Done
<1>2. ReadInv' /\ LoopInv'
  BY DEF IInv, ReadInv, LoopInv, NoneSkippedAt, Done
<1>3. QED BY <1>1, <1>2 DEF IInv

LEMMA InitIInv == Init => IInv
<1> SUFFICES ASSUME Init PROVE IInv
  OBVIOUS
<1>1. TypeOK
  BY DEF Init, TypeOK, Steps, Reports
<1>2. LatestExists /\ ReadInv /\ LoopInv /\ ClockInv
  BY DEF Init, LatestExists, ReadInv, LoopInv, NoneSkippedAt, ClockInv
<1>3. NoDaySkipped /\ OnlyCompleteDays
  BY DEF Init, NoDaySkipped, NoneSkippedAt, OnlyCompleteDays, Done
<1>4. QED BY <1>1, <1>2, <1>3 DEF IInv

\* Midnight: the window moves up by a day, and the day that has become complete
\* is younger than every stored one.
LEMMA TickStep == IInv /\ Tick => IInv'
<1> SUFFICES ASSUME IInv, Tick PROVE IInv'
  OBVIOUS
<1>1. TypeOK' /\ ClockInv'
  BY DEF IInv, Tick, run, TypeOK, Steps, Reports, ClockInv
<1>2. LatestExists' /\ ReadInv' /\ LoopInv'
  BY DEF IInv, Tick, run, LatestExists, ReadInv, LoopInv, NoneSkippedAt, Done, Floor, LastComplete
<1>3. NoDaySkipped' /\ OnlyCompleteDays'
  BY DEF IInv, Tick, TypeOK, NoDaySkipped, NoneSkippedAt, OnlyCompleteDays, Done, Floor,
         LastComplete
<1>4. QED BY <1>1, <1>2, <1>3 DEF IInv

LEMMA FireStep == IInv /\ Fire => IInv'
<1> SUFFICES ASSUME IInv, Fire PROVE IInv'
  OBVIOUS
<1>1. TypeOK' /\ ClockInv'
  BY DEF IInv, Fire, TypeOK, Steps, Reports, ClockInv
<1>2. LatestExists' /\ ReadInv' /\ LoopInv' /\ NoDaySkipped' /\ OnlyCompleteDays'
  BY DEF IInv, Fire, LatestExists, ReadInv, LoopInv, NoneSkippedAt, NoDaySkipped, OnlyCompleteDays, Done
<1>3. QED BY <1>1, <1>2 DEF IInv

LEMMA CaptureStockStep == IInv /\ CaptureStock => IInv'
<1> SUFFICES ASSUME IInv, CaptureStock PROVE IInv'
  OBVIOUS
<1>1. stock' \subseteq Nat
  <2>1. stock \subseteq Nat /\ now \in Nat
    BY DEF IInv, TypeOK
  <2>2. stock' = stock \/ stock' = stock \cup {now}
    BY DEF CaptureStock
  <2>3. QED BY <2>1, <2>2
<1>2. TypeOK'
  BY <1>1 DEF IInv, CaptureStock, run, TypeOK, Steps, Reports
<1>3. QED
  BY <1>2, QuietStep DEF IInv, CaptureStock, run, ClockInv

\* The loop is positioned: every day of the window below it is done, because it
\* is not younger than the latest stored day.
LEMMA PlanStep == IInv /\ Plan => IInv'
<1> SUFFICES ASSUME IInv, Plan PROVE IInv'
  OBVIOUS
<1>1. now \in Nat /\ now >= FirstDay /\ now <= today /\ sales \in SUBSET Nat
  BY DEF IInv, TypeOK, ClockInv, Plan
<1>2. /\ day' \in 0 .. now
      /\ Floor(now) <= day'
      /\ \A s \in sales : s < day'
      /\ \A d \in Floor(now) .. day' - 1 : \E s \in sales : d <= s
  BY <1>1, FirstMissingBounds DEF IInv, LatestExists, ReadInv, Plan
<1>3. TypeOK' /\ ClockInv'
  BY <1>1, <1>2 DEF IInv, TypeOK, Steps, Reports, ClockInv, Plan
<1>4. \A d \in Floor(now) .. day' - 1 : d \in Done
  <2> SUFFICES ASSUME NEW d \in Floor(now) .. day' - 1
               PROVE  d \in Done
    OBVIOUS
  <2>2. PICK s \in sales : d <= s
    BY <1>2
  <2>3. s < now /\ s \in Nat
    BY <1>1 DEF IInv, ReadInv, Plan
  <2>4. d \in Floor(now) .. LastComplete(now)
    BY <1>1, <2>2, <2>3 DEF Floor, LastComplete
  <2>5. QED BY <1>1, <2>2, <2>3, <2>4 DEF IInv, ReadInv, NoneSkippedAt, Plan
<1>5. LatestExists' /\ ReadInv' /\ NoDaySkipped' /\ OnlyCompleteDays'
  BY DEF IInv, Plan, LatestExists, ReadInv, NoDaySkipped, NoneSkippedAt, OnlyCompleteDays, Done
<1>6. LoopInv'
  BY <1>1, <1>2, <1>4 DEF IInv, Plan, LoopInv, Done, Floor, LastComplete
<1>7. QED BY <1>3, <1>5, <1>6 DEF IInv

LEMMA FetchStep == IInv /\ Fetch => IInv'
<1> SUFFICES ASSUME IInv, Fetch PROVE IInv'
  OBVIOUS
<1>1. TypeOK' /\ ClockInv'
  BY DEF IInv, Fetch, TypeOK, Steps, Reports, ClockInv
<1>2. LatestExists' /\ ReadInv' /\ LoopInv' /\ NoDaySkipped' /\ OnlyCompleteDays'
  BY DEF IInv, Fetch, LatestExists, ReadInv, LoopInv, NoDaySkipped, NoneSkippedAt,
         OnlyCompleteDays, Done
<1>3. QED BY <1>1, <1>2 DEF IInv

\* The stored day is not younger than any the run has yet to look at, and every
\* older day of the window is done, so becoming the latest day skips nothing.
LEMMA SaveStep == IInv /\ Save => IInv'
<1> SUFFICES ASSUME IInv, Save PROVE IInv'
  OBVIOUS
<1>1. TypeOK' /\ ClockInv'
  BY DEF IInv, Save, run, TypeOK, Steps, Reports, ClockInv
<1>2. CASE report = "empty"
  BY <1>1, <1>2 DEF IInv, Save, run, LatestExists, ReadInv, LoopInv, NoDaySkipped,
                    NoneSkippedAt, OnlyCompleteDays, Done
<1>3. CASE report = "rows"
  <2>1. sales' = sales \cup {day} /\ \A s \in sales : s <= day
    BY <1>3 DEF IInv, Save, LoopInv
  <2>2. LatestExists' /\ ReadInv' /\ LoopInv'
    BY <1>3, <2>1 DEF IInv, Save, run, TypeOK, LatestExists, ReadInv, LoopInv, Done
  <2>3. NoDaySkipped' /\ OnlyCompleteDays'
    BY <2>1 DEF IInv, Save, run, TypeOK, LoopInv, NoDaySkipped, NoneSkippedAt,
                OnlyCompleteDays, Done, Floor, LastComplete
  <2>4. QED BY <1>1, <2>2, <2>3 DEF IInv
<1>4. QED BY <1>2, <1>3 DEF IInv, TypeOK, Reports

LEMMA MarkStep == IInv /\ Mark => IInv'
<1> SUFFICES ASSUME IInv, Mark PROVE IInv'
  OBVIOUS
<1>1. TypeOK' /\ ClockInv'
  BY DEF IInv, Mark, TypeOK, Steps, Reports, ClockInv, LoopInv, LastComplete
<1>2. LatestExists' /\ ReadInv' /\ NoDaySkipped' /\ OnlyCompleteDays'
  BY DEF IInv, Mark, TypeOK, LatestExists, ReadInv, LoopInv, NoDaySkipped, NoneSkippedAt,
         OnlyCompleteDays, Done, LastComplete
<1>3. LoopInv'
  BY DEF IInv, Mark, TypeOK, LoopInv, Done, Floor, LastComplete
<1>4. QED BY <1>1, <1>2, <1>3 DEF IInv

LEMMA AbortStep == IInv /\ Abort => IInv'
<1> SUFFICES ASSUME IInv, Abort PROVE IInv'
  OBVIOUS
<1>1. TypeOK'
  BY DEF IInv, Abort, run, TypeOK, Steps, Reports
<1>2. QED BY <1>1, QuietStep DEF Abort, run

LEMMA NextIInv == IInv /\ [Next]_vars => IInv'
<1> SUFFICES ASSUME IInv, [Next]_vars PROVE IInv'
  OBVIOUS
<1>1. CASE UNCHANGED vars
  BY <1>1 DEF vars, IInv, TypeOK, LatestExists, ReadInv, LoopInv, ClockInv, NoDaySkipped,
              NoneSkippedAt, OnlyCompleteDays, Done
<1>2. QED
  BY <1>1, TickStep, FireStep, CaptureStockStep, PlanStep, FetchStep, SaveStep, MarkStep,
     AbortStep DEF Next, Work

-----------------------------------------------------------------------------
\* The job's inductive invariant holds in every state.
THEOREM Invariance == Spec => []IInv
BY InitIInv, NextIInv, PTL DEF Spec

\* The variables keep their types, and a run's clock and loop never pass today.
THEOREM TypeCorrect == Spec => []TypeOK
<1>1. IInv => TypeOK
  BY DEF IInv
<1>2. QED BY <1>1, Invariance, PTL

\* SnapshotService.capture never steps over a day it could still fetch: whatever
\* the window, the failures and the zero-sales days, a day of today's window is
\* stored, marked, or after the latest stored day.
THEOREM NothingSkipped == Spec => []NoDaySkipped
<1>1. IInv => NoDaySkipped
  BY DEF IInv
<1>2. QED BY <1>1, Invariance, PTL

\* No day is recorded before it is over.
THEOREM NothingIncomplete == Spec => []OnlyCompleteDays
<1>1. IInv => OnlyCompleteDays
  BY DEF IInv
<1>2. QED BY <1>1, Invariance, PTL

\* save_sales never meets rows an earlier run stored for its day.
THEOREM WrittenOnce == Spec => DemandWrittenOnce
<1>1. IInv /\ [Next]_vars => [\A d \in sales : ~ (Save /\ report = "rows" /\ day = d)]_vars
  BY DEF IInv, LoopInv, Save
<1>2. QED BY <1>1, Invariance, PTL DEF Spec, DemandWrittenOnce

\* Days enter sales_snapshot in calendar order.
THEOREM WrittenInOrder == Spec => DemandInOrder
<1>1. ASSUME IInv, [Next]_vars
      PROVE  [\A d \in sales' \ sales : \A s \in sales : s < d]_vars
  <2>1. CASE Save
    BY <1>1, <2>1 DEF IInv, TypeOK, LoopInv, Save
  <2>2. CASE UNCHANGED sales
    BY <2>2
  <2>3. QED
    BY <1>1, <2>1, <2>2 DEF Next, Work, Tick, Fire, CaptureStock, Plan, Fetch, Mark, Abort, vars
<1>2. QED BY <1>1, Invariance, PTL DEF Spec, DemandInOrder

-----------------------------------------------------------------------------
\* A day dealt with in the loop is entered into the log of DemandLog: it is
\* complete, and the older days of the window are in the log.
LEMMA LoopEnters ==
    ASSUME IInv, pc \in {"save", "mark"}, UNCHANGED today, Done' = Done \cup {day},
           day \notin Done
    PROVE  Log!Next
<1>1. day \in 0 .. today - 1
  BY DEF IInv, TypeOK, LoopInv, LastComplete
<1>2. today - Backfill .. day - 1 \subseteq Done
  BY DEF IInv, TypeOK, LoopInv, Floor
<1>3. Log!Enter(day)
  BY <1>2 DEF Log!Enter
<1>4. QED BY <1>1, <1>3 DEF Log!Next

\* The job implements DemandLog: each of its steps is a step of the log, or
\* leaves the log and the calendar alone.
THEOREM Implementation == Spec => ImplementsLog
<1>1. Init => Log!Init
  BY DEF Init, Log!Init, Done
<1>2. ASSUME IInv, [Next]_vars
      PROVE  [Log!Next]_<<today, Done>>
  <2>1. CASE Tick
    BY <2>1 DEF Tick, Log!Next, Log!Advance, Done
  <2>2. CASE Save
    <3>1. UNCHANGED today /\ (Done' = Done \/ Done' = Done \cup {day})
      BY <2>2 DEF Save, Done
    <3>2. QED BY <1>2, <2>2, <3>1, LoopEnters DEF Save
  <2>3. CASE Mark
    <3>1. UNCHANGED today /\ Done' = Done \cup {day}
      BY <2>3 DEF Mark, Done
    <3>2. QED BY <1>2, <2>3, <3>1, LoopEnters DEF Mark
  <2>4. CASE UNCHANGED <<today, sales, captured>>
    BY <2>4 DEF Done
  <2>5. QED
    BY <1>2, <2>1, <2>2, <2>3, <2>4 DEF Next, Work, Fire, CaptureStock, Plan, Fetch, Abort, vars
<1>3. QED BY <1>1, <1>2, Invariance, PTL DEF Spec, ImplementsLog, Log!Spec
=============================================================================
