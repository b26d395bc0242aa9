------------------------------ MODULE Snapshot ------------------------------
(***************************************************************************)
(* The nightly snapshot job: SnapshotService.capture of                    *)
(* src/chic/history/snapshot.py over the tables of                         *)
(* src/chic/history/store.py.  A run reads the clock once, stores today's  *)
(* stock level unless it is already there, reads the latest sales day, and *)
(* walks the complete days after it, oldest first: fetch the day's report, *)
(* upsert its rows in one transaction, mark the day captured in a second.  *)
(* Between any two of these steps the API or the database may fail, or the *)
(* process may die; the run is then over and the next one starts from the  *)
(* tables alone.                                                           *)
(*                                                                         *)
(* Days are natural numbers.  A day's rows are abstracted to whether there *)
(* are any: nothing in the job looks further into them.                    *)
(***************************************************************************)
EXTENDS Naturals

CONSTANTS
    Backfill,       \* max_backfill_days, the cap of the window
    FirstDay,       \* the calendar day of the deployment
    LastDay,        \* bound: the clock stops here
    MaxFailures     \* bound: runs that break off, and days nothing fires

ASSUME WindowAssumption == Backfill \in Nat \ {0}
ASSUME CalendarAssumption ==
    FirstDay \in Nat /\ LastDay \in Nat /\ MaxFailures \in Nat /\ FirstDay > Backfill

VARIABLES
    today,      \* the account-local date
    fired,      \* the day of the job's latest cron fire
    stock,      \* days with rows in stock_snapshot
    sales,      \* days with rows in sales_snapshot
    captured,   \* days with a row in sales_capture
    pc,         \* where the run in progress is, "idle" when there is none
    now,        \* the run's own reading of the clock
    day,        \* the day the run's loop is at
    report,     \* what was fetched for that day: rows, or none
    failures    \* runs broken off and days missed so far

vars == <<today, fired, stock, sales, captured, pc, now, day, report, failures>>
run  == <<now, day, report>>

Reports == {"rows", "empty"}
Steps == {"idle", "stock", "plan", "fetch", "save", "mark"}

Init ==
    /\ today = FirstDay /\ fired = 0
    /\ stock = {} /\ sales = {} /\ captured = {}
    /\ pc = "idle" /\ now = 0 /\ day = 0 /\ report = "empty"
    /\ failures = 0

-----------------------------------------------------------------------------
\* HistoryStore.latest_sales_date over the days S; 0 stands for None.
LatestSalesDate(S) ==
    IF S = {} THEN 0 ELSE CHOOSE d \in S : \A e \in S : e <= d

\* The oldest day a run on day t may still fetch: yesterday, Backfill - 1 days back.
Floor(t) == t - Backfill

\* Mutants of FirstMissing: the latest day again, the floor whatever is stored,
\* and no seed for an empty table.
FirstMissingFromLatest(t, S) ==
    IF S = {} THEN Floor(t)
    ELSE IF LatestSalesDate(S) > Floor(t) THEN LatestSalesDate(S) ELSE Floor(t)
FirstMissingAtFloor(t, S) == Floor(t)
FirstMissingNoSeed(t, S) ==
    IF S = {} THEN t
    ELSE IF LatestSalesDate(S) + 1 > Floor(t) THEN LatestSalesDate(S) + 1 ELSE Floor(t)

\* _sales_days: the run starts after the latest day with rows, never below the floor.
FirstMissing(t, S) ==
    IF LatestSalesDate(S) + 1 > Floor(t) THEN LatestSalesDate(S) + 1 ELSE Floor(t)

\* Mutant of LastComplete: the day still in progress is taken too.
LastCompleteToday(t) == t

\* _sales_days ends at yesterday, the last complete day.
LastComplete(t) == t - 1

-----------------------------------------------------------------------------
(* The calendar and the scheduler's fire.                                  *)

\* A day passes.  A day the job did not fire on is an outage, or the run of an
\* earlier day was still going (max_instances = 1) and the day's fire was dropped.
Tick ==
    /\ today < LastDay
    /\ \/ fired = today /\ UNCHANGED failures
       \/ fired < today /\ failures < MaxFailures /\ failures' = failures + 1
    /\ today' = today + 1
    /\ UNCHANGED <<fired, stock, sales, captured, pc, run>>

\* The cron fire of the day: capture() reads the clock (max_instances = 1).
Fire ==
    /\ pc = "idle" /\ fired < today
    /\ fired' = today
    /\ now' = today
    /\ pc' = "stock"
    /\ UNCHANGED <<today, stock, sales, captured, day, report, failures>>

(* The run.                                                                *)

\* has_stock(today), and when it is not there, get_stock and save_stock.
\* positiveOnly may return nothing: then there is no row to write.  What a row
\* holds, one for each product after _dedupe, is left out; so in Fetch.
CaptureStock ==
    /\ pc = "stock"
    /\ \/ now \in stock /\ UNCHANGED stock
       \/ now \notin stock /\ stock' = stock \cup {now}
       \/ now \notin stock /\ UNCHANGED stock
    /\ pc' = "plan"
    /\ UNCHANGED <<today, fired, sales, captured, run, failures>>

\* latest_sales_date and _sales_days: position the loop, or finish.
Plan ==
    /\ pc = "plan"
    /\ day' = FirstMissing(now, sales)
    /\ pc' = IF day' <= LastComplete(now) THEN "fetch" ELSE "idle"
    /\ UNCHANGED <<today, fired, stock, sales, captured, now, report, failures>>

\* profit_by_product over the single day.
Fetch ==
    /\ pc = "fetch"
    /\ report' \in Reports
    /\ pc' = "save"
    /\ UNCHANGED <<today, fired, stock, sales, captured, now, day, failures>>

\* save_sales: one transaction, and none at all for an empty report.
Save ==
    /\ pc = "save"
    /\ sales' = IF report = "rows" THEN sales \cup {day} ELSE sales
    /\ pc' = "mark"
    /\ UNCHANGED <<today, fired, stock, captured, run, failures>>

\* mark_sales_captured: a second transaction; then the loop's next day.
Mark ==
    /\ pc = "mark"
    /\ captured' = captured \cup {day}
    /\ day' = day + 1
    /\ pc' = IF day' <= LastComplete(now) THEN "fetch" ELSE "idle"
    /\ UNCHANGED <<today, fired, stock, sales, now, report, failures>>

\* Mutant of Abort: a failed day is skipped instead of ending the run.
AbortSkipsDay ==
    /\ pc \notin {"idle", "stock", "plan"} /\ failures < MaxFailures
    /\ failures' = failures + 1
    /\ day' = day + 1
    /\ pc' = IF day' <= LastComplete(now) THEN "fetch" ELSE "idle"
    /\ UNCHANGED <<today, fired, stock, sales, captured, now, report>>

\* An exception out of the API or the database, or the process dies: the
\* tables keep what was committed, the rest of the run is lost.
Abort ==
    /\ pc # "idle" /\ failures < MaxFailures
    /\ failures' = failures + 1
    /\ pc' = "idle"
    /\ UNCHANGED <<today, fired, stock, sales, captured, run>>

Work == CaptureStock \/ Plan \/ Fetch \/ Save \/ Mark

Next == Tick \/ Fire \/ Work \/ Abort

Spec == Init /\ [][Next]_vars

\* Days pass, the scheduler fires on each day the application is up, and an
\* awaited step of a run completes.  An abort is never forced.
FairSpec == Spec /\ WF_vars(Tick) /\ WF_vars(Fire) /\ WF_vars(Work)

-----------------------------------------------------------------------------
(* Properties.                                                             *)

\* Shape of the state; a run's clock and loop never pass today.
TypeOK ==
    /\ today \in Nat /\ fired \in Nat /\ failures \in 0 .. MaxFailures
    /\ stock \subseteq Nat /\ sales \subseteq Nat /\ captured \subseteq Nat
    /\ pc \in Steps
    /\ now \in 0 .. today /\ day \in 0 .. today /\ report \in Reports

\* The days dealt with: rows stored, or marked as captured with none.
Done == sales \cup captured

\* No day of the window of day t is stepped over: each has been dealt with, or
\* is younger than every stored day.
NoneSkippedAt(t) ==
    \A d \in Floor(t) .. LastComplete(t) : d \in Done \/ \A s \in sales : s < d

\* Every day still inside today's window has been dealt with, or lies after the
\* latest day with rows, where the next run of _sales_days will find it: no
\* sequence of failures, zero-sales days and late runs makes the job step over
\* a day it could still fetch.
NoDaySkipped == NoneSkippedAt(today)

\* Sales are only recorded for days that are over, whatever midnight does
\* between the run's reading of the clock and its writes.
OnlyCompleteDays == \A d \in Done : d < today

\* The upsert of save_sales never meets the rows of an earlier run: a day's
\* demand is written once, although the zero-sales days after the latest day
\* with rows are fetched again on every run.
DemandWrittenOnce == [][\A d \in sales : ~ (Save /\ report = "rows" /\ day = d)]_vars

\* Days enter the sales table in calendar order, which is what lets
\* latest_sales_date stand for "everything up to here is done".
DemandInOrder == [][\A d \in sales' \ sales : \A s \in sales : s < d]_vars

\* Interruptions that number less than the window's days lose nothing: every
\* day is stored or marked in the end.
CatchUp ==
    \A d \in Floor(FirstDay) + MaxFailures .. LastDay - MaxFailures - 1 : <>(d \in Done)

-----------------------------------------------------------------------------
\* The run implements the log of complete days of module DemandLog.
Log == INSTANCE DemandLog WITH done <- Done
ImplementsLog == Log!Spec
=============================================================================
