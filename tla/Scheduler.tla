----------------------------- MODULE Scheduler -----------------------------
(***************************************************************************)
(* The scheduled jobs: the Scheduler of src/chic/scheduler.py around       *)
(* APScheduler and its persistent job store, and the run of the digest of  *)
(* src/chic/jobs/digest.py, with the application's lifecycle around them   *)
(* (_lifespan of src/chic/app.py): the account's currency is looked up in  *)
(* the background after the start, and lives in a global of the process.   *)
(*                                                                         *)
(* Time is counted in ticks; a job's cron fires at every multiple of       *)
(* Period.  What APScheduler 3 does with the options register() gives is   *)
(* external: a pending job's next fire is computed from the present when   *)
(* the scheduler starts and replaces the persisted one; a job that is due  *)
(* is submitted for its latest fire time, unless it is still running; the  *)
(* executor drops a run that starts later than the grace.                  *)
(*                                                                         *)
(* The process may go down at any moment and come back at any later one.   *)
(***************************************************************************)
EXTENDS Naturals, Sequences

CONSTANTS
    Wanted,         \* the ids of SCHEDULE
    Stale,          \* ids an earlier version left in the job store
    Digest,         \* the id of the digest job
    Recipients,     \* the digest's recipients, in delivery order
    Period,         \* ticks between two fires of a cron
    Grace,          \* _MISFIRE_GRACE_SECONDS, in ticks
    MaxNow,         \* bound: the clock stops here
    MaxRestarts     \* bound

ASSUME CronAssumption ==
    Period \in Nat /\ Grace \in Nat /\ Grace < Period /\ MaxNow \in Nat \ {0} /\ MaxRestarts \in Nat
ASSUME IdsAssumption == Digest \in Wanted /\ Wanted \cap Stale = {}
\* app.py:151 makes the recipients from a set.
ASSUME RecipientsAssumption ==
    /\ Recipients \in Seq({Recipients[i] : i \in 1 .. Len(Recipients)})
    /\ \A i, k \in 1 .. Len(Recipients) : Recipients[i] = Recipients[k] => i = k

VARIABLES
    now,        \* the clock
    up,         \* is the process running
    store,      \* jobs.db: job id -> its next fire time
    run,        \* of each wanted job: the step, the fire time, the recipient it is at
    currency,   \* _currency of jobs/base.py; "none" for the empty string it is at first
    lookup,     \* the background task: off, under way or done
    restarts,
    upSince,    \* history: when the process was started
    submitted,  \* history: the fire times each job was submitted for
    digests,    \* history: the digests sent, in order: to whom, of which fire, the currency
    refused     \* history: the sends that raised, as <<recipient, fire time>>

app == <<currency, lookup>>
vars == <<now, up, store, run, app, restarts, upSince, submitted, digests, refused>>
history == <<submitted, digests, refused>>

Jobs == Wanted \cup Stale
NotRunning == [pc |-> "idle", fire |-> 0, at |-> 0, code |-> "none"]

\* The fire times are the positive multiples of the period.
NextFire(t) == (t \div Period + 1) * Period
LatestFire(t) == (t \div Period) * Period

\* A deployment: jobs.db is that of an earlier version, which had all the jobs.
Init ==
    /\ now = 1 /\ up = "no"
    /\ store = [j \in Jobs |-> Period]
    /\ run = [j \in Jobs |-> NotRunning]
    /\ currency = "none" /\ lookup = "off"
    /\ restarts = 0 /\ upSince = 0
    /\ submitted = [j \in Jobs |-> {}] /\ digests = <<>> /\ refused = {}

-----------------------------------------------------------------------------
(* The process.                                                            *)

Tick ==
    /\ now < MaxNow
    /\ now' = now + 1
    /\ UNCHANGED <<up, store, run, app, restarts, upSince, history>>

\* _reconcile: the persisted jobs that the schedule does not list are removed.
Reconcile(s) == [j \in DOMAIN s \cap Wanted |-> s[j]]

\* Mutant of Registered: a start catches up with the latest fire.
RegisteredCatchUp(s) ==
    [j \in DOMAIN s \cup Wanted |-> IF j \in Wanted THEN LatestFire(now) ELSE s[j]]

\* register: each job is added as pending with replace_existing.
Registered(s) == [j \in DOMAIN s \cup Wanted |-> IF j \in Wanted THEN NextFire(now) ELSE s[j]]

\* _lifespan: register, start and _reconcile run without an await between them,
\* so nothing fires before the stale jobs are gone; the lookup is only started.
Start ==
    /\ up = "no"
    /\ up' = "yes" /\ upSince' = now
    /\ store' = Reconcile(Registered(store))
    /\ currency' = "none" /\ lookup' = "running"
    /\ UNCHANGED <<now, run, restarts, history>>

\* _startup_network: the lookup succeeds; or it fails, or there is no code, and
\* it is not tried again.
Resolve ==
    /\ lookup = "running"
    /\ lookup' = "done"
    /\ currency' \in {"RUB", currency}
    /\ UNCHANGED <<now, up, store, run, restarts, upSince, history>>

\* _lifespan cancels the lookup, and shutdown(wait=False) what is running; so
\* does a crash.
Stop ==
    /\ up = "yes" /\ restarts < MaxRestarts
    /\ up' = "no" /\ restarts' = restarts + 1
    /\ run' = [j \in Jobs |-> NotRunning]
    /\ lookup' = "off"
    /\ UNCHANGED <<now, store, currency, upSince, history>>

-----------------------------------------------------------------------------
(* APScheduler.                                                            *)

\* max_instances = 1: the job is not running.
MayStart(j) == run[j].pc = "idle"

\* A due job is submitted for its latest fire (coalesce), and its next fire is
\* stored; a job that is still running only gets the next fire.
Submit(j) ==
    /\ up = "yes" /\ j \in DOMAIN store /\ store[j] <= now
    /\ store' = [store EXCEPT ![j] = NextFire(now)]
    /\ IF MayStart(j)
       THEN /\ run' = [run EXCEPT ![j] = [NotRunning EXCEPT !.pc = "submitted",
                                                 !.fire = LatestFire(now), !.at = 1]]
            /\ submitted' = [submitted EXCEPT ![j] = @ \cup {LatestFire(now)}]
       ELSE UNCHANGED <<run, submitted>>
    /\ UNCHANGED <<now, up, app, restarts, upSince, digests, refused>>

\* misfire_grace_time
InGrace(fire) == now <= fire + Grace

\* The executor starts the run, or drops it as missed.
Launch(j) ==
    /\ run[j].pc = "submitted"
    /\ run' = [run EXCEPT ![j] = IF InGrace(@.fire) THEN [@ EXCEPT !.pc = "running"]
                                 ELSE NotRunning]
    /\ UNCHANGED <<now, up, store, app, restarts, upSince, history>>

-----------------------------------------------------------------------------
(* The runs.                                                               *)

\* A job other than the digest ends; or the job raises (_on_error only logs).
\* The digest raises where it asks for the dashboard.
Finish(j) ==
    /\ run[j].pc = "running"
    /\ run' = [run EXCEPT ![j] = NotRunning]
    /\ UNCHANGED <<now, up, store, app, restarts, upSince, history>>

\* digest.run has recipients and the dashboard, and compose makes the text with
\* the currency known by then.  Of the text, only the currency is kept.
Compose ==
    /\ run[Digest].pc = "running" /\ Recipients # <<>>
    /\ run' = [run EXCEPT ![Digest].pc = "send", ![Digest].code = currency]
    /\ UNCHANGED <<now, up, store, app, restarts, upSince, history>>

\* Mutant of AfterRefusal: the exception leaves the loop.
AfterRefusalStop(r) == [r EXCEPT !.pc = "sent"]

\* The loop goes on to the next recipient, and ends behind the last.
AfterSend(r) ==
    IF r.at < Len(Recipients) THEN [r EXCEPT !.at = @ + 1] ELSE [r EXCEPT !.pc = "sent"]

\* An exception of notify is logged, and the loop goes on all the same.
AfterRefusal(r) == AfterSend(r)

\* Mutant of Code: the text is made anew for each recipient.
CodeNow(r) == currency

\* The currency in the text that is sent: the text is made once.
Code(r) == r.code

Send ==
    LET r == run[Digest]
    IN  /\ r.pc = "send"
        /\ \/ /\ digests' = Append(digests, [to |-> Recipients[r.at], fire |-> r.fire,
                                            code |-> Code(r)])
              /\ run' = [run EXCEPT ![Digest] = AfterSend(r)]
              /\ UNCHANGED refused
           \/ /\ refused' = refused \cup {<<Recipients[r.at], r.fire>>}
              /\ run' = [run EXCEPT ![Digest] = AfterRefusal(r)]
              /\ UNCHANGED digests
        /\ UNCHANGED <<now, up, store, app, restarts, upSince, submitted>>

\* The run returns.
Return ==
    /\ run[Digest].pc = "sent"
    /\ run' = [run EXCEPT ![Digest] = NotRunning]
    /\ UNCHANGED <<now, up, store, app, restarts, upSince, history>>

Next ==
    \/ Tick \/ Start \/ Resolve \/ Stop
    \/ \E j \in Jobs : Submit(j) \/ Launch(j) \/ Finish(j)
    \/ Compose \/ Send \/ Return

Spec == Init /\ [][Next]_vars

-----------------------------------------------------------------------------
(* Properties.                                                             *)

\* Shape of the state; while the process is up the store lists the schedule.
TypeOK ==
    /\ now \in 1 .. MaxNow /\ upSince \in 0 .. now /\ up \in {"yes", "no"}
    /\ DOMAIN store \subseteq Jobs
    /\ \A j \in DOMAIN store : store[j] \in 1 .. NextFire(now) /\ store[j] % Period = 0
    /\ up = "yes" => DOMAIN store = Wanted
    /\ run \in [Jobs -> [pc : {"idle", "submitted", "running", "send", "sent"}, fire : 0 .. now,
                         at : Nat, code : {"none", "RUB"}]]
    /\ currency \in {"none", "RUB"} /\ lookup \in {"off", "running", "done"}

\* What digest.py:3 says: the schedule is the "once a day" guarantee.  No
\* recipient gets the digest of one fire twice, wherever the process stops and
\* whenever it comes back; nor does a job that an earlier version left run.
OncePerFire ==
    /\ \A i, k \in 1 .. Len(digests) :
         digests[i].to = digests[k].to /\ digests[i].fire = digests[k].fire => i = k
    /\ \A j \in Stale : submitted[j] = {}

\* digest.py:53: a recipient whose send fails does not rob the others.  A run
\* that gets to its end has sent to everyone, but those whose own send raised.
NobodyRobbed ==
    run[Digest].pc = "sent" =>
        \A i \in 1 .. Len(Recipients) :
            LET to == Recipients[i]
                fire == run[Digest].fire
            IN  \/ <<to, fire>> \in refused
                \/ \E k \in 1 .. Len(digests) : digests[k].to = to /\ digests[k].fire = fire

\* All recipients are sent the same digest, although the currency may become
\* known, or be lost in a restart, at any moment of the delivery.
SameDigest ==
    \A i, k \in 1 .. Len(digests) :
        digests[i].fire = digests[k].fire => digests[i].code = digests[k].code

\* scheduler.py:5 says that a fire missed while the app was briefly down still
\* runs, within the grace: once the process is back in time and the job's next
\* fire is a later one, the job was submitted for the one missed.
MissedFireRuns ==
    LET fire == LatestFire(now)
    IN  up = "yes" /\ fire > 0 /\ upSince <= fire + Grace =>
            \A j \in DOMAIN store : store[j] > fire => fire \in submitted[j]
=============================================================================
