------------------------------ MODULE Webhook ------------------------------
(***************************************************************************)
(* The delivery of updates: Telegram's server, the webhook endpoint of     *)
(* src/chic/app.py and ChicBot.feed_update of src/chic/telegram/bot.py     *)
(* over the Dedupe module; the Dedupe is that of the running process.      *)
(* What a handler does between Feed and HandlerEnds is the Bot module's,   *)
(* which composes the two.                                                 *)
(*                                                                         *)
(* Telegram posts an update until it is answered 200.  It gives up waiting *)
(* on a slow answer and posts the update again, while the handler, an LLM  *)
(* turn of seconds to minutes, is still at work; so requests for one       *)
(* update overlap.  The ids seen are in memory only: a restart loses them  *)
(* together with the requests under way.                                   *)
(***************************************************************************)
EXTENDS Dedupe

CONSTANTS
    Tasks,                      \* places for the requests under way, numbered
    MaxTimeouts, MaxRestarts    \* bounds: slow or lost answers; restarts

ASSUME TasksAssumption == Tasks \subseteq Nat

VARIABLES
    queue,      \* Telegram: is the update not made yet, queued, sent, refused or acknowledged;
                \* or one that cannot be read: malformed, and then rejected
    task,       \* requests being handled: the update, or 0; is Telegram waiting
    answered,   \* history: updates with a handler that told all there was to tell
    raised,     \* history: updates with a handler that raised, its answer cut short
    timedOut,   \* history: updates whose answer was slow or lost
    timeouts, restarts

webhook == <<dedupe, queue, task, answered, raised, timedOut, timeouts, restarts>>

Idle == [update |-> 0, waited |-> "no"]

WebhookInit ==
    /\ DedupeInit
    /\ queue = [u \in Updates |-> "none"]
    /\ task = [t \in Tasks |-> Idle]
    /\ answered = {} /\ raised = {}
    /\ timedOut = {} /\ timeouts = 0 /\ restarts = 0

-----------------------------------------------------------------------------
(* Telegram.                                                               *)

\* A user writes or presses a button.  It may be in a form of the Bot API that
\* aiogram's model cannot read.
Arrive(u) ==
    /\ queue[u] = "none"
    /\ \E form \in {"queued", "malformed"} : queue' = [queue EXCEPT ![u] = form]
    /\ UNCHANGED <<dedupe, task, answered, raised, timedOut, timeouts, restarts>>

\* Telegram stops waiting, or the answer is lost; the request goes on.
Timeout(t) ==
    /\ task[t].waited = "yes" /\ timeouts < MaxTimeouts
    /\ timeouts' = timeouts + 1
    /\ task' = [task EXCEPT ![t].waited = "no"]
    /\ queue' = [queue EXCEPT ![task[t].update] = "queued"]
    /\ timedOut' = timedOut \cup {task[t].update}
    /\ UNCHANGED <<dedupe, answered, raised, restarts>>

\* What becomes of an update whose post is answered with a status.
Answered(status) == IF status = 200 THEN "acked" ELSE "refused"

\* Telegram posts what is queued, and again what was refused.
ToPost(u) == queue[u] \in {"queued", "refused"}

\* The same for an update that aiogram's model rejects.
Unreadable(u) == queue[u] \in {"malformed", "rejected"}

-----------------------------------------------------------------------------
(* The endpoint.                                                           *)

\* Mutant of DuplicateStatus: a duplicate is refused.
DuplicateStatusConflict == 409

\* feed_update returns on a duplicate, and telegram_webhook answers ok.
DuplicateStatus == 200

\* The first place that is free.
Free(t) == task[t] = Idle /\ \A s \in Tasks : s < t => task[s] # Idle

\* Telegram posts an update that is not acknowledged.  feed_update has aiogram's
\* model read it, which raises for a malformed one before first_seen is asked, so
\* that no post of it ever becomes a duplicate: it is answered 500 each time.  Then
\* it asks first_seen.  (A post
\* lost on its way changes nothing.)
Feed(t, u) ==
    /\ Free(t)
    /\ \/ /\ Unreadable(u)
          /\ queue' = [queue EXCEPT ![u] = "rejected"]
          /\ UNCHANGED <<dedupe, task>>
       \/ /\ ToPost(u) /\ Accept(u)
          /\ task' = [task EXCEPT ![t] = [update |-> u, waited |-> "yes"]]
          /\ queue' = [queue EXCEPT ![u] = "sent"]
       \/ /\ ToPost(u) /\ Duplicate(u)
          /\ queue' = [queue EXCEPT ![u] = Answered(DuplicateStatus)]
          /\ UNCHANGED task
    /\ UNCHANGED <<answered, raised, timedOut, timeouts, restarts>>

\* The dispatcher's handler returns, or raises out of the endpoint; the answer
\* reaches Telegram, if it is still waiting.  A handler that raised has told the
\* user a part of the answer, or nothing.
HandlerEnds(t, result) ==
    /\ task' = [task EXCEPT ![t] = Idle]
    /\ queue' = IF task[t].waited = "no" THEN queue
                ELSE [queue EXCEPT ![task[t].update] =
                        Answered(IF result = "raised" THEN 500 ELSE 200)]
    /\ answered' = IF result \in {"gap", "raised"} THEN answered
                   ELSE answered \cup {task[t].update}
    /\ raised' = IF result = "raised" THEN raised \cup {task[t].update} ELSE raised
    /\ UNCHANGED <<dedupe, timedOut, timeouts, restarts>>

\* ChicBot.__init__: a new process starts with an empty Dedupe.
FreshDedupe ==
    /\ seen' = {} /\ ring' = [i \in 0 .. N - 1 |-> 0] /\ next' = 0
    /\ accepted' = 0 /\ latest' = [u \in Updates |-> 0]

\* The process dies and comes back.
Restart ==
    /\ restarts < MaxRestarts
    /\ restarts' = restarts + 1
    /\ FreshDedupe
    /\ task' = [t \in Tasks |-> Idle]
    /\ queue' = [u \in Updates |-> IF queue[u] = "sent" THEN "queued" ELSE queue[u]]
    /\ UNCHANGED <<answered, raised, timedOut, timeouts>>

-----------------------------------------------------------------------------
(* Properties.                                                             *)

Handling(u) == {t \in Tasks : task[t].update = u}

\* However often an update is posted while it is being handled, a second
\* handler starts beside the first only if the ring has turned over: N other
\* updates were accepted in between.
OneHandlerPerTurn ==
    \A u \in Updates : Cardinality(Handling(u)) <= (accepted + N) \div (N + 1)
=============================================================================
