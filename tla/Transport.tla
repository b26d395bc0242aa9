----------------------------- MODULE Transport -----------------------------
(***************************************************************************)
(* One GET of the MoySklad client: _do_get, _backoff and _retry_after of   *)
(* src/chic/moysklad/client.py, with the AsyncLimiter that every attempt   *)
(* of every concurrent call passes.                                        *)
(*                                                                         *)
(* The limiter is aiolimiter's leaky bucket (external): an attempt adds    *)
(* one drop and waits for room; Rate drops leak in Window ticks.  The      *)
(* level is kept in Window-ths of a drop, so that it stays whole.          *)
(***************************************************************************)
EXTENDS Naturals, Sequences, FiniteSets

CONSTANTS
    Calls,          \* calls that may be under way at once, each made once
    MaxRetries,     \* max_retries
    Rate, Window,   \* the limiter: Rate attempts in Window ticks
    RetryAfters,    \* what a 429 may ask for, in ticks; 0: no usable header
    MaxNow,         \* bound: the clock counts no further
    MaxSends        \* bound: the attempts whose time the history keeps

ASSUME LimitsAssumption ==
    /\ MaxRetries \in Nat /\ Rate \in Nat \ {0} /\ Window \in Nat \ {0} /\ MaxNow \in Nat
    /\ MaxSends \in Nat /\ RetryAfters \subseteq Nat

VARIABLES
    now,        \* the clock
    level,      \* the bucket, in Window-ths of a drop
    call,       \* of each call: step, attempt, wake-up time, last answer
    sends,      \* history: when attempts were sent, in order
    attempts,   \* history: attempts sent of each call, one too many at most
    notBefore   \* history: what the last 429 of each call asked for

vars == <<now, level, call, sends, attempts, notBefore>>

Answers == {"ok", "429", "5xx", "4xx", "neterr"}
Final == {"returned", "raised"}

Init ==
    /\ now = 0 /\ level = 0
    /\ call = [c \in Calls |-> [pc |-> "send", attempt |-> 0, wake |-> 0, last |-> "none"]]
    /\ sends = <<>>
    /\ attempts = [c \in Calls |-> 0]
    /\ notBefore = [c \in Calls |-> 0]

-----------------------------------------------------------------------------
At(c, step) == call[c].pc = step

\* A tick passes, and the bucket leaks.  At MaxNow the clock saturates.
Tick ==
    /\ now' = IF now < MaxNow THEN now + 1 ELSE now
    /\ level' = IF level > Rate THEN level - Rate ELSE 0
    /\ UNCHANGED <<call, sends, attempts, notBefore>>

\* Mutant of HasRoom: the bucket is twice as deep.
HasRoomTwice == level + Window <= 2 * Rate * Window

\* AsyncLimiter.has_capacity
HasRoom == level + Window <= Rate * Window

\* An attempt passes the limiter and is sent.
Send(c) ==
    /\ At(c, "send") /\ HasRoom
    /\ level' = level + Window
    /\ sends' = IF Len(sends) < MaxSends THEN Append(sends, now) ELSE sends
    /\ attempts' = [attempts EXCEPT ![c] = IF @ > MaxRetries + 1 THEN @ ELSE @ + 1]
    /\ call' = [call EXCEPT ![c].pc = "answer"]
    /\ UNCHANGED <<now, notBefore>>

\* Mutant of LastAttempt: one attempt too many.
LastAttemptLate(attempt) == attempt = MaxRetries + 1

LastAttempt(attempt) == attempt = MaxRetries

\* Mutant of Delay: the header is not looked at.
DelayExponential(attempt, retryAfter) == 2 ^ attempt

\* _backoff: what the server asks for, else base_delay doubled at each attempt.
Delay(attempt, retryAfter) == IF retryAfter > 0 THEN retryAfter ELSE 2 ^ attempt

\* A time the saturating clock can reach.
Due(t) == IF t < MaxNow THEN t ELSE MaxNow

\* The answers after which the loop goes on.
Retried == {"429", "5xx", "neterr"}

\* The answer: a 2xx returns, a refusal raises, as does the last attempt's 429
\* or 5xx; otherwise the call sleeps, after the last attempt's network error too.
Answer(c) ==
    /\ At(c, "answer")
    /\ \E a \in Answers, after \in RetryAfters :
         /\ a # "429" => after = 0
         /\ notBefore' = [notBefore EXCEPT ![c] = IF a = "429" THEN Due(now + after) ELSE 0]
         /\ call' = [call EXCEPT
                       ![c].last = a,
                       ![c].wake = Due(now + Delay(call[c].attempt, after)),
                       ![c].pc =
                          IF a = "ok" THEN "returned"
                          ELSE IF a \notin Retried THEN "raised"
                          ELSE IF LastAttempt(call[c].attempt) /\ a # "neterr" THEN "raised"
                          ELSE "sleep"]
    /\ UNCHANGED <<now, level, sends, attempts>>

\* Mutant of NextAttempt: the count stands still.
NextAttemptSame(attempt) == attempt

NextAttempt(attempt) == attempt + 1

\* The sleep is over: the next attempt, or the loop is exhausted.
Wake(c) ==
    /\ At(c, "sleep") /\ call[c].wake <= now
    /\ call' = [call EXCEPT ![c].pc = IF LastAttempt(call[c].attempt) THEN "raised" ELSE "send",
                            ![c].attempt = NextAttempt(@)]
    /\ UNCHANGED <<now, level, sends, attempts, notBefore>>

Work(c) == Send(c) \/ Answer(c) \/ Wake(c)

Next == Tick \/ \E c \in Calls : Work(c)

Spec == Init /\ [][Next]_vars

\* Time passes, httpx answers within its timeout, and the event loop wakes
\* every sleeper; the limiter wakes its waiters in turn.
FairSpec ==
    /\ Spec /\ WF_vars(Tick)
    /\ \A c \in Calls : WF_vars(Answer(c)) /\ WF_vars(Wake(c)) /\ SF_vars(Send(c))

-----------------------------------------------------------------------------
(* Properties.                                                             *)

\* Shape of the state; the bucket never overflows.
TypeOK ==
    /\ now \in 0 .. MaxNow
    /\ level \in 0 .. Rate * Window
    /\ \A c \in Calls :
         /\ call[c].pc \in {"send", "answer", "sleep"} \cup Final
         /\ call[c].attempt \in 0 .. MaxRetries + 1
         /\ call[c].last \in Answers \cup {"none"}

\* A call sends at most max_retries + 1 attempts, returns only what the last of
\* them answered, raises only what failed, and gives up early only on a refusal.
Verdict ==
    \A c \in Calls :
        /\ attempts[c] <= MaxRetries + 1
        /\ At(c, "returned") <=> call[c].last = "ok"
        /\ At(c, "raised") => attempts[c] = MaxRetries + 1 \/ call[c].last = "4xx"
        /\ call[c].last = "4xx" => At(c, "raised")

\* No attempt is sent before the time the last 429 asked the call to wait for.
RetryAfterHonoured ==
    [][\A c \in Calls : attempts'[c] # attempts[c] => now >= notBefore[c]]_vars

\* What the limiter does guarantee: in any stretch of time no more attempts than
\* a full bucket and what leaks meanwhile.
LeakyBound ==
    \A i, j \in 1 .. Len(sends) : i <= j /\ sends[j] < MaxNow =>
        (j - i + 1) * Window <= Rate * Window + (sends[j] - sends[i]) * Rate

\* Every call ends, in an answer or in an error.
Ends == \A c \in Calls : <>(call[c].pc \in Final)
=============================================================================
