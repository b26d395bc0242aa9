------------------------------ MODULE Limiter ------------------------------
(***************************************************************************)
(* _RateLimiter of src/chic/agent/agent.py: a token bucket for each user   *)
(* over the wall clock, which time.time() may read as going back.  A token *)
(* is cut into Hour parts, so that what a tick brings is whole.            *)
(***************************************************************************)
EXTENDS Integers, Sequences, FiniteSets

CONSTANTS
    Users,
    Rates,          \* the turns an hour there may be; a negative one: no limit
    Hour,           \* the ticks of the clock in an hour
    Readings,       \* what the clock may show at a call
    MaxCalls        \* bound: the calls of each user

ASSUME LimiterAssumption ==
    Rates \subseteq Int /\ Hour \in Nat \ {0} /\ Readings \subseteq Int /\ MaxCalls \in Nat

VARIABLES
    perHour,    \* _per_hour, set when the agent is made
    buckets,    \* _buckets: tokens and time of the last call, of the users there is one of
    calls       \* history: of each user the calls, when and with what verdict

limiterVars == <<perHour, buckets, calls>>

LimiterInit ==
    /\ perHour \in Rates
    /\ buckets = [u \in {} |-> [tokens |-> 0, last |-> 0]]
    /\ calls = [u \in Users |-> <<>>]

\* cap
Cap == perHour * Hour

\* The first call finds a full bucket.
Bucket(u, now) ==
    IF u \in DOMAIN buckets THEN buckets[u] ELSE [tokens |-> Cap, last |-> now]

\* Mutant of Refilled: the bucket is never full.
RefilledUncapped(bucket, now) == bucket.tokens + (now - bucket.last) * perHour

\* The tokens there are now; fewer than there were, if the clock went back.
Refilled(bucket, now) ==
    LET tokens == bucket.tokens + (now - bucket.last) * perHour
    IN  IF tokens <= Cap THEN tokens ELSE Cap

\* A call of a user is let through or not.
Called(u, now, allowed) ==
    calls' = [calls EXCEPT ![u] = Append(@, [at |-> now, allowed |-> allowed])]

\* "self._per_hour < 0": there is no limit, and nothing to note.
AllowAny(u, now) ==
    /\ perHour < 0
    /\ Called(u, now, TRUE)
    /\ UNCHANGED <<perHour, buckets>>

\* A token is taken if there is a whole one, and the time is noted anyhow.
AllowLimited(u, now) ==
    /\ perHour >= 0
    /\ LET tokens == Refilled(Bucket(u, now), now)
           allowed == tokens >= Hour
       IN  /\ buckets' = [v \in DOMAIN buckets \cup {u} |->
                            IF v # u THEN buckets[v]
                            ELSE [tokens |-> IF allowed THEN tokens - Hour ELSE tokens, last |-> now]]
           /\ Called(u, now, allowed)
    /\ UNCHANGED perHour

\* allow: one call, at any reading of the clock.
Allow(u) ==
    /\ Len(calls[u]) < MaxCalls
    /\ \E now \in Readings : AllowAny(u, now) \/ AllowLimited(u, now)

LimiterNext == \E u \in Users : Allow(u)

LimiterSpec == LimiterInit /\ [][LimiterNext]_limiterVars

-----------------------------------------------------------------------------
(* Properties.                                                             *)

\* Shape of the state; no bucket ever holds more than fits in.
LimiterTypeOK ==
    /\ perHour \in Rates
    /\ DOMAIN buckets \subseteq Users
    /\ \A u \in DOMAIN buckets : /\ buckets[u].tokens \in Int /\ buckets[u].last \in Readings
                                 /\ buckets[u].tokens <= Cap
    /\ calls \in [Users -> Seq([at : Readings, allowed : BOOLEAN])]

\* Which of the calls from the i-th to the j-th were let through.
LetThrough(c, i, j) == {k \in i .. j : c[k].allowed}

\* However the clock jumps, no stretch of a user's calls is let through more often
\* than a full bucket and the time between its ends allow; and a call made a token's
\* time behind all readings before it is let through, whatever others call.
AllowanceKept ==
    \A u \in Users : \A j \in DOMAIN calls[u] :
        LET c == calls[u]
            Gained(i) == (c[j].at - c[i].at) * perHour
        IN  /\ perHour >= 0 /\ c[j].allowed =>
                 \A i \in 1 .. j : Hour * Cardinality(LetThrough(c, i, j)) <= Cap + Gained(i)
            /\ perHour > 0 /\ (\A i \in 1 .. j - 1 : Gained(i) >= Hour) => c[j].allowed
=============================================================================
