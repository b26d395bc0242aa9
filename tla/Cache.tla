------------------------------- MODULE Cache -------------------------------
(***************************************************************************)
(* The response cache: CachingClient._cached of src/chic/cache/client.py   *)
(* over one key of the CacheStore of src/chic/cache/store.py.              *)
(*                                                                         *)
(* Calls overlap: each looks the key up, fetches on a miss and stores what *)
(* it fetched, with other calls and the janitor between any two of these   *)
(* steps.  A failure of the store, or an entry that no longer validates,   *)
(* is a miss on reading and is passed over on writing.                     *)
(*                                                                         *)
(* A value is the moment MoySklad computed it.  Time is counted in ticks,  *)
(* Second of them to a second: the table holds whole seconds.  The clock   *)
(* is time.time(), of which it is assumed that it is not set back.  A      *)
(* class whose TTL is 0 or less has no rows: its calls only fetch, and are *)
(* left out.                                                               *)
(***************************************************************************)
EXTENDS Naturals

CONSTANTS
    Calls,      \* calls that may be under way at once
    TTL,        \* the lifetime of the key's class, in ticks, above 0
    Second,     \* ticks to a second
    MaxLag,     \* bound on the time from MoySklad's answer to its storing
    MaxNow      \* bound: the clock stops here

ASSUME TimesAssumption ==
    /\ TTL \in Nat \ {0} /\ Second \in Nat \ {0} /\ MaxLag \in Nat
    /\ MaxNow \in Nat /\ Second <= MaxNow

VARIABLES
    now,        \* time.time()
    entry,      \* the key's row: its value and expires_at; expires_at 0 for no row
    call,       \* what each call holds across its awaits
    put,        \* history: the row as last written
    served,     \* history: the last value a call returned, when, and the youngest so far
    calm        \* history: "overlap" once fetches overlapped, "lost" once a write failed

vars == <<now, entry, call, put, served, calm>>

NoRow == [value |-> 0, expires |-> 0]
Idle == [pc |-> "idle", value |-> 0]

Init ==
    /\ now = Second
    /\ entry = NoRow /\ put = NoRow
    /\ call = [c \in Calls |-> Idle]
    /\ served = [value |-> now, at |-> now, newest |-> now]
    /\ calm = "yes"

-----------------------------------------------------------------------------
(* The store.                                                              *)

\* int(...): whole seconds.
Whole(t) == t \div Second

\* Mutant of Live: an entry lives through the second it expires in.
LiveInclusive(row) == row.expires >= Whole(now)

\* CacheStore.get: "expires_at > now".
Live(row) == row.expires > Whole(now)

\* Mutant of Expired: the janitor is a second early.
ExpiredEarly(row) == row.expires <= Whole(now) + 1

\* CacheStore.purge: "expires_at <= now".
Expired(row) == row.expires <= Whole(now)

\* Mutant of Row: a conflict renews the expiry and keeps the value.
RowRenewed(value) ==
    [value |-> IF entry = NoRow THEN value ELSE entry.value, expires |-> Whole(now + TTL)]

\* CacheStore.set: the row replaces what is there.
Row(value) == [value |-> value, expires |-> Whole(now + TTL)]

-----------------------------------------------------------------------------
(* _cached.                                                                *)

At(c, step) == call[c].pc = step

\* A call returns a value.
Serve(value) ==
    [value |-> value, at |-> now,
     newest |-> IF value > served.newest THEN value ELSE served.newest]

\* No answer of MoySklad waits longer than MaxLag to be stored.
Tick ==
    /\ now < MaxNow
    /\ \A c \in Calls : At(c, "set") => now < call[c].value + MaxLag
    /\ now' = now + 1
    /\ UNCHANGED <<entry, call, put, served, calm>>

Fetching == {c \in Calls : ~ At(c, "idle")}

\* A call finds a live row, and returns its value.
Hit(c) ==
    /\ At(c, "idle") /\ Live(entry)
    /\ served' = Serve(entry.value)
    /\ UNCHANGED <<now, entry, call, put, calm>>

\* A call finds none; or the read failed, or the row does not validate.  Each
\* method of CachingClient is such a call, with a key and a TTL of its own.
Miss(c) ==
    /\ At(c, "idle")
    /\ calm' = IF calm = "yes" /\ (Live(entry) \/ Fetching # {}) THEN "overlap" ELSE calm
    /\ call' = [call EXCEPT ![c].pc = "fetch"]
    /\ UNCHANGED <<now, entry, put, served>>

\* MoySklad computes the answer.
Answer(c) ==
    /\ At(c, "fetch")
    /\ call' = [call EXCEPT ![c] = [pc |-> "set", value |-> now]]
    /\ UNCHANGED <<now, entry, put, served, calm>>

\* The fetch raises, and so does the call; or the process dies.
Fail(c) ==
    /\ ~ At(c, "idle")
    /\ call' = [call EXCEPT ![c] = Idle]
    /\ UNCHANGED <<now, entry, put, served, calm>>

\* The answer is stored, or the store fails; either way the call returns it.
Set(c) ==
    /\ At(c, "set")
    /\ \/ entry' = Row(call[c].value) /\ put' = entry' /\ UNCHANGED calm
       \/ calm' = "lost" /\ UNCHANGED <<entry, put>>
    /\ served' = Serve(call[c].value)
    /\ call' = [call EXCEPT ![c] = Idle]
    /\ UNCHANGED now

\* _janitor_loop: purge.
Purge ==
    /\ Expired(entry)
    /\ entry' = NoRow
    /\ UNCHANGED <<now, call, put, served, calm>>

Next ==
    \/ Tick \/ Purge
    \/ \E c \in Calls : Hit(c) \/ Miss(c) \/ Answer(c) \/ Fail(c) \/ Set(c)

Spec == Init /\ [][Next]_vars

-----------------------------------------------------------------------------
(* Properties.                                                             *)

\* Shape of the state; no value is from the future.
TypeOK ==
    /\ now \in Second .. MaxNow
    /\ \A row \in {entry, put} : row.value \in 0 .. now /\ row.expires \in 0 .. Whole(now + TTL)
    /\ \A c \in Calls : call[c].pc \in {"idle", "fetch", "set"} /\ call[c].value \in 0 .. now
    /\ served.value \in 0 .. now /\ served.at \in 0 .. now /\ served.newest \in 0 .. now
    /\ calm \in {"yes", "overlap", "lost"}

\* A value a call returns was computed less than the TTL and one lag ago:
\* rounding to whole seconds never lengthens a row's life, and neither a late
\* store nor the janitor brings an expired one back.
BoundedStaleness == served.at < served.value + TTL + MaxLag \/ served.at = served.value

\* The janitor cannot be noticed: a lookup finds what it would find in a table
\* that nothing is ever deleted from.
JanitorInvisible == Live(put) => entry = put

\* What callers see steps back no further than an answer may wait to be stored, also
\* when a slower fetch overwrites a younger value with an older one; and not at all
\* as long as fetches do not overlap.  Only a write that fails may cost more: it
\* leaves an older row in place.
NoStepBack ==
    /\ calm # "lost" => served.value + MaxLag >= served.newest
    /\ calm = "yes" => served.value = served.newest
=============================================================================
