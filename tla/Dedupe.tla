------------------------------- MODULE Dedupe -------------------------------
(***************************************************************************)
(* Dedupe of src/chic/telegram/dedupe.py: the last N update ids in a ring, *)
(* and the set of them for the lookup.  Telegram numbers updates from 1; 0 *)
(* marks a slot of the ring that was never written.                        *)
(*                                                                         *)
(* Two history variables number the acceptances, so that what the ring     *)
(* remembers can be compared with what was accepted.  The module stands on *)
(* its own for the proofs; Webhook extends it, and is what TLC runs.       *)
(***************************************************************************)
EXTENDS Naturals, FiniteSets

CONSTANTS
    N,              \* the size of the ring
    Updates,        \* update ids
    MaxAccepted     \* bound: acceptances of one process

ASSUME RingAssumption == N \in Nat \ {0} /\ MaxAccepted \in Nat
ASSUME UpdatesAssumption == Updates \subseteq Nat \ {0}

VARIABLES
    seen,       \* _seen
    ring,       \* _ring
    next,       \* _next
    accepted,   \* history: how many updates first_seen has let through
    latest      \* history: the number of an update's latest acceptance, or 0

dedupe == <<seen, ring, next, accepted, latest>>

Slots == 0 .. N - 1

DedupeInit ==
    /\ seen = {}
    /\ ring = [i \in Slots |-> 0]
    /\ next = 0
    /\ accepted = 0
    /\ latest = [u \in Updates |-> 0]

\* Mutant of Advance: the last slot is never used.
AdvanceShort(i) == (i + 1) % (IF N > 1 THEN N - 1 ELSE 1)

\* The next slot of the ring.
Advance(i) == (i + 1) % N

\* What leaves the set with the id old of the slot: nothing for a fresh slot.
Forgotten(old) == IF old # 0 THEN {old} ELSE {}

\* first_seen answers True.
Accept(u) ==
    /\ u \notin seen
    /\ accepted < MaxAccepted
    /\ seen' = (seen \ Forgotten(ring[next])) \cup {u}
    /\ ring' = [ring EXCEPT ![next] = u]
    /\ next' = Advance(next)
    /\ accepted' = accepted + 1
    /\ latest' = [latest EXCEPT ![u] = accepted + 1]

\* first_seen answers False, and changes nothing.
Duplicate(u) == u \in seen /\ UNCHANGED dedupe

DedupeNext == \E u \in Updates : Accept(u) \/ Duplicate(u)

DedupeSpec == DedupeInit /\ [][DedupeNext]_dedupe

-----------------------------------------------------------------------------
(* Properties.                                                             *)

\* Shape of the state.
DedupeTypeOK ==
    /\ seen \subseteq Updates
    /\ ring \in [Slots -> Updates \cup {0}]
    /\ next \in Slots
    /\ accepted \in Nat
    /\ latest \in [Updates -> 0 .. accepted]

\* u is one of the last N updates accepted.
AmongLastN(u) == latest[u] # 0 /\ latest[u] + N > accepted

\* The promise of the class: it remembers the last N update ids, all of them
\* and no others, however often the ring has wrapped and whatever came again.
RemembersLastN == \A u \in Updates : u \in seen <=> AmongLastN(u)

\* "bounded memory": never more than N ids.
BoundedMemory == IsFiniteSet(seen) /\ Cardinality(seen) <= N

\* An update is let through a second time only after N others.
AgainOnlyAfterN ==
    [][\A u \in Updates : latest[u] # 0 /\ latest'[u] # latest[u]
          => latest'[u] > latest[u] + N]_dedupe
=============================================================================
