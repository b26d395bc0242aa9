------------------------------ MODULE BotProofs ------------------------------
(***************************************************************************)
(* Proofs about Bot, and with it Dedupe and Webhook, for every size of the *)
(* ring, number of updates and of requests under way, and number of        *)
(* timeouts and restarts.                                                  *)
(*                                                                         *)
(* Of the ring, the argument numbers the acceptances: Stamp(i) is the      *)
(* number of the one whose id slot i holds.  Moving on by one slot, with   *)
(* or without wrapping to the first, changes the stamp of the slot just    *)
(* written and of no other, and the stamps are always the last N numbers.  *)
(*                                                                         *)
(* Over it, the argument keeps two books.  Delivery: an update that is     *)
(* answered without being handled again was handled in this process, since *)
(* it is in the set of ids seen.  The chat: a question is not open once it *)
(* was picked, and a press that carries a label was made while it was      *)
(* open.                                                                   *)
(***************************************************************************)
EXTENDS Bot, FiniteSetTheorems, TLAPS

-----------------------------------------------------------------------------
(* The ring of Dedupe, on its own.                                         *)

\* The number of the acceptance that wrote slot i, when it was written at all.
Stamp(i) == IF i < next THEN accepted - next + i + 1 ELSE accepted - next + i + 1 - N

\* A slot holds the id whose latest acceptance is the slot's stamp.
RingInv ==
    \A i \in Slots : ring[i] # 0 =>
        Stamp(i) >= 1 /\ latest[ring[i]] = Stamp(i)

\* The set is that of the ids in the ring, and misses none of the last N.
SeenInv ==
    /\ \A u \in Updates : u \in seen <=> \E i \in Slots : ring[i] = u
    /\ \A u \in Updates : AmongLastN(u) => u \in seen

DedupeInv == DedupeTypeOK /\ RingInv /\ SeenInv

\* The next slot is the following one, or the first after the last.
LEMMA AdvanceWraps ==
    ASSUME NEW i \in Slots
    PROVE  Advance(i) = IF i + 1 < N THEN i + 1 ELSE 0
<1> USE RingAssumption
<1>1. CASE i + 1 < N
  BY <1>1 DEF Advance, Slots
<1>2. CASE i + 1 = N
  BY <1>2, N % N = 0 DEF Advance, Slots
<1> QED
  BY <1>1, <1>2 DEF Slots

\* The stamps are the last N numbers, the oldest that of the slot to be written.
LEMMA StampsAreRecent ==
    ASSUME DedupeTypeOK
    PROVE  /\ \A i \in Slots : Stamp(i) \in Int /\ accepted - N < Stamp(i) /\ Stamp(i) <= accepted
           /\ Stamp(next) = accepted - N + 1
BY RingAssumption DEF DedupeTypeOK, Stamp, Slots

LEMMA InitDedupeInv == DedupeInit => DedupeInv
<1> SUFFICES ASSUME DedupeInit PROVE DedupeInv
  OBVIOUS
<1>1. DedupeTypeOK
  BY RingAssumption DEF DedupeInit, DedupeTypeOK, Slots
<1>2. RingInv
  BY DEF DedupeInit, RingInv
<1>3. SeenInv
  BY UpdatesAssumption DEF DedupeInit, SeenInv, AmongLastN
<1> QED
  BY <1>1, <1>2, <1>3 DEF DedupeInv

\* An acceptance gives the slot it writes the next number, and leaves the stamps
\* of the other slots alone, at the wrap as elsewhere.
LEMMA AcceptStamps ==
    ASSUME DedupeTypeOK, NEW u \in Updates, Accept(u)
    PROVE  \A i \in Slots : Stamp(i)' = IF i = next THEN accepted + 1 ELSE Stamp(i)
<1>1. next' = IF next + 1 < N THEN next + 1 ELSE 0
  BY AdvanceWraps DEF Accept, DedupeTypeOK
<1>2. accepted' = accepted + 1
  BY DEF Accept
<1> QED
  BY <1>1, <1>2, RingAssumption DEF DedupeTypeOK, Stamp, Slots

LEMMA AcceptStep ==
    ASSUME DedupeInv, NEW u \in Updates, Accept(u)
    PROVE  DedupeInv'
<1> USE DEF DedupeInv
<1>1. u # 0 /\ u \in Nat
  BY UpdatesAssumption
<1>2. DedupeTypeOK'
  <2>1. next' \in Slots
    BY AdvanceWraps, RingAssumption DEF Accept, DedupeTypeOK, Slots
  <2>2. latest' \in [Updates -> 0 .. accepted']
    BY DEF Accept, DedupeTypeOK
  <2> QED
    BY <2>1, <2>2 DEF Accept, DedupeTypeOK, Forgotten
<1>3. \A i \in Slots : ring'[i] = IF i = next THEN u ELSE ring[i]
  BY DEF Accept, DedupeTypeOK
<1>4. \A v \in Updates : latest'[v] = IF v = u THEN accepted + 1 ELSE latest[v]
  BY DEF Accept, DedupeTypeOK
<1>5. \A i \in Slots : ring[i] # u
  BY DEF Accept, SeenInv
<1>6. RingInv'
  <2> SUFFICES ASSUME NEW i \in Slots, ring'[i] # 0
               PROVE  Stamp(i)' >= 1 /\ latest'[ring'[i]] = Stamp(i)'
    BY DEF RingInv, Slots
  <2>1. CASE i = next
    BY <2>1, <1>3, <1>4, AcceptStamps DEF DedupeTypeOK
  <2>2. CASE i # next
    <3>1. ring'[i] = ring[i] /\ ring[i] # 0 /\ ring[i] # u /\ ring[i] \in Updates
      BY <2>2, <1>3, <1>5 DEF DedupeTypeOK
    <3> QED
      BY <3>1, <2>2, <1>4, AcceptStamps DEF RingInv
  <2> QED
    BY <2>1, <2>2
<1>7. SeenInv'
  <2>1. ASSUME NEW v \in Updates
        PROVE  v \in seen' <=> \E i \in Slots : ring'[i] = v
    <3>1. CASE v = u
      BY <3>1, <1>3 DEF Accept, DedupeTypeOK
    <3>2. CASE v # u /\ v = ring[next]
      <4>1. v \notin seen'
        BY <3>2, UpdatesAssumption DEF Accept, Forgotten
      <4>2. ASSUME NEW i \in Slots, i # next PROVE ring[i] # v
        <5>1. Stamp(i) # Stamp(next)
          BY <4>2, RingAssumption DEF Stamp, DedupeTypeOK, Slots
        <5> QED
          BY <5>1, <3>2, UpdatesAssumption DEF RingInv, DedupeTypeOK
      <4> QED
        BY <4>1, <4>2, <3>2, <1>3
    <3>3. CASE v # u /\ v # ring[next]
      <4>1. v \in seen' <=> v \in seen
        BY <3>3 DEF Accept, Forgotten
      <4>2. (\E i \in Slots : ring'[i] = v) <=> (\E i \in Slots : ring[i] = v)
        BY <3>3, <1>3
      <4> QED
        BY <4>1, <4>2 DEF SeenInv
    <3> QED
      BY <3>1, <3>2, <3>3
  <2>2. ASSUME NEW v \in Updates, AmongLastN(v)'
        PROVE  v \in seen'
    <3>1. CASE v = u
      BY <3>1 DEF Accept
    <3>2. CASE v # u
      <4>1. latest[v] # 0 /\ latest[v] + N > accepted + 1 /\ latest[v] \in Nat
        BY <2>2, <3>2, <1>4 DEF AmongLastN, Accept, DedupeTypeOK
      <4>2. v \in seen
        BY <4>1, RingAssumption DEF AmongLastN, SeenInv, DedupeTypeOK
      <4>3. ring[next] # v
        <5>1. latest[v] # Stamp(next)
          BY <4>1, StampsAreRecent, RingAssumption DEF DedupeTypeOK
        <5> QED
          BY <5>1, UpdatesAssumption DEF RingInv, DedupeTypeOK
      <4> QED
        BY <4>2, <4>3 DEF Accept, Forgotten
    <3> QED
      BY <3>1, <3>2
  <2> QED
    BY <2>1, <2>2 DEF SeenInv, Slots
<1> QED
  BY <1>2, <1>6, <1>7

LEMMA NextDedupeInv == DedupeInv /\ [DedupeNext]_dedupe => DedupeInv'
<1> SUFFICES ASSUME DedupeInv, [DedupeNext]_dedupe PROVE DedupeInv'
  OBVIOUS
<1>1. ASSUME NEW u \in Updates, Accept(u) PROVE DedupeInv'
  BY <1>1, AcceptStep
<1>2. CASE UNCHANGED dedupe
  BY <1>2 DEF dedupe, DedupeInv, DedupeTypeOK, RingInv, SeenInv, AmongLastN, Stamp, Slots
<1> QED
  BY <1>1, <1>2 DEF DedupeNext, Duplicate

\* The inductive invariant.
THEOREM Invariance == DedupeSpec => []DedupeInv
BY InitDedupeInv, NextDedupeInv, PTL DEF DedupeSpec

\* The ring holds ids and its index stays within it (dedupe.py:19-21).
THEOREM TypeCorrect == DedupeSpec => []DedupeTypeOK
<1>1. DedupeInv => DedupeTypeOK
  BY DEF DedupeInv
<1> QED
  BY <1>1, Invariance, PTL

LEMMA RemembersFromInv == DedupeInv => RemembersLastN
<1> SUFFICES ASSUME DedupeInv, NEW u \in Updates
             PROVE  u \in seen <=> AmongLastN(u)
  BY DEF RemembersLastN
<1> USE DEF DedupeInv
<1>1. ASSUME u \in seen PROVE AmongLastN(u)
  <2>1. PICK i \in Slots : ring[i] = u
    BY <1>1 DEF SeenInv
  <2>2. Stamp(i) >= 1 /\ latest[u] = Stamp(i)
    BY <2>1, UpdatesAssumption DEF RingInv
  <2> QED
    BY <2>2, StampsAreRecent, RingAssumption DEF AmongLastN, DedupeTypeOK
<1> QED
  BY <1>1 DEF SeenInv

\* first_seen (dedupe.py:14-23) remembers the last N ids it let through, all of
\* them and no others.
THEOREM Remembers == DedupeSpec => []RemembersLastN
BY RemembersFromInv, Invariance, PTL

\* The set kept beside the ring never outgrows it (dedupe.py:17-20).
THEOREM Bounded == DedupeSpec => []BoundedMemory
<1>1. DedupeInv => BoundedMemory
  <2> SUFFICES ASSUME DedupeInv PROVE BoundedMemory
    OBVIOUS
  <2> DEFINE T == {ring[i] : i \in Slots}
  <2>1. IsFiniteSet(Slots) /\ Cardinality(Slots) = N
    BY FS_Interval, RingAssumption DEF Slots
  <2>2. ring \in Surjection(Slots, T)
    BY DEF DedupeInv, DedupeTypeOK, Surjection
  <2>3. IsFiniteSet(T) /\ Cardinality(T) <= N
    <3> HIDE DEF T
    <3> QED
      BY <2>1, <2>2, FS_Surjection
  <2>4. seen \subseteq T
    BY DEF DedupeInv, DedupeTypeOK, SeenInv
  <2>5. IsFiniteSet(seen) /\ Cardinality(seen) <= Cardinality(T)
    <3> HIDE DEF T
    <3> QED
      BY <2>3, <2>4, FS_Subset
  <2>6. Cardinality(seen) \in Nat /\ Cardinality(T) \in Nat
    <3> HIDE DEF T
    <3> QED
      BY <2>3, <2>5, FS_CardinalityType
  <2> QED
    BY <2>3, <2>5, <2>6, RingAssumption DEF BoundedMemory
<1> QED
  BY <1>1, Invariance, PTL

\* An update comes through a second time only after N others (dedupe.py:15).
THEOREM NoEarlyRepeat == DedupeSpec => AgainOnlyAfterN
<1> DEFINE Late ==
      \A u \in Updates : latest[u] # 0 /\ latest'[u] # latest[u] => latest'[u] > latest[u] + N
<1>1. DedupeInv /\ [DedupeNext]_dedupe => [Late]_dedupe
  <2> SUFFICES ASSUME DedupeInv, NEW v \in Updates, Accept(v)
               PROVE  Late
    BY DEF DedupeNext, Duplicate
  <2>1. ~ AmongLastN(v)
    BY RemembersFromInv DEF RemembersLastN, Accept
  <2> QED
    BY <2>1, RingAssumption DEF Accept, AmongLastN, DedupeInv, DedupeTypeOK
<1> QED
  BY <1>1, Invariance, PTL DEF DedupeSpec, AgainOnlyAfterN


-----------------------------------------------------------------------------
(* The invariant: delivery.                                                *)

WebhookShape ==
    /\ queue \in [Updates -> {"none", "queued", "sent", "refused", "acked",
                             "malformed", "rejected"}]
    /\ task \in [Tasks -> [update : Updates \cup {0}, waited : {"yes", "no"}]]
    /\ restarts \in Nat

\* Telegram waits on one request for an update at most, and while it does the update is
\* sent; a request on which it does not wait any more timed out.
Posts ==
    /\ \A t \in Tasks : task[t].update = 0 => task[t].waited = "no"
    /\ \A t \in Tasks : task[t].update # 0 =>
         /\ queue[task[t].update] # "none"
         /\ task[t].waited = "yes" => queue[task[t].update] = "sent"
         /\ task[t].waited = "no" => task[t].update \in timedOut
    /\ \A s, t \in Tasks :
         task[s].waited = "yes" /\ task[t].waited = "yes" /\ task[s].update = task[t].update
           => s = t

\* What this process let through it has answered, or is handling, or its handler raised.
SeenIsHandled == \A u \in seen : u \in answered \/ u \in raised \/ Handling(u) # {}

\* S requests for an update whose latest acceptance is number l: between any two of
\* them N others were accepted.
Spaced(S, l) == IsFiniteSet(S) /\ Cardinality(S) * (N + 1) <= l + N

HandlersSpaced == \A u \in Updates : Spaced(Handling(u), latest[u])

WebhookInv ==
    DedupeInv /\ WebhookShape /\ Posts /\ SeenIsHandled /\ AckedMeansAnswered /\ HandlersSpaced

-----------------------------------------------------------------------------
(* The invariant: the handlers and the chat.                               *)

TurnType == [step : {"begin", "run", "send"}, left : Int, asks : {"yes", "no"},
             twice : {"yes", "no"}, gap : {"yes", "no"}]

ChatShape ==
    /\ turn \in [Tasks -> TurnType]
    /\ press \in [Presses -> [question : Nat, label : {"yes", "no"}, late : {"yes", "no"}]]
    /\ asked \in Nat /\ open \subseteq 1 .. asked /\ picked \subseteq 1 .. asked

\* A request that is over leaves its place as a new one finds it; and no answer has
\* been left out that Telegram would have taken.
TurnsInv ==
    \A t \in Tasks :
      /\ task[t].update = 0 => turn[t].step = "begin"
      /\ turn[t].gap = "no"

\* A question that was picked is not open; a press with a label was made before its
\* question was picked; and only such a press runs a turn.
PressInv ==
    /\ open \cap picked = {}
    /\ \A u \in Presses : press[u].label = "yes" =>
         press[u].late = "no" /\ press[u].question \in 1 .. asked
    /\ \A t \in Tasks : task[t].update # 0 /\ turn[t].step = "run" =>
         task[t].update \in Presses /\ press[task[t].update].label = "yes"

ChatInv == ChatShape /\ TurnsInv /\ PressInv /\ DeliveredOnce

BotInv == WebhookInv /\ ChatInv

-----------------------------------------------------------------------------
(* Counting the requests for an update.                                    *)

LEMMA NoneSpaced ==
    ASSUME NEW l \in Nat
    PROVE  Spaced({}, l)
<1>1. IsFiniteSet({}) /\ Cardinality({}) = 0
  BY FS_EmptySet
<1>2. QED BY <1>1, RingAssumption DEF Spaced

LEMMA FewerSpaced ==
    ASSUME NEW S, NEW T \in SUBSET S, NEW l \in Nat, Spaced(S, l)
    PROVE  Spaced(T, l)
<1>1. /\ IsFiniteSet(T) /\ Cardinality(T) <= Cardinality(S)
      /\ Cardinality(T) \in Nat /\ Cardinality(S) \in Nat
  BY FS_Subset, FS_CardinalityType DEF Spaced
<1>2. \A a, b, c \in Nat : a <= b => a * c <= b * c
  OBVIOUS
<1>3. Cardinality(T) * (N + 1) <= Cardinality(S) * (N + 1)
  BY <1>1, <1>2, RingAssumption
<1>4. /\ Cardinality(T) * (N + 1) \in Nat /\ Cardinality(S) * (N + 1) \in Nat
      /\ Cardinality(S) * (N + 1) <= l + N
  BY <1>1, RingAssumption DEF Spaced
<1>5. QED BY <1>1, <1>3, <1>4, RingAssumption DEF Spaced

\* One more, accepted when the ring had forgotten the update.
LEMMA OneMoreSpaced ==
    ASSUME NEW S, NEW t, t \notin S, NEW l \in Nat, NEW a \in Nat, Spaced(S, l), l <= a,
           ~ (l # 0 /\ l + N > a)
    PROVE  Spaced(S \cup {t}, a + 1)
<1>1. /\ IsFiniteSet(S) /\ Cardinality(S) \in Nat /\ IsFiniteSet(S \cup {t})
      /\ Cardinality(S \cup {t}) = Cardinality(S) + 1
  BY FS_AddElement, FS_CardinalityType DEF Spaced
<1>2. PICK c \in Nat : c = Cardinality(S)
  BY <1>1
<1>3. PICK p \in Nat : p = c * (N + 1)
  BY <1>2, RingAssumption
<1>4. (c + 1) * (N + 1) = p + N + 1
  BY <1>2, <1>3, RingAssumption
<1>5. p <= l + N
  BY <1>2, <1>3 DEF Spaced
<1>6. CASE l = 0
  <2>1. c = 0
    <3>1. SUFFICES ASSUME c >= 1 PROVE FALSE
      BY <1>2
    <3>2. c * (N + 1) >= 1 * (N + 1)
      BY <1>2, <3>1, RingAssumption
    <3>3. QED BY <1>3, <1>5, <1>6, <3>2, RingAssumption
  <2>2. p = 0
    BY <1>3, <2>1, RingAssumption
  <2>3. p + N + 1 <= a + 1 + N
    BY <2>2, RingAssumption
  <2>4. QED BY <1>1, <1>2, <1>4, <2>3 DEF Spaced
<1>7. CASE l # 0
  <2>1. l + N <= a
    BY <1>7, RingAssumption
  <2>2. p + N + 1 <= a + 1 + N
    BY <1>5, <2>1, RingAssumption
  <2>3. QED BY <1>1, <1>2, <1>4, <2>2 DEF Spaced
<1>8. QED BY <1>6, <1>7

\* Spaced requests are no more than the property says.
LEMMA SpacedAreFew ==
    ASSUME NEW S, NEW l \in Nat, NEW a \in Nat, l <= a, Spaced(S, l)
    PROVE  Cardinality(S) <= (a + N) \div (N + 1)
<1>1. PICK c \in Nat : c = Cardinality(S)
  BY FS_CardinalityType DEF Spaced
<1>2. PICK d \in Nat \ {0} : d = N + 1
  BY RingAssumption
<1>3. PICK b \in Nat : b = a + N
  BY RingAssumption
<1>4. c * d <= b /\ c * d \in Nat
  BY <1>1, <1>2, <1>3, RingAssumption DEF Spaced
<1>5. PICK q \in Nat : q = b \div d
  BY <1>2, <1>3
<1>6. b < q * d + d
  BY <1>2, <1>3, <1>5
<1>7. SUFFICES ASSUME q + 1 <= c PROVE FALSE
  BY <1>1, <1>2, <1>3, <1>5
<1>8. (q + 1) * d <= c * d
  BY <1>1, <1>2, <1>5, <1>7
<1>9. (q + 1) * d = q * d + d
  BY <1>2, <1>5
<1>10. q * d \in Nat
  BY <1>2, <1>5
<1>11. QED BY <1>2, <1>3, <1>4, <1>6, <1>8, <1>9, <1>10

-----------------------------------------------------------------------------
(* Delivery, step by step.                                                 *)

LEMMA DedupeKept ==
    ASSUME DedupeInv, UNCHANGED dedupe
    PROVE  DedupeInv' /\ seen' = seen /\ latest' = latest
BY NextDedupeInv DEF dedupe

\* Requests only end: those under way are as far apart as they were.
LEMMA StillSpaced ==
    ASSUME DedupeInv, HandlersSpaced, UNCHANGED latest,
           \A u \in Updates : Handling(u)' \subseteq Handling(u)
    PROVE  HandlersSpaced'
<1>1. SUFFICES ASSUME NEW u \in Updates
               PROVE  Spaced(Handling(u)', latest'[u])
  BY DEF HandlersSpaced
<1>2. PICK S : S = Handling(u)
  OBVIOUS
<1>3. PICK T \in SUBSET S : T = Handling(u)'
  BY <1>2
<1>4. latest[u] \in Nat /\ Spaced(S, latest[u]) /\ latest' = latest
  BY <1>2 DEF DedupeInv, DedupeTypeOK, HandlersSpaced
<1>5. Spaced(T, latest[u])
  BY <1>4, FewerSpaced
<1>6. QED BY <1>3, <1>4, <1>5

LEMMA WebhookKept ==
    ASSUME WebhookInv, UNCHANGED webhook
    PROVE  WebhookInv'
<1>1. DedupeInv' /\ seen' = seen /\ latest' = latest
  BY DedupeKept DEF WebhookInv, webhook
<1>2. /\ queue' = queue /\ task' = task /\ answered' = answered /\ raised' = raised
      /\ timedOut' = timedOut /\ restarts' = restarts
  BY DEF webhook
<1>3. \A u : Handling(u)' = Handling(u)
  BY <1>2 DEF Handling
<1>4. HandlersSpaced'
  BY <1>1, <1>3, StillSpaced DEF WebhookInv
<1>5. SeenIsHandled' /\ AckedMeansAnswered'
  BY <1>1, <1>2, <1>3 DEF WebhookInv, SeenIsHandled, AckedMeansAnswered
<1>6. WebhookShape' /\ Posts'
  BY <1>2 DEF WebhookInv, WebhookShape, Posts
<1>7. QED BY <1>1, <1>4, <1>5, <1>6 DEF WebhookInv

LEMMA ArriveKeeps ==
    ASSUME WebhookInv, NEW u \in Updates, Arrive(u)
    PROVE  WebhookInv' /\ \A t \in Tasks : task[t].update # u
<1>1. DedupeInv' /\ seen' = seen /\ latest' = latest
  BY DedupeKept DEF WebhookInv, Arrive
<1>2. /\ task' = task /\ answered' = answered /\ raised' = raised /\ timedOut' = timedOut
      /\ restarts' = restarts /\ queue[u] = "none"
  BY DEF Arrive
<1>3. PICK form \in {"queued", "malformed"} : queue' = [queue EXCEPT ![u] = form]
  BY DEF Arrive
<1>4. \A v : Handling(v)' = Handling(v)
  BY <1>2 DEF Handling
<1>5. HandlersSpaced'
  BY <1>1, <1>4, StillSpaced DEF WebhookInv
<1>6. \A v \in Updates : queue'[v] = IF v = u THEN form ELSE queue[v]
  BY <1>3 DEF WebhookInv, WebhookShape
<1>7. \A t \in Tasks : task[t].update # u
  BY <1>2, UpdatesAssumption DEF WebhookInv, Posts
<1>8. SeenIsHandled' /\ AckedMeansAnswered'
  BY <1>1, <1>2, <1>4, <1>6 DEF WebhookInv, SeenIsHandled, AckedMeansAnswered
<1>9. WebhookShape'
  BY <1>2, <1>3 DEF WebhookInv, WebhookShape
<1>10. Posts'
  BY <1>2, <1>6, <1>7 DEF WebhookInv, WebhookShape, Posts
<1>11. QED BY <1>1, <1>5, <1>7, <1>8, <1>9, <1>10 DEF WebhookInv

LEMMA TimeoutKeeps ==
    ASSUME WebhookInv, NEW t \in Tasks, Timeout(t)
    PROVE  WebhookInv' /\ \A s \in Tasks : task'[s].update = task[s].update
<1>1. DedupeInv' /\ seen' = seen /\ latest' = latest
  BY DedupeKept DEF WebhookInv, Timeout
<1>2. PICK v : v = task[t].update
  OBVIOUS
<1>3. v \in Updates /\ v # 0 /\ queue[v] = "sent" /\ task[t].waited = "yes"
  BY <1>2, UpdatesAssumption DEF WebhookInv, WebhookShape, Posts, Timeout
<1>4. /\ answered' = answered /\ raised' = raised
      /\ timedOut' = timedOut \cup {v} /\ restarts' = restarts
      /\ queue' = [queue EXCEPT ![v] = "queued"]
      /\ task' = [task EXCEPT ![t].waited = "no"]
  BY <1>2 DEF Timeout
<1>5. /\ WebhookShape'
      /\ \A u \in Updates : queue'[u] = IF u = v THEN "queued" ELSE queue[u]
      /\ \A s \in Tasks : /\ task'[s].update = task[s].update
                          /\ task'[s].waited = IF s = t THEN "no" ELSE task[s].waited
  BY <1>3, <1>4 DEF WebhookInv, WebhookShape
<1>6. \A u : Handling(u)' = Handling(u)
  BY <1>5 DEF Handling
<1>7. HandlersSpaced'
  BY <1>1, <1>6, StillSpaced DEF WebhookInv
<1>8. SeenIsHandled' /\ AckedMeansAnswered'
  BY <1>1, <1>4, <1>5, <1>6 DEF WebhookInv, SeenIsHandled, AckedMeansAnswered
<1>9. Posts'
  <2>1. \A s \in Tasks : task[s].update = v /\ task[s].waited = "yes" => s = t
    BY <1>2, <1>3 DEF WebhookInv, Posts
  <2>2. \A s \in Tasks : task[s].update \in Updates \cup {0} /\ task[s].waited \in {"yes", "no"}
    BY DEF WebhookInv, WebhookShape
  <2>3. ASSUME NEW s \in Tasks, task'[s].update # 0
        PROVE  /\ queue'[task'[s].update] # "none"
               /\ task'[s].waited = "yes" => queue'[task'[s].update] = "sent"
               /\ task'[s].waited = "no" => task'[s].update \in timedOut'
    BY <1>2, <1>4, <1>5, <2>1, <2>2, <2>3 DEF WebhookInv, Posts
  <2>4. /\ \A s \in Tasks : task'[s].update = 0 => task'[s].waited = "no"
        /\ \A r, s \in Tasks :
             task'[r].waited = "yes" /\ task'[s].waited = "yes"
               /\ task'[r].update = task'[s].update => r = s
    BY <1>5 DEF WebhookInv, Posts
  <2>5. QED BY <2>3, <2>4 DEF Posts
<1>10. QED BY <1>1, <1>5, <1>7, <1>8, <1>9 DEF WebhookInv

\* A post of an update that has no request on which Telegram waits.
LEMMA FeedKeeps ==
    ASSUME WebhookInv, NEW t \in Tasks, NEW u \in Updates, Feed(t, u)
    PROVE  /\ WebhookInv' /\ task[t].update = 0
           /\ \A s \in Tasks \ {t} : task'[s] = task[s]
<1>1. task[t].update = 0 /\ queue[u] \notin {"none", "sent", "acked"} /\ u # 0
  BY UpdatesAssumption DEF Feed, Free, Idle, ToPost, Unreadable
<1>2. answered' = answered /\ raised' = raised /\ timedOut' = timedOut /\ restarts' = restarts
  BY DEF Feed
<1>3. WebhookShape
  BY DEF WebhookInv
<1>4. CASE /\ Accept(u)
           /\ task' = [task EXCEPT ![t] = [update |-> u, waited |-> "yes"]]
           /\ queue' = [queue EXCEPT ![u] = "sent"]
  <2>1. DedupeInv'
    BY <1>4, AcceptStep DEF WebhookInv
  <2>2. /\ WebhookShape'
        /\ \A v \in Updates : queue'[v] = IF v = u THEN "sent" ELSE queue[v]
        /\ \A s \in Tasks : /\ task'[s].update = IF s = t THEN u ELSE task[s].update
                            /\ task'[s].waited = IF s = t THEN "yes" ELSE task[s].waited
    BY <1>2, <1>3, <1>4 DEF WebhookShape
  <2>3. \A v \in Updates : Handling(v)' = IF v = u THEN Handling(u) \cup {t} ELSE Handling(v)
    BY <1>1, <2>2, UpdatesAssumption DEF Handling
  <2>4. HandlersSpaced'
    <3>1. SUFFICES ASSUME NEW v \in Updates
                   PROVE  Spaced(Handling(v)', latest'[v])
      BY DEF HandlersSpaced
    <3>2. /\ latest \in [Updates -> 0 .. accepted] /\ accepted \in Nat
          /\ latest' = [latest EXCEPT ![u] = accepted + 1]
      BY <1>4 DEF WebhookInv, DedupeInv, DedupeTypeOK, Accept
    <3>3. CASE v # u
      BY <2>3, <3>2, <3>3 DEF WebhookInv, HandlersSpaced
    <3>4. CASE v = u
      <4>1. PICK S : S = Handling(u)
        OBVIOUS
      <4>2. t \notin S
        BY <1>1, <4>1 DEF Handling
      <4>3. ~ (latest[u] # 0 /\ latest[u] + N > accepted)
        BY <1>4, RemembersFromInv DEF WebhookInv, RemembersLastN, AmongLastN, Accept
      <4>4. Spaced(S, latest[u]) /\ latest[u] \in Nat /\ latest[u] <= accepted
        BY <3>2, <4>1 DEF WebhookInv, HandlersSpaced
      <4>5. Spaced(S \cup {t}, accepted + 1)
        BY <3>2, <4>2, <4>3, <4>4, OneMoreSpaced
      <4>6. latest'[v] = accepted + 1 /\ Handling(v)' = S \cup {t}
        BY <2>3, <3>2, <3>4, <4>1
      <4>7. QED BY <4>5, <4>6
    <3>5. QED BY <3>3, <3>4
  <2>5. SeenIsHandled'
    <3>1. \A v \in seen' : v = u \/ v \in seen
      BY <1>4 DEF Accept
    <3>2. seen \subseteq Updates
      BY DEF WebhookInv, DedupeInv, DedupeTypeOK
    <3>3. QED BY <1>2, <2>3, <3>1, <3>2 DEF WebhookInv, SeenIsHandled
  <2>6. AckedMeansAnswered'
    BY <1>2, <2>2, <2>3 DEF WebhookInv, AckedMeansAnswered
  <2>7. Posts'
    <3>1. \A s \in Tasks : task[s].update = u => task[s].waited = "no"
      BY <1>1, <1>3 DEF WebhookInv, WebhookShape, Posts
    <3>2. \A s \in Tasks : task[s].update \in Updates \cup {0} /\ task[s].waited \in {"yes", "no"}
      BY <1>3 DEF WebhookShape
    <3>3. \A s \in Tasks : task'[s].update = 0 => task'[s].waited = "no"
      BY <1>1, <2>2 DEF WebhookInv, Posts
    <3>4. \A s \in Tasks : task'[s].update # 0 =>
             /\ queue'[task'[s].update] # "none"
             /\ task'[s].waited = "yes" => queue'[task'[s].update] = "sent"
             /\ task'[s].waited = "no" => task'[s].update \in timedOut'
      BY <1>2, <2>2, <3>1, <3>2 DEF WebhookInv, Posts
    <3>5. \A r, s \in Tasks :
             task'[r].waited = "yes" /\ task'[s].waited = "yes"
               /\ task'[r].update = task'[s].update => r = s
      BY <1>1, <2>2, <3>1 DEF WebhookInv, Posts
    <3>6. QED BY <3>3, <3>4, <3>5 DEF Posts
  <2>8. QED
    BY <1>1, <1>3, <1>4, <2>1, <2>2, <2>4, <2>5, <2>6, <2>7 DEF WebhookInv, WebhookShape
<1>5. CASE /\ Duplicate(u)
           /\ queue' = [queue EXCEPT ![u] = Answered(DuplicateStatus)]
           /\ UNCHANGED task
  <2>1. DedupeInv' /\ seen' = seen /\ latest' = latest /\ u \in seen
    BY <1>5, DedupeKept DEF WebhookInv, Duplicate
  <2>2. /\ WebhookShape' /\ task' = task
        /\ \A v \in Updates : queue'[v] = IF v = u THEN "acked" ELSE queue[v]
    BY <1>2, <1>3, <1>5 DEF WebhookShape, Answered, DuplicateStatus
  <2>3. \A v : Handling(v)' = Handling(v)
    BY <2>2 DEF Handling
  <2>4. HandlersSpaced'
    BY <2>1, <2>3, StillSpaced DEF WebhookInv
  <2>5. SeenIsHandled'
    BY <1>2, <2>1, <2>3 DEF WebhookInv, SeenIsHandled
  <2>6. AckedMeansAnswered'
    BY <1>2, <2>1, <2>2, <2>3 DEF WebhookInv, AckedMeansAnswered, SeenIsHandled
  <2>7. Posts'
    <3>1. \A s \in Tasks : task[s].update = u => task[s].waited = "no"
      BY <1>1, <1>3 DEF WebhookInv, WebhookShape, Posts
    <3>2. \A s \in Tasks : task[s].update \in Updates \cup {0} /\ task[s].waited \in {"yes", "no"}
      BY <1>3 DEF WebhookShape
    <3>3. QED BY <1>2, <2>2, <3>1, <3>2 DEF WebhookInv, Posts
  <2>8. QED BY <1>1, <2>1, <2>2, <2>4, <2>5, <2>6, <2>7 DEF WebhookInv
<1>6. CASE /\ queue' = [queue EXCEPT ![u] = "rejected"]
           /\ UNCHANGED <<dedupe, task>>
  <2>1. DedupeInv' /\ seen' = seen /\ latest' = latest
    BY <1>6, DedupeKept DEF WebhookInv
  <2>2. /\ WebhookShape' /\ task' = task
        /\ \A v \in Updates : queue'[v] = IF v = u THEN "rejected" ELSE queue[v]
    BY <1>2, <1>3, <1>6 DEF WebhookShape
  <2>3. \A v : Handling(v)' = Handling(v)
    BY <2>2 DEF Handling
  <2>4. HandlersSpaced'
    BY <2>1, <2>3, StillSpaced DEF WebhookInv
  <2>5. SeenIsHandled' /\ AckedMeansAnswered'
    BY <1>2, <2>1, <2>2, <2>3 DEF WebhookInv, SeenIsHandled, AckedMeansAnswered
  <2>6. Posts'
    <3>1. \A s \in Tasks : task[s].update = u => task[s].waited = "no"
      BY <1>1, <1>3 DEF WebhookInv, WebhookShape, Posts
    <3>2. \A s \in Tasks : task[s].update \in Updates \cup {0} /\ task[s].waited \in {"yes", "no"}
      BY <1>3 DEF WebhookShape
    <3>3. QED BY <1>2, <2>2, <3>1, <3>2 DEF WebhookInv, Posts
  <2>7. QED BY <1>1, <2>1, <2>2, <2>4, <2>5, <2>6 DEF WebhookInv
<1>7. QED BY <1>4, <1>5, <1>6 DEF Feed

\* A request that is over leaves its update among those answered, or among those whose
\* handler raised.
LEMMA EndKeeps ==
    ASSUME WebhookInv, NEW t \in Tasks, NEW result, task[t] # Idle, result # "gap",
           HandlerEnds(t, result)
    PROVE  WebhookInv' /\ task' = [task EXCEPT ![t] = Idle]
<1>1. DedupeInv' /\ seen' = seen /\ latest' = latest
  BY DedupeKept DEF WebhookInv, HandlerEnds
<1>2. PICK v : v = task[t].update
  OBVIOUS
<1>3. v \in Updates /\ v # 0
  <2>1. task[t] \in [update : Updates \cup {0}, waited : {"yes", "no"}]
    BY DEF WebhookInv, WebhookShape
  <2>2. task[t].update # 0
    BY <2>1 DEF WebhookInv, Posts, Idle
  <2>3. QED BY <1>2, <2>1, <2>2
<1>4. PICK status \in {"acked", "refused"} :
        queue' = IF task[t].waited = "no" THEN queue ELSE [queue EXCEPT ![v] = status]
  <2>1. PICK status : status = Answered(IF result = "raised" THEN 500 ELSE 200)
    OBVIOUS
  <2>2. status \in {"acked", "refused"}
    BY <2>1 DEF Answered
  <2>3. queue' = IF task[t].waited = "no" THEN queue ELSE [queue EXCEPT ![v] = status]
    BY <1>2, <2>1 DEF HandlerEnds
  <2>4. QED BY <2>2, <2>3
<1>5. /\ task' = [task EXCEPT ![t] = Idle]
      /\ answered \subseteq answered' /\ raised \subseteq raised' /\ v \in answered' \cup raised'
      /\ timedOut' = timedOut /\ restarts' = restarts
  BY <1>2 DEF HandlerEnds
<1>6. WebhookShape'
  BY <1>3, <1>4, <1>5 DEF WebhookInv, WebhookShape, Idle
<1>7. /\ \A u \in Updates : queue'[u] = IF task[t].waited # "no" /\ u = v THEN status ELSE queue[u]
      /\ \A s \in Tasks : /\ task'[s].update = IF s = t THEN 0 ELSE task[s].update
                          /\ task'[s].waited = IF s = t THEN "no" ELSE task[s].waited
  BY <1>3, <1>4, <1>5 DEF WebhookInv, WebhookShape, Idle
<1>8. \A u \in Updates : Handling(u)' = Handling(u) \ {t} /\ (u # v => Handling(u)' = Handling(u))
  BY <1>2, <1>7, UpdatesAssumption DEF Handling
<1>9. HandlersSpaced'
  BY <1>1, <1>8, StillSpaced DEF WebhookInv
<1>10. SeenIsHandled'
  <2>1. seen \subseteq Updates
    BY DEF WebhookInv, DedupeInv, DedupeTypeOK
  <2>2. QED BY <1>1, <1>5, <1>8, <2>1 DEF WebhookInv, SeenIsHandled
<1>11. AckedMeansAnswered'
  BY <1>5, <1>7, <1>8 DEF WebhookInv, AckedMeansAnswered
<1>12. Posts'
  <2>1. \A s \in Tasks : task[s].update \in Updates \cup {0} /\ task[s].waited \in {"yes", "no"}
    BY DEF WebhookInv, WebhookShape
  <2>2. \A s \in Tasks :
           s # t /\ task[t].waited # "no" /\ task[s].update = v => task[s].waited = "no"
    BY <1>2, <2>1 DEF WebhookInv, Posts
  <2>3. \A s \in Tasks : task'[s].update # 0 =>
           /\ queue'[task'[s].update] # "none"
           /\ task'[s].waited = "yes" => queue'[task'[s].update] = "sent"
           /\ task'[s].waited = "no" => task'[s].update \in timedOut'
    BY <1>5, <1>7, <2>1, <2>2 DEF WebhookInv, Posts
  <2>4. /\ \A s \in Tasks : task'[s].update = 0 => task'[s].waited = "no"
        /\ \A r, s \in Tasks :
             task'[r].waited = "yes" /\ task'[s].waited = "yes"
               /\ task'[r].update = task'[s].update => r = s
    BY <1>7 DEF WebhookInv, Posts
  <2>5. QED BY <2>3, <2>4 DEF Posts
<1>13. QED BY <1>1, <1>5, <1>6, <1>9, <1>10, <1>11, <1>12 DEF WebhookInv

\* The process dies: of an update that was acknowledged while a request for it was
\* still under way, the answer had been given up before.
LEMMA RestartKeeps ==
    ASSUME WebhookInv, Restart
    PROVE  WebhookInv'
<1>1. /\ answered' = answered /\ raised' = raised
      /\ timedOut' = timedOut /\ restarts' = restarts + 1
      /\ task' = [t \in Tasks |-> Idle]
      /\ queue' = [u \in Updates |-> IF queue[u] = "sent" THEN "queued" ELSE queue[u]]
      /\ seen' = {} /\ ring' = [i \in 0 .. N - 1 |-> 0] /\ next' = 0 /\ accepted' = 0
      /\ latest' = [u \in Updates |-> 0]
  BY DEF Restart, FreshDedupe
<1>2. DedupeInv'
  <2>1. DedupeTypeOK'
    BY <1>1, RingAssumption DEF DedupeTypeOK, Slots
  <2>2. RingInv'
    BY <1>1 DEF RingInv, Slots
  <2>3. SeenInv'
    BY <1>1, UpdatesAssumption DEF SeenInv, AmongLastN, Slots
  <2>4. QED BY <2>1, <2>2, <2>3 DEF DedupeInv
<1>3. WebhookShape'
  BY <1>1 DEF WebhookInv, WebhookShape, Idle
<1>4. \A t \in Tasks : task'[t].update = 0 /\ task'[t].waited = "no"
  BY <1>1 DEF Idle
<1>5. Posts'
  BY <1>4 DEF Posts
<1>6. SeenIsHandled'
  BY <1>1 DEF SeenIsHandled
<1>7. \A u \in Updates : Handling(u)' = {}
  BY <1>4, UpdatesAssumption DEF Handling
<1>8. HandlersSpaced'
  BY <1>1, <1>7, NoneSpaced DEF HandlersSpaced
<1>9. AckedMeansAnswered'
  <2>1. SUFFICES ASSUME NEW u \in Updates, queue'[u] = "acked"
                 PROVE  \/ u \in answered' \/ u \in raised'
                        \/ u \in timedOut' /\ restarts' > 0
    BY DEF AckedMeansAnswered
  <2>2. queue[u] = "acked"
    BY <1>1, <2>1
  <2>3. restarts' > 0
    BY <1>1 DEF WebhookInv, WebhookShape
  <2>4. CASE Handling(u) # {}
    <3>1. PICK t \in Tasks : task[t].update = u
      BY <2>4 DEF Handling
    <3>2. task[t].waited \in {"yes", "no"} /\ u # 0
      BY UpdatesAssumption DEF WebhookInv, WebhookShape
    <3>3. u \in timedOut
      BY <2>2, <3>1, <3>2 DEF WebhookInv, Posts
    <3>4. QED BY <1>1, <2>3, <3>3
  <2>5. CASE Handling(u) = {}
    BY <1>1, <2>2, <2>3, <2>5 DEF WebhookInv, AckedMeansAnswered
  <2>6. QED BY <2>4, <2>5
<1>10. QED BY <1>2, <1>3, <1>5, <1>6, <1>8, <1>9 DEF WebhookInv

-----------------------------------------------------------------------------
(* The chat, step by step.                                                 *)

\* What a handler's step may leave: the delivery as it was, or the handler over; its
\* turn one that goes on with a chunk never delivered twice and none left out.
LEMMA ChatKeeps ==
    ASSUME BotInv, NEW t \in Tasks, task[t].update # 0, NEW u \in TurnType,
           u.twice = "no", u.gap = "no",
           u.step = "run" => task[t].update \in Presses /\ press[task[t].update].label = "yes",
           turn' = [turn EXCEPT ![t] = u],
           task' = task \/ (task' = [task EXCEPT ![t] = Idle] /\ u.step = "begin"),
           press' = press, asked' \in Nat, asked <= asked',
           open' \subseteq 1 .. asked', picked' \subseteq 1 .. asked', open' \cap picked' = {}
    PROVE  ChatInv'
<1>1. ChatShape'
  BY DEF BotInv, ChatInv, ChatShape
<1>2. \A s \in Tasks : /\ turn'[s] = IF s = t THEN u ELSE turn[s]
                       /\ s # t => task'[s] = task[s]
                       /\ task'[s].update \in {task[s].update, 0}
  <2>1. turn \in [Tasks -> TurnType]
        /\ task \in [Tasks -> [update : Updates \cup {0}, waited : {"yes", "no"}]]
    BY DEF BotInv, ChatInv, ChatShape, WebhookInv, WebhookShape
  <2>2. Idle.update = 0
    BY DEF Idle
  <2>3. CASE task' = task
    BY <2>1, <2>3
  <2>4. CASE task' = [task EXCEPT ![t] = Idle]
    BY <2>1, <2>2, <2>4
  <2>5. QED BY <2>3, <2>4
<1>3. TurnsInv'
  <2>1. ASSUME NEW s \in Tasks, task'[s].update = 0 PROVE turn'[s].step = "begin"
    <3>1. CASE s = t
      BY <1>2, <2>1, <3>1
    <3>2. CASE s # t
      BY <1>2, <2>1, <3>2 DEF BotInv, ChatInv, TurnsInv
    <3>3. QED BY <3>1, <3>2
  <2>2. \A s \in Tasks : turn'[s].gap = "no"
    BY <1>2 DEF BotInv, ChatInv, TurnsInv
  <2>3. QED BY <2>1, <2>2 DEF TurnsInv
<1>4. PressInv'
  <2>1. ASSUME NEW v \in Presses, press[v].label = "yes"
        PROVE  press[v].late = "no" /\ press[v].question \in 1 .. asked'
    <3>1. press[v].late = "no" /\ press[v].question \in 1 .. asked
      BY <2>1 DEF BotInv, ChatInv, PressInv
    <3>2. asked \in Nat
      BY DEF BotInv, ChatInv, ChatShape
    <3>3. QED BY <3>1, <3>2
  <2>2. ASSUME NEW s \in Tasks, task'[s].update # 0, turn'[s].step = "run"
        PROVE  task'[s].update \in Presses /\ press[task'[s].update].label = "yes"
    <3>1. task'[s].update = task[s].update
      BY <1>2, <2>2
    <3>2. CASE s = t
      BY <1>2, <2>2, <3>1, <3>2
    <3>3. CASE s # t
      BY <1>2, <2>2, <3>1, <3>3 DEF BotInv, ChatInv, PressInv
    <3>4. QED BY <3>2, <3>3
  <2>3. QED BY <2>1, <2>2 DEF PressInv
<1>5. DeliveredOnce'
  BY <1>2 DEF BotInv, ChatInv, DeliveredOnce
<1>6. QED BY <1>1, <1>3, <1>4, <1>5 DEF ChatInv

LEMMA BegunIsTurn ==
    Begun \in TurnType /\ Begun.step = "begin" /\ Begun.twice = "no" /\ Begun.gap = "no"
BY DEF Begun, TurnType

\* A handler that ends with no chunk delivered twice.
LEMMA EndWithKeeps ==
    ASSUME BotInv, NEW t \in Tasks, task[t] # Idle, NEW result, result # "gap",
           EndWith(t, result, "no"), press' = press,
           asked' \in Nat, asked <= asked', open' \subseteq 1 .. asked',
           picked' \subseteq 1 .. asked', open' \cap picked' = {}
    PROVE  BotInv'
<1>1. WebhookInv' /\ task' = [task EXCEPT ![t] = Idle]
  BY EndKeeps DEF EndWith, BotInv
<1>2. task[t].update # 0
  <2>1. task[t] \in [update : Updates \cup {0}, waited : {"yes", "no"}]
    BY DEF BotInv, WebhookInv, WebhookShape
  <2>2. QED BY <2>1 DEF BotInv, WebhookInv, Posts, Idle
<1>3. [Begun EXCEPT !.twice = "no"] = Begun
  BY DEF Begun
<1>4. turn' = [turn EXCEPT ![t] = Begun]
  BY <1>3 DEF EndWith
<1>5. ChatInv'
  BY <1>1, <1>2, <1>4, BegunIsTurn, ChatKeeps
<1>6. QED BY <1>1, <1>5 DEF BotInv

\* A handler that goes on.
LEMMA GoesOn ==
    ASSUME BotInv, NEW t \in Tasks, task[t] # Idle, NEW u \in TurnType,
           u.twice = "no", u.gap = "no",
           u.step = "run" => task[t].update \in Presses /\ press[task[t].update].label = "yes",
           turn' = [turn EXCEPT ![t] = u], UNCHANGED webhook, press' = press,
           asked' \in Nat, asked <= asked', open' \subseteq 1 .. asked',
           picked' \subseteq 1 .. asked', open' \cap picked' = {}
    PROVE  BotInv'
<1>1. WebhookInv'
  BY WebhookKept DEF BotInv
<1>2. task[t].update # 0 /\ task' = task
  <2>1. task[t] \in [update : Updates \cup {0}, waited : {"yes", "no"}]
    BY DEF BotInv, WebhookInv, WebhookShape
  <2>2. QED BY <2>1 DEF BotInv, WebhookInv, Posts, Idle, webhook
<1>3. ChatInv'
  BY <1>2, ChatKeeps
<1>4. QED BY <1>1, <1>3 DEF BotInv

LEMMA ChatFacts ==
    ASSUME BotInv
    PROVE  /\ asked \in Nat /\ open \subseteq 1 .. asked /\ picked \subseteq 1 .. asked
           /\ open \cap picked = {}
           /\ turn \in [Tasks -> TurnType]
           /\ \A t \in Tasks : turn[t].gap = "no" /\ turn[t].twice = "no"
           /\ \A u \in Presses : press[u].label = "yes" => press[u].question \in 1 .. asked
BY DEF BotInv, ChatInv, ChatShape, TurnsInv, PressInv, DeliveredOnce

LEMMA GoToMeans ==
    ASSUME NEW t, NEW step, GoTo(t, step)
    PROVE  turn' = [turn EXCEPT ![t] = [turn[t] EXCEPT !.step = step]] /\ UNCHANGED webhook
<1>1. UNCHANGED webhook
  BY ZenonT(20) DEF GoTo
<1>2. turn' = [turn EXCEPT ![t] = [@ EXCEPT !.step = step]]
  BY ZenonT(20) DEF GoTo
<1>3. QED BY <1>1, <1>2

LEMMA PickKeeps ==
    ASSUME BotInv, NEW t \in Tasks, Pick(t)
    PROVE  BotInv'
<1>1. PICK v : v = task[t].update
  OBVIOUS
<1>2. /\ task[t] # Idle /\ v \in Presses /\ press[v].label = "yes"
      /\ press' = press /\ asked' = asked
  BY <1>1 DEF Pick, At
<1>3. PICK q \in 1 .. asked : q = press[v].question
  BY <1>2, ChatFacts
<1>4. /\ asked' \in Nat /\ asked <= asked'
      /\ open \subseteq 1 .. asked' /\ picked \subseteq 1 .. asked' /\ open \cap picked = {}
  BY <1>2, ChatFacts
<1>5. CASE /\ GoTo(t, "run")
           /\ \/ open' = open \ {q} /\ picked' = picked \cup {q}
              \/ UNCHANGED <<open, picked>>
  <2>1. PICK u \in TurnType : u = [turn[t] EXCEPT !.step = "run"]
    BY ChatFacts DEF TurnType
  <2>2. u.twice = "no" /\ u.gap = "no"
    BY <2>1, ChatFacts DEF TurnType
  <2>3. GoTo(t, "run")
    BY <1>5
  <2>4. turn' = [turn EXCEPT ![t] = [turn[t] EXCEPT !.step = "run"]] /\ UNCHANGED webhook
    BY <2>3, GoToMeans, Zenon
  <2>5. turn' = [turn EXCEPT ![t] = u]
    BY <2>1, <2>4
  <2>6. open' \subseteq 1 .. asked' /\ picked' \subseteq 1 .. asked' /\ open' \cap picked' = {}
    BY <1>2, <1>3, <1>4, <1>5
  <2>7. QED BY <1>1, <1>2, <1>4, <2>2, <2>4, <2>5, <2>6, GoesOn
<1>6. CASE Raise(t) /\ open' \in {open, open \ {q}} /\ UNCHANGED picked
  <2>1. open' \subseteq 1 .. asked' /\ picked' \subseteq 1 .. asked' /\ open' \cap picked' = {}
    BY <1>4, <1>6
  <2>2. EndWith(t, "raised", "no")
    BY <1>6 DEF Raise, End
  <2>3. QED BY <1>2, <1>4, <2>1, <2>2, EndWithKeeps
<1>7. QED BY <1>1, <1>3, <1>5, <1>6 DEF Pick, Marked, EditOutcomes

LEMMA NoLabelKeeps ==
    ASSUME BotInv, NEW t \in Tasks, NoLabel(t)
    PROVE  BotInv'
<1>1. PICK q : q = press[task[t].update].question
  OBVIOUS
<1>2. /\ task[t] # Idle /\ press' = press /\ asked' = asked /\ picked' = picked
      /\ open' \in {open, open \ {q}}
  BY <1>1 DEF NoLabel, At, EditOutcomes
<1>3. /\ asked' \in Nat /\ asked <= asked' /\ open' \subseteq 1 .. asked'
      /\ picked' \subseteq 1 .. asked' /\ open' \cap picked' = {}
  BY <1>2, ChatFacts
<1>4. EndWith(t, "nothing", "no") \/ EndWith(t, "raised", "no")
  BY DEF NoLabel, End, Raise
<1>5. QED BY <1>2, <1>3, <1>4, EndWithKeeps

LEMMA RunKeeps ==
    ASSUME BotInv, NEW t \in Tasks, Run(t)
    PROVE  BotInv'
<1>1. task[t] # Idle /\ press' = press
  BY DEF Run, Asks, At, chat
<1>2. /\ asked' \in Nat /\ asked <= asked' /\ open' \subseteq 1 .. asked'
      /\ picked' \subseteq 1 .. asked' /\ open' \cap picked' = {}
  <2>1. asked' = asked /\ open' = open /\ picked' = picked
    BY DEF Run, chat
  <2>2. QED BY <2>1, ChatFacts
<1>3. ASSUME NEW n \in 1 .. MaxChunks, NEW asks \in {"yes", "no"}, UNCHANGED webhook,
             turn' = [turn EXCEPT ![t] = [Begun EXCEPT !.step = "send", !.left = n, !.asks = asks]]
      PROVE  BotInv'
  <2>1. PICK u : u = [Begun EXCEPT !.step = "send", !.left = n, !.asks = asks]
    OBVIOUS
  <2>2. u \in TurnType /\ u.step = "send" /\ u.twice = "no" /\ u.gap = "no"
    <3>1. u = [step |-> "send", left |-> n, asks |-> asks, twice |-> "no", gap |-> "no"]
      BY <2>1 DEF Begun
    <3>2. n \in Int
      OBVIOUS
    <3>3. QED BY <3>1, <3>2 DEF TurnType
  <2>3. turn' = [turn EXCEPT ![t] = u]
    BY <1>3, <2>1
  <2>4. QED BY <1>1, <1>2, <1>3, <2>2, <2>3, GoesOn
<1>4. CASE EndWith(t, "nothing", "no") \/ EndWith(t, "notice", "no") \/ EndWith(t, "raised", "no")
  BY <1>1, <1>2, <1>4, EndWithKeeps
<1>5. QED BY <1>3, <1>4 DEF Run, End, Raise

\* A chunk is sent again only when it was refused: of the two sends one is taken at
\* most, and none only if both were refused or the last one failed.
LEMMA TwoSends ==
    ASSUME NEW t \in Tasks, NEW markdown \in Replies(t), NEW raw \in Replies(t)
    PROVE  LET copies == Copies(markdown) + (IF Resent(markdown) THEN Copies(raw) ELSE 0)
               fails == (IF Resent(markdown) THEN raw ELSE markdown) \in {"lost", "late"}
           IN  /\ copies \in {0, 1}
               /\ copies = 0 /\ ~ fails => "ok" \notin {markdown, raw}
<1>1. markdown \in {"ok", "refused", "lost", "late"} /\ raw \in {"ok", "refused", "lost", "late"}
  BY DEF Replies
<1>2. CASE markdown = "refused"
  BY <1>1, <1>2 DEF Copies, Resent
<1>3. CASE markdown # "refused"
  BY <1>1, <1>3 DEF Copies, Resent
<1>4. QED BY <1>2, <1>3

LEMMA SendKeeps ==
    ASSUME BotInv, NEW t \in Tasks, Send(t)
    PROVE  BotInv'
<1>1. task[t] # Idle /\ press' = press /\ picked' = picked /\ turn[t].step = "send"
  BY DEF Send, At
<1>2. turn[t] \in TurnType /\ turn[t].twice = "no" /\ turn[t].gap = "no"
  BY ChatFacts
<1>3. PICK now \in TurnType :
        /\ now.step = "send" /\ now.twice = "no" /\ now.gap = "no"
        /\ \/ asked' = asked + 1 /\ open' = open \cup {asked + 1}
           \/ UNCHANGED <<asked, open>>
        /\ \/ EndWith(t, "raised", now.twice)
           \/ EndWith(t, IF now.gap = "yes" THEN "gap" ELSE "told", now.twice)
           \/ turn' = [turn EXCEPT ![t] = now] /\ UNCHANGED webhook
  <2>1. PICK markdown \in Replies(t), raw \in Replies(t) :
         LET copies == Copies(markdown) + (IF Resent(markdown) THEN Copies(raw) ELSE 0)
             fails == (IF Resent(markdown) THEN raw ELSE markdown) \in {"lost", "late"}
             gap == copies = 0 /\ ~ fails /\ "ok" \in {markdown, raw}
             now == [turn[t] EXCEPT !.left = @ - 1, !.twice = IF copies > 1 THEN "yes" ELSE @,
                                    !.gap = IF gap THEN "yes" ELSE @]
         IN  /\ IF now.asks = "yes" /\ now.left = 0 /\ copies > 0
                THEN asked' = asked + 1 /\ open' = open \cup {asked + 1}
                ELSE UNCHANGED <<asked, open>>
             /\ \/ fails /\ EndWith(t, "raised", now.twice)
                \/ /\ ~ fails /\ now.left = 0
                   /\ EndWith(t, IF now.gap = "yes" THEN "gap" ELSE "told", now.twice)
                \/ /\ ~ fails /\ now.left > 0
                   /\ turn' = [turn EXCEPT ![t] = now] /\ UNCHANGED webhook
    BY DEF Send
  <2> DEFINE copies == Copies(markdown) + (IF Resent(markdown) THEN Copies(raw) ELSE 0)
             fails == (IF Resent(markdown) THEN raw ELSE markdown) \in {"lost", "late"}
             gap == copies = 0 /\ ~ fails /\ "ok" \in {markdown, raw}
             sent == [turn[t] EXCEPT !.left = @ - 1, !.twice = IF copies > 1 THEN "yes" ELSE @,
                                     !.gap = IF gap THEN "yes" ELSE @]
  <2>2. copies \in {0, 1} /\ ~ gap
    BY TwoSends
  <2>3. /\ IF sent.asks = "yes" /\ sent.left = 0 /\ copies > 0
            THEN asked' = asked + 1 /\ open' = open \cup {asked + 1}
            ELSE UNCHANGED <<asked, open>>
        /\ \/ fails /\ EndWith(t, "raised", sent.twice)
           \/ /\ ~ fails /\ sent.left = 0
              /\ EndWith(t, IF sent.gap = "yes" THEN "gap" ELSE "told", sent.twice)
           \/ /\ ~ fails /\ sent.left > 0
              /\ turn' = [turn EXCEPT ![t] = sent] /\ UNCHANGED webhook
    BY <2>1
  <2> HIDE DEF copies, fails, gap
  <2>4. /\ sent \in TurnType /\ sent.step = "send" /\ sent.twice = "no" /\ sent.gap = "no"
    <3>1. ~ (copies > 1)
      BY <2>2
    <3>2. sent = [turn[t] EXCEPT !.left = turn[t].left - 1, !.twice = turn[t].twice,
                                 !.gap = turn[t].gap]
      BY <2>2, <3>1
    <3>3. turn[t].left - 1 \in Int
      BY <1>2 DEF TurnType
    <3>4. QED BY <1>1, <1>2, <3>2, <3>3 DEF TurnType
  <2> HIDE DEF sent
  <2>5. QED BY <2>3, <2>4
<1>4. /\ asked' \in Nat /\ asked <= asked' /\ open' \subseteq 1 .. asked'
      /\ picked' \subseteq 1 .. asked' /\ open' \cap picked' = {}
  BY <1>1, <1>3, ChatFacts
<1>5. CASE EndWith(t, "raised", "no") \/ EndWith(t, "told", "no")
  BY <1>1, <1>4, <1>5, EndWithKeeps
<1>6. CASE turn' = [turn EXCEPT ![t] = now] /\ UNCHANGED webhook
  BY <1>1, <1>3, <1>4, <1>6, GoesOn
<1>7. QED BY <1>3, <1>5, <1>6

\* The steps outside the handlers leave the turns alone, and the requests that remain.
LEMMA TurnsKept ==
    ASSUME BotInv, WebhookInv', UNCHANGED <<turn, asked, open, picked>>,
           press' \in [Presses -> [question : Nat, label : {"yes", "no"}, late : {"yes", "no"}]],
           \A u \in Presses : press'[u].label = "yes" =>
             press'[u].late = "no" /\ press'[u].question \in 1 .. asked,
           \A t \in Tasks :
             \/ /\ task'[t].update = task[t].update
                /\ \/ press' = press
                   \/ task[t].update \in Presses => press'[task[t].update] = press[task[t].update]
             \/ turn[t].step = "begin" /\ task'[t].update # 0
    PROVE  BotInv'
<1>1. ChatShape'
  BY DEF BotInv, ChatInv, ChatShape
<1>2. TurnsInv'
  BY DEF BotInv, ChatInv, TurnsInv
<1>3. PressInv'
  BY DEF BotInv, ChatInv, PressInv
<1>4. DeliveredOnce'
  BY DEF BotInv, ChatInv, DeliveredOnce
<1>5. QED BY <1>1, <1>2, <1>3, <1>4 DEF BotInv, ChatInv

LEMMA WriteKeeps ==
    ASSUME BotInv, NEW u, Write(u)
    PROVE  BotInv'
<1>1. u \in Updates
  BY UpdateKinds DEF Write
<1>2. WebhookInv' /\ task' = task
  BY <1>1, ArriveKeeps DEF BotInv, Write, Arrive
<1>3. UNCHANGED <<turn, asked, open, picked>> /\ press' = press
  BY DEF Write, chat
<1>4. QED
  BY <1>2, <1>3, TurnsKept DEF BotInv, ChatInv, ChatShape, PressInv

LEMMA PressKeeps ==
    ASSUME BotInv, NEW u \in Presses, Press(u)
    PROVE  BotInv'
<1>1. u \in Updates
  BY UpdateKinds
<1>2. WebhookInv' /\ task' = task /\ \A t \in Tasks : task[t].update # u
  BY <1>1, ArriveKeeps DEF BotInv, Press, Arrive
<1>3. UNCHANGED <<turn, asked, open, picked>>
  BY DEF Press
<1>4. PICK q \in 1 .. asked, label \in {"yes", "no"}, late \in {"yes", "no"} :
        /\ label = "yes" => q \in open
        /\ late = "yes" => q \in picked
        /\ press' = [press EXCEPT ![u] = [question |-> q, label |-> label, late |-> late]]
  <2>1. PICK q \in 1 .. asked, label \in {"yes", "no"} :
          /\ label = "yes" => q \in open
          /\ press' = [press EXCEPT ![u] =
                        [question |-> q, label |-> label,
                         late |-> IF q \in picked THEN "yes" ELSE "no"]]
    BY DEF Press
  <2>2. CASE q \in picked
    BY <2>1, <2>2
  <2>3. CASE q \notin picked
    BY <2>1, <2>3
  <2>4. QED BY <2>2, <2>3
<1>5. label = "yes" => late = "no"
  BY <1>4, ChatFacts
<1>6. q \in Nat
  BY <1>4, ChatFacts
<1>7. press' \in [Presses -> [question : Nat, label : {"yes", "no"}, late : {"yes", "no"}]]
  BY <1>4, <1>6 DEF BotInv, ChatInv, ChatShape
<1>8. \A v \in Presses :
        press'[v] = IF v = u THEN [question |-> q, label |-> label, late |-> late] ELSE press[v]
  BY <1>4 DEF BotInv, ChatInv, ChatShape
<1>9. \A v \in Presses : press'[v].label = "yes" =>
        press'[v].late = "no" /\ press'[v].question \in 1 .. asked
  BY <1>4, <1>5, <1>8 DEF BotInv, ChatInv, PressInv
<1>10. QED BY <1>2, <1>3, <1>7, <1>8, <1>9, TurnsKept

LEMMA DropKeeps ==
    ASSUME BotInv, NEW t \in Tasks, Drop(t)
    PROVE  BotInv'
<1>1. WebhookInv' /\ \A s \in Tasks : task'[s].update = task[s].update
  BY TimeoutKeeps DEF BotInv, Drop
<1>2. UNCHANGED <<turn, asked, open, picked>> /\ press' = press
  BY DEF Drop, chat
<1>3. QED
  BY <1>1, <1>2, TurnsKept DEF BotInv, ChatInv, ChatShape, PressInv

LEMMA DeliverKeeps ==
    ASSUME BotInv, NEW t \in Tasks, NEW u \in Updates, Deliver(t, u)
    PROVE  BotInv'
<1>1. /\ WebhookInv' /\ task[t].update = 0
      /\ \A s \in Tasks \ {t} : task'[s] = task[s]
  BY FeedKeeps DEF BotInv, Deliver
<1>2. UNCHANGED <<turn, asked, open, picked>> /\ press' = press
  BY DEF Deliver, chat
<1>3. turn[t].step = "begin"
  BY <1>1 DEF BotInv, ChatInv, TurnsInv
<1>4. \A s \in Tasks : \/ task'[s].update = task[s].update
                       \/ turn[s].step = "begin" /\ task'[s].update # 0
  BY <1>1, <1>3
<1>5. QED
  BY <1>1, <1>2, <1>4, TurnsKept DEF BotInv, ChatInv, ChatShape, PressInv

LEMMA DieKeeps ==
    ASSUME BotInv, Die
    PROVE  BotInv'
<1>1. WebhookInv' /\ \A t \in Tasks : task'[t].update = 0
  <2>1. \A t \in Tasks : task'[t].update = 0
    BY DEF Die, Restart, Idle
  <2>2. QED BY <2>1, RestartKeeps DEF BotInv, Die
<1>2. /\ turn' = [t \in Tasks |-> Begun]
      /\ press' = press /\ asked' = asked /\ open' = open /\ picked' = picked
  BY DEF Die, chat
<1>3. ChatShape'
  BY <1>2, BegunIsTurn DEF BotInv, ChatInv, ChatShape
<1>4. TurnsInv' /\ DeliveredOnce'
  BY <1>2, BegunIsTurn DEF TurnsInv, DeliveredOnce
<1>5. PressInv'
  BY <1>1, <1>2 DEF BotInv, ChatInv, PressInv
<1>6. QED BY <1>1, <1>3, <1>4, <1>5 DEF BotInv, ChatInv

-----------------------------------------------------------------------------
(* The theorems.                                                           *)

LEMMA InitBotInv == Init => BotInv
<1>1. SUFFICES ASSUME Init PROVE BotInv
  OBVIOUS
<1>2. /\ seen = {} /\ ring = [i \in 0 .. N - 1 |-> 0] /\ next = 0 /\ accepted = 0
      /\ latest = [u \in Updates |-> 0]
      /\ queue = [u \in Updates |-> "none"] /\ task = [t \in Tasks |-> Idle] /\ restarts = 0
  BY <1>1 DEF Init, WebhookInit, DedupeInit, Slots
<1>3. DedupeInv
  BY <1>1, InitDedupeInv DEF Init, WebhookInit
<1>4. WebhookShape
  BY <1>2 DEF WebhookShape, Idle
<1>5. \A t \in Tasks : task[t].update = 0 /\ task[t].waited = "no"
  BY <1>2 DEF Idle
<1>6. Posts /\ SeenIsHandled /\ AckedMeansAnswered
  BY <1>2, <1>5 DEF Posts, SeenIsHandled, AckedMeansAnswered
<1>7. \A u \in Updates : Handling(u) = {}
  BY <1>5, UpdatesAssumption DEF Handling
<1>8. HandlersSpaced
  BY <1>2, <1>7, NoneSpaced DEF HandlersSpaced
<1>9. /\ turn = [t \in Tasks |-> Begun] /\ press = [u \in Presses |-> NoPress]
      /\ asked = 0 /\ open = {} /\ picked = {}
  BY <1>1 DEF Init
<1>10. ChatShape
  BY <1>9, BegunIsTurn DEF ChatShape, NoPress
<1>11. TurnsInv /\ PressInv /\ DeliveredOnce
  BY <1>5, <1>9, BegunIsTurn DEF TurnsInv, PressInv, DeliveredOnce, NoPress
<1>12. QED BY <1>3, <1>4, <1>6, <1>8, <1>10, <1>11 DEF BotInv, WebhookInv, ChatInv

LEMMA NextBotInv == BotInv /\ [Next]_vars => BotInv'
<1>1. SUFFICES ASSUME BotInv, [Next]_vars PROVE BotInv'
  OBVIOUS
<1>2. ASSUME NEW u \in Updates, Write(u) PROVE BotInv'
  BY <1>1, <1>2, WriteKeeps
<1>3. ASSUME NEW u \in Presses, Press(u) PROVE BotInv'
  BY <1>1, <1>3, PressKeeps
<1>4. ASSUME NEW t \in Tasks, Drop(t) PROVE BotInv'
  BY <1>1, <1>4, DropKeeps
<1>5. ASSUME NEW t \in Tasks, Handler(t) PROVE BotInv'
  BY <1>1, <1>5, PickKeeps, NoLabelKeeps, RunKeeps, SendKeeps DEF Handler
<1>6. ASSUME NEW t \in Tasks, NEW u \in Updates, Deliver(t, u) PROVE BotInv'
  BY <1>1, <1>6, DeliverKeeps
<1>7. CASE Die
  BY <1>1, <1>7, DieKeeps
<1>8. CASE UNCHANGED vars
  <2>1. UNCHANGED webhook /\ UNCHANGED <<turn, asked, open, picked>> /\ press' = press
        /\ task' = task
    BY <1>8 DEF vars, chat, webhook
  <2>2. WebhookInv'
    BY <1>1, <2>1, WebhookKept DEF BotInv
  <2>3. QED BY <1>1, <2>1, <2>2, TurnsKept DEF BotInv, ChatInv, ChatShape, PressInv
<1>9. QED BY <1>1, <1>2, <1>3, <1>4, <1>5, <1>6, <1>7, <1>8 DEF Next

\* The books of the delivery and of the chat agree in every state.
THEOREM BotInvariance == Spec => []BotInv
<1>1. QED BY InitBotInv, NextBotInv, PTL DEF Spec

\* An update that Telegram no longer delivers was answered, is being handled, had a handler
\* that raised because a call failed, or was cut short by a restart after its answer timed
\* out: there is no other way to lose an answer (feed_update, telegram_webhook).
THEOREM AckedAnswered == Spec => []AckedMeansAnswered
<1>1. BotInv => AckedMeansAnswered
  BY DEF BotInv, WebhookInv
<1>2. QED BY <1>1, BotInvariance, PTL

\* One handling never delivers a chunk twice (_send_chunks).
THEOREM OnceDelivered == Spec => []DeliveredOnce
<1>1. BotInv => DeliveredOnce
  BY DEF BotInv, ChatInv
<1>2. QED BY <1>1, BotInvariance, PTL

\* A press made after its question was marked runs no turn (_cb_clarify, _mark_answered).
THEOREM StaysAnswered == Spec => []AnsweredStaysAnswered
<1>1. ASSUME BotInv, NEW t \in Tasks, At(t, "run") PROVE press[task[t].update].late = "no"
  <2>1. task[t].update # 0
    <3>1. task[t] \in [update : Updates \cup {0}, waited : {"yes", "no"}]
      BY <1>1 DEF BotInv, WebhookInv, WebhookShape
    <3>2. QED BY <1>1, <3>1 DEF BotInv, WebhookInv, Posts, Idle, At
  <2>2. QED BY <1>1, <2>1 DEF BotInv, ChatInv, PressInv, At
<1>2. BotInv => AnsweredStaysAnswered
  BY <1>1 DEF AnsweredStaysAnswered
<1>3. QED BY <1>2, BotInvariance, PTL

\* However often an update is posted, a second handler starts beside the first only when
\* the ring has turned over in between (feed_update, Dedupe.first_seen).
THEOREM FewHandlers == Spec => []OneHandlerPerTurn
<1>1. ASSUME BotInv, NEW u \in Updates
      PROVE  Cardinality(Handling(u)) <= (accepted + N) \div (N + 1)
  <2>1. latest[u] \in Nat /\ accepted \in Nat /\ latest[u] <= accepted
    BY <1>1 DEF BotInv, WebhookInv, DedupeInv, DedupeTypeOK
  <2>2. Spaced(Handling(u), latest[u])
    BY <1>1 DEF BotInv, WebhookInv, HandlersSpaced
  <2>3. QED BY <2>1, <2>2, SpacedAreFew
<1>2. BotInv => OneHandlerPerTurn
  BY <1>1 DEF OneHandlerPerTurn
<1>3. QED BY <1>2, BotInvariance, PTL

\* Restarts included, the ring of the running process remembers exactly the last N updates
\* it let through (Dedupe).
THEOREM RingRemembers == Spec => []RemembersLastN
<1>1. BotInv => RemembersLastN
  BY RemembersFromInv DEF BotInv, WebhookInv
<1>2. QED BY <1>1, BotInvariance, PTL

=============================================================================
