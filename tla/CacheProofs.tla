---------------------------- MODULE CacheProofs ----------------------------
(***************************************************************************)
(* Proofs about Cache, for every lifetime, every length of a second and    *)
(* every number of calls.                                                  *)
(*                                                                         *)
(* The table holds whole seconds.  The argument keeps away from quotients: *)
(* all it uses of them is WholeBounds and WholeMonotone, and a row's life  *)
(* is bounded by FreshInv in ticks.                                        *)
(***************************************************************************)
EXTENDS Cache, TLAPS

USE TimesAssumption

\* A row is not live beyond the lifetime and the lag of its value.
FreshInv == entry.expires * Second <= entry.value + MaxLag + TTL

\* An answer that waits to be stored is not older than the lag.
LagInv == \A c \in Calls : At(c, "set") => now <= call[c].value + MaxLag

\* While nothing overlapped and the store did not fail: one call fetches at most,
\* and only while there is no live row; a live row is the youngest that was returned;
\* and an answer that is to be stored is not older than that.
CalmInv ==
    calm = "yes" =>
        /\ \A c, d \in Fetching : c = d
        /\ Fetching # {} => ~ Live(entry)
        /\ Live(entry) => entry.value = served.newest
        /\ \A c \in Calls : At(c, "set") => call[c].value >= served.newest

\* While no write failed, a live row is not older than the youngest value that was
\* returned by more than the lag.
LossInv == calm # "lost" /\ Live(entry) => served.newest <= entry.value + MaxLag

\* TypeOK, with the shape of the records.
Shape ==
    /\ entry \in [value : Nat, expires : Nat] /\ put \in [value : Nat, expires : Nat]
    /\ call \in [Calls -> [pc : {"idle", "fetch", "set"}, value : Nat]]
    /\ served \in [value : Nat, at : Nat, newest : Nat]

IInv ==
    /\ TypeOK /\ Shape /\ FreshInv /\ LagInv /\ CalmInv /\ LossInv
    /\ BoundedStaleness /\ JanitorInvisible /\ NoStepBack

-----------------------------------------------------------------------------
(* Whole seconds.                                                          *)

LEMMA WholeBounds ==
    ASSUME NEW t \in Nat
    PROVE  /\ Whole(t) \in Nat
           /\ Whole(t) * Second <= t
           /\ t < Whole(t) * Second + Second
BY DEF Whole

\* A product is monotone in a factor.
LEMMA TimesMonotone ==
    ASSUME NEW a \in Nat, NEW b \in Nat, a <= b
    PROVE  a * Second <= b * Second
OBVIOUS

LEMMA WholeMonotone ==
    ASSUME NEW s \in Nat, NEW t \in Nat, s <= t
    PROVE  Whole(s) <= Whole(t)
<1>1. SUFFICES ASSUME Whole(t) + 1 <= Whole(s) PROVE FALSE
  BY WholeBounds
<1>2. (Whole(t) + 1) * Second <= Whole(s) * Second
  BY <1>1, WholeBounds, TimesMonotone
<1>3. (Whole(t) + 1) * Second = Whole(t) * Second + Second
  BY WholeBounds
<1>4. QED BY <1>2, <1>3, WholeBounds

\* What expires by the end of the lifetime that starts now does not outlive it.
LEMMA RowExpiry ==
    ASSUME IInv, NEW v \in 0 .. now
    PROVE  /\ Row(v) \in [value : Nat, expires : Nat]
           /\ Row(v).value = v /\ Row(v).expires = Whole(now + TTL)
           /\ Row(v).expires * Second <= now + TTL
BY WholeBounds DEF Row, IInv, TypeOK

\* What is returned is noted, and the youngest is kept.
LEMMA ServeFacts ==
    ASSUME IInv, NEW v \in 0 .. now
    PROVE  /\ Serve(v).value = v /\ Serve(v).at = now
           /\ Serve(v).newest \in 0 .. now
           /\ Serve(v).newest = served.newest \/ Serve(v).newest = v
           /\ Serve(v).newest >= served.newest /\ Serve(v).newest >= v
           /\ Serve(v) \in [value : Nat, at : Nat, newest : Nat]
BY DEF Serve, IInv, TypeOK

\* A live row is younger than its lifetime and the lag.
LEMMA LiveIsFresh ==
    ASSUME IInv, Live(entry)
    PROVE  now < entry.value + MaxLag + TTL
<1>1. Whole(now) + 1 <= entry.expires /\ entry.expires \in Nat /\ now \in Nat
  BY WholeBounds DEF IInv, TypeOK, Shape, Live
<1>2. (Whole(now) + 1) * Second <= entry.expires * Second
  BY <1>1, WholeBounds, TimesMonotone
<1>3. (Whole(now) + 1) * Second = Whole(now) * Second + Second
  BY <1>1, WholeBounds
<1>4. QED BY <1>1, <1>2, <1>3, WholeBounds DEF IInv, FreshInv, Shape

-----------------------------------------------------------------------------
(* The steps.                                                              *)

LEMMA InitIInv == Init => IInv
<1> SUFFICES ASSUME Init PROVE IInv
  OBVIOUS
<1>1. TypeOK
  BY WholeBounds DEF Init, TypeOK, NoRow, Idle
<1>2. Shape /\ FreshInv /\ LagInv
  BY DEF Init, Shape, FreshInv, LagInv, At, NoRow, Idle
<1>3. BoundedStaleness /\ JanitorInvisible
  BY DEF Init, BoundedStaleness, JanitorInvisible
<1>4. CalmInv /\ LossInv /\ NoStepBack
  BY WholeBounds DEF Init, CalmInv, LossInv, NoStepBack, Fetching, At, Live, NoRow, Idle
<1>5. QED BY <1>1, <1>2, <1>3, <1>4 DEF IInv

\* The clock moves: what was not live stays so, and no answer becomes too old.
LEMMA TickStep == IInv /\ Tick => IInv'
<1> SUFFICES ASSUME IInv, Tick PROVE IInv'
  OBVIOUS
<1> USE DEF IInv, Tick
<1>1. now \in Nat /\ now' = now + 1 /\ Whole(now) <= Whole(now')
  BY WholeMonotone DEF TypeOK
<1>2. Whole(now + TTL) <= Whole(now' + TTL) /\ Whole(now' + TTL) \in Nat /\ Whole(now + TTL) \in Nat
  BY <1>1, WholeMonotone, WholeBounds
<1>3. TypeOK'
  BY <1>1, <1>2 DEF TypeOK
<1>4. \A row \in {entry, put} : Live(row)' => Live(row)
  BY <1>1, WholeBounds DEF Live, Shape
<1>5. JanitorInvisible' /\ CalmInv' /\ LossInv'
  BY <1>4 DEF JanitorInvisible, CalmInv, LossInv, Fetching, At
<1>6. Shape' /\ FreshInv' /\ BoundedStaleness' /\ NoStepBack'
  BY DEF Shape, FreshInv, BoundedStaleness, NoStepBack
<1>7. LagInv'
  BY <1>1 DEF LagInv, At, Shape
<1>8. QED BY <1>3, <1>5, <1>6, <1>7

LEMMA HitStep == ASSUME IInv, NEW c \in Calls, Hit(c) PROVE IInv'
<1> USE DEF IInv, Hit
<1>1. entry.value \in Nat /\ now \in Nat
  BY DEF Shape, TypeOK
<1> USE ServeFacts
<1>2. TypeOK' /\ Shape'
  BY <1>1 DEF TypeOK, Shape, Whole
<1>3. FreshInv' /\ LagInv' /\ JanitorInvisible'
  BY DEF FreshInv, LagInv, JanitorInvisible, At, Live, Whole
<1>4. BoundedStaleness'
  <2>1. served'.value = entry.value /\ served'.at = now
    BY DEF TypeOK
  <2>2. now < entry.value + MaxLag + TTL
    BY LiveIsFresh
  <2>3. QED BY <1>1, <2>1, <2>2 DEF BoundedStaleness
<1>5. CalmInv' /\ LossInv' /\ NoStepBack'
  <2>1. /\ served' = Serve(entry.value) /\ entry' = entry /\ call' = call /\ calm' = calm
        /\ Fetching' = Fetching /\ Live(entry) /\ Live(entry)'
        /\ \A d \in Calls : At(d, "set")' <=> At(d, "set")
    BY DEF Fetching, At, Live, Whole
  <2>2. /\ Serve(entry.value).value = entry.value
        /\ Serve(entry.value).newest \in {served.newest, entry.value}
        /\ served.newest \in Nat /\ MaxLag \in Nat
    BY <1>1, TimesAssumption DEF Shape, TypeOK
  <2>3. CalmInv'
    BY <2>1, <2>2 DEF CalmInv
  <2>4. LossInv'
    BY <1>1, <2>1, <2>2 DEF LossInv
  <2>5. NoStepBack'
    BY <1>1, <2>1, <2>2 DEF NoStepBack, CalmInv, LossInv
  <2>6. QED BY <2>3, <2>4, <2>5
<1>6. QED BY <1>2, <1>3, <1>4, <1>5

LEMMA MissStep == ASSUME IInv, NEW c \in Calls, Miss(c) PROVE IInv'
<1> USE DEF IInv, Miss
<1>1. call' \in [Calls -> [pc : {"idle", "fetch", "set"}, value : Nat]]
  BY DEF Shape
<1>2. \A d \in Calls : /\ d # c => call'[d] = call[d]
                       /\ call'[c].pc = "fetch" /\ call'[c].value = call[c].value
  BY DEF Shape
<1>3. TypeOK' /\ Shape'
  BY <1>1, <1>2 DEF TypeOK, Shape, Whole
<1>4. FreshInv' /\ LagInv' /\ JanitorInvisible' /\ BoundedStaleness'
  BY <1>2 DEF FreshInv, LagInv, JanitorInvisible, BoundedStaleness, At, Live, Whole
<1>5. CalmInv' /\ LossInv' /\ NoStepBack'
  BY <1>2 DEF CalmInv, LossInv, NoStepBack, Fetching, At, Live, Whole
<1>6. QED BY <1>3, <1>4, <1>5

LEMMA AnswerStep == ASSUME IInv, NEW c \in Calls, Answer(c) PROVE IInv'
<1> USE DEF IInv, Answer
<1>1. now \in Nat /\ call'[c] = [pc |-> "set", value |-> now]
      /\ \A d \in Calls \ {c} : call'[d] = call[d]
  BY DEF Shape, TypeOK
<1>2. TypeOK' /\ Shape'
  BY <1>1 DEF TypeOK, Shape, Whole
<1>3. FreshInv' /\ LagInv' /\ JanitorInvisible' /\ BoundedStaleness'
  BY <1>1 DEF FreshInv, LagInv, JanitorInvisible, BoundedStaleness, At, Live, Whole
<1>4. CalmInv' /\ LossInv' /\ NoStepBack'
  BY <1>1 DEF CalmInv, LossInv, NoStepBack, Fetching, At, Live, Whole, TypeOK
<1>5. QED BY <1>2, <1>3, <1>4

\* A call that ends, having changed nothing.
LEMMA FailStep == ASSUME IInv, NEW c \in Calls, Fail(c) PROVE IInv'
<1> USE DEF IInv, Fail
<1>1. call'[c] = Idle /\ \A d \in Calls \ {c} : call'[d] = call[d]
  BY DEF Shape
<1>2. TypeOK' /\ Shape'
  BY <1>1 DEF TypeOK, Shape, Whole, Idle
<1>3. FreshInv' /\ LagInv' /\ JanitorInvisible' /\ BoundedStaleness'
  BY <1>1 DEF FreshInv, LagInv, JanitorInvisible, BoundedStaleness, At, Live, Whole, Idle
<1>4. CalmInv' /\ LossInv' /\ NoStepBack'
  BY <1>1 DEF CalmInv, LossInv, NoStepBack, Fetching, At, Live, Whole, Idle
<1>5. QED BY <1>2, <1>3, <1>4

LEMMA SetStep == ASSUME IInv, NEW c \in Calls, Set(c) PROVE IInv'
<1> USE ServeFacts
<1> USE DEF IInv, Set
<1>1. call'[c] = Idle /\ \A d \in Calls \ {c} : call'[d] = call[d]
  BY DEF Shape
<1>2. now \in Nat /\ call[c].value \in 0 .. now /\ now <= call[c].value + MaxLag
  BY DEF TypeOK, LagInv
<1>3. BoundedStaleness'
  BY <1>2 DEF BoundedStaleness
<1>4. LagInv'
  BY <1>1 DEF LagInv, At, Idle
<1>5. CASE UNCHANGED <<entry, put>> /\ calm' = "lost"
  <2>1. TypeOK' /\ Shape'
    BY <1>1, <1>2, <1>5 DEF TypeOK, Shape, Whole, Idle
  <2>2. FreshInv' /\ JanitorInvisible' /\ CalmInv' /\ LossInv' /\ NoStepBack'
    BY <1>5 DEF FreshInv, JanitorInvisible, CalmInv, LossInv, NoStepBack, Live, Whole
  <2>3. QED BY <2>1, <2>2, <1>3, <1>4
<1>6. CASE entry' = Row(call[c].value) /\ put' = entry' /\ UNCHANGED calm
  <2>1. TypeOK' /\ Shape'
    BY <1>1, <1>2, <1>6, RowExpiry, WholeBounds DEF TypeOK, Shape, Whole, Idle
  <2>2. FreshInv'
    <3> DEFINE row == Row(call[c].value)
    <3>1. /\ row.value = call[c].value
          /\ row.expires * Second <= now + TTL /\ row.expires * Second \in Nat
      BY <1>2, RowExpiry
    <3>2. row.expires * Second <= row.value + MaxLag + TTL
      <4> HIDE DEF row
      <4> QED BY <1>2, <3>1
    <3> QED BY <1>6, <3>2 DEF FreshInv
  <2>3. CalmInv'
    <3>1. ASSUME calm = "yes" PROVE Fetching' = {}
      BY <1>1, <3>1 DEF CalmInv, Fetching, At, Idle
    <3>2. ASSUME calm = "yes" PROVE \A d \in Calls : ~ At(d, "set")'
      BY <3>1, <3>2 DEF Fetching, At
    <3>3. ASSUME calm = "yes" PROVE entry'.value = served'.newest
      BY <1>2, <1>6, <3>3, RowExpiry DEF CalmInv, TypeOK
    <3>4. QED BY <1>6, <3>1, <3>2, <3>3 DEF CalmInv
  <2>4. JanitorInvisible'
    BY <1>6 DEF JanitorInvisible
  <2>5. LossInv' /\ NoStepBack'
    <3>1. served'.newest <= now /\ served'.value = call[c].value /\ entry'.value = call[c].value
      BY <1>2, <1>6, RowExpiry DEF TypeOK
    <3>2. calm = "yes" => served'.newest = call[c].value
      BY <1>2 DEF CalmInv, TypeOK
    <3>3. QED BY <1>2, <1>6, <3>1, <3>2 DEF LossInv, NoStepBack, TypeOK
  <2>6. QED BY <2>1, <2>2, <2>3, <2>4, <2>5, <1>3, <1>4
<1>7. QED BY <1>5, <1>6

\* The janitor deletes only what is not live.
LEMMA PurgeStep == IInv /\ Purge => IInv'
<1> SUFFICES ASSUME IInv, Purge PROVE IInv'
  OBVIOUS
<1> USE DEF IInv, Purge
<1>1. Whole(now) \in Nat /\ Whole(now + TTL) \in Nat /\ now \in Nat /\ UNCHANGED Whole(now)
      /\ UNCHANGED Whole(now + TTL)
  BY WholeBounds DEF TypeOK
<1>2. ~ Live(entry) /\ ~ Live(NoRow)
  BY <1>1 DEF Live, Expired, NoRow, Shape
<1>3. TypeOK' /\ Shape'
  BY <1>1 DEF TypeOK, Shape, NoRow
<1>4. FreshInv' /\ LagInv' /\ BoundedStaleness'
  BY DEF FreshInv, LagInv, BoundedStaleness, At, NoRow
<1>5. JanitorInvisible' /\ CalmInv' /\ LossInv' /\ NoStepBack'
  BY <1>1, <1>2 DEF JanitorInvisible, CalmInv, LossInv, NoStepBack, Fetching, At, Live
<1>6. QED BY <1>3, <1>4, <1>5

LEMMA NextIInv == IInv /\ [Next]_vars => IInv'
<1> SUFFICES ASSUME IInv, [Next]_vars PROVE IInv'
  OBVIOUS
<1>1. CASE UNCHANGED vars
  BY <1>1 DEF vars, IInv, TypeOK, Shape, FreshInv, LagInv, BoundedStaleness, JanitorInvisible,
              CalmInv, LossInv, NoStepBack, Fetching, At, Live, Whole
<1>2. QED
  BY <1>1, TickStep, PurgeStep, HitStep, MissStep, AnswerStep, FailStep, SetStep DEF Next

-----------------------------------------------------------------------------
\* The inductive invariant.
THEOREM Invariance == Spec => []IInv
BY InitIInv, NextIInv, PTL DEF Spec

\* The row and the calls keep their shape, and no value is from the future.
THEOREM TypeCorrect == Spec => []TypeOK
<1>1. IInv => TypeOK
  BY DEF IInv
<1>2. QED BY <1>1, Invariance, PTL

\* What _cached returns was computed less than a TTL and one lag ago, however
\* lookups, stores and purges of the key interleave (cache/client.py:152-171,
\* cache/store.py:55-95).
THEOREM Bounded == Spec => []BoundedStaleness
<1>1. IInv => BoundedStaleness
  BY DEF IInv
<1>2. QED BY <1>1, Invariance, PTL

\* No lookup can tell a table that purge works on from one it does not.
THEOREM Invisible == Spec => []JanitorInvisible
<1>1. IInv => JanitorInvisible
  BY DEF IInv
<1>2. QED BY <1>1, Invariance, PTL

\* A slower fetch that overwrites a younger value takes callers back by no more than
\* the time an answer waits to be stored, as long as every write succeeds; without
\* overlapping fetches they see values that only get younger (cache/client.py:155-164).
THEOREM Forward == Spec => []NoStepBack
<1>1. IInv => NoStepBack
  BY DEF IInv
<1>2. QED BY <1>1, Invariance, PTL
=============================================================================
