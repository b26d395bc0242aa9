---------------------------- MODULE ClientProofs ----------------------------
(***************************************************************************)
(* Proofs about the MoySklad client: Transport, for every number of calls  *)
(* and of retries, every rate and window of the limiter and whatever a 429 *)
(* asks for, and Pagination, for every size of the pages, every limit and  *)
(* every length of the list.                                               *)
(***************************************************************************)
EXTENDS Transport, Pagination, FiniteSetTheorems, SequenceTheorems, TLAPS

-----------------------------------------------------------------------------
(* One GET.  The limiter's bound is a fact about any two attempts.  What is  *)
(* inductive is the same fact about an attempt and the present, with the     *)
(* bucket's level in the place of a full bucket.                             *)

USE LimitsAssumption

CallType == [pc : {"send", "answer", "sleep", "returned", "raised"}, attempt : Nat, wake : Nat,
             last : {"ok", "429", "5xx", "4xx", "neterr", "none"}]

\* Shape of the state, with that of the histories.
Shape ==
    /\ now \in 0 .. MaxNow
    /\ level \in Nat /\ level <= Rate * Window
    /\ call \in [Calls -> CallType]
    /\ sends \in Seq(Nat)
    /\ attempts \in [Calls -> Nat]
    /\ notBefore \in [Calls -> Nat]

\* Where a call stands after n attempts.
Course(r, n) ==
    /\ r.pc = "send" => n = r.attempt /\ n <= MaxRetries
    /\ r.pc \in {"answer", "sleep"} => n = r.attempt + 1 /\ n <= MaxRetries + 1
    /\ r.pc \in {"send", "answer", "sleep"} => r.last \notin {"ok", "4xx"}
    /\ r.pc = "returned" => r.last = "ok" /\ n <= MaxRetries + 1
    /\ r.pc = "raised" => /\ r.last # "ok" /\ n <= MaxRetries + 1
                          /\ n = MaxRetries + 1 \/ r.last = "4xx"

CallsInv == \A c \in Calls : Course(call[c], attempts[c]) /\ call[c].attempt <= MaxRetries + 1

\* A call wakes no sooner than the last 429 asked for, and is awake no sooner.
WaitsInv ==
    \A c \in Calls :
        /\ call[c].pc = "sleep" => notBefore[c] <= call[c].wake
        /\ call[c].pc = "send" => notBefore[c] <= now

\* LeakyBound between an attempt and the present, with what is in the bucket.
LevelInv ==
    /\ \A i \in 1 .. Len(sends) : sends[i] <= now
    /\ now < MaxNow => \A i \in 1 .. Len(sends) :
         (Len(sends) - i + 1) * Window <= level + (now - sends[i]) * Rate

IInv == Shape /\ CallsInv /\ WaitsInv /\ LevelInv /\ LeakyBound

-----------------------------------------------------------------------------
(* Numbers.                                                                *)

\* A power of two counts the subsets of a set.
LEMMA PowersAreNaturals ==
    ASSUME NEW n \in Nat
    PROVE  2 ^ n \in Nat
<1>1. IsFiniteSet(1 .. n) /\ Cardinality(1 .. n) = n
  BY FS_Interval
<1>2. IsFiniteSet(SUBSET (1 .. n)) /\ Cardinality(SUBSET (1 .. n)) = 2 ^ n
  BY <1>1, FS_SUBSET
<1>3. QED BY <1>2, FS_CardinalityType

LEMMA DelayIsNatural ==
    ASSUME NEW n \in Nat, NEW after \in Nat
    PROVE  Delay(n, after) \in Nat /\ (after > 0 => Delay(n, after) = after)
BY PowersAreNaturals DEF Delay

LEMMA BucketIsNatural == Rate * Window \in Nat
OBVIOUS

\* One tick more, and the bucket leaked.
LEMMA LeakKeeps ==
    ASSUME NEW k \in Int, NEW l \in Nat, NEW l2 \in Nat, NEW d \in Int,
           k <= l + d * Rate, l2 = IF l > Rate THEN l - Rate ELSE 0
    PROVE  k <= l2 + (d + 1) * Rate
<1>1. PICK p \in Int : p = d * Rate
  OBVIOUS
<1>2. (d + 1) * Rate = p + Rate
  BY <1>1
<1>3. k <= l + p
  BY <1>1
<1>4. k <= l2 + p + Rate
  BY <1>3
<1>5. QED BY <1>2, <1>4

-----------------------------------------------------------------------------
(* The steps.                                                              *)

LEMMA InitIInv == Init => IInv
<1>1. SUFFICES ASSUME Init PROVE IInv
  OBVIOUS
<1>2. Shape
  BY <1>1, BucketIsNatural DEF Init, Shape, CallType
<1>3. CallsInv
  BY <1>1 DEF Init, CallsInv, Course
<1>4. WaitsInv
  BY <1>1 DEF Init, WaitsInv
<1>5. LevelInv /\ LeakyBound
  BY <1>1 DEF Init, LevelInv, LeakyBound
<1>6. QED BY <1>2, <1>3, <1>4, <1>5 DEF IInv

LEMMA TickKeeps == ASSUME IInv, Tick PROVE IInv'
<1>1. /\ call' = call /\ sends' = sends /\ attempts' = attempts /\ notBefore' = notBefore
      /\ now' = IF now < MaxNow THEN now + 1 ELSE now
      /\ level' = IF level > Rate THEN level - Rate ELSE 0
  BY DEF Tick
<1>2. now \in 0 .. MaxNow /\ level \in Nat /\ level <= Rate * Window /\ sends \in Seq(Nat)
  BY DEF IInv, Shape
<1>3. now' \in 0 .. MaxNow /\ now <= now'
  BY <1>1, <1>2
<1>4. level' \in Nat /\ level' <= Rate * Window
  BY <1>1, <1>2, BucketIsNatural
<1>5. Shape'
  BY <1>1, <1>3, <1>4 DEF IInv, Shape
<1>6. CallsInv' /\ WaitsInv'
  BY <1>1, <1>2, <1>3 DEF IInv, Shape, CallsInv, WaitsInv
<1>7. LeakyBound'
  BY <1>1 DEF IInv, LeakyBound
<1>8. \A i \in 1 .. Len(sends) : sends[i] \in Nat /\ sends[i] <= now
  BY <1>2 DEF IInv, LevelInv
<1>9. ASSUME now' < MaxNow, NEW i \in 1 .. Len(sends)
      PROVE  (Len(sends) - i + 1) * Window <= level' + (now' - sends[i]) * Rate
  <2>1. now < MaxNow /\ now' = now + 1
    BY <1>1, <1>2, <1>9
  <2>2. PICK k \in Int : k = (Len(sends) - i + 1) * Window
    BY <1>2
  <2>3. PICK d \in Int : d = now - sends[i]
    BY <1>2, <1>8
  <2>4. k <= level + d * Rate
    BY <2>1, <2>2, <2>3 DEF IInv, LevelInv
  <2>5. k <= level' + (d + 1) * Rate
    BY <1>1, <1>2, <1>4, <2>4, LeakKeeps
  <2>6. now' - sends[i] = d + 1
    <3>1. PICK s \in Nat : s = sends[i]
      BY <1>8
    <3>2. now \in Nat
      BY <1>2
    <3>3. (now + 1) - s = (now - s) + 1
      BY <3>1, <3>2
    <3>4. QED BY <2>1, <2>3, <3>1, <3>3
  <2>7. QED BY <2>2, <2>5, <2>6
<1>10. LevelInv'
  BY <1>1, <1>2, <1>3, <1>8, <1>9 DEF LevelInv
<1>11. QED BY <1>5, <1>6, <1>7, <1>10 DEF IInv

LEMMA SendKeeps ==
    ASSUME IInv, NEW c \in Calls, Send(c)
    PROVE  IInv' /\ notBefore[c] <= now
<1>1. /\ call[c].pc = "send" /\ level + Window <= Rate * Window /\ level' = level + Window
      /\ sends' = IF Len(sends) < MaxSends THEN Append(sends, now) ELSE sends
      /\ attempts' = [attempts EXCEPT ![c] = IF @ > MaxRetries + 1 THEN @ ELSE @ + 1]
      /\ call' = [call EXCEPT ![c].pc = "answer"]
      /\ now' = now /\ notBefore' = notBefore
  BY DEF Send, At, HasRoom
<1>2. /\ now \in 0 .. MaxNow /\ level \in Nat /\ sends \in Seq(Nat) /\ attempts \in [Calls -> Nat]
      /\ call \in [Calls -> CallType]
  BY DEF IInv, Shape
<1>3. level + Window <= Rate * Window /\ level' = level + Window /\ now' = now
  BY <1>1
<1>4. /\ \A d \in Calls : call'[d] = IF d = c THEN [call[c] EXCEPT !.pc = "answer"] ELSE call[d]
      /\ call' \in [Calls -> CallType]
  <2>1. [call[c] EXCEPT !.pc = "answer"] \in CallType
    BY <1>2 DEF CallType
  <2>2. call' = [call EXCEPT ![c] = [call[c] EXCEPT !.pc = "answer"]]
    BY <1>1
  <2>3. QED BY <1>2, <2>1, <2>2
<1>5. attempts[c] = call[c].attempt /\ attempts[c] <= MaxRetries
  BY <1>1 DEF IInv, CallsInv, Course
<1>6. /\ \A d \in Calls : attempts'[d] = IF d = c THEN attempts[c] + 1 ELSE attempts[d]
      /\ attempts' \in [Calls -> Nat]
  <2>1. PICK n \in Nat : n = attempts[c] /\ n <= MaxRetries
    BY <1>2, <1>5
  <2>2. (IF n > MaxRetries + 1 THEN n ELSE n + 1) = n + 1
    BY <2>1
  <2>3. attempts' = [attempts EXCEPT ![c] = IF n > MaxRetries + 1 THEN n ELSE n + 1]
    BY <1>1, <1>2, <2>1
  <2>4. QED BY <1>2, <2>1, <2>2, <2>3
<1>7. Shape'
  <2>1. sends' \in Seq(Nat)
    BY <1>1, <1>2
  <2>2. level' \in Nat /\ level' <= Rate * Window
    BY <1>2, <1>3, BucketIsNatural
  <2>3. now' \in 0 .. MaxNow /\ notBefore' \in [Calls -> Nat]
    BY <1>1 DEF IInv, Shape
  <2>4. QED BY <1>4, <1>6, <2>1, <2>2, <2>3 DEF Shape
<1>8. CallsInv'
  <2>1. SUFFICES ASSUME NEW d \in Calls
                 PROVE  Course(call'[d], attempts'[d]) /\ call'[d].attempt <= MaxRetries + 1
    BY DEF CallsInv
  <2>2. CASE d = c
    <3>1. /\ call'[c].pc = "answer" /\ call'[c].attempt = call[c].attempt
          /\ call'[c].last = call[c].last
      <4>1. call[c] \in CallType /\ call'[c] = [call[c] EXCEPT !.pc = "answer"]
        BY <1>2, <1>4
      <4>2. QED BY <4>1 DEF CallType
    <3>2. call[c].attempt \in Nat /\ attempts'[c] = call[c].attempt + 1
      BY <1>2, <1>5, <1>6 DEF CallType
    <3>3. call[c].attempt <= MaxRetries /\ call[c].last \notin {"ok", "4xx"}
      BY <1>1, <1>5 DEF IInv, CallsInv, Course
    <3>4. QED BY <2>2, <3>1, <3>2, <3>3 DEF Course
  <2>3. CASE d # c
    BY <1>4, <1>6, <2>3 DEF IInv, CallsInv
  <2>4. QED BY <2>2, <2>3
<1>9. WaitsInv'
  BY <1>1, <1>2, <1>4 DEF IInv, WaitsInv
<1>10. CASE sends' = sends
  <2>1. LeakyBound'
    BY <1>10 DEF IInv, LeakyBound
  <2>2. LevelInv'
    <3>1. ASSUME now < MaxNow, NEW i \in 1 .. Len(sends)
          PROVE  (Len(sends) - i + 1) * Window <= level' + (now - sends[i]) * Rate
      <4>1. PICK k \in Int : k = (Len(sends) - i + 1) * Window
        BY <1>2
      <4>2. PICK p \in Int : p = (now - sends[i]) * Rate
        BY <1>2
      <4>3. k <= level + p
        BY <3>1, <4>1, <4>2 DEF IInv, LevelInv
      <4>4. k <= level' + p
        BY <1>2, <1>3, <4>3
      <4>5. QED BY <4>1, <4>2, <4>4
    <3>2. now' = now /\ sends' = sends
      BY <1>3, <1>10
    <3>3. QED BY <3>1, <3>2 DEF IInv, LevelInv
  <2>3. QED BY <1>1, <1>7, <1>8, <1>9, <2>1, <2>2 DEF IInv, WaitsInv
<1>11. CASE sends' = Append(sends, now)
  <2> DEFINE L == Len(sends)
  <2>1. /\ L \in Nat /\ Len(sends') = L + 1 /\ sends'[L + 1] = now
        /\ \A i \in 1 .. L : sends'[i] = sends[i] /\ sends[i] \in Nat /\ sends[i] <= now
    BY <1>2, <1>11 DEF IInv, LevelInv
  <2> HIDE DEF L
  <2>2. ASSUME now < MaxNow, NEW i \in 1 .. L
        PROVE  /\ (L + 1 - i + 1) * Window <= level' + (now - sends[i]) * Rate
               /\ (L + 1 - i + 1) * Window <= Rate * Window + (now - sends[i]) * Rate
    <3>1. PICK m \in Int : m = L - i + 1
      BY <2>1
    <3>2. PICK k \in Int : k = m * Window
      OBVIOUS
    <3>3. PICK p \in Int : p = (now - sends[i]) * Rate
      BY <1>2, <2>1
    <3>4. k <= level + p
      BY <2>2, <3>1, <3>2, <3>3 DEF IInv, LevelInv, L
    <3>5. (m + 1) * Window = k + Window
      BY <3>2
    <3>6. L + 1 - i + 1 = m + 1
      BY <2>1, <3>1
    <3>7. PICK b \in Nat : b = Rate * Window
      BY BucketIsNatural
    <3>8. k + Window <= level' + p /\ k + Window <= b + p
      BY <1>2, <1>3, <3>4, <3>7
    <3>9. QED BY <3>3, <3>5, <3>6, <3>7, <3>8
  <2>3. (L + 1 - (L + 1) + 1) * Window <= level' + (now - now) * Rate
    <3>1. L + 1 - (L + 1) + 1 = 1 /\ now - now = 0
      BY <1>2, <2>1
    <3>2. 1 * Window <= level' + 0 * Rate
      BY <1>2, <1>3
    <3>3. QED BY <3>1, <3>2
  <2>4. LevelInv'
    <3>1. \A i \in 1 .. L + 1 : i \in 1 .. L \/ i = L + 1
      BY <2>1
    <3>2. \A i \in 1 .. L + 1 : sends'[i] <= now
      BY <1>2, <2>1, <3>1
    <3>3. ASSUME now < MaxNow, NEW i \in 1 .. L + 1
          PROVE  (L + 1 - i + 1) * Window <= level' + (now - sends'[i]) * Rate
      <4>1. CASE i \in 1 .. L
        BY <2>1, <2>2, <3>3, <4>1
      <4>2. CASE i = L + 1
        BY <2>1, <2>3, <4>2
      <4>3. QED BY <3>1, <4>1, <4>2
    <3>4. QED BY <1>3, <2>1, <3>2, <3>3 DEF LevelInv
  <2>5. LeakyBound'
    <3>1. SUFFICES ASSUME NEW i \in 1 .. L + 1, NEW j \in 1 .. L + 1, i <= j, sends'[j] < MaxNow
                   PROVE  (j - i + 1) * Window <= Rate * Window + (sends'[j] - sends'[i]) * Rate
      BY <2>1 DEF LeakyBound
    <3>2. CASE j \in 1 .. L
      <4>1. i \in 1 .. L /\ sends[j] < MaxNow /\ i <= j
        BY <2>1, <3>1, <3>2
      <4>2. (j - i + 1) * Window <= Rate * Window + (sends[j] - sends[i]) * Rate
        BY <3>2, <4>1 DEF IInv, LeakyBound, L
      <4>3. QED BY <2>1, <3>2, <4>1, <4>2
    <3>3. CASE j = L + 1 /\ i \in 1 .. L
      BY <2>1, <2>2, <3>1, <3>3
    <3>4. CASE j = L + 1 /\ i = L + 1
      <4>1. j - i + 1 = 1 /\ sends'[j] - sends'[i] = 0
        BY <1>2, <2>1, <3>4
      <4>2. 1 * Window <= Rate * Window + 0 * Rate
        BY <1>1, <1>2, BucketIsNatural
      <4>3. QED BY <4>1, <4>2
    <3>5. QED BY <2>1, <3>2, <3>3, <3>4
  <2>6. QED BY <1>1, <1>7, <1>8, <1>9, <2>4, <2>5 DEF IInv, WaitsInv
<1>12. QED BY <1>1, <1>10, <1>11

\* What an answer leaves of a call.
AfterAnswer(q, a, w, p) == [q EXCEPT !.last = a, !.wake = w, !.pc = p]

LEMMA AnsweredCall ==
    ASSUME NEW q \in CallType, NEW a \in Answers, NEW w \in Nat,
           NEW p \in {"returned", "raised", "sleep"}
    PROVE  AfterAnswer(q, a, w, p) = [pc |-> p, attempt |-> q.attempt, wake |-> w, last |-> a]
<1>1. PICK x : x = AfterAnswer(q, a, w, p)
  OBVIOUS
<1>2. PICK r : r = [pc |-> p, attempt |-> q.attempt, wake |-> w, last |-> a]
  OBVIOUS
<1>3. x.pc = p /\ x.attempt = q.attempt /\ x.wake = w /\ x.last = a
  BY <1>1 DEF CallType, AfterAnswer
<1>4. x \in CallType
  BY <1>1 DEF CallType, Answers, AfterAnswer
<1>5. r \in CallType
  BY <1>2 DEF CallType, Answers
<1>6. x = r
  BY <1>2, <1>3, <1>4, <1>5 DEF CallType
<1>7. QED BY <1>1, <1>2, <1>6

LEMMA AnswerKeeps ==
    ASSUME IInv, NEW c \in Calls, Answer(c)
    PROVE  IInv'
<1>1. PICK a \in Answers, after \in RetryAfters :
        /\ a # "429" => after = 0
        /\ notBefore' = [notBefore EXCEPT ![c] = IF a = "429" THEN Due(now + after) ELSE 0]
        /\ call' = [call EXCEPT
                      ![c].last = a,
                      ![c].wake = Due(now + Delay(call[c].attempt, after)),
                      ![c].pc =
                         IF a = "ok" THEN "returned"
                         ELSE IF a \notin Retried THEN "raised"
                         ELSE IF LastAttempt(call[c].attempt) /\ a # "neterr" THEN "raised"
                         ELSE "sleep"]
  BY DEF Answer
<1>2. call[c].pc = "answer" /\ UNCHANGED <<now, level, attempts, sends>>
  BY DEF Answer, At
<1>3. /\ now \in 0 .. MaxNow /\ attempts \in [Calls -> Nat] /\ notBefore \in [Calls -> Nat]
      /\ call \in [Calls -> CallType]
  BY DEF IInv, Shape
<1>4. PICK n \in Nat : n = call[c].attempt
  BY <1>3 DEF CallType
<1>5. attempts[c] = n + 1 /\ n <= MaxRetries
  BY <1>2, <1>4 DEF IInv, CallsInv, Course
<1>6. after \in Nat
  OBVIOUS
<1>7. PICK w \in Nat : w = Due(now + Delay(n, after))
  BY <1>3, <1>6, DelayIsNatural DEF Due
<1>8. PICK b \in Nat : b = IF a = "429" THEN Due(now + after) ELSE 0
  BY <1>3, <1>6 DEF Due
<1>9. b <= w
  BY <1>1, <1>3, <1>6, <1>7, <1>8, DelayIsNatural DEF Due
<1>10. PICK step \in {"returned", "raised", "sleep"} :
         step = IF a = "ok" THEN "returned"
                ELSE IF a \notin Retried THEN "raised"
                ELSE IF LastAttempt(n) /\ a # "neterr" THEN "raised"
                ELSE "sleep"
  OBVIOUS
<1>11. PICK r \in CallType : r = [pc |-> step, attempt |-> n, wake |-> w, last |-> a]
  BY DEF CallType, Answers
<1>12. call' = [call EXCEPT ![c] = r] /\ notBefore' = [notBefore EXCEPT ![c] = b]
  <2>1. call' = [call EXCEPT ![c] = AfterAnswer(call[c], a, w, step)]
    BY <1>1, <1>3, <1>4, <1>7, <1>10 DEF AfterAnswer
  <2>2. call[c] \in CallType
    BY <1>3
  <2>3. AfterAnswer(call[c], a, w, step) = r
    BY <1>4, <1>11, <2>2, AnsweredCall
  <2>4. QED BY <1>1, <1>8, <2>1, <2>3
<1>13. /\ \A d \in Calls : /\ call'[d] = IF d = c THEN r ELSE call[d]
                          /\ notBefore'[d] = IF d = c THEN b ELSE notBefore[d]
       /\ Shape'
  BY <1>2, <1>3, <1>12 DEF IInv, Shape
<1>14. Course(r, n + 1)
  BY <1>5, <1>10, <1>11 DEF Course, Retried, LastAttempt, Answers
<1>15. CallsInv'
  BY <1>2, <1>5, <1>11, <1>13, <1>14 DEF IInv, CallsInv
<1>16. WaitsInv'
  BY <1>2, <1>9, <1>11, <1>13 DEF IInv, WaitsInv
<1>17. LevelInv' /\ LeakyBound'
  BY <1>2 DEF IInv, LevelInv, LeakyBound
<1>18. QED BY <1>13, <1>15, <1>16, <1>17 DEF IInv

LEMMA WakeKeeps ==
    ASSUME IInv, NEW c \in Calls, Wake(c)
    PROVE  IInv'
<1>1. /\ call[c].pc = "sleep" /\ call[c].wake <= now
      /\ UNCHANGED <<now, level, sends, attempts, notBefore>>
      /\ call' = [call EXCEPT ![c].pc = IF LastAttempt(call[c].attempt) THEN "raised" ELSE "send",
                              ![c].attempt = NextAttempt(@)]
  BY DEF Wake, At
<1>2. /\ now \in 0 .. MaxNow /\ attempts \in [Calls -> Nat] /\ notBefore \in [Calls -> Nat]
      /\ call \in [Calls -> CallType]
  BY DEF IInv, Shape
<1>3. PICK n \in Nat : n = call[c].attempt
  BY <1>2 DEF CallType
<1>4. /\ attempts[c] = n + 1 /\ n <= MaxRetries /\ call[c].last \notin {"ok", "4xx"}
      /\ notBefore[c] <= call[c].wake
  BY <1>1, <1>3 DEF IInv, CallsInv, Course, WaitsInv
<1>5. PICK r : r = [pc |-> IF n = MaxRetries THEN "raised" ELSE "send", attempt |-> n + 1,
                    wake |-> call[c].wake, last |-> call[c].last]
  OBVIOUS
<1>6. call' = [call EXCEPT ![c] = r]
  BY <1>1, <1>2, <1>3, <1>5 DEF CallType, LastAttempt, NextAttempt
<1>7. \A d \in Calls : call'[d] = IF d = c THEN r ELSE call[d]
  BY <1>2, <1>6
<1>8. Course(r, n + 1) /\ r.attempt <= MaxRetries + 1
  BY <1>4, <1>5 DEF Course
<1>9. Shape'
  <2>1. r \in CallType
    BY <1>2, <1>5 DEF CallType
  <2>2. call' \in [Calls -> CallType]
    BY <1>2, <1>6, <2>1
  <2>3. QED BY <1>1, <2>2 DEF IInv, Shape
<1>10. CallsInv'
  BY <1>1, <1>4, <1>7, <1>8 DEF IInv, CallsInv
<1>11. WaitsInv'
  <2>1. notBefore[c] <= now
    BY <1>1, <1>2, <1>4 DEF CallType
  <2>2. r.pc # "sleep"
    BY <1>5
  <2>3. QED BY <1>1, <1>7, <2>1, <2>2 DEF IInv, WaitsInv
<1>12. LevelInv' /\ LeakyBound'
  BY <1>1 DEF IInv, LevelInv, LeakyBound
<1>13. QED BY <1>9, <1>10, <1>11, <1>12 DEF IInv

LEMMA NextIInv == IInv /\ [Next]_vars => IInv'
<1>1. SUFFICES ASSUME IInv, [Next]_vars PROVE IInv'
  OBVIOUS
<1>2. CASE UNCHANGED vars
  BY <1>1, <1>2 DEF vars, IInv, Shape, CallsInv, WaitsInv, LevelInv, LeakyBound
<1>3. QED
  BY <1>1, <1>2, TickKeeps, SendKeeps, AnswerKeeps, WakeKeeps DEF Next, Work

-----------------------------------------------------------------------------
(* The theorems.                                                           *)

\* The books of the calls, of their waits and of the bucket agree in every state.
THEOREM Invariance == Spec => []IInv
<1>1. QED BY InitIInv, NextIInv, PTL DEF Spec

\* The state keeps its shape, and the bucket never overflows (AsyncLimiter).
THEOREM TypeCorrect == Spec => []TypeOK
<1>1. IInv => TypeOK
  <2>1. SUFFICES ASSUME IInv PROVE TypeOK
    OBVIOUS
  <2>2. level \in 0 .. Rate * Window
    BY <2>1, BucketIsNatural DEF IInv, Shape
  <2>3. QED BY <2>1, <2>2 DEF IInv, Shape, CallType, CallsInv, TypeOK, Final, Answers
<1>2. QED BY <1>1, Invariance, PTL

\* A call sends max_retries + 1 attempts at most, and ends with the last one's answer
\* (_do_get).
THEOREM CourseOfACall == Spec => []Verdict
<1>1. ASSUME IInv, NEW c \in Calls
      PROVE  /\ attempts[c] <= MaxRetries + 1
             /\ At(c, "returned") <=> call[c].last = "ok"
             /\ At(c, "raised") => attempts[c] = MaxRetries + 1 \/ call[c].last = "4xx"
             /\ call[c].last = "4xx" => At(c, "raised")
  <2>1. Course(call[c], attempts[c]) /\ attempts[c] \in Nat
    BY <1>1 DEF IInv, Shape, CallsInv
  <2>2. call[c].pc \in {"send", "answer", "sleep", "returned", "raised"}
    BY <1>1 DEF IInv, Shape, CallType
  <2>3. QED BY <2>1, <2>2 DEF Course, At
<1>2. IInv => Verdict
  BY <1>1 DEF Verdict
<1>3. QED BY <1>2, Invariance, PTL

\* Between any two attempts the limiter let through no more than a full bucket and what
\* leaked meanwhile, whatever calls they are of.
THEOREM Leaky == Spec => []LeakyBound
<1>1. IInv => LeakyBound
  BY DEF IInv
<1>2. QED BY <1>1, Invariance, PTL

\* No attempt is sent before the time the last 429 asked for (_backoff, _retry_after).
THEOREM Honoured == Spec => RetryAfterHonoured
<1> DEFINE Waits == \A c \in Calls : attempts'[c] # attempts[c] => now >= notBefore[c]
<1>1. IInv /\ [Next]_vars => [Waits]_vars
  <2>1. SUFFICES ASSUME IInv, Next, NEW c \in Calls, attempts'[c] # attempts[c]
                 PROVE  now >= notBefore[c]
    OBVIOUS
  <2>2. CASE \E d \in Calls : Send(d)
    <3>1. PICK d \in Calls : Send(d)
      BY <2>2
    <3>2. attempts' = [attempts EXCEPT ![d] = IF @ > MaxRetries + 1 THEN @ ELSE @ + 1]
      BY <3>1 DEF Send
    <3>3. c = d
      BY <2>1, <3>2 DEF IInv, Shape
    <3>4. now \in Nat /\ notBefore[c] \in Nat
      BY <2>1 DEF IInv, Shape
    <3>5. QED BY <2>1, <3>1, <3>3, <3>4, SendKeeps
  <2>3. CASE attempts' = attempts
    BY <2>1, <2>3
  <2>4. QED BY <2>1, <2>2, <2>3 DEF Next, Work, Tick, Answer, Wake
<1>2. QED BY <1>1, Invariance, PTL DEF Spec, RetryAfterHonoured

-----------------------------------------------------------------------------
(* Listings.  While rows are only added behind the others, the rows          *)
(* collected are a beginning of the list, and the offset counts them: so     *)
(* every page begins where the last one ended, and the one that comes short  *)
(* ends the list.                                                            *)

Rows == 1 .. MaxRows

\* While pages are asked for: the offset is the number of the rows collected, and they
\* are fewer than the limit.
OffsetInv == pc = "get" => offset = Len(rows) /\ (limit > 0 => Len(rows) < limit)

\* InOrder row by row, on a list that was never shorter than at the call.
PrefixInv ==
    disturbed = "no" =>
        /\ known <= Len(server) /\ Len(rows) <= Len(server)
        /\ \A i \in 1 .. Len(rows) : rows[i] = server[i]

PagesIInv == PagesTypeOK /\ OffsetInv /\ PrefixInv /\ Complete

-----------------------------------------------------------------------------
(* Pieces of sequences.                                                    *)

LEMMA Piece ==
    ASSUME NEW S, NEW s \in Seq(S), NEW m \in Nat \ {0}, NEW n \in Nat, n <= Len(s)
    PROVE  /\ SubSeq(s, m, n) \in Seq(S)
           /\ Len(SubSeq(s, m, n)) = IF m <= n THEN n - m + 1 ELSE 0
           /\ \A i \in 1 .. n - m + 1 : SubSeq(s, m, n)[i] = s[m + i - 1]
<1>1. \A i \in m .. n : s[i] \in S
  BY ElementOfSeq, LenProperties
<1>2. QED BY <1>1, SubSeqProperties

\* Of a row that is made.
LEMMA Inserted ==
    ASSUME NEW S, NEW s \in Seq(S), NEW i \in 1 .. Len(s) + 1, NEW r \in S
    PROVE  /\ InsertAt(s, i, r) \in Seq(S)
           /\ i > Len(s) => /\ Len(InsertAt(s, i, r)) = Len(s) + 1
                            /\ \A j \in 1 .. Len(s) : InsertAt(s, i, r)[j] = s[j]
<1>1. PICK n \in Nat : n = Len(s)
  BY LenProperties
<1>2. PICK a : a = SubSeq(s, 1, i - 1)
  OBVIOUS
<1>3. PICK b : b = SubSeq(s, i, n)
  OBVIOUS
<1>4. PICK o : o = <<r>>
  OBVIOUS
<1>5. PICK c : c = a \o o
  OBVIOUS
<1>6. i \in Nat \ {0} /\ i - 1 \in Nat /\ i - 1 <= n /\ (i - 1) - 1 + 1 = i - 1
  BY <1>1
<1>7. a \in Seq(S) /\ Len(a) = i - 1 /\ \A j \in 1 .. i - 1 : a[j] = s[j]
  <2>1. /\ a \in Seq(S) /\ Len(a) = IF 1 <= i - 1 THEN (i - 1) - 1 + 1 ELSE 0
        /\ \A j \in 1 .. (i - 1) - 1 + 1 : a[j] = s[1 + j - 1]
    BY <1>1, <1>2, <1>6, Piece
  <2>2. \A j \in 1 .. i - 1 : 1 + j - 1 = j
    OBVIOUS
  <2>3. QED BY <1>6, <2>1, <2>2
<1>8. b \in Seq(S) /\ Len(b) = IF i <= n THEN n - i + 1 ELSE 0
  BY <1>1, <1>3, <1>6, Piece
<1>9. o \in Seq(S) /\ Len(o) = 1
  BY <1>4
<1>10. /\ c \in Seq(S) /\ Len(c) = Len(a) + Len(o)
       /\ \A j \in 1 .. Len(a) + Len(o) : c[j] = IF j <= Len(a) THEN a[j] ELSE o[j - Len(a)]
  BY <1>5, <1>7, <1>9, ConcatProperties
<1>11. /\ c \o b \in Seq(S) /\ Len(c \o b) = Len(c) + Len(b)
       /\ \A j \in 1 .. Len(c) + Len(b) : (c \o b)[j] = IF j <= Len(c) THEN c[j] ELSE b[j - Len(c)]
  <2>1. c \in Seq(S) /\ b \in Seq(S)
    BY <1>8, <1>10
  <2>2. QED BY <2>1, ConcatProperties
<1>12. InsertAt(s, i, r) = c \o b
  BY <1>1, <1>2, <1>3, <1>4, <1>5 DEF InsertAt
<1>13. Len(c) = i
  BY <1>6, <1>7, <1>9, <1>10
<1>14. ASSUME i > n, NEW j \in 1 .. n PROVE (c \o b)[j] = s[j]
  <2>1. j \in 1 .. i - 1 /\ j \in 1 .. Len(a) + Len(o) /\ j \in 1 .. Len(c) + Len(b)
        /\ j <= Len(a) /\ j <= Len(c)
    BY <1>1, <1>6, <1>7, <1>8, <1>9, <1>13, <1>14
  <2>2. QED BY <1>7, <1>10, <1>11, <2>1
<1>15. i > n => Len(c \o b) = n + 1
  BY <1>1, <1>8, <1>11, <1>13
<1>16. QED BY <1>1, <1>11, <1>12, <1>14, <1>15

LEMMA Removed ==
    ASSUME NEW S, NEW s \in Seq(S), NEW i \in 1 .. Len(s)
    PROVE  RemoveAt(s, i) \in Seq(S)
<1>1. PICK n \in Nat : n = Len(s)
  BY LenProperties
<1>2. SubSeq(s, 1, i - 1) \in Seq(S) /\ SubSeq(s, i + 1, Len(s)) \in Seq(S)
  BY <1>1, Piece
<1>3. QED BY <1>2, ConcatProperties DEF RemoveAt

\* The page is what the server has behind the offset, and never more than a page.
LEMMA PageFacts ==
    ASSUME PagesTypeOK
    PROVE  /\ Page \in Seq(Rows)
           /\ Len(Page) = IF Len(server) <= offset THEN 0
                          ELSE IF offset + pageSize < Len(server) THEN pageSize
                          ELSE Len(server) - offset
           /\ \A i \in 1 .. Len(Page) : Page[i] = server[offset + i]
<1>1. /\ server \in Seq(Rows) /\ offset \in Nat /\ pageSize \in Nat \ {0}
  BY PagesAssumption DEF PagesTypeOK, Rows
<1>2. PICK n \in Nat : n = Len(server)
  BY <1>1, LenProperties
<1>3. PICK e : e = IF offset + pageSize < n THEN offset + pageSize ELSE n
  OBVIOUS
<1>4. Page = SubSeq(server, offset + 1, e)
  BY <1>2, <1>3 DEF Page
<1>5. e \in Nat /\ e <= n /\ offset + 1 \in Nat \ {0}
  BY <1>1, <1>2, <1>3
<1>6. /\ Page \in Seq(Rows)
      /\ Len(Page) = IF offset + 1 <= e THEN e - (offset + 1) + 1 ELSE 0
      /\ \A i \in 1 .. e - (offset + 1) + 1 : Page[i] = server[offset + 1 + i - 1]
  BY <1>1, <1>2, <1>4, <1>5, Piece
<1>7. /\ Len(Page) \in Nat
      /\ \A i \in 1 .. Len(Page) :
           i \in 1 .. e - (offset + 1) + 1 /\ offset + 1 + i - 1 = offset + i
  BY <1>1, <1>5, <1>6
<1>8. Len(Page) = IF n <= offset THEN 0 ELSE IF offset + pageSize < n THEN pageSize ELSE n - offset
  BY <1>1, <1>3, <1>5, <1>6
<1>9. \A i \in 1 .. Len(Page) : Page[i] = server[offset + i]
  BY <1>6, <1>7
<1>10. QED BY <1>2, <1>6, <1>8, <1>9

-----------------------------------------------------------------------------
(* The steps.                                                              *)

LEMMA PagesInitIInv == PagesInit => PagesIInv
<1>1. SUFFICES ASSUME PagesInit PROVE PagesIInv
  OBVIOUS
<1>2. PICK n \in 0 .. MaxRows : server = [i \in 1 .. n |-> i] /\ fresh = n + 1 /\ known = n
  BY <1>1 DEF PagesInit
<1>3. server \in Seq(1 .. MaxRows) /\ Len(server) = n
  BY <1>2, PagesAssumption
<1>4. pageSize \in 1 .. PageLimit
  BY <1>1, PagesAssumption DEF PagesInit, PageSize
<1>5. rows = <<>> /\ offset = 0 /\ pc = "get" /\ disturbed = "no" /\ limit \in Limits
  BY <1>1 DEF PagesInit
<1>6. PagesTypeOK
  BY <1>2, <1>3, <1>4, <1>5, PagesAssumption DEF PagesTypeOK
<1>7. QED BY <1>2, <1>3, <1>5, <1>6 DEF PagesIInv, OffsetInv, PrefixInv, Complete

LEMMA MakeKeeps == ASSUME PagesIInv, Make PROVE PagesIInv'
<1>1. PICK i \in 1 .. Len(server) + 1 :
        /\ server' = InsertAt(server, i, fresh)
        /\ disturbed' = IF i <= Len(server) THEN "yes" ELSE disturbed
  BY DEF Make
<1>2. /\ fresh \in Rows /\ fresh' = fresh + 1
      /\ limit' = limit /\ pageSize' = pageSize /\ offset' = offset /\ rows' = rows
      /\ pc' = pc /\ known' = known
  BY PagesAssumption DEF Make, PagesIInv, PagesTypeOK, Rows, request
<1>3. server \in Seq(Rows) /\ Len(server) \in Nat
  BY LenProperties DEF PagesIInv, PagesTypeOK, Rows
<1>4. /\ server' \in Seq(Rows)
      /\ i > Len(server) => /\ Len(server') = Len(server) + 1
                            /\ \A j \in 1 .. Len(server) : server'[j] = server[j]
  BY <1>1, <1>2, <1>3, Inserted
<1>5. PagesTypeOK'
  BY <1>1, <1>2, <1>4, PagesAssumption DEF PagesIInv, PagesTypeOK, Rows
<1>6. CASE disturbed' = "yes"
  BY <1>2, <1>5, <1>6 DEF PagesIInv, OffsetInv, PrefixInv, Complete
<1>7. CASE disturbed' # "yes"
  <2>1. i > Len(server) /\ disturbed' = disturbed
    BY <1>1, <1>3, <1>7
  <2>2. PrefixInv'
    <3>1. SUFFICES ASSUME disturbed = "no"
                   PROVE  /\ known <= Len(server') /\ Len(rows) <= Len(server')
                          /\ \A j \in 1 .. Len(rows) : rows[j] = server'[j]
      BY <1>2, <2>1 DEF PrefixInv
    <3>2. /\ known <= Len(server) /\ Len(rows) <= Len(server)
          /\ \A j \in 1 .. Len(rows) : rows[j] = server[j]
      BY <3>1 DEF PagesIInv, PrefixInv
    <3>3. known \in Nat /\ Len(rows) \in Nat
      BY LenProperties DEF PagesIInv, PagesTypeOK
    <3>4. QED BY <1>3, <1>4, <2>1, <3>2, <3>3
  <2>3. QED BY <1>2, <1>5, <2>1, <2>2 DEF PagesIInv, OffsetInv, Complete
<1>8. QED BY <1>6, <1>7

LEMMA RemoveKeeps == ASSUME PagesIInv, Remove PROVE PagesIInv'
<1>1. PICK i \in 1 .. Len(server) : server' = RemoveAt(server, i)
  BY DEF Remove
<1>2. server' \in Seq(1 .. MaxRows)
  BY <1>1, Removed DEF PagesIInv, PagesTypeOK
<1>3. UNCHANGED <<fresh, limit, pageSize, offset, rows, pc, known>> /\ disturbed' = "yes"
  BY DEF Remove, request
<1>4. QED BY <1>2, <1>3 DEF PagesIInv, PagesTypeOK, OffsetInv, PrefixInv, Complete

LEMMA FailKeeps == ASSUME PagesIInv, Fail PROVE PagesIInv'
BY DEF Fail, PagesIInv, PagesTypeOK, OffsetInv, PrefixInv, Complete

LEMMA GetKeeps == ASSUME PagesIInv, Get PROVE PagesIInv'
<1>1. PICK page \in Seq(Rows) : page = Page
  BY PageFacts DEF PagesIInv
<1>2. PICK got : got = rows \o page
  OBVIOUS
<1>3. PICK size \in {0, Len(server)} :
        IF Short(page)
        THEN rows' = got /\ pc' = "done" /\ UNCHANGED offset
        ELSE IF Reached(got)
        THEN rows' = SubSeq(got, 1, limit) /\ pc' = "done" /\ UNCHANGED offset
        ELSE /\ rows' = got
             /\ offset' = NextOffset
             /\ pc' = IF size > 0 /\ offset' >= size THEN "done" ELSE "get"
  BY <1>1, <1>2 DEF Get
<1>4. pc = "get" /\ UNCHANGED <<server, fresh, limit, pageSize, known, disturbed>>
  BY DEF Get
<1>5. /\ server \in Seq(Rows) /\ rows \in Seq(Rows) /\ offset = Len(rows)
      /\ pageSize \in Nat \ {0} /\ limit \in Nat /\ known \in Nat
  BY <1>4, PagesAssumption DEF PagesIInv, PagesTypeOK, OffsetInv, Rows
<1>6. PICK n \in Nat : n = Len(server)
  BY <1>5, LenProperties
<1>7. PICK m \in Nat : m = Len(rows)
  BY <1>5, LenProperties
<1>8. PICK k \in Nat :
        /\ k = Len(page)
        /\ k = IF n <= m THEN 0 ELSE IF m + pageSize < n THEN pageSize ELSE n - m
        /\ \A i \in 1 .. k : page[i] = server[m + i]
  BY <1>1, <1>5, <1>6, <1>7, PageFacts DEF PagesIInv
<1>9. /\ got \in Seq(Rows) /\ Len(got) = m + k
      /\ \A i \in 1 .. m + k : got[i] = IF i <= m THEN rows[i] ELSE page[i - m]
  <2>1. rows \in Seq(Rows) /\ page \in Seq(Rows)
    BY <1>1, <1>5
  <2>2. /\ rows \o page \in Seq(Rows) /\ Len(rows \o page) = Len(rows) + Len(page)
        /\ \A i \in 1 .. Len(rows) + Len(page) : (rows \o page)[i] =
             IF i <= Len(rows) THEN rows[i] ELSE page[i - Len(rows)]
    BY <2>1, ConcatProperties
  <2>3. QED BY <1>2, <1>7, <1>8, <2>2
\* While nothing was disturbed, what is collected now is a beginning of the list.
<1>10. ASSUME disturbed = "no"
       PROVE  /\ known <= n /\ m <= n /\ m + k <= n
              /\ \A i \in 1 .. m + k : got[i] = server[i]
  <2>1. known <= n /\ m <= n /\ \A i \in 1 .. m : rows[i] = server[i]
    BY <1>6, <1>7, <1>10 DEF PagesIInv, PrefixInv
  <2>2. m + k <= n
    BY <1>5, <1>8, <2>1
  <2>3. ASSUME NEW i \in 1 .. m + k PROVE got[i] = server[i]
    <3>1. CASE i <= m
      <4>1. got[i] = rows[i]
        BY <1>9, <3>1
      <4>2. i \in 1 .. m
        BY <3>1
      <4>3. rows[i] = server[i]
        BY <2>1, <4>2
      <4>4. QED BY <4>1, <4>3
    <3>2. CASE i > m
      <4>1. i - m \in 1 .. k /\ m + (i - m) = i
        BY <3>2
      <4>2. got[i] = page[i - m]
        BY <1>9, <3>2
      <4>3. page[i - m] = server[m + (i - m)]
        BY <1>8, <4>1
      <4>4. QED BY <4>1, <4>2, <4>3
    <3>3. QED BY <3>1, <3>2
  <2>4. QED BY <2>1, <2>2, <2>3
<1>11. CASE Short(page)
  <2>1. rows' = got /\ pc' = "done" /\ offset' = offset /\ k < pageSize
    BY <1>3, <1>8, <1>11 DEF Short
  <2>2. PagesTypeOK'
    BY <1>4, <1>5, <1>7, <1>9, <2>1 DEF PagesIInv, PagesTypeOK, Rows
  <2>3. PrefixInv'
    BY <1>4, <1>6, <1>9, <1>10, <2>1 DEF PrefixInv
  <2>4. Complete'
    <3>1. SUFFICES ASSUME disturbed = "no" PROVE m + k >= known
      BY <1>4, <1>5, <1>9, <2>1 DEF Complete
    <3>2. m + k = n
      BY <1>5, <1>8, <1>10, <2>1, <3>1
    <3>3. QED BY <1>10, <3>1, <3>2
  <2>5. QED BY <2>1, <2>2, <2>3, <2>4 DEF PagesIInv, OffsetInv
<1>12. CASE ~ Short(page) /\ Reached(got)
  <2>1. /\ rows' = SubSeq(got, 1, limit) /\ pc' = "done" /\ offset' = offset
        /\ limit > 0 /\ limit <= m + k /\ k >= pageSize
    BY <1>3, <1>5, <1>8, <1>9, <1>12 DEF Short, Reached
  <2>2. /\ rows' \in Seq(Rows) /\ Len(rows') = limit
        /\ \A i \in 1 .. limit : rows'[i] = got[i]
    BY <1>5, <1>9, <2>1, Piece
  <2>3. m < limit
    BY <1>4, <1>7, <2>1 DEF PagesIInv, OffsetInv
  <2>4. PagesTypeOK'
    <3>1. offset' \in 0 .. Len(rows')
      BY <1>5, <1>7, <2>1, <2>2, <2>3
    <3>2. QED BY <1>4, <2>1, <2>2, <3>1 DEF PagesIInv, PagesTypeOK, Rows
  <2>5. PrefixInv'
    <3>1. SUFFICES ASSUME disturbed = "no"
                   PROVE  known <= n /\ limit <= n /\ \A i \in 1 .. limit : rows'[i] = server[i]
      BY <1>4, <1>6, <2>2 DEF PrefixInv
    <3>2. \A i \in 1 .. limit : i \in 1 .. m + k
      BY <1>5, <2>1
    <3>3. QED BY <1>5, <1>10, <2>1, <2>2, <3>1, <3>2
  <2>6. Complete'
    BY <1>4, <1>5, <2>1, <2>2 DEF Complete
  <2>7. QED BY <2>1, <2>4, <2>5, <2>6 DEF PagesIInv, OffsetInv
<1>13. CASE ~ Short(page) /\ ~ Reached(got)
  <2>1. /\ rows' = got /\ offset' = m + pageSize /\ k = pageSize
        /\ pc' = IF size > 0 /\ offset' >= size THEN "done" ELSE "get"
    <3>1. /\ rows' = got /\ offset' = NextOffset
          /\ pc' = IF size > 0 /\ offset' >= size THEN "done" ELSE "get"
      BY <1>3, <1>13
    <3>2. NextOffset = m + pageSize
      BY <1>5, <1>7 DEF NextOffset
    <3>3. ~ (k < pageSize)
      BY <1>8, <1>13 DEF Short
    <3>4. QED BY <1>5, <1>8, <3>1, <3>2, <3>3
  <2>2. PagesTypeOK'
    BY <1>4, <1>5, <1>7, <1>9, <2>1 DEF PagesIInv, PagesTypeOK, Rows
  <2>3. PrefixInv'
    BY <1>4, <1>6, <1>9, <1>10, <2>1 DEF PrefixInv
  <2>4. Complete'
    <3>1. SUFFICES ASSUME disturbed = "no", size > 0, m + pageSize >= size PROVE m + k >= known
      BY <1>4, <1>5, <1>9, <2>1 DEF Complete
    <3>2. size = n
      BY <1>3, <1>6, <3>1
    <3>3. QED BY <1>5, <1>10, <2>1, <3>1, <3>2
  <2>5. OffsetInv'
    <3>1. limit > 0 => m + k < limit
      BY <1>5, <1>9, <1>13 DEF Reached
    <3>2. QED BY <1>4, <1>9, <2>1, <3>1 DEF OffsetInv
  <2>6. QED BY <2>2, <2>3, <2>4, <2>5 DEF PagesIInv
<1>14. QED BY <1>11, <1>12, <1>13

LEMMA PagesNextIInv == PagesIInv /\ [PagesNext]_pagesVars => PagesIInv'
<1>1. SUFFICES ASSUME PagesIInv, [PagesNext]_pagesVars PROVE PagesIInv'
  OBVIOUS
<1>2. CASE UNCHANGED pagesVars
  BY <1>1, <1>2 DEF pagesVars, PagesIInv, PagesTypeOK, OffsetInv, PrefixInv, Complete
<1>3. QED
  BY <1>1, <1>2, MakeKeeps, RemoveKeeps, GetKeeps, FailKeeps DEF PagesNext

-----------------------------------------------------------------------------
(* The theorems.                                                           *)

\* What is collected is a beginning of an undisturbed list, and the offset counts it.
THEOREM PagesInvariance == PagesSpec => []PagesIInv
<1>1. QED BY PagesInitIInv, PagesNextIInv, PTL DEF PagesSpec

\* The state keeps its shape, and the offset stays within the rows collected.
THEOREM PagesTypeCorrect == PagesSpec => []PagesTypeOK
<1>1. PagesIInv => PagesTypeOK
  BY DEF PagesIInv
<1>2. QED BY <1>1, PagesInvariance, PTL

\* Of an undisturbed list a call has a beginning, each row once and in order (_paginate).
THEOREM Ordered == PagesSpec => []InOrder
<1>1. ASSUME PagesIInv, disturbed = "no"
      PROVE  Len(rows) <= Len(server) /\ rows = SubSeq(server, 1, Len(rows))
  <2>1. /\ Len(rows) <= Len(server)
        /\ \A i \in 1 .. Len(rows) : rows[i] = server[i]
    BY <1>1 DEF PagesIInv, PrefixInv
  <2>2. server \in Seq(Rows) /\ rows \in Seq(Rows)
    BY <1>1 DEF PagesIInv, PagesTypeOK, Rows
  <2>3. PICK m \in Nat : m = Len(rows)
    BY <2>2, LenProperties
  <2>4. PICK s \in Seq(Rows) : /\ s = SubSeq(server, 1, m) /\ Len(s) = m
                               /\ \A i \in 1 .. m : s[i] = server[i]
    BY <2>1, <2>2, <2>3, Piece
  <2>5. rows = s
    BY <2>1, <2>2, <2>3, <2>4, SeqEqual
  <2>6. QED BY <2>1, <2>3, <2>4, <2>5
<1>2. PagesIInv => InOrder
  BY <1>1 DEF InOrder
<1>3. QED BY <1>2, PagesInvariance, PTL

\* A call that is over has all that was asked for and was there (_paginate).
THEOREM Whole == PagesSpec => []Complete
<1>1. PagesIInv => Complete
  BY DEF PagesIInv
<1>2. QED BY <1>1, PagesInvariance, PTL

=============================================================================
