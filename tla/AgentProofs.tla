---------------------------- MODULE AgentProofs ----------------------------
(***************************************************************************)
(* Proofs about the agent: Dialog, for every budget, number of messages    *)
(* kept, limit of the scan, and number of overlapping turns, and Limiter,  *)
(* for every rate and whatever the clock shows.                            *)
(***************************************************************************)
EXTENDS Dialog, Limiter, FiniteSetTheorems, SequenceTheorems, WellFoundedInduction, TLAPS

-----------------------------------------------------------------------------
(* Turns.  A turn works with what it read some steps ago, while other turns  *)
(* append rows and put summaries.  The argument is that ids only grow: what  *)
(* a turn knows of the rows up to an id stays true (RowsGrow), and whether   *)
(* its summary is exact does not depend on the summaries of the others.      *)

USE SizesAssumption

-----------------------------------------------------------------------------
(* The first and the last of a finite set of ids.                          *)

\* Least elements, which stand in for induction on ids.
LEMMA Minimum ==
    ASSUME NEW S \in SUBSET Nat, S # {}
    PROVE  \E m \in S : \A i \in S : m <= i
<1>1. PICK m \in S : \A i \in S : ~ (<<i, m>> \in OpToRel(<, Nat))
  BY NatLessThanWellFounded, WFMin
<1>2. \A i \in S : ~ (i < m)
  BY <1>1 DEF OpToRel
<1>3. QED BY <1>2

LEMMA Maximum ==
    ASSUME NEW n \in Nat, NEW S \in SUBSET (0 .. n), S # {}
    PROVE  \E m \in S : \A i \in S : i <= m
<1> DEFINE T == {n - i : i \in S}
<1>1. T \in SUBSET Nat /\ T # {}
  <2>1. \A i \in S : n - i \in Nat
    OBVIOUS
  <2>2. PICK i \in S : TRUE
    OBVIOUS
  <2>3. n - i \in T
    BY <2>2
  <2>4. QED BY <2>1, <2>3
<1>2. PICK k \in T : \A i \in T : k <= i
  <2> HIDE DEF T
  <2> QED BY <1>1, Minimum
<1>3. PICK m \in S : k = n - m
  BY <1>2
<1>4. \A i \in S : n - i \in T
  BY Zenon
<1>5. \A i \in S : n - m <= n - i
  <2> HIDE DEF T
  <2> QED BY <1>2, <1>3, <1>4
<1>6. \A i \in S : i \in Int
  OBVIOUS
<1>7. \A i \in S : i <= m
  <2> HIDE DEF T
  <2> QED BY <1>5, <1>6
<1>8. QED BY <1>7

\* The ids of a set are finitely many, and so are those that a condition picks.
LEMMA Finite ==
    ASSUME NEW n \in Nat, NEW S \in SUBSET (0 .. n)
    PROVE  IsFiniteSet(S) /\ Cardinality(S) \in Nat
<1>1. IsFiniteSet(0 .. n)
  BY FS_Interval
<1>2. IsFiniteSet(S)
  BY <1>1, FS_Subset
<1>3. QED BY <1>2, FS_CardinalityType

LEMMA Smaller ==
    ASSUME NEW n \in Nat, NEW S \in SUBSET (0 .. n), NEW T \in SUBSET S
    PROVE  Cardinality(T) <= Cardinality(S) /\ Cardinality(T) \in Nat /\ Cardinality(S) \in Nat
<1>1. IsFiniteSet(S) /\ T \in SUBSET (0 .. n)
  BY Finite
<1>2. QED BY <1>1, Finite, FS_Subset

\* With an id are the ids before it among the first, those behind it among the last.
LEMMA FirstIsBeginning ==
    ASSUME NEW n \in Nat, NEW S \in SUBSET (0 .. n), NEW k \in Nat,
           NEW i \in First(S, k), NEW j \in S, j <= i
    PROVE  j \in First(S, k)
<1> DEFINE Below(x) == {y \in S : y <= x}
<1> i \in S
  BY DEF First
<1>1. Below(j) \subseteq Below(i) /\ Below(i) \in SUBSET (0 .. n)
  <2>1. \A y \in S : y \in Int
    OBVIOUS
  <2>2. \A y \in S : y <= j => y <= i
    BY <2>1
  <2>3. QED BY <2>2, Zenon
<1>2. Cardinality(Below(j)) <= Cardinality(Below(i)) /\ Cardinality(Below(j)) \in Nat
      /\ Cardinality(Below(i)) \in Nat
  <2> HIDE DEF Below
  <2> QED BY <1>1, Smaller
<1>3. QED BY <1>2 DEF First

LEMMA LastIsEnd ==
    ASSUME NEW n \in Nat, NEW S \in SUBSET (0 .. n), NEW k \in Nat,
           NEW i \in Last(S, k), NEW j \in S, i <= j
    PROVE  j \in Last(S, k)
<1> DEFINE Above(x) == {y \in S : y >= x}
<1> i \in S
  BY DEF Last
<1>1. Above(j) \subseteq Above(i) /\ Above(i) \in SUBSET (0 .. n)
  <2>1. \A y \in S : y \in Int
    OBVIOUS
  <2>2. \A y \in S : y >= j => y >= i
    BY <2>1
  <2>3. QED BY <2>2, Zenon
<1>2. Cardinality(Above(j)) <= Cardinality(Above(i)) /\ Cardinality(Above(j)) \in Nat
      /\ Cardinality(Above(i)) \in Nat
  <2> HIDE DEF Above
  <2> QED BY <1>1, Smaller
<1>3. QED BY <1>2 DEF Last

\* Fewer than were asked for are all there are.
LEMMA FirstFewIsAll ==
    ASSUME NEW n \in Nat, NEW S \in SUBSET (0 .. n), NEW k \in Nat,
           Cardinality(First(S, k)) < k
    PROVE  First(S, k) = S
<1> DEFINE F == First(S, k)
<1>1. F \subseteq S
  BY DEF First
<1>2. SUFFICES ASSUME S \ F # {} PROVE FALSE
  BY <1>1
<1>3. PICK m \in S \ F : \A i \in S \ F : m <= i
  <2>1. S \ F \in SUBSET Nat
    <3>1. S \in SUBSET Nat
      OBVIOUS
    <3>2. QED BY <3>1, Zenon
  <2> HIDE DEF F
  <2> QED BY <2>1, <1>2, Minimum
<1> DEFINE B == {y \in S : y <= m}
<1>4. B \subseteq F \cup {m}
  <2>1. \A y \in S : y \in Int
    OBVIOUS
  <2>2. \A y \in S \ F : y <= m => y = m
    <3> HIDE DEF F
    <3> QED BY <1>3, <2>1
  <2>3. QED BY <2>2, Zenon
<1>5. IsFiniteSet(F) /\ Cardinality(F) \in Nat /\ F \in SUBSET (0 .. n)
  BY Finite, <1>1
<1>6. IsFiniteSet(F \cup {m}) /\ Cardinality(F \cup {m}) = Cardinality(F) + 1
  <2> HIDE DEF F
  <2> QED BY <1>3, <1>5, FS_AddElement
<1>7. Cardinality(B) <= Cardinality(F) + 1 /\ Cardinality(B) \in Nat
  <2>1. F \cup {m} \in SUBSET (0 .. n)
    BY <1>3, <1>5
  <2> HIDE DEF B, F
  <2> QED BY <2>1, <1>4, <1>6, Smaller
<1>8. Cardinality(B) <= k
  BY <1>5, <1>7
<1>9. QED BY <1>3, <1>8 DEF First

LEMMA LastFewIsAll ==
    ASSUME NEW n \in Nat, NEW S \in SUBSET (0 .. n), NEW k \in Nat,
           Cardinality(Last(S, k)) < k
    PROVE  Last(S, k) = S
<1> DEFINE L == Last(S, k)
<1>1. L \subseteq S
  BY DEF Last
<1>2. SUFFICES ASSUME S \ L # {} PROVE FALSE
  BY <1>1
<1>3. PICK m \in S \ L : \A i \in S \ L : i <= m
  <2>1. S \ L \in SUBSET (0 .. n)
    OBVIOUS
  <2> HIDE DEF L
  <2> QED BY <2>1, <1>2, Maximum
<1> DEFINE A == {y \in S : y >= m}
<1>4. A \subseteq L \cup {m}
  <2>1. \A y \in S : y \in Int
    OBVIOUS
  <2>2. \A y \in S \ L : y >= m => y = m
    <3> HIDE DEF L
    <3> QED BY <1>3, <2>1
  <2>3. QED BY <2>2, Zenon
<1>5. IsFiniteSet(L) /\ Cardinality(L) \in Nat /\ L \in SUBSET (0 .. n)
  BY Finite, <1>1
<1>6. IsFiniteSet(L \cup {m}) /\ Cardinality(L \cup {m}) = Cardinality(L) + 1
  <2> HIDE DEF L
  <2> QED BY <1>3, <1>5, FS_AddElement
<1>7. Cardinality(A) <= Cardinality(L) + 1 /\ Cardinality(A) \in Nat
  <2>1. L \cup {m} \in SUBSET (0 .. n)
    BY <1>3, <1>5
  <2> HIDE DEF A, L
  <2> QED BY <2>1, <1>4, <1>6, Smaller
<1>8. Cardinality(A) <= k
  BY <1>5, <1>7
<1>9. QED BY <1>3, <1>8 DEF Last

\* More than are asked for leave some over, and as many as were asked for.
LEMMA LastLeavesSome ==
    ASSUME NEW n \in Nat, NEW S \in SUBSET (0 .. n), NEW k \in Nat, k < Cardinality(S)
    PROVE  S \ Last(S, k) # {} /\ k <= Cardinality(Last(S, k))
<1>1. S # {}
  BY FS_EmptySet
<1>2. PICK m \in S : \A i \in S : m <= i
  BY <1>1, Minimum
<1>3. {y \in S : y >= m} = S
  BY <1>2
<1>4. m \notin Last(S, k)
  <2>1. Cardinality(S) \in Nat
    BY Finite
  <2>2. QED BY <1>3, <2>1 DEF Last
<1>5. Cardinality(Last(S, k)) \in Nat
  <2>1. Last(S, k) \in SUBSET (0 .. n)
    BY DEF Last
  <2>2. QED BY <2>1, Finite
<1>6. Cardinality(Last(S, k)) < k => Last(S, k) = S
  BY LastFewIsAll
<1>7. QED BY <1>2, <1>4, <1>5, <1>6

\* The last of a set are the last of its end, if that is long enough.
LEMMA LastOfEnd ==
    ASSUME NEW n \in Nat, NEW A \in SUBSET (0 .. n), NEW B \in SUBSET (0 .. n), NEW k \in Nat,
           \A i \in A, j \in B : i < j,
           A = {} \/ k <= Cardinality(B)
    PROVE  Last(A \cup B, k) \subseteq Last(B, k)
<1> SUFFICES ASSUME NEW x \in Last(A \cup B, k) PROVE x \in Last(B, k)
  OBVIOUS
<1> DEFINE U(y) == {j \in A \cup B : j >= y}
<1>1. x \in A \cup B /\ Cardinality(U(x)) <= k /\ U(x) \in SUBSET (0 .. n)
  BY DEF Last
<1>2. CASE x \in B
  <2>1. \A j \in A : ~ (j >= x)
    <3>1. \A j \in A : j < x /\ j \in Int /\ x \in Int
      BY <1>2
    <3>2. QED BY <3>1
  <2>2. U(x) = {j \in B : j >= x}
    BY <2>1
  <2>3. QED BY <1>1, <1>2, <2>2 DEF Last
<1>3. CASE x \in A
  <2>1. B \cup {x} \subseteq U(x) /\ x \notin B
    BY <1>3
  <2>2. IsFiniteSet(B) /\ Cardinality(B) \in Nat
    BY Finite
  <2>3. Cardinality(B \cup {x}) = Cardinality(B) + 1
    BY <2>1, <2>2, FS_AddElement
  <2>4. Cardinality(B \cup {x}) <= Cardinality(U(x)) /\ Cardinality(U(x)) \in Nat
    <3> HIDE DEF U
    <3> QED BY <1>1, <2>1, Smaller
  <2>5. QED BY <1>1, <1>3, <2>2, <2>3, <2>4
<1>4. QED BY <1>1, <1>2, <1>3

-----------------------------------------------------------------------------
(* The invariant.  What a turn holds is judged against the rows R there are *)
(* now, which may be more than it saw.                                     *)

Row == [role : Roles, sess : Nat]

\* Said and Known of Dialog, of rows R.
Messages(R, after) == {i \in 1 .. Len(R) : i > after /\ R[i].role # "reset"}
Between(R, after, upto) == {i \in Messages(R, after) : i <= upto}

\* A turn over n rows.
Turns(n) == [pc : Steps, epoch : 0 .. n, cover : SUBSET (1 .. n), upto : 0 .. n,
             tail : SUBSET (1 .. n), hist : SUBSET (1 .. n), top : 0 .. n,
             whole : {"yes", "no"}]

\* Summary and watermark, once read: the watermark is not below the epoch, and a
\* summary that says anything leaves KeepRecent messages behind it.
Exact(R, t) ==
    /\ t.epoch <= t.upto
    /\ t.cover = Between(R, t.epoch, t.upto)
    /\ t.cover # {} => KeepRecent <= Cardinality(Messages(R, t.upto))

\* The tail of a turn that is to fold: the oldest messages after the watermark,
\* all of them that there were unless the scan was cut off.
Cut(R, t) ==
    /\ t.upto <= t.top
    /\ t.tail \subseteq Messages(R, t.upto)
    /\ \A i \in t.tail, j \in Messages(R, t.upto) : j <= i => j \in t.tail
    /\ t.hist = Kept(t.tail)
    /\ KeepRecent < Cardinality(t.tail)
    /\ Cardinality(t.tail) < ScanLimit => t.tail = Between(R, t.upto, t.top)

\* What is about to be stored is exact up to the watermark it is stored with.
Covered(R, t) ==
    /\ Foldable(t) # {}
    /\ t.cover = Between(R, t.epoch, Watermark(t))
    /\ KeepRecent <= Cardinality(Messages(R, Watermark(t)))

\* What is put before the model.
Ready(b, R, t) ==
    /\ \A i \in Context(t) : i > t.epoch
    /\ b >= 0 /\ Cardinality(t.tail) < ScanLimit =>
         /\ Last(Between(R, t.epoch, t.top), KeepRecent) \subseteq t.hist
         /\ t.whole = "yes" => /\ Context(t) = Between(R, t.epoch, t.top)
                               /\ t.cover \cap t.hist = {}

Good(b, R, t) ==
    /\ t.pc = "recent" => b < 0 /\ t.cover = {}
    /\ t.pc = "tail" => Exact(R, t)
    /\ t.pc = "fold" => Exact(R, t) /\ Cut(R, t)
    /\ t.pc = "put" => Covered(R, t) /\ Ready(b, R, t)
    /\ t.pc = "run" => Ready(b, R, t)

TurnsInv == \A s \in Slots : Good(budget, rows, turn[s])

\* A stored summary as a turn will find it.
SummariesInv ==
    \A e \in DOMAIN summaries :
        /\ summaries[e].cover = Between(rows, e, summaries[e].upto)
        /\ KeepRecent <= Cardinality(Messages(rows, summaries[e].upto))

IInv == TypeOK /\ SummariesInv /\ TurnsInv

-----------------------------------------------------------------------------
(* What a turn knows stays true while rows are added.                      *)

LEMMA MessagesAreIds ==
    ASSUME NEW R \in Seq(Row), NEW u
    PROVE  /\ Len(R) \in Nat
           /\ Messages(R, u) \in SUBSET (1 .. Len(R)) /\ Messages(R, u) \in SUBSET (0 .. Len(R))
           /\ IsFiniteSet(Messages(R, u)) /\ Cardinality(Messages(R, u)) \in Nat
<1>1. /\ Len(R) \in Nat
      /\ Messages(R, u) \in SUBSET (1 .. Len(R)) /\ Messages(R, u) \in SUBSET (0 .. Len(R))
  BY DEF Messages
<1>2. QED BY <1>1, Finite

LEMMA RowsGrow ==
    ASSUME NEW R \in Seq(Row), NEW Q \in Seq(Row), Len(R) <= Len(Q),
           \A i \in 1 .. Len(R) : Q[i] = R[i],
           NEW u \in Nat
    PROVE  /\ Messages(R, u) \subseteq Messages(Q, u)
           /\ \A j \in Messages(Q, u) : j <= Len(R) => j \in Messages(R, u)
           /\ \A n \in 0 .. Len(R) : Between(Q, u, n) = Between(R, u, n)
           /\ Cardinality(Messages(R, u)) <= Cardinality(Messages(Q, u))
           /\ Cardinality(Messages(R, u)) \in Nat /\ Cardinality(Messages(Q, u)) \in Nat
<1>1. Messages(R, u) \subseteq Messages(Q, u)
  BY DEF Messages
<1>2. \A j \in Messages(Q, u) : j <= Len(R) => j \in Messages(R, u)
  BY DEF Messages
<1>3. ASSUME NEW n \in 0 .. Len(R)
      PROVE  Between(Q, u, n) = Between(R, u, n)
  <2>1. \A j \in Messages(Q, u) : j <= n => j \in Messages(R, u)
    BY <1>2, MessagesAreIds
  <2>2. QED BY <1>1, <2>1 DEF Between
<1>4. QED BY <1>1, <1>2, <1>3, MessagesAreIds, Smaller

LEMMA WatermarkIsLast ==
    ASSUME NEW n \in Nat, NEW t \in Turns(n), Foldable(t) # {}
    PROVE  Watermark(t) \in Foldable(t) /\ \A j \in Foldable(t) : j <= Watermark(t)
<1>1. Foldable(t) \in SUBSET (0 .. n)
  BY DEF Foldable, Turns
<1>2. \E m \in Foldable(t) : \A i \in Foldable(t) : i <= m
  BY <1>1, Maximum
<1>3. QED BY <1>2 DEF Watermark

LEMMA GoodStays ==
    ASSUME NEW R \in Seq(Row), NEW Q \in Seq(Row), Len(R) <= Len(Q),
           \A i \in 1 .. Len(R) : Q[i] = R[i],
           NEW b \in Int, NEW t \in Turns(Len(R)), Good(b, R, t)
    PROVE  Good(b, Q, t)
<1>1. t.epoch \in 0 .. Len(R) /\ t.upto \in 0 .. Len(R) /\ t.top \in 0 .. Len(R)
      /\ t.tail \subseteq 1 .. Len(R)
  BY DEF Turns
<1>2. Len(R) \in Nat /\ t.epoch \in Nat /\ t.upto \in Nat
  BY <1>1
<1>3. ASSUME NEW u \in Nat
      PROVE  /\ Messages(R, u) \subseteq Messages(Q, u)
             /\ \A k \in Messages(Q, u) : k <= Len(R) => k \in Messages(R, u)
             /\ \A n \in 0 .. Len(R) : Between(Q, u, n) = Between(R, u, n)
             /\ Cardinality(Messages(R, u)) <= Cardinality(Messages(Q, u))
             /\ Cardinality(Messages(R, u)) \in Nat /\ Cardinality(Messages(Q, u)) \in Nat
  BY RowsGrow
<1>4. Exact(R, t) => Exact(Q, t)
  <2>1. Between(Q, t.epoch, t.upto) = Between(R, t.epoch, t.upto)
    BY <1>1, <1>2, <1>3
  <2>2. /\ Cardinality(Messages(R, t.upto)) <= Cardinality(Messages(Q, t.upto))
        /\ Cardinality(Messages(R, t.upto)) \in Nat /\ Cardinality(Messages(Q, t.upto)) \in Nat
    BY <1>2, <1>3
  <2>3. QED BY <2>1, <2>2 DEF Exact
<1>5. Cut(R, t) => Cut(Q, t)
  <2>1. SUFFICES ASSUME Cut(R, t) PROVE Cut(Q, t)
    OBVIOUS
  <2>2. ASSUME NEW i \in t.tail, NEW j \in Messages(Q, t.upto), j <= i
        PROVE  j \in t.tail
    <3>1. j <= Len(R)
      BY <1>1, <1>2, <2>2, MessagesAreIds
    <3>2. j \in Messages(R, t.upto)
      BY <1>2, <3>1, <1>3
    <3>3. QED BY <2>1, <2>2, <3>2 DEF Cut
  <2>3. t.tail \subseteq Messages(Q, t.upto)
    BY <1>2, <2>1, <1>3 DEF Cut
  <2>4. Between(Q, t.upto, t.top) = Between(R, t.upto, t.top)
    BY <1>1, <1>2, <1>3
  <2>5. QED BY <2>1, <2>2, <2>3, <2>4 DEF Cut
<1>6. Covered(R, t) => Covered(Q, t)
  <2>1. SUFFICES ASSUME Covered(R, t) PROVE Covered(Q, t)
    OBVIOUS
  <2>2. Watermark(t) \in t.tail
    BY <1>2, <2>1, WatermarkIsLast DEF Covered, Foldable
  <2>3. Watermark(t) \in 0 .. Len(R) /\ Watermark(t) \in Nat
    BY <1>1, <2>2
  <2>4. Between(Q, t.epoch, Watermark(t)) = Between(R, t.epoch, Watermark(t))
    BY <1>2, <2>3, <1>3
  <2>5. /\ Cardinality(Messages(R, Watermark(t))) <= Cardinality(Messages(Q, Watermark(t)))
        /\ Cardinality(Messages(R, Watermark(t))) \in Nat
        /\ Cardinality(Messages(Q, Watermark(t))) \in Nat
    BY <2>3, <1>3
  <2>6. QED BY <2>1, <2>4, <2>5 DEF Covered
<1>7. Ready(b, R, t) => Ready(b, Q, t)
  <2>1. Between(Q, t.epoch, t.top) = Between(R, t.epoch, t.top)
    BY <1>1, <1>2, <1>3
  <2>2. QED BY <2>1 DEF Ready
<1>8. QED BY <1>4, <1>5, <1>6, <1>7 DEF Good

-----------------------------------------------------------------------------
(* The steps that decide what is put before the model.                     *)

\* The tail fits, and is the history.
LEMMA TailOfFew ==
    ASSUME NEW R \in Seq(Row), NEW b \in Int, NEW t \in Turns(Len(R)), Exact(R, t),
           NEW u \in Turns(Len(R)),
           u.epoch = t.epoch, u.cover = t.cover, u.upto = t.upto,
           u.tail = First(Messages(R, t.upto), ScanLimit), u.hist = u.tail, u.top = Len(R)
    PROVE  Ready(b, R, u)
<1> DEFINE C == u.cover
           M == Messages(R, u.upto)
<1>1. u.epoch \in Nat /\ u.upto \in Nat /\ Len(R) \in Nat /\ u.epoch <= u.upto
  BY DEF Turns, Exact
<1>2. C = Between(R, u.epoch, u.upto)
  BY DEF Exact
<1>3. u.tail \subseteq M
  BY DEF First
<1>4. \A i \in Context(u) : i > u.epoch
  BY <1>1, <1>2, <1>3 DEF Context, Messages, Between
<1>5. ASSUME Cardinality(u.tail) < ScanLimit
      PROVE  /\ Last(Between(R, u.epoch, u.top), KeepRecent) \subseteq u.hist
             /\ Context(u) = Between(R, u.epoch, u.top)
             /\ u.cover \cap u.hist = {}
  <2>1. M \in SUBSET (0 .. Len(R)) /\ C \in SUBSET (0 .. Len(R))
    BY <1>2, MessagesAreIds DEF Between
  <2>2. u.tail = M
    <3> HIDE DEF M
    <3> QED BY <1>1, <1>5, <2>1, FirstFewIsAll DEF M
  <2>3. \A i \in C, j \in M : i < j
    BY <1>1, <1>2 DEF Messages, Between
  <2>4. C \cup M = Between(R, u.epoch, u.top)
    BY <1>1, <1>2 DEF Messages, Between
  <2>5. C = {} \/ KeepRecent <= Cardinality(M)
    BY DEF Exact
  <2>6. Last(C \cup M, KeepRecent) \subseteq Last(M, KeepRecent)
    <3> HIDE DEF C, M
    <3> QED BY <1>1, <2>1, <2>3, <2>5, LastOfEnd
  <2>7. Last(M, KeepRecent) \subseteq M
    BY DEF Last
  <2>8. C \cap M = {}
    BY <1>1, <2>1, <2>3
  <2>9. QED BY <2>2, <2>4, <2>6, <2>7, <2>8 DEF Context
<1>6. QED BY <1>4, <1>5 DEF Ready

\* A tail that is cut in two: the summary so far is of older messages, and with a
\* whole scan summary and tail are all there is.
LEMMA CutInTwo ==
    ASSUME NEW R \in Seq(Row), NEW t \in Turns(Len(R)), Exact(R, t), Cut(R, t)
    PROVE  /\ Len(R) \in Nat /\ t.epoch \in Nat /\ t.upto \in Nat /\ t.epoch <= t.upto
           /\ t.tail \in SUBSET (0 .. Len(R)) /\ t.hist \subseteq t.tail
           /\ \A i \in t.cover, j \in t.tail : i < j
           /\ \A i \in t.cover \cup t.tail : i > t.epoch
           /\ Cardinality(t.tail) < ScanLimit =>
                /\ t.cover \cup t.tail = Between(R, t.epoch, t.top)
                /\ Last(Between(R, t.epoch, t.top), KeepRecent) \subseteq t.hist
<1>1. /\ Len(R) \in Nat /\ t.epoch \in Nat /\ t.upto \in Nat /\ t.epoch <= t.upto
      /\ t.top \in Nat
  BY DEF Turns, Exact
<1>2. t.tail \in SUBSET (0 .. Len(R)) /\ t.cover \in SUBSET (0 .. Len(R))
  BY DEF Turns
<1>3. t.hist \subseteq t.tail
  BY DEF Cut, Kept, Last
<1>4. t.cover = Between(R, t.epoch, t.upto) /\ t.tail \subseteq Messages(R, t.upto)
  BY DEF Exact, Cut
<1>5. /\ \A i \in t.cover, j \in t.tail : i < j
      /\ \A i \in t.cover \cup t.tail : i > t.epoch
  BY <1>1, <1>4 DEF Messages, Between
<1>6. ASSUME Cardinality(t.tail) < ScanLimit
      PROVE  /\ t.cover \cup t.tail = Between(R, t.epoch, t.top)
             /\ Last(Between(R, t.epoch, t.top), KeepRecent) \subseteq t.hist
  <2>1. t.tail = Between(R, t.upto, t.top) /\ t.upto <= t.top
    BY <1>6 DEF Cut
  <2>2. t.cover \cup t.tail = Between(R, t.epoch, t.top)
    BY <1>1, <1>4, <2>1 DEF Messages, Between
  <2>3. KeepRecent <= Cardinality(t.tail)
    <3>1. Cardinality(t.tail) \in Nat /\ KeepRecent < Cardinality(t.tail)
      BY <1>1, <1>2, Finite DEF Cut
    <3>2. QED BY <3>1
  <2>4. Last(t.cover \cup t.tail, KeepRecent) \subseteq Last(t.tail, KeepRecent)
    BY <1>1, <1>2, <1>5, <2>3, LastOfEnd
  <2>5. QED BY <2>2, <2>4 DEF Cut, Kept
<1>7. QED BY <1>1, <1>2, <1>3, <1>5, <1>6

\* The model call of the summary failed.
LEMMA FoldFailed ==
    ASSUME NEW R \in Seq(Row), NEW b \in Int, NEW t \in Turns(Len(R)), Exact(R, t), Cut(R, t),
           NEW u \in Turns(Len(R)), u = [t EXCEPT !.whole = "no", !.pc = "run"]
    PROVE  Ready(b, R, u)
<1>1. /\ u.whole = "no" /\ u.epoch = t.epoch /\ u.cover = t.cover /\ u.hist = t.hist
      /\ u.tail = t.tail /\ u.top = t.top
  BY DEF Turns
<1>2. QED BY <1>1, CutInTwo DEF Ready, Context

\* The messages that leave the tail: not those kept, and all before the last of them.
LEMMA FoldedPart ==
    ASSUME NEW R \in Seq(Row), NEW t \in Turns(Len(R)), Exact(R, t), Cut(R, t),
           NEW W, W = Watermark(t)
    PROVE  /\ Foldable(t) # {} /\ W \in Foldable(t)
           /\ \A i \in t.tail : i \in Foldable(t) <=> i <= W
           /\ t.cover \cup Foldable(t) = Between(R, t.epoch, W)
           /\ KeepRecent <= Cardinality(Messages(R, W))
<1>1. /\ Len(R) \in Nat /\ t.epoch \in Nat /\ t.upto \in Nat /\ t.epoch <= t.upto
      /\ t.tail \in SUBSET (0 .. Len(R)) /\ t.hist \subseteq t.tail
  BY CutInTwo
<1>2. /\ t.tail \subseteq Messages(R, t.upto) /\ t.hist = Last(t.tail, KeepRecent)
      /\ KeepRecent < Cardinality(t.tail)
      /\ \A i \in t.tail, j \in Messages(R, t.upto) : j <= i => j \in t.tail
  BY DEF Cut, Kept
<1>3. Foldable(t) # {} /\ KeepRecent <= Cardinality(t.hist)
  BY <1>1, <1>2, LastLeavesSome DEF Foldable
<1>4. W \in Foldable(t) /\ \A j \in Foldable(t) : j <= W
  BY <1>1, <1>3, WatermarkIsLast
<1>5. W \in t.tail /\ W \notin t.hist /\ W \in Nat /\ W > t.upto
  BY <1>1, <1>2, <1>4 DEF Foldable, Messages
<1>6. \A i \in t.hist : i > W
  <2>1. SUFFICES ASSUME NEW i \in t.hist, i <= W PROVE FALSE
    BY <1>1, <1>5
  <2>2. W \in Last(t.tail, KeepRecent)
    BY <1>1, <1>2, <1>5, <2>1, LastIsEnd
  <2>3. QED BY <1>2, <1>5, <2>2
<1>7. \A i \in t.tail : i \in Foldable(t) <=> i <= W
  <2>1. \A i \in t.tail : i \in Nat
    BY <1>1
  <2>2. QED BY <1>4, <1>5, <1>6, <2>1 DEF Foldable
<1>8. t.cover \cup Foldable(t) = Between(R, t.epoch, W)
  <2>1. t.cover = Between(R, t.epoch, t.upto)
    BY DEF Exact
  <2>2. \A i \in Messages(R, t.upto) : i <= W => i \in t.tail
    BY <1>2, <1>5
  <2>3. Foldable(t) = Between(R, t.upto, W)
    BY <1>2, <1>4, <1>7, <2>2 DEF Between, Foldable
  <2>4. QED BY <1>1, <1>5, <2>1, <2>3 DEF Messages, Between
<1>9. KeepRecent <= Cardinality(Messages(R, W))
  <2>1. t.hist \subseteq Messages(R, W)
    BY <1>1, <1>2, <1>5, <1>6 DEF Messages
  <2>2. /\ Cardinality(t.hist) <= Cardinality(Messages(R, W)) /\ Cardinality(t.hist) \in Nat
        /\ Cardinality(Messages(R, W)) \in Nat
    BY <1>1, <2>1, MessagesAreIds, Smaller
  <2>3. QED BY <1>3, <2>2
<1>10. QED BY <1>3, <1>4, <1>7, <1>8, <1>9

\* The summary took the foldable messages in.
LEMMA Folded ==
    ASSUME NEW R \in Seq(Row), NEW b \in Int, NEW t \in Turns(Len(R)), Exact(R, t), Cut(R, t),
           NEW u \in Turns(Len(R)),
           u = [t EXCEPT !.cover = @ \cup Foldable(t), !.pc = "put"]
    PROVE  Covered(R, u) /\ Ready(b, R, u)
<1>1. /\ u.epoch = t.epoch /\ u.cover = t.cover \cup Foldable(t) /\ u.hist = t.hist
      /\ u.tail = t.tail /\ u.top = t.top
  BY DEF Turns
<1>2. Foldable(u) = Foldable(t) /\ Watermark(u) = Watermark(t)
  BY <1>1 DEF Foldable, Watermark
<1>3. Covered(R, u)
  BY <1>1, <1>2, FoldedPart DEF Covered
<1>4. Context(u) = t.cover \cup t.tail
  BY <1>1, CutInTwo DEF Context, Foldable
<1>5. u.cover \cap u.hist = {}
  <2>1. \A i \in t.cover, j \in t.tail : i < j /\ j \in Nat
    BY CutInTwo
  <2>2. t.cover \cap t.tail = {}
    BY <2>1
  <2>3. t.hist \subseteq t.tail
    BY CutInTwo
  <2>4. QED BY <1>1, <2>2, <2>3 DEF Foldable
<1>6. Ready(b, R, u)
  BY <1>1, <1>4, <1>5, CutInTwo DEF Ready
<1>7. QED BY <1>3, <1>6

-----------------------------------------------------------------------------
(* Steps of the system.                                                    *)

\* The type TypeOK gives a turn.
TurnType == [pc : Steps, epoch : Epochs, cover : SUBSET Ids, upto : 0 .. Len(rows),
             tail : SUBSET Ids, hist : SUBSET Ids, top : 0 .. Len(rows), whole : {"yes", "no"}]

\* What a step does to the rows: nothing, or it adds one.
Grown ==
    /\ rows' \in Seq(Row)
    /\ Len(rows) <= Len(rows')
    /\ \A i \in Ids : rows'[i] = rows[i]

LEMMA Types ==
    ASSUME TypeOK
    PROVE  /\ budget \in Int /\ rows \in Seq(Row) /\ Len(rows) \in Nat
           /\ Epochs \subseteq 0 .. Len(rows) /\ Ids = 1 .. Len(rows)
           /\ TurnType \subseteq Turns(Len(rows))
           /\ turn \in [Slots -> TurnType]
<1>1. budget \in Int /\ rows \in Seq(Row) /\ Len(rows) \in Nat
  BY DEF TypeOK, Row
<1>2. Epochs \subseteq 0 .. Len(rows) /\ Ids = 1 .. Len(rows)
  BY <1>1 DEF Epochs, Ids
<1>3. TurnType \subseteq Turns(Len(rows))
  BY <1>2 DEF TurnType, Turns
<1>4. turn \in [Slots -> TurnType]
  BY DEF TypeOK, TurnType
<1>5. QED BY <1>1, <1>2, <1>3, <1>4

LEMMA SaidIs ==
    /\ \A u : Said(u) = Messages(rows, u)
    /\ \A t : Known(t) = Between(rows, t.epoch, t.top)
<1>1. \A u : Said(u) = Messages(rows, u)
  BY DEF Said, Messages, Ids
<1>2. QED BY <1>1 DEF Known, Between

\* Adding rows spoils neither the summaries nor what a turn holds.
LEMMA Growth ==
    ASSUME TypeOK, SummariesInv, Grown, summaries' = summaries
    PROVE  /\ Ids \subseteq Ids' /\ Epochs \subseteq Epochs' /\ TurnType \subseteq TurnType'
           /\ DOMAIN summaries' \subseteq Epochs'
           /\ \A e \in DOMAIN summaries' : summaries'[e] \in [cover : SUBSET Ids', upto : Ids']
           /\ SummariesInv'
<1>1. rows \in Seq(Row) /\ Len(rows) \in Nat /\ Len(rows') \in Nat /\ Len(rows) <= Len(rows')
  BY Types DEF Grown
<1>2. Ids \subseteq Ids' /\ Epochs \subseteq Epochs'
  BY <1>1 DEF Grown, Ids, Epochs
<1>3. TurnType \subseteq TurnType'
  BY <1>1, <1>2 DEF TurnType
<1>4. /\ DOMAIN summaries' \subseteq Epochs'
      /\ \A e \in DOMAIN summaries' : summaries'[e] \in [cover : SUBSET Ids', upto : Ids']
  BY <1>2 DEF TypeOK
<1>5. ASSUME NEW e \in DOMAIN summaries
      PROVE  /\ summaries[e].cover = Between(rows', e, summaries[e].upto)
             /\ KeepRecent <= Cardinality(Messages(rows', summaries[e].upto))
  <2>1. e \in Nat /\ summaries[e].upto \in 0 .. Len(rows) /\ summaries[e].upto \in Nat
    BY <1>1, Types DEF TypeOK
  <2>2. \A i \in 1 .. Len(rows) : rows'[i] = rows[i]
    BY DEF Grown, Ids
  <2>3. rows' \in Seq(Row)
    BY Types DEF Grown
  <2>4. ASSUME NEW u \in Nat
        PROVE  /\ \A n \in 0 .. Len(rows) : Between(rows', u, n) = Between(rows, u, n)
               /\ Cardinality(Messages(rows, u)) <= Cardinality(Messages(rows', u))
               /\ Cardinality(Messages(rows, u)) \in Nat
               /\ Cardinality(Messages(rows', u)) \in Nat
    BY <1>1, <2>2, <2>3, RowsGrow
  <2>5. Between(rows', e, summaries[e].upto) = Between(rows, e, summaries[e].upto)
    BY <2>1, <2>4
  <2>6. LET n == Cardinality(Messages(rows, summaries[e].upto))
            m == Cardinality(Messages(rows', summaries[e].upto))
        IN  n <= m /\ n \in Nat /\ m \in Nat
    BY <2>1, <2>4
  <2>7. QED BY <2>5, <2>6 DEF SummariesInv
<1>6. SummariesInv'
  BY <1>5 DEF SummariesInv
<1>7. QED BY <1>2, <1>3, <1>4, <1>6

\* So a step that puts no summary need only leave good turns, judged by the rows
\* it found.
LEMMA StepKeeps ==
    ASSUME IInv, Grown, budget' = budget, summaries' = summaries,
           turn' \in [Slots -> TurnType],
           \A s \in Slots : Good(budget, rows, turn'[s])
    PROVE  IInv'
<1>1. TypeOK'
  <2>1. turn' \in [Slots -> TurnType']
    BY Growth DEF IInv
  <2>2. rows' \in Seq([role : Roles, sess : Nat]) /\ budget' \in Budgets
    BY DEF IInv, TypeOK, Grown, Row
  <2>3. QED BY <2>1, <2>2, Growth DEF IInv, TypeOK, TurnType
<1>2. SummariesInv'
  BY Growth DEF IInv
<1>3. ASSUME NEW s \in Slots
      PROVE  Good(budget', rows', turn'[s])
  <2>1. turn'[s] \in Turns(Len(rows))
    BY Types DEF IInv
  <2>2. /\ rows \in Seq(Row) /\ budget \in Int /\ rows' \in Seq(Row)
        /\ Len(rows) <= Len(rows') /\ \A i \in 1 .. Len(rows) : rows'[i] = rows[i]
    BY Types DEF IInv, Grown, Ids
  <2>3. QED BY <2>1, <2>2, GoodStays
<1>4. QED BY <1>1, <1>2, <1>3 DEF IInv, TurnsInv

\* The rows a step leaves or adds.
LEMMA RowsOfStep ==
    ASSUME TypeOK, NEW role \in Roles, NEW sess \in Nat, Append1(role, sess) \/ UNCHANGED rows
    PROVE  Grown
<1>1. rows \in Seq(Row) /\ [role |-> role, sess |-> sess] \in Row /\ Ids = 1 .. Len(rows)
  BY Types DEF Row
<1>2. CASE UNCHANGED rows
  BY <1>1, <1>2 DEF Grown
<1>3. CASE Append1(role, sess)
  BY <1>1, <1>3 DEF Grown, Append1
<1>4. QED BY <1>2, <1>3

LEMMA EpochOfSession ==
    ASSUME TypeOK
    PROVE  SessionEpoch \in Epochs /\ \A e \in Epochs : e <= SessionEpoch
<1> DEFINE Resets == {i \in Ids : rows[i].role = "reset"}
           IsEpoch(e) == /\ e # 0 => rows[e].role = "reset"
                         /\ \A i \in Ids : rows[i].role = "reset" => i <= e
<1>1. Len(rows) \in Nat /\ Ids = 1 .. Len(rows) /\ Resets \in SUBSET (0 .. Len(rows))
  BY Types
<1>2. \E e \in 0 .. Len(rows) : IsEpoch(e)
  <2>1. CASE Resets = {}
    <3>1. IsEpoch(0)
      BY <2>1
    <3>2. QED BY <1>1, <3>1
  <2>2. CASE Resets # {}
    <3>1. PICK m \in Resets : \A i \in Resets : i <= m
      <4> HIDE DEF Resets
      <4> QED BY <1>1, <2>2, Maximum
    <3>2. IsEpoch(m)
      BY <3>1
    <3>3. QED BY <1>1, <3>1, <3>2
  <2>3. QED BY <2>1, <2>2
<1>3. SessionEpoch \in 0 .. Len(rows) /\ IsEpoch(SessionEpoch)
  BY <1>2 DEF SessionEpoch
<1>4. QED BY <1>1, <1>3 DEF Epochs

LEMMA TurnKeeps ==
    ASSUME IInv, Grown, budget' = budget, summaries' = summaries,
           NEW s \in Slots, NEW u \in TurnType, Good(budget, rows, u),
           turn' = [turn EXCEPT ![s] = u]
    PROVE  IInv'
<1>1. turn \in [Slots -> TurnType] /\ \A x \in Slots : Good(budget, rows, turn[x])
  BY Types DEF IInv, TurnsInv
<1>2. turn' \in [Slots -> TurnType]
  BY <1>1
<1>3. \A x \in Slots : turn'[x] = IF x = s THEN u ELSE turn[x]
  BY <1>1
<1>4. QED BY <1>1, <1>2, <1>3, StepKeeps

LEMMA IdleIsGood ==
    ASSUME TypeOK
    PROVE  Idle \in TurnType /\ Good(budget, rows, Idle)
<1>1. Len(rows) \in Nat
  BY Types
<1>2. QED BY <1>1 DEF Idle, TurnType, Good, Steps, Epochs

LEMMA BeginKeeps ==
    ASSUME IInv, NEW s \in Slots, Begin(s)
    PROVE  IInv'
<1> DEFINE u == [Idle EXCEPT !.pc = IF budget < 0 THEN "recent" ELSE "summary",
                             !.epoch = SessionEpoch]
<1>1. Len(rows) \in Nat /\ SessionEpoch \in Epochs
  BY Types, EpochOfSession DEF IInv
<1>2. u.cover = {} /\ u.pc = (IF budget < 0 THEN "recent" ELSE "summary")
  BY DEF Idle
<1>3. u \in TurnType
  <2>1. Idle \in TurnType
    BY IdleIsGood DEF IInv
  <2>2. QED BY <1>1, <2>1 DEF TurnType, Steps
<1>4. Good(budget, rows, u)
  <2> HIDE DEF u
  <2> QED BY <1>2 DEF Good
<1>5. Grown /\ budget' = budget /\ summaries' = summaries
  BY Types DEF Begin, Grown, IInv
<1>6. turn' = [turn EXCEPT ![s] = u]
  BY DEF Begin
<1>7. QED
  <2> HIDE DEF u
  <2> QED BY <1>3, <1>4, <1>5, <1>6, TurnKeeps

LEMMA ReadRecentKeeps ==
    ASSUME IInv, NEW s \in Slots, ReadRecent(s)
    PROVE  IInv'
<1> DEFINE h == RecentMessages(HistoryDepth)
<1>1. PICK u : u = [turn[s] EXCEPT !.hist = h, !.top = Len(rows), !.pc = "run"]
  OBVIOUS
<1>2. /\ Len(rows) \in Nat /\ turn[s] \in TurnType /\ Good(budget, rows, turn[s])
      /\ turn \in [Slots -> TurnType] /\ budget \in Int
  BY Types DEF IInv, TurnsInv
<1>3. turn[s].cover = {} /\ budget < 0 /\ turn[s].epoch \in Epochs
  BY <1>2 DEF ReadRecent, At, Good, TurnType
<1>4. h \subseteq Ids /\ \A i \in h : i > turn[s].epoch
  <2>1. h \subseteq Said(SessionEpoch)
    BY DEF RecentMessages, Last
  <2>2. turn[s].epoch <= SessionEpoch /\ turn[s].epoch \in Nat /\ SessionEpoch \in Nat
    BY <1>3, EpochOfSession, Types DEF IInv
  <2>3. \A i \in h : i \in Ids /\ i > SessionEpoch /\ i \in Nat
    BY <2>1, Types DEF Said, IInv
  <2>4. QED BY <2>2, <2>3
<1>5. /\ u \in TurnType /\ u.cover = {} /\ u.hist = h /\ u.epoch = turn[s].epoch
      /\ u.pc = "run"
  <2>1. Len(rows) \in 0 .. Len(rows) /\ h \in SUBSET Ids
    BY <1>2, <1>4
  <2> HIDE DEF h
  <2>2. u \in TurnType
    BY <1>1, <1>2, <2>1 DEF TurnType, Steps
  <2>3. u.cover = {} /\ u.hist = h /\ u.epoch = turn[s].epoch /\ u.pc = "run"
    BY <1>1, <1>2, <1>3 DEF TurnType
  <2>4. QED BY <2>2, <2>3
<1>6. Good(budget, rows, u)
  <2> HIDE DEF h
  <2>1. Ready(budget, rows, u)
    BY <1>2, <1>3, <1>4, <1>5 DEF Ready, Context
  <2>2. QED BY <1>5, <2>1 DEF Good
<1>7. turn' = [turn EXCEPT ![s] = u]
  BY <1>1, <1>2 DEF ReadRecent
<1>8. Grown /\ budget' = budget /\ summaries' = summaries
  BY Types DEF ReadRecent, Grown, IInv
<1>9. QED BY <1>5, <1>6, <1>7, <1>8, TurnKeeps

LEMMA ReadSummaryKeeps ==
    ASSUME IInv, NEW s \in Slots, ReadSummary(s)
    PROVE  IInv'
<1> DEFINE e == turn[s].epoch
<1>1. PICK r : r = GetSessionSummary(e)
  OBVIOUS
<1>2. PICK u : u = [turn[s] EXCEPT !.cover = r.cover, !.upto = Since(r.upto, e), !.pc = "tail"]
  OBVIOUS
<1>3. /\ rows \in Seq(Row) /\ Len(rows) \in Nat /\ turn[s] \in TurnType
      /\ turn \in [Slots -> TurnType]
  BY Types DEF IInv
<1>4. e \in Epochs /\ e \in 0 .. Len(rows) /\ e \in Nat
  BY <1>3, Types DEF TurnType, IInv
<1>5. /\ r.cover \subseteq Ids /\ r.upto \in 0 .. Len(rows)
      /\ r.cover = Between(rows, e, r.upto)
      /\ r.cover # {} => KeepRecent <= Cardinality(Messages(rows, r.upto))
  <2>1. CASE e \in DOMAIN summaries
    <3>1. r = summaries[e]
      BY <1>1, <2>1 DEF GetSessionSummary
    <3>2. r \in [cover : SUBSET Ids, upto : Ids]
      BY <2>1, <3>1 DEF IInv, TypeOK
    <3>3. r.cover \subseteq Ids /\ r.upto \in 0 .. Len(rows)
      BY <3>2, Types DEF IInv
    <3>4. QED BY <2>1, <3>1, <3>3 DEF IInv, SummariesInv
  <2>2. CASE e \notin DOMAIN summaries
    <3>1. r.cover = {} /\ r.upto = 0
      BY <1>1, <2>2 DEF GetSessionSummary
    <3>2. Between(rows, e, 0) = {}
      BY <1>3, <1>4 DEF Between, Messages
    <3>3. QED BY <1>3, <3>1, <3>2
  <2>3. QED BY <2>1, <2>2
<1>6. /\ u \in TurnType /\ u.epoch = e /\ u.cover = r.cover /\ u.upto = Since(r.upto, e)
      /\ u.pc = "tail"
  <2>1. Since(r.upto, e) \in 0 .. Len(rows)
    BY <1>4, <1>5 DEF Since
  <2>2. QED BY <1>2, <1>3, <1>5, <2>1 DEF TurnType, Steps
<1>7. Exact(rows, u)
  <2>1. CASE r.upto < e
    <3>1. r.cover = {} /\ Between(rows, e, e) = {}
      BY <1>3, <1>4, <1>5, <2>1 DEF Between, Messages
    <3>2. u.upto = e
      BY <1>6, <2>1 DEF Since
    <3>3. QED BY <1>4, <1>6, <3>1, <3>2 DEF Exact
  <2>2. CASE ~ (r.upto < e)
    <3>1. u.upto = r.upto /\ e <= r.upto
      BY <1>4, <1>5, <1>6, <2>2 DEF Since
    <3>2. QED BY <1>5, <1>6, <3>1 DEF Exact
  <2>3. QED BY <2>1, <2>2
<1>8. Good(budget, rows, u)
  BY <1>6, <1>7 DEF Good
<1>9. turn' = [turn EXCEPT ![s] = u]
  BY <1>1, <1>2, <1>3 DEF ReadSummary
<1>10. Grown /\ budget' = budget /\ summaries' = summaries
  BY Types DEF ReadSummary, Grown, IInv
<1>11. QED BY <1>6, <1>8, <1>9, <1>10, TurnKeeps

LEMMA ReadTailKeeps ==
    ASSUME IInv, NEW s \in Slots, ReadTail(s)
    PROVE  IInv'
<1>1. PICK t : t = turn[s]
  OBVIOUS
<1>2. PICK tail : tail = First(Messages(rows, t.upto), ScanLimit)
  OBVIOUS
<1>3. PICK fits \in BOOLEAN :
         fits <=> (Cardinality(tail) <= budget \/ Cardinality(tail) <= KeepRecent)
  OBVIOUS
<1>4. PICK u : u = [t EXCEPT !.tail = tail, !.hist = IF fits THEN tail ELSE Kept(tail),
                             !.top = Len(rows), !.pc = IF fits THEN "run" ELSE "fold"]
  OBVIOUS
<1>5. /\ rows \in Seq(Row) /\ Len(rows) \in Nat /\ t \in TurnType /\ budget \in Int
      /\ turn \in [Slots -> TurnType] /\ TurnType \subseteq Turns(Len(rows)) /\ Ids = 1 .. Len(rows)
  BY <1>1, Types DEF IInv
<1>6. Exact(rows, t)
  BY <1>1 DEF IInv, TurnsInv, Good, ReadTail, At
<1>7. tail \subseteq Messages(rows, t.upto) /\ tail \in SUBSET Ids /\ Kept(tail) \in SUBSET Ids
  <2>1. tail \subseteq Messages(rows, t.upto) /\ Kept(tail) \subseteq tail
    BY <1>2 DEF First, Kept, Last
  <2>2. QED BY <1>5, <2>1, MessagesAreIds
<1>8. u \in TurnType
  <2>1. Len(rows) \in 0 .. Len(rows)
    BY <1>5
  <2>2. (IF fits THEN tail ELSE Kept(tail)) \in SUBSET Ids
    BY <1>7
  <2>3. (IF fits THEN "run" ELSE "fold") \in Steps
    BY DEF Steps
  <2>4. QED BY <1>4, <1>5, <1>7, <2>1, <2>2, <2>3 DEF TurnType
<1>9. /\ u.epoch = t.epoch /\ u.cover = t.cover /\ u.upto = t.upto /\ u.tail = tail
      /\ u.hist = (IF fits THEN tail ELSE Kept(tail)) /\ u.top = Len(rows)
      /\ u.pc = (IF fits THEN "run" ELSE "fold")
  BY <1>4, <1>5 DEF TurnType
<1>10. Good(budget, rows, u)
  <2>1. CASE fits
    <3>1. u.hist = u.tail /\ u.pc = "run"
      BY <1>9, <2>1
    <3>2. Ready(budget, rows, u)
      BY <1>2, <1>5, <1>6, <1>8, <1>9, <3>1, TailOfFew
    <3>3. QED BY <3>1, <3>2 DEF Good
  <2>2. CASE ~ fits
    <3>1. u.hist = Kept(u.tail) /\ u.pc = "fold"
      BY <1>9, <2>2
    <3>2. t.upto \in Nat /\ t.upto <= Len(rows)
      BY <1>5 DEF TurnType
    <3>3. Messages(rows, t.upto) \in SUBSET (0 .. Len(rows)) /\ tail \in SUBSET (0 .. Len(rows))
      BY <1>5, <1>7, MessagesAreIds
    <3>4. KeepRecent < Cardinality(tail)
      <4>1. Cardinality(tail) \in Nat
        BY <1>5, <3>3, Finite
      <4>2. QED BY <1>3, <2>2, <4>1
    <3>5. \A i \in tail, j \in Messages(rows, t.upto) : j <= i => j \in tail
      BY <1>2, <1>5, <3>3, FirstIsBeginning
    <3>6. Cardinality(tail) < ScanLimit => tail = Between(rows, t.upto, Len(rows))
      <4>1. Cardinality(tail) < ScanLimit => tail = Messages(rows, t.upto)
        BY <1>2, <1>5, <3>3, FirstFewIsAll
      <4>2. Between(rows, t.upto, Len(rows)) = Messages(rows, t.upto)
        BY <1>5 DEF Between, Messages
      <4>3. QED BY <4>1, <4>2
    <3>7. Cut(rows, u)
      BY <1>7, <1>9, <3>1, <3>2, <3>4, <3>5, <3>6 DEF Cut
    <3>8. Exact(rows, u)
      BY <1>6, <1>9 DEF Exact
    <3>9. QED BY <3>1, <3>7, <3>8 DEF Good
  <2>3. QED BY <2>1, <2>2
<1>11. turn' = [turn EXCEPT ![s] = u]
  <2>1. tail = MessagesSince(turn[s].upto, ScanLimit)
    BY <1>1, <1>2, SaidIs DEF MessagesSince
  <2>2. QED BY <1>1, <1>3, <1>4, <1>5, <2>1 DEF ReadTail
<1>12. Grown /\ budget' = budget /\ summaries' = summaries
  BY <1>5 DEF ReadTail, Grown
<1>13. QED BY <1>8, <1>10, <1>11, <1>12, TurnKeeps

LEMMA FoldKeeps ==
    ASSUME IInv, NEW s \in Slots, Fold(s)
    PROVE  IInv'
<1>1. PICK t : t = turn[s]
  OBVIOUS
<1>2. /\ rows \in Seq(Row) /\ Len(rows) \in Nat /\ t \in TurnType /\ budget \in Int
      /\ turn \in [Slots -> TurnType] /\ TurnType \subseteq Turns(Len(rows))
  BY <1>1, Types DEF IInv
<1>3. Exact(rows, t) /\ Cut(rows, t)
  BY <1>1 DEF IInv, TurnsInv, Good, Fold, At
<1>4. Grown /\ budget' = budget /\ summaries' = summaries
  BY <1>2 DEF Fold, Grown
<1>5. ASSUME NEW u, u = [t EXCEPT !.whole = "no", !.pc = "run"], turn' = [turn EXCEPT ![s] = u]
      PROVE  IInv'
  <2>1. u \in TurnType /\ u.pc = "run"
    BY <1>2, <1>5 DEF TurnType, Steps
  <2>2. Ready(budget, rows, u)
    BY <1>2, <1>3, <1>5, <2>1, FoldFailed
  <2>3. Good(budget, rows, u)
    BY <2>1, <2>2 DEF Good
  <2>4. QED BY <1>4, <1>5, <2>1, <2>3, TurnKeeps
<1>6. ASSUME NEW u, u = [t EXCEPT !.cover = @ \cup Foldable(t), !.pc = "put"],
             turn' = [turn EXCEPT ![s] = u]
      PROVE  IInv'
  <2>1. u \in TurnType /\ u.pc = "put"
    <3>1. (t.cover \cup Foldable(t)) \in SUBSET Ids
      BY <1>2 DEF TurnType, Foldable
    <3>2. QED BY <1>2, <1>6, <3>1 DEF TurnType, Steps
  <2>2. Covered(rows, u) /\ Ready(budget, rows, u)
    BY <1>2, <1>3, <1>6, <2>1, Folded
  <2>3. Good(budget, rows, u)
    BY <2>1, <2>2 DEF Good
  <2>4. QED BY <1>4, <1>6, <2>1, <2>3, TurnKeeps
<1>7. CASE turn' = [turn EXCEPT ![s].whole = "no", ![s].pc = "run"]
  <2>1. turn' = [turn EXCEPT ![s] = [t EXCEPT !.whole = "no", !.pc = "run"]]
    BY <1>1, <1>2, <1>7
  <2>2. QED BY <1>5, <2>1
<1>8. CASE turn' = [turn EXCEPT ![s].cover = @ \cup Foldable(turn[s]), ![s].pc = "put"]
  <2>1. turn' = [turn EXCEPT ![s] = [t EXCEPT !.cover = @ \cup Foldable(t), !.pc = "put"]]
    BY <1>1, <1>2, <1>8
  <2>2. QED BY <1>6, <2>1
<1>9. QED BY <1>7, <1>8 DEF Fold

\* The upsert replaces what is stored, and what it stores is exact again.
LEMMA PutKeeps ==
    ASSUME IInv, NEW s \in Slots, Put(s)
    PROVE  IInv'
<1>1. PICK t : t = turn[s]
  OBVIOUS
<1>2. PICK W : W = Watermark(t)
  OBVIOUS
<1>3. PICK u : u = [t EXCEPT !.pc = "run"]
  OBVIOUS
<1>4. /\ rows \in Seq(Row) /\ Len(rows) \in Nat /\ t \in TurnType /\ Ids = 1 .. Len(rows)
      /\ turn \in [Slots -> TurnType] /\ TurnType \subseteq Turns(Len(rows))
  BY <1>1, Types DEF IInv
<1>5. Covered(rows, t) /\ Ready(budget, rows, t)
  BY <1>1 DEF IInv, TurnsInv, Good, Put, At
<1>6. rows' = rows /\ budget' = budget /\ turn' = [turn EXCEPT ![s] = u]
  BY <1>1, <1>3, <1>4 DEF Put
<1>7. u \in TurnType /\ Good(budget, rows, u)
  <2>1. u \in TurnType
    BY <1>3, <1>4 DEF TurnType, Steps
  <2>2. /\ u.pc = "run" /\ u.epoch = t.epoch /\ u.cover = t.cover /\ u.hist = t.hist
        /\ u.tail = t.tail /\ u.top = t.top /\ u.whole = t.whole
    BY <1>3, <1>4 DEF TurnType
  <2>3. Ready(budget, rows, u)
    BY <1>5, <2>2 DEF Ready, Context
  <2>4. QED BY <2>1, <2>2, <2>3 DEF Good
<1>8. turn' \in [Slots -> TurnType] /\ \A x \in Slots : Good(budget, rows, turn'[x])
  <2>1. \A x \in Slots : turn'[x] = IF x = s THEN u ELSE turn[x]
    BY <1>4, <1>6
  <2>2. turn' \in [Slots -> TurnType]
    BY <1>4, <1>6, <1>7
  <2>3. QED BY <1>7, <2>1, <2>2 DEF IInv, TurnsInv
<1>9. TurnsInv'
  BY <1>6, <1>8 DEF TurnsInv
<1>10. t.epoch \in Epochs /\ t.cover \in SUBSET Ids /\ W \in Ids
  <2>1. t.tail \in SUBSET Ids
    BY <1>4 DEF TurnType
  <2>2. W \in Foldable(t)
    BY <1>2, <1>4, <1>5, WatermarkIsLast DEF Covered
  <2>3. W \in Ids
    BY <2>1, <2>2 DEF Foldable
  <2>4. QED BY <1>4, <2>3 DEF TurnType
<1>11. summaries' = [x \in DOMAIN summaries \cup {t.epoch} |->
                       IF x = t.epoch THEN [cover |-> t.cover, upto |-> W] ELSE summaries[x]]
  BY <1>1, <1>2 DEF Put, PutSessionSummary
<1>12. /\ DOMAIN summaries' = DOMAIN summaries \cup {t.epoch}
       /\ summaries'[t.epoch] = [cover |-> t.cover, upto |-> W]
       /\ \A e \in DOMAIN summaries : e # t.epoch => summaries'[e] = summaries[e]
  BY <1>11
<1>13. /\ DOMAIN summaries' \subseteq Epochs
       /\ \A e \in DOMAIN summaries' : summaries'[e] \in [cover : SUBSET Ids, upto : Ids]
  BY <1>10, <1>12 DEF IInv, TypeOK
<1>14. Ids' = Ids /\ Epochs' = Epochs /\ TurnType' = TurnType
  BY <1>6 DEF Ids, Epochs, TurnType
<1>15. TypeOK'
  <2>1. rows' \in Seq([role : Roles, sess : Nat]) /\ budget' \in Budgets
    BY <1>6 DEF IInv, TypeOK
  <2>2. turn' \in [Slots -> TurnType']
    BY <1>8, <1>14
  <2>3. QED BY <1>13, <1>14, <2>1, <2>2 DEF TypeOK, TurnType
<1>16. SummariesInv'
  <2>1. ASSUME NEW e \in DOMAIN summaries'
        PROVE  /\ summaries'[e].cover = Between(rows, e, summaries'[e].upto)
               /\ KeepRecent <= Cardinality(Messages(rows, summaries'[e].upto))
    <3>1. CASE e = t.epoch
      <4>1. summaries'[e].cover = t.cover /\ summaries'[e].upto = W
        BY <1>12, <3>1
      <4>2. QED BY <1>2, <1>5, <3>1, <4>1 DEF Covered
    <3>2. CASE e # t.epoch
      <4>1. e \in DOMAIN summaries /\ summaries'[e] = summaries[e]
        BY <1>12, <2>1, <3>2
      <4>2. QED BY <4>1 DEF IInv, SummariesInv
    <3>3. QED BY <3>1, <3>2
  <2>2. QED BY <1>6, <2>1 DEF SummariesInv
<1>17. QED BY <1>9, <1>15, <1>16 DEF IInv

\* The steps after the model's answer, and the ends of a turn: nothing of what the
\* turn holds is used again.
LEMMA LaterStepsKeep ==
    ASSUME IInv, NEW s \in Slots,
           Run(s) \/ PersistUser(s) \/ PersistAnswer(s) \/ Abandon(s)
    PROVE  IInv'
<1>1. /\ Len(rows) \in Nat /\ turn \in [Slots -> TurnType] /\ turn[s] \in TurnType
      /\ Epochs \subseteq 0 .. Len(rows)
  BY Types DEF IInv
<1>2. Grown /\ budget' = budget /\ summaries' = summaries
  <2>1. turn[s].epoch \in Nat
    <3>1. turn[s].epoch \in Epochs
      BY <1>1 DEF TurnType
    <3>2. Epochs \subseteq Nat
      BY <1>1
    <3>3. QED BY <3>1, <3>2
  <2>2. CASE Run(s) \/ Abandon(s)
    BY <2>2, Types DEF IInv, Run, Abandon, Grown
  <2>3. CASE PersistUser(s)
    BY <2>1, <2>3, RowsOfStep DEF IInv, PersistUser, Roles
  <2>4. CASE PersistAnswer(s)
    BY <2>1, <2>4, RowsOfStep DEF IInv, PersistAnswer, Roles
  <2>5. QED BY <2>2, <2>3, <2>4
<1>3. ASSUME NEW step \in {"user", "answer"}, turn' = [turn EXCEPT ![s].pc = step]
      PROVE  IInv'
  <2>1. PICK u : u = [turn[s] EXCEPT !.pc = step]
    OBVIOUS
  <2>2. u \in TurnType /\ u.pc \in {"user", "answer"}
    BY <1>1, <1>3, <2>1 DEF TurnType, Steps
  <2>3. Good(budget, rows, u)
    BY <2>2 DEF Good
  <2>4. turn' = [turn EXCEPT ![s] = u]
    BY <1>1, <1>3, <2>1
  <2>5. QED BY <1>2, <2>2, <2>3, <2>4, TurnKeeps
<1>4. CASE Run(s)
  BY <1>3, <1>4 DEF Run
<1>5. CASE PersistUser(s)
  BY <1>3, <1>5 DEF PersistUser
<1>6. CASE PersistAnswer(s) \/ Abandon(s)
  <2>1. turn' = [turn EXCEPT ![s] = Idle]
    BY <1>6 DEF PersistAnswer, Abandon
  <2>2. QED BY <1>2, <2>1, IdleIsGood, TurnKeeps DEF IInv
<1>7. QED BY <1>4, <1>5, <1>6

LEMMA ResetKeeps ==
    ASSUME IInv, Reset
    PROVE  IInv'
<1>1. /\ Len(rows) + 1 \in Nat /\ turn \in [Slots -> TurnType]
      /\ \A x \in Slots : Good(budget, rows, turn[x])
  BY Types DEF IInv, TurnsInv
<1>2. Grown
  BY <1>1, RowsOfStep DEF IInv, Reset, Roles
<1>3. QED BY <1>1, <1>2, StepKeeps DEF Reset

LEMMA StutterKeeps ==
    ASSUME IInv, UNCHANGED vars
    PROVE  IInv'
<1>1. /\ Grown /\ turn \in [Slots -> TurnType]
      /\ \A x \in Slots : Good(budget, rows, turn[x])
  BY Types DEF IInv, TurnsInv, Grown, vars
<1>2. QED BY <1>1, StepKeeps DEF vars

-----------------------------------------------------------------------------
(* Theorems.                                                               *)

\* What the stored summaries and every turn under way hold agrees with the rows, in
\* every state of overlapping turns and resets (handle, reset).
THEOREM Invariance == Spec => []IInv
<1>1. Init => IInv
  <2>1. SUFFICES ASSUME Init PROVE IInv
    OBVIOUS
  <2>2. Len(rows) = 0 /\ rows \in Seq([role : Roles, sess : Nat])
    BY <2>1 DEF Init
  <2>3. TypeOK
    BY <2>1, <2>2 DEF Init, TypeOK, Idle, Steps, Epochs
  <2>4. TurnsInv
    <3>1. \A s \in Slots : turn[s] = Idle
      BY <2>1 DEF Init
    <3>2. QED BY <2>3, <3>1, IdleIsGood DEF TurnsInv
  <2>5. SummariesInv
    BY <2>1 DEF Init, SummariesInv
  <2>6. QED BY <2>3, <2>4, <2>5 DEF IInv
<1>2. IInv /\ [Next]_vars => IInv'
  <2>1. SUFFICES ASSUME IInv, [Next]_vars PROVE IInv'
    OBVIOUS
  <2>2. CASE Reset
    BY <2>1, <2>2, ResetKeeps
  <2>3. ASSUME NEW s \in Slots, Step(s)
        PROVE  IInv'
    BY <2>1, <2>3, BeginKeeps, ReadRecentKeeps, ReadSummaryKeeps, ReadTailKeeps, FoldKeeps,
       PutKeeps, LaterStepsKeep DEF Step
  <2>4. CASE UNCHANGED vars
    BY <2>1, <2>4, StutterKeeps
  <2>5. QED BY <2>1, <2>2, <2>3, <2>4 DEF Next
<1>3. QED BY <1>1, <1>2, PTL DEF Spec

\* Shape of the state: every epoch a turn holds or a summary is stored under is
\* that of a session, and no id is that of a row that is not there.
THEOREM TypeCorrect == Spec => []TypeOK
<1>1. IInv => TypeOK
  BY DEF IInv
<1>2. QED BY <1>1, Invariance, PTL

\* A stored summary is of exactly the session's messages up to its watermark,
\* however many turns overlap and whichever of them puts its summary last
\* (put_session_summary is an unconditional upsert).
THEOREM Exactly == Spec => []SummaryIsExact
<1>1. IInv => SummaryIsExact
  BY SaidIs DEF IInv, SummariesInv, SummaryIsExact, Between
<1>2. QED BY <1>1, Invariance, PTL

\* With a scan that was not cut off and a summariser that answered, the model is
\* given every message of the session once, in the summary or verbatim.
THEOREM Complete == Spec => []ContextComplete
<1>1. IInv => ContextComplete
  <2>1. SUFFICES ASSUME IInv, NEW s \in Slots, At(s, "run"), Scanned(turn[s]), turn[s].whole = "yes"
                 PROVE  /\ Context(turn[s]) = Known(turn[s])
                        /\ turn[s].cover \cap turn[s].hist = {}
    BY DEF ContextComplete
  <2>2. Ready(budget, rows, turn[s])
    BY <2>1 DEF IInv, TurnsInv, Good, At
  <2>3. QED BY <2>1, <2>2, SaidIs DEF Ready, Scanned
<1>2. QED BY <1>1, Invariance, PTL

\* The last KeepRecent messages are given verbatim, whether the summariser
\* answered or not.
THEOREM Verbatim == Spec => []RecentVerbatim
<1>1. IInv => RecentVerbatim
  <2>1. SUFFICES ASSUME IInv, NEW s \in Slots, At(s, "run"), Scanned(turn[s])
                 PROVE  Last(Known(turn[s]), KeepRecent) \subseteq turn[s].hist
    BY DEF RecentVerbatim
  <2>2. Ready(budget, rows, turn[s])
    BY <2>1 DEF IInv, TurnsInv, Good, At
  <2>3. QED BY <2>1, <2>2, SaidIs DEF Ready, Scanned
<1>2. QED BY <1>1, Invariance, PTL

\* Nothing from before the reset row a turn found is put before the model.
THEOREM Forgets == Spec => []ForgetsBeforeReset
<1>1. IInv => ForgetsBeforeReset
  BY DEF IInv, TurnsInv, Good, Ready, At, ForgetsBeforeReset
<1>2. QED BY <1>1, Invariance, PTL

-----------------------------------------------------------------------------
(* The limiter.  What it promises is a fact about any two calls, and says    *)
(* nothing of the next one; inductive is the same fact about a call and the  *)
(* present, with what is left in the bucket added to what was let through.   *)

USE LimiterAssumption

Call == [at : Readings, allowed : BOOLEAN]

\* What the bucket b of a user says of the calls c there were: what was let through since any
\* of them and what is left come to no more than a full bucket and the time since; and some
\* call has all the time behind it left in the bucket.
Balance(b, c) ==
    /\ Len(c) > 0
    /\ \A i \in 1 .. Len(c) :
         Hour * Cardinality(LetThrough(c, i, Len(c))) + b.tokens <= Cap + (b.last - c[i].at) * perHour
    /\ perHour > 0 => \E i \in 1 .. Len(c) : b.tokens >= (b.last - c[i].at) * perHour

BalanceInv ==
    \A u \in Users :
        /\ u \in DOMAIN buckets => perHour >= 0 /\ Balance(buckets[u], calls[u])
        /\ u \notin DOMAIN buckets /\ perHour >= 0 => calls[u] = <<>>

LimiterIInv == LimiterTypeOK /\ BalanceInv /\ AllowanceKept

LEMMA LetThroughIsFinite ==
    ASSUME NEW c, NEW i \in Nat, NEW j \in Nat
    PROVE  IsFiniteSet(LetThrough(c, i, j)) /\ Cardinality(LetThrough(c, i, j)) \in Nat
<1>1. LetThrough(c, i, j) \subseteq i .. j /\ IsFiniteSet(i .. j)
  BY FS_Interval DEF LetThrough
<1>2. QED BY <1>1, FS_Subset, FS_CardinalityType

\* One call more.
LEMMA OneMore ==
    ASSUME NEW c \in Seq(Call), NEW x \in Call, NEW i \in 1 .. Len(c) + 1
    PROVE  LET d == Append(c, x)
               n == Len(c)
           IN  /\ d \in Seq(Call) /\ Len(d) = n + 1 /\ d[n + 1] = x
               /\ \A k \in 1 .. n : d[k] = c[k]
               /\ \A j \in 1 .. n : LetThrough(d, i, j) = LetThrough(c, i, j)
               /\ Cardinality(LetThrough(d, i, n + 1)) =
                    Cardinality(LetThrough(c, i, n)) + IF x.allowed THEN 1 ELSE 0
<1> DEFINE d == Append(c, x)
           n == Len(c)
<1>1. d \in Seq(Call) /\ Len(d) = n + 1 /\ d[n + 1] = x /\ n \in Nat /\ \A k \in 1 .. n : d[k] = c[k]
  BY AppendProperties, LenProperties
<1>2. \A j \in 1 .. n : LetThrough(d, i, j) = LetThrough(c, i, j)
  BY <1>1 DEF LetThrough
<1>3. LetThrough(d, i, n + 1) = LetThrough(c, i, n) \cup IF x.allowed THEN {n + 1} ELSE {}
  BY <1>1 DEF LetThrough
<1>4. IsFiniteSet(LetThrough(c, i, n)) /\ Cardinality(LetThrough(c, i, n)) \in Nat
  BY <1>1, LetThroughIsFinite
<1>5. n + 1 \notin LetThrough(c, i, n)
  BY <1>1 DEF LetThrough
<1>6. Cardinality(LetThrough(d, i, n + 1)) =
         Cardinality(LetThrough(c, i, n)) + IF x.allowed THEN 1 ELSE 0
  <2>1. CASE x.allowed
    BY <2>1, <1>3, <1>4, <1>5, FS_AddElement
  <2>2. CASE ~ x.allowed
    <3>1. LetThrough(d, i, n + 1) = LetThrough(c, i, n)
      BY <2>2, <1>3
    <3>2. QED BY <2>2, <3>1, <1>4
  <2>3. QED BY <2>1, <2>2
<1>7. QED BY <1>1, <1>2, <1>6

LEMMA InitKeepsLimiter == LimiterInit => LimiterIInv
  BY DEF LimiterInit, LimiterIInv, LimiterTypeOK, BalanceInv, AllowanceKept

\* Time between three readings.
LEMMA TimeBetween ==
    ASSUME NEW a \in Int, NEW b \in Int, NEW c \in Int, NEW r \in Int
    PROVE  (b - a) * r \in Int /\ (b - a) * r + (c - b) * r = (c - a) * r
  OBVIOUS

\* The bucket after a call: Refilled, less a token if there is one.
After(tokens, now, allowed) ==
    [tokens |-> IF allowed THEN tokens - Hour ELSE tokens, last |-> now]

\* A call on a bucket that was called before.
LEMMA BalanceKept ==
    ASSUME NEW r \in Nat, perHour = r,
           NEW c \in Seq(Call), NEW b, b.tokens \in Int, b.last \in Readings, b.tokens <= Cap,
           Balance(b, c), NEW now \in Readings
    PROVE  LET t == Refilled(b, now)
               x == [at |-> now, allowed |-> t >= Hour]
           IN  Balance(After(t, now, t >= Hour), Append(c, x))
<1> DEFINE t == Refilled(b, now)
           x == [at |-> now, allowed |-> t >= Hour]
           d == Append(c, x)
           n == Len(c)
           a == After(t, now, t >= Hour)
<1>1. n \in Nat /\ n > 0 /\ now \in Int /\ b.last \in Int
      /\ \A i \in 1 .. n : c[i].at \in Int
  <2>1. \A i \in 1 .. n : c[i] \in Call
    BY ElementOfSeq
  <2>2. QED BY <2>1, LenProperties DEF Balance, Call
<1>2. Cap \in Int /\ t \in Int /\ t <= Cap /\ t <= b.tokens + (now - b.last) * r
      /\ (t = Cap \/ t = b.tokens + (now - b.last) * r)
  BY <1>1 DEF Refilled, Cap
<1>3. x \in Call /\ x.at = now /\ x.allowed \in BOOLEAN /\ (x.allowed <=> t >= Hour)
  <2>1. (t >= Hour) \in BOOLEAN
    OBVIOUS
  <2> DEFINE h == t >= Hour
  <2>2. x = [at |-> now, allowed |-> h] /\ h \in BOOLEAN
    BY <2>1
  <2> HIDE DEF h, x
  <2>3. x.at = now /\ x.allowed = h
    BY <2>2
  <2>4. x \in Call
    BY <2>2 DEF Call
  <2>5. QED BY <2>2, <2>3, <2>4 DEF h
<1>4. a.last = now /\ a.tokens = IF t >= Hour THEN t - Hour ELSE t
  BY DEF After
<1>5. d \in Seq(Call) /\ Len(d) = n + 1 /\ d[n + 1] = x /\ \A k \in 1 .. n : d[k] = c[k]
  <2>1. 1 \in 1 .. n + 1
    BY <1>1
  <2> HIDE DEF x
  <2>2. QED BY <1>3, <2>1, OneMore
<1> HIDE DEF t, x, d, a
<1>6. ASSUME NEW i \in 1 .. n + 1
      PROVE  Hour * Cardinality(LetThrough(d, i, n + 1)) + a.tokens <= Cap + (now - d[i].at) * r
  <2> DEFINE k == Cardinality(LetThrough(c, i, n))
  <2>1. Cardinality(LetThrough(d, i, n + 1)) = k + IF x.allowed THEN 1 ELSE 0
    BY <1>3, OneMore DEF d
  <2>2. k \in Nat
    BY <1>1, LetThroughIsFinite
  <2>3. Hour * Cardinality(LetThrough(d, i, n + 1)) + a.tokens = Hour * k + t
    <3> HIDE DEF k
    <3>1. CASE t >= Hour
      <4>1. Cardinality(LetThrough(d, i, n + 1)) = k + 1 /\ a.tokens = t - Hour
        BY <2>1, <3>1, <1>3, <1>4
      <4>2. Hour * (k + 1) = Hour * k + Hour /\ Hour * k \in Int
        BY <2>2
      <4>3. QED BY <4>1, <4>2, <1>2
    <3>2. CASE ~ (t >= Hour)
      <4>1. Cardinality(LetThrough(d, i, n + 1)) = k /\ a.tokens = t
        BY <2>1, <2>2, <3>2, <1>3, <1>4
      <4>2. QED BY <4>1
    <3>3. QED BY <3>1, <3>2
  <2>4. CASE i = n + 1
    <3>1. LetThrough(c, i, n) = {}
      BY <2>4, <1>1 DEF LetThrough
    <3>2. k = 0
      BY <3>1, FS_EmptySet
    <3>3. d[i].at = now
      BY <2>4, <1>5, <1>3
    <3>4. QED BY <2>3, <3>2, <3>3, <1>1, <1>2
  <2>5. CASE i \in 1 .. n
    <3>1. Hour * k + b.tokens <= Cap + (b.last - c[i].at) * r
      BY <2>5 DEF Balance
    <3>2. (b.last - c[i].at) * r + (now - b.last) * r = (now - c[i].at) * r
          /\ (b.last - c[i].at) * r \in Int /\ (now - b.last) * r \in Int
      BY <2>5, <1>1, TimeBetween
    <3>3. d[i].at = c[i].at
      BY <2>5, <1>5
    <3> HIDE DEF k
    <3>4. Hour * k \in Int
      BY <2>2
    <3> DEFINE p == (b.last - c[i].at) * r
               q == (now - b.last) * r
               z == (now - c[i].at) * r
    <3>5. /\ Hour * k + b.tokens <= Cap + p /\ p + q = z /\ p \in Int /\ q \in Int
          /\ t <= b.tokens + q /\ b.tokens \in Int
      BY <3>1, <3>2, <1>2
    <3>6. Hour * k + t <= Cap + z
      <4> HIDE DEF p, q, z
      <4>1. QED BY <3>4, <3>5, <1>2
    <3>7. QED BY <2>3, <3>3, <3>6
  <2>6. QED BY <2>4, <2>5, <1>1
<1>7. ASSUME r > 0
      PROVE  \E i \in 1 .. n + 1 : a.tokens >= (now - d[i].at) * r
  <2>1. PICK i \in 1 .. n : b.tokens >= (b.last - c[i].at) * r
    BY <1>7 DEF Balance
  <2>2. (b.last - c[i].at) * r + (now - b.last) * r = (now - c[i].at) * r
        /\ (b.last - c[i].at) * r \in Int /\ (now - b.last) * r \in Int
    BY <2>1, <1>1, TimeBetween
  <2>3. Cap >= Hour
    BY <1>7 DEF Cap
  <2>4. CASE t >= Hour
    <3>1. d[n + 1].at = now /\ n + 1 \in 1 .. n + 1 /\ a.tokens >= 0
      BY <2>4, <1>1, <1>2, <1>3, <1>4, <1>5
    <3>2. (now - d[n + 1].at) * r = 0
      BY <3>1, <1>1
    <3>3. QED BY <3>1, <3>2
  <2>5. CASE ~ (t >= Hour)
    <3>1. t = b.tokens + (now - b.last) * r /\ a.tokens = t
      BY <2>5, <2>3, <1>2, <1>4
    <3>2. d[i].at = c[i].at /\ i \in 1 .. n + 1
      BY <2>1, <1>1, <1>5
    <3> DEFINE p == (b.last - c[i].at) * r
               q == (now - b.last) * r
               z == (now - c[i].at) * r
    <3>3. b.tokens >= p /\ p + q = z /\ p \in Int /\ q \in Int /\ a.tokens = b.tokens + q
      BY <2>1, <2>2, <3>1
    <3>4. a.tokens >= z
      <4> HIDE DEF p, q, z
      <4>1. QED BY <3>3
    <3>5. QED BY <3>2, <3>4
  <2>6. QED BY <2>4, <2>5
<1>8. QED BY <1>1, <1>4, <1>5, <1>6, <1>7 DEF Balance, t, x, d, a

\* The first call, on a full bucket.
LEMMA BalanceBegins ==
    ASSUME NEW r \in Nat, perHour = r, NEW b, b.tokens = Cap, NEW now \in Readings, b.last = now
    PROVE  LET t == Refilled(b, now)
               x == [at |-> now, allowed |-> t >= Hour]
           IN  t = Cap /\ Balance(After(t, now, t >= Hour), Append(<<>>, x))
<1> DEFINE t == Refilled(b, now)
           x == [at |-> now, allowed |-> t >= Hour]
           d == Append(<<>>, x)
           a == After(t, now, t >= Hour)
<1>1. now \in Int /\ Cap \in Int /\ (now - now) * r = 0
  BY DEF Cap
<1>2. t = Cap
  BY <1>1 DEF Refilled
<1>3. d = <<x>> /\ Len(d) = 1 /\ d[1] = x /\ x.at = now
  OBVIOUS
<1>4. a.last = now /\ a.tokens = IF Cap >= Hour THEN Cap - Hour ELSE Cap
  BY <1>2 DEF After
<1>5. Hour * Cardinality(LetThrough(d, 1, 1)) + a.tokens <= Cap
  <2>1. CASE Cap >= Hour
    <3>1. LetThrough(d, 1, 1) \subseteq {1}
      BY DEF LetThrough
    <3>2. Cardinality(LetThrough(d, 1, 1)) \in 0 .. 1
      <4>1. IsFiniteSet({1}) /\ Cardinality({1}) = 1
        BY FS_Singleton
      <4>2. Cardinality(LetThrough(d, 1, 1)) <= 1
        BY <3>1, <4>1, FS_Subset
      <4>3. Cardinality(LetThrough(d, 1, 1)) \in Nat
        BY LetThroughIsFinite
      <4>4. QED BY <4>2, <4>3
    <3>3. Hour * Cardinality(LetThrough(d, 1, 1)) <= Hour
      <4> DEFINE k == Cardinality(LetThrough(d, 1, 1))
      <4>1. k = 0 \/ k = 1
        BY <3>2
      <4> HIDE DEF k
      <4>2. Hour * k <= Hour
        BY <4>1
      <4>3. QED BY <4>2 DEF k
    <3>4. Hour * Cardinality(LetThrough(d, 1, 1)) \in Int
      BY <3>2
    <3>5. QED BY <2>1, <3>3, <3>4, <1>1, <1>4
  <2>2. CASE ~ (Cap >= Hour)
    <3>1. ~ d[1].allowed
      <4>1. ~ (t >= Hour)
        BY <2>2, <1>2
      <4>2. d[1].allowed = (t >= Hour)
        BY <1>3
      <4>3. QED BY <4>1, <4>2
    <3>2. LetThrough(d, 1, 1) = {}
      <4>1. \A k \in 1 .. 1 : k = 1
        OBVIOUS
      <4>2. QED BY <3>1, <4>1 DEF LetThrough
    <3>3. Hour * Cardinality(LetThrough(d, 1, 1)) = 0
      <4>1. Cardinality(LetThrough(d, 1, 1)) = 0
        BY <3>2, FS_EmptySet
      <4>2. QED BY <4>1
    <3>4. a.tokens = Cap
      BY <2>2, <1>4
    <3>5. QED BY <3>3, <3>4, <1>1
  <2>3. QED BY <2>1, <2>2
<1>6. r > 0 => a.tokens >= 0
  <2>1. r > 0 => Cap >= Hour
    BY DEF Cap
  <2>2. QED BY <2>1, <1>1, <1>4
<1> HIDE DEF t, x, d, a
<1>7. \A i \in 1 .. Len(d) : i = 1 /\ (a.last - d[i].at) * r = 0
  BY <1>1, <1>3, <1>4
<1>8. Balance(a, d)
  BY <1>1, <1>3, <1>5, <1>6, <1>7 DEF Balance
<1>9. QED BY <1>2, <1>8 DEF t, x, d, a

\* AllowanceKept of the calls of one user.
KeptFor(c) ==
    \A j \in DOMAIN c :
        /\ perHour >= 0 /\ c[j].allowed =>
             \A i \in 1 .. j :
                Hour * Cardinality(LetThrough(c, i, j)) <= Cap + (c[j].at - c[i].at) * perHour
        /\ perHour > 0 /\ (\A i \in 1 .. j - 1 : (c[j].at - c[i].at) * perHour >= Hour)
             => c[j].allowed

\* One call more on a bucket of the right balance, or on a full one.
LEMMA KeptWithOneMore ==
    ASSUME NEW r \in Nat, perHour = r, NEW c \in Seq(Call), KeptFor(c),
           NEW b, b.tokens \in Int, b.last \in Readings, b.tokens <= Cap, NEW now \in Readings,
           Balance(b, c) \/ (c = <<>> /\ b.tokens = Cap /\ b.last = now)
    PROVE  LET t == Refilled(b, now)
               x == [at |-> now, allowed |-> t >= Hour]
           IN  /\ t \in Int /\ t <= Cap /\ x \in Call
               /\ Balance(After(t, now, t >= Hour), Append(c, x))
               /\ KeptFor(Append(c, x))
<1> DEFINE t == Refilled(b, now)
           x == [at |-> now, allowed |-> t >= Hour]
           d == Append(c, x)
           n == Len(c)
           a == After(t, now, t >= Hour)
<1>1. Balance(a, d)
  <2>1. CASE Balance(b, c)
    BY <2>1, BalanceKept
  <2>2. CASE c = <<>> /\ b.tokens = Cap /\ b.last = now
    BY <2>2, BalanceBegins
  <2>3. QED BY <2>1, <2>2
<1>2. Cap \in Int /\ t \in Int /\ t <= Cap /\ now \in Int
  <2>4. Cap \in Int
    BY DEF Cap
  <2>5. now \in Int /\ b.last \in Int
    OBVIOUS
  <2>1. Cap \in Int /\ now \in Int /\ b.last \in Int
    BY <2>4, <2>5
  <2>2. b.tokens + (now - b.last) * r \in Int
    BY <2>1
  <2>3. QED BY <2>1, <2>2 DEF Refilled
<1>3. x \in Call /\ x.at = now /\ (x.allowed <=> t >= Hour)
  <2>1. (t >= Hour) \in BOOLEAN
    OBVIOUS
  <2> DEFINE h == t >= Hour
  <2>2. x = [at |-> now, allowed |-> h] /\ h \in BOOLEAN
    BY <2>1
  <2> HIDE DEF h, x
  <2>3. x.at = now /\ x.allowed = h
    BY <2>2
  <2>4. x \in Call
    BY <2>2 DEF Call
  <2>5. QED BY <2>2, <2>3, <2>4 DEF h
<1>4. a.last = now /\ a.tokens = IF t >= Hour THEN t - Hour ELSE t
  BY DEF After
<1>5. t >= Hour \/ r = 0 \/ \E i \in 1 .. n : (now - c[i].at) * r < Hour
  <2>1. SUFFICES ASSUME r > 0, t < Hour
                 PROVE  \E i \in 1 .. n : (now - c[i].at) * r < Hour
    BY <1>2
  <2>2. Cap >= Hour
    BY <2>1 DEF Cap
  <2>3. t = b.tokens + (now - b.last) * r
    BY <2>1, <2>2, <1>2 DEF Refilled
  <2>4. CASE Balance(b, c)
    <3>1. PICK i \in 1 .. n : b.tokens >= (b.last - c[i].at) * r
      BY <2>1, <2>4 DEF Balance
    <3>2. c[i].at \in Int /\ b.last \in Int
      <4>1. c[i] \in Call
        BY ElementOfSeq
      <4>2. QED BY <4>1 DEF Call
    <3> DEFINE p == (b.last - c[i].at) * r
               q == (now - b.last) * r
               z == (now - c[i].at) * r
    <3>3. p + q = z
      <4>1. \A k \in Int : (b.last - k) * r + (now - b.last) * r = (now - k) * r
        <5>1. b.last \in Int /\ now \in Int
          BY <3>2, <1>2
        <5>2. QED BY <5>1, TimeBetween
      <4>2. QED BY <3>2, <4>1
    <3>7. p \in Int /\ q \in Int
      BY <3>2, <1>2
    <3>4. b.tokens >= p /\ b.tokens + q < Hour
      BY <3>1, <2>1, <2>3
    <3>5. z < Hour
      <4> HIDE DEF p, q, z
      <4>1. QED BY <3>3, <3>4, <3>7, <1>2
    <3>6. QED BY <3>5
  <2>5. CASE b.tokens = Cap /\ b.last = now
    <3>1. (now - b.last) * r = 0
      BY <2>5, <1>2
    <3>2. QED BY <3>1, <2>1, <2>2, <2>3, <2>5, <1>2
  <2>6. QED BY <2>4, <2>5
<1> HIDE DEF t, x, a
<1>6. n \in Nat /\ Len(d) = n + 1 /\ d[n + 1] = x /\ \A k \in 1 .. n : d[k] = c[k]
  <2>1. n \in Nat /\ 1 \in 1 .. n + 1
    BY LenProperties
  <2>2. QED BY <2>1, <1>3, OneMore
<1>7. \A i, j \in 1 .. n : LetThrough(d, i, j) = LetThrough(c, i, j)
  <2>1. \A i \in 1 .. n : i \in 1 .. n + 1
    BY <1>6
  <2>2. QED BY <2>1, <1>3, OneMore
<1>8. DOMAIN d = 1 .. n + 1 /\ DOMAIN c = 1 .. n
  <2>1. d \in Seq(Call)
    BY <1>3, AppendProperties
  <2>2. QED BY <1>6, <2>1, LenProperties
<1> HIDE DEF d
<1>9. ASSUME NEW j \in DOMAIN d
      PROVE  /\ perHour >= 0 /\ d[j].allowed =>
                  \A i \in 1 .. j :
                     Hour * Cardinality(LetThrough(d, i, j)) <= Cap + (d[j].at - d[i].at) * perHour
             /\ perHour > 0 /\ (\A i \in 1 .. j - 1 : (d[j].at - d[i].at) * perHour >= Hour)
                  => d[j].allowed
  <2>1. CASE j = n + 1
    <3>1. ASSUME d[j].allowed, NEW i \in 1 .. j
          PROVE  Hour * Cardinality(LetThrough(d, i, j)) <= Cap + (d[j].at - d[i].at) * perHour
      <4>1. Hour * Cardinality(LetThrough(d, i, j)) + a.tokens <= Cap + (a.last - d[i].at) * perHour
        BY <2>1, <1>1, <1>6, <3>1 DEF Balance
      <4>2. a.tokens >= 0 /\ a.tokens \in Int /\ d[j].at = a.last
        BY <2>1, <3>1, <1>2, <1>3, <1>4, <1>6
      <4>3. Cardinality(LetThrough(d, i, j)) \in Nat
        BY <2>1, <1>6, LetThroughIsFinite
      <4>4. d[i].at \in Int
        <5>1. \A k \in 1 .. n : c[k] \in Call
          BY ElementOfSeq
        <5>2. d[i] \in Call
          BY <5>1, <2>1, <1>3, <1>6
        <5>3. QED BY <5>2 DEF Call
      <4> DEFINE k == Hour * Cardinality(LetThrough(d, i, j))
                 z == (d[j].at - d[i].at) * perHour
      <4>5. k + a.tokens <= Cap + z /\ k \in Int /\ z \in Int
        BY <4>1, <4>2, <4>3, <4>4, <1>2, <1>4
      <4>6. k <= Cap + z
        <5> HIDE DEF k, z
        <5>1. QED BY <4>2, <4>5, <1>2
      <4>7. QED BY <4>6
    <3>2. ASSUME perHour > 0, \A i \in 1 .. j - 1 : (d[j].at - d[i].at) * perHour >= Hour
          PROVE  d[j].allowed
      <4>1. \A i \in 1 .. n : (now - c[i].at) * r >= Hour
        BY <2>1, <3>2, <1>3, <1>6
      <4>2. \A i \in 1 .. n : c[i].at \in Int
        <5>1. \A k \in 1 .. n : c[k] \in Call
          BY ElementOfSeq
        <5>2. QED BY <5>1 DEF Call
      <4>3. \A i \in 1 .. n : (now - c[i].at) * r \in Int
        BY <4>2, <1>2
      <4>4. ~ \E i \in 1 .. n : (now - c[i].at) * r < Hour
        BY <4>1, <4>3
      <4>5. QED BY <2>1, <3>2, <4>4, <1>3, <1>5, <1>6
    <3>3. QED BY <3>1, <3>2
  <2>2. CASE j \in 1 .. n
    <3>1. \A i \in 1 .. j : i \in 1 .. n /\ d[i] = c[i] /\ LetThrough(d, i, j) = LetThrough(c, i, j)
      BY <2>2, <1>6, <1>7
    <3>2. j \in DOMAIN c /\ \A i \in 1 .. j - 1 : i \in 1 .. j
      BY <2>2, <1>6, <1>8
    <3>3. d[j] = c[j]
      BY <2>2, <1>6
    <3>4. QED BY <3>1, <3>2, <3>3 DEF KeptFor
  <2>3. QED BY <2>1, <2>2, <1>6, <1>8
<1>10. KeptFor(d)
  BY <1>9 DEF KeptFor
<1>11. QED BY <1>1, <1>2, <1>3, <1>10 DEF t, x, d, a

LEMMA KeptIs == AllowanceKept <=> \A u \in Users : KeptFor(calls[u])
  BY DEF AllowanceKept, KeptFor

LEMMA CallTypes ==
    ASSUME LimiterTypeOK
    PROVE  calls \in [Users -> Seq(Call)] /\ perHour \in Int
  BY DEF LimiterTypeOK, Call

LEMMA AllowAnyKeeps ==
    ASSUME LimiterIInv, NEW u \in Users, NEW now \in Readings, AllowAny(u, now)
    PROVE  LimiterIInv'
<1>1. calls \in [Users -> Seq(Call)] /\ perHour < 0 /\ perHour' = perHour /\ buckets' = buckets
      /\ perHour \in Int /\ ~ (perHour >= 0) /\ ~ (perHour > 0)
  BY CallTypes DEF LimiterIInv, AllowAny
<1> DEFINE x == [at |-> now, allowed |-> TRUE]
<1>2. x \in Call
  BY DEF Call
<1>3. calls' = [calls EXCEPT ![u] = Append(@, x)]
  BY DEF AllowAny, Called
<1> HIDE DEF x
<1>4. calls' \in [Users -> Seq(Call)]
  BY <1>1, <1>2, <1>3, AppendProperties
<1>5. LimiterTypeOK'
  BY <1>1, <1>4 DEF LimiterIInv, LimiterTypeOK, Call, Cap
<1>6. DOMAIN buckets = {}
  BY <1>1 DEF LimiterIInv, BalanceInv, LimiterTypeOK
<1>7. BalanceInv'
  BY <1>1, <1>6 DEF BalanceInv
<1>8. AllowanceKept'
  BY <1>1 DEF AllowanceKept
<1>9. QED BY <1>5, <1>7, <1>8 DEF LimiterIInv

LEMMA AllowLimitedKeeps ==
    ASSUME LimiterIInv, NEW u \in Users, NEW now \in Readings, AllowLimited(u, now)
    PROVE  LimiterIInv'
<1> DEFINE b == Bucket(u, now)
           t == Refilled(b, now)
           h == t >= Hour
           x == [at |-> now, allowed |-> h]
           a == After(t, now, h)
<1>1. calls \in [Users -> Seq(Call)] /\ perHour \in Nat /\ perHour' = perHour
  <2>1. perHour >= 0 /\ perHour' = perHour
    BY DEF AllowLimited
  <2>2. QED BY <2>1, CallTypes DEF LimiterIInv
<1>2. buckets' = [v \in DOMAIN buckets \cup {u} |-> IF v # u THEN buckets[v] ELSE a]
  BY DEF AllowLimited, After
<1>3. calls' = [calls EXCEPT ![u] = Append(@, x)]
  BY DEF AllowLimited, Called
<1>4. Cap \in Int
  BY <1>1 DEF Cap
<1>5. /\ b.tokens \in Int /\ b.last \in Readings /\ b.tokens <= Cap
      /\ Balance(b, calls[u]) \/ (calls[u] = <<>> /\ b.tokens = Cap /\ b.last = now)
  <2>1. CASE u \in DOMAIN buckets
    BY <2>1 DEF Bucket, LimiterIInv, LimiterTypeOK, BalanceInv
  <2>2. CASE u \notin DOMAIN buckets
    <3>1. b = [tokens |-> Cap, last |-> now]
      BY <2>2 DEF Bucket
    <3>2. calls[u] = <<>>
      BY <2>2, <1>1 DEF LimiterIInv, BalanceInv
    <3>3. QED BY <3>1, <3>2, <1>4
  <2>3. QED BY <2>1, <2>2
<1>6. calls[u] \in Seq(Call) /\ KeptFor(calls[u])
  BY <1>1, KeptIs DEF LimiterIInv
<1>7. /\ t \in Int /\ t <= Cap /\ x \in Call
      /\ Balance(a, Append(calls[u], x)) /\ KeptFor(Append(calls[u], x))
  <2> HIDE DEF b
  <2>1. QED BY <1>1, <1>5, <1>6, KeptWithOneMore
<1>8. a.tokens \in Int /\ a.tokens <= Cap /\ a.last = now
  <2>1. a.last = now /\ a.tokens = IF h THEN t - Hour ELSE t
    BY DEF After
  <2> HIDE DEF t, h, a
  <2>2. QED BY <2>1, <1>4, <1>7
<1> HIDE DEF b, t, h, x, a
<1>9. calls' \in [Users -> Seq(Call)]
  BY <1>1, <1>3, <1>7, AppendProperties
<1>10. LimiterTypeOK'
  <2>1. perHour' \in Rates /\ Cap' = Cap /\ calls' \in [Users -> Seq([at : Readings, allowed : BOOLEAN])]
    BY <1>1, <1>9 DEF LimiterIInv, LimiterTypeOK, Call, Cap
  <2>2. DOMAIN buckets' = DOMAIN buckets \cup {u} /\ DOMAIN buckets' \subseteq Users
    BY <1>2 DEF LimiterIInv, LimiterTypeOK
  <2>3. ASSUME NEW v \in DOMAIN buckets'
        PROVE  buckets'[v].tokens \in Int /\ buckets'[v].last \in Readings /\ buckets'[v].tokens <= Cap
    <3>1. CASE v = u
      BY <3>1, <2>2, <1>2, <1>8
    <3>2. CASE v # u
      <4>1. buckets'[v] = buckets[v] /\ v \in DOMAIN buckets
        BY <3>2, <2>2, <1>2
      <4>2. QED BY <4>1 DEF LimiterIInv, LimiterTypeOK
    <3>3. QED BY <3>1, <3>2
  <2>4. QED BY <2>1, <2>2, <2>3 DEF LimiterTypeOK
<1>11. \A c, d : /\ Balance(c, d)' <=> Balance(c, d)
                 /\ KeptFor(d)' <=> KeptFor(d)
  BY <1>1 DEF Balance, KeptFor, Cap, LetThrough
<1>12. ASSUME NEW v \in Users
       PROVE  /\ v \in DOMAIN buckets' => perHour' >= 0 /\ Balance(buckets'[v], calls'[v])
              /\ v \notin DOMAIN buckets' /\ perHour' >= 0 => calls'[v] = <<>>
              /\ KeptFor(calls'[v])
  <2>1. CASE v = u
    <3>1. buckets'[v] = a /\ v \in DOMAIN buckets' /\ calls'[v] = Append(calls[u], x)
      BY <2>1, <1>1, <1>2, <1>3
    <3>2. QED BY <3>1, <1>1, <1>7
  <2>2. CASE v # u
    <3>1. calls'[v] = calls[v] /\ (v \in DOMAIN buckets' <=> v \in DOMAIN buckets)
          /\ (v \in DOMAIN buckets => buckets'[v] = buckets[v])
      BY <2>2, <1>1, <1>2, <1>3
    <3>2. KeptFor(calls[v])
      BY KeptIs DEF LimiterIInv
    <3>3. QED BY <3>1, <3>2, <1>1 DEF LimiterIInv, BalanceInv
  <2>3. QED BY <2>1, <2>2
<1>13. BalanceInv'
  BY <1>11, <1>12 DEF BalanceInv
<1>14. AllowanceKept'
  <2>1. \A v \in Users : KeptFor(calls'[v])
    BY <1>12
  <2>2. (\A v \in Users : KeptFor(calls[v]))'
    BY <2>1, <1>1 DEF KeptFor, Cap, LetThrough
  <2>3. QED BY <2>2 DEF AllowanceKept, KeptFor
<1>15. QED BY <1>10, <1>13, <1>14 DEF LimiterIInv

LEMMA NextKeepsLimiter == LimiterIInv /\ [LimiterNext]_limiterVars => LimiterIInv'
<1>1. SUFFICES ASSUME LimiterIInv, [LimiterNext]_limiterVars PROVE LimiterIInv'
  OBVIOUS
<1>2. CASE UNCHANGED limiterVars
  BY <1>1, <1>2 DEF limiterVars, LimiterIInv, LimiterTypeOK, BalanceInv, Balance, LetThrough,
                    AllowanceKept, Cap
<1>3. ASSUME NEW u \in Users, Allow(u)
      PROVE  LimiterIInv'
  BY <1>1, <1>3, AllowAnyKeeps, AllowLimitedKeeps DEF Allow
<1>4. QED BY <1>1, <1>2, <1>3 DEF LimiterNext

THEOREM LimiterInvariance == LimiterSpec => []LimiterIInv
<1>1. QED BY InitKeepsLimiter, NextKeepsLimiter, PTL DEF LimiterSpec

\* Every bucket keeps its shape and never holds more than fits in, for every rate and
\* whatever the clock shows.
THEOREM LimiterTypeCorrect == LimiterSpec => []LimiterTypeOK
<1>1. LimiterIInv => LimiterTypeOK
  BY DEF LimiterIInv
<1>2. QED BY <1>1, LimiterInvariance, PTL

\* allow lets nobody through more often than a full bucket and the time between two calls
\* allow, and nobody waits longer than a token takes from the latest reading there was.
THEOREM Allowance == LimiterSpec => []AllowanceKept
<1>1. LimiterIInv => AllowanceKept
  BY DEF LimiterIInv
<1>2. QED BY <1>1, LimiterInvariance, PTL
=============================================================================
