---------------------------- MODULE MemoryProofs ----------------------------
(***************************************************************************)
(* Proofs about Memory, for every finite set of keys, threshold, length of *)
(* the keyboard and number of overlapping tasks.                           *)
(*                                                                         *)
(* A consolidation acts on what it read some steps ago.  The argument      *)
(* follows, for each task by itself, what the rest did to a key since then *)
(* (since) and where the task has got to: what is there is there because   *)
(* it was read and not dropped, or because somebody set it.                *)
(***************************************************************************)
EXTENDS Memory, FiniteSetTheorems, SequenceTheorems, WellFoundedInduction, TLAPS

-----------------------------------------------------------------------------
(* The keys in their order, and the latest of them.                        *)

\* Least elements, which stand in for induction.
LEMMA Minimum ==
    ASSUME NEW S \in SUBSET Nat, S # {}
    PROVE  \E m \in S : \A i \in S : m <= i
<1>1. PICK m \in S : \A i \in S : ~ (<<i, m>> \in OpToRel(<, Nat))
  BY NatLessThanWellFounded, WFMin
<1>2. \A i \in S : ~ (i < m)
  BY <1>1 DEF OpToRel
<1>3. QED BY <1>2

Rising(q) == \A i, j \in DOMAIN q : i < j => q[i] < q[j]

\* A finite set of keys has an order: the smallest, and then those of the rest.
LEMMA OrderExists ==
    ASSUME NEW S \in SUBSET Nat, IsFiniteSet(S)
    PROVE  \E q \in [1 .. Cardinality(S) -> S] : Rising(q)
<1> DEFINE Ordered(T) == \E q \in [1 .. Cardinality(T) -> T] : Rising(q)
           Without == {T \in SUBSET Nat : IsFiniteSet(T) /\ ~ Ordered(T)}
           Sizes == {Cardinality(T) : T \in Without}
<1>1. SUFFICES ASSUME S \in Without PROVE FALSE
  OBVIOUS
<1>2. \A T \in Without :
         IsFiniteSet(T) /\ Cardinality(T) \in Nat /\ ~ Ordered(T) /\ T \in SUBSET Nat
  BY FS_CardinalityType
<1>3. PICK T \in Without : \A R \in Without : Cardinality(T) <= Cardinality(R)
  <2>1. Sizes \in SUBSET Nat /\ Sizes # {}
    <3>1. Cardinality(S) \in Sizes
      BY <1>1
    <3>2. \A n \in Sizes : n \in Nat
      <4> HIDE DEF Without
      <4> QED BY <1>2
    <3>3. QED BY <3>1, <3>2
  <2>2. PICK n \in Sizes : \A i \in Sizes : n <= i
    <3> HIDE DEF Sizes
    <3> QED BY <2>1, Minimum
  <2> HIDE DEF Without
  <2>3. PICK T \in Without : n = Cardinality(T)
    BY <2>2
  <2>4. \A R \in Without : Cardinality(R) \in Sizes
    OBVIOUS
  <2> HIDE DEF Sizes
  <2>5. QED BY <2>2, <2>3, <2>4
<1> HIDE DEF Without, Sizes
<1>4. CASE T = {}
  <2>1. Cardinality(T) = 0
    BY <1>4, FS_EmptySet
  <2>2. [i \in 1 .. 0 |-> 0] \in [1 .. Cardinality(T) -> T]
    BY <2>1
  <2>3. Rising([i \in 1 .. 0 |-> 0])
    BY DEF Rising
  <2>4. Ordered(T)
    BY <2>2, <2>3
  <2>5. QED BY <1>2, <2>4
<1>5. CASE T # {}
  <2>1. PICK m \in T : \A i \in T : m <= i
    BY <1>2, <1>5, Minimum
  <2>2. PICK R : R = T \ {m}
    OBVIOUS
  <2>3. PICK n \in Nat : Cardinality(T) = n + 1 /\ Cardinality(R) = n /\ IsFiniteSet(R)
    <3>1. IsFiniteSet(R) /\ Cardinality(R) \in Nat
      BY <1>2, <2>2, FS_RemoveElement, FS_CardinalityType
    <3>2. Cardinality(T) = Cardinality(R) + 1
      <4>1. Cardinality(R) = Cardinality(T) - 1
        BY <1>2, <2>1, <2>2, FS_RemoveElement
      <4>2. QED BY <1>2, <3>1, <4>1
    <3>3. QED BY <3>1, <3>2
  <2>4. R \in SUBSET Nat
    BY <1>2, <2>2
  <2>5. R \notin Without
    BY <1>3, <2>3
  <2>6. PICK q \in [1 .. n -> R] : Rising(q)
    BY <2>3, <2>4, <2>5 DEF Without
  <2>7. PICK p : p = [i \in 1 .. (n + 1) |-> IF i = 1 THEN m ELSE q[i - 1]]
    OBVIOUS
  <2>8. p \in [1 .. Cardinality(T) -> T]
    <3>1. \A i \in 1 .. (n + 1) : i # 1 => q[i - 1] \in T
      BY <2>2, <2>3, <2>6
    <3>2. QED BY <2>1, <2>3, <2>7, <3>1
  <2>9. Rising(p)
    <3>1. SUFFICES ASSUME NEW i \in 1 .. (n + 1), NEW j \in 1 .. (n + 1), i < j
                   PROVE  p[i] < p[j]
      BY <2>7 DEF Rising
    <3>2. j - 1 \in 1 .. n /\ p[j] = q[j - 1] /\ q[j - 1] \in R
      BY <2>3, <2>6, <2>7, <3>1
    <3>3. CASE i = 1
      <4>1. p[i] = m /\ m \in Nat
        BY <1>2, <2>1, <2>7, <3>3
      <4>2. q[j - 1] \in Nat /\ m <= q[j - 1] /\ q[j - 1] # m
        BY <2>1, <2>2, <2>4, <3>2
      <4>3. QED BY <3>2, <4>1, <4>2
    <3>4. CASE i # 1
      <4>1. i - 1 \in 1 .. n /\ p[i] = q[i - 1] /\ i - 1 < j - 1
        BY <2>3, <2>7, <3>1, <3>4
      <4>2. q[i - 1] < q[j - 1]
        BY <2>6, <3>2, <4>1 DEF Rising
      <4>3. QED BY <3>2, <4>1, <4>2
    <3>5. QED BY <3>3, <3>4
  <2>10. Ordered(T)
    BY <2>8, <2>9
  <2>11. QED BY <1>2, <2>10
<1>6. QED BY <1>4, <1>5

LEMMA ByKeyIsSequence ==
    ASSUME NEW S \in SUBSET Keys
    PROVE  ByKey(S) \in Seq(S) /\ Len(ByKey(S)) = Cardinality(S) /\ Cardinality(S) \in Nat
<1>1. IsFiniteSet(S) /\ S \in SUBSET Nat /\ Cardinality(S) \in Nat
  BY SizesAssumption, FS_Subset, FS_CardinalityType
<1>2. \E q \in [1 .. Cardinality(S) -> S] : Rising(q)
  BY <1>1, OrderExists
<1>3. ByKey(S) \in [1 .. Cardinality(S) -> S]
  BY <1>2 DEF ByKey, Rising
<1>4. QED BY <1>1, <1>3

\* No more preferences are read than are rendered: whoever is not among those before
\* the one read last would have more before it.
LEMMA FewAreRead ==
    ASSUME prefs \in [Keys -> Nat], rendered \in Nat
    PROVE  /\ Preferences \subseteq Present /\ Present \subseteq Keys
           /\ Cardinality(Preferences) <= rendered
<1> DEFINE Before(k) == {j \in Present : Younger(j, k)}
           Distances == {rendered - Cardinality(Before(k)) : k \in Preferences}
<1>1. Preferences \subseteq Present /\ Present \subseteq Keys /\ Keys \subseteq Nat
  BY SizesAssumption DEF Preferences, Present
<1>2. \A S \in SUBSET Keys : IsFiniteSet(S) /\ Cardinality(S) \in Nat
  BY SizesAssumption, FS_Subset, FS_CardinalityType
<1>3. \A k : Before(k) \in SUBSET Keys /\ IsFiniteSet(Before(k)) /\ Cardinality(Before(k)) \in Nat
  <2>1. \A k : Before(k) \in SUBSET Keys
    BY <1>1
  <2> HIDE DEF Before
  <2>2. QED BY <1>2, <2>1
<1>4. \A k \in Preferences : Cardinality(Before(k)) < rendered
  BY DEF Preferences
<1> HIDE DEF Before
<1>5. CASE Preferences = {}
  <2>1. Cardinality(Preferences) = 0
    BY <1>5, FS_EmptySet
  <2>2. QED BY <1>1, <2>1
<1>6. CASE Preferences # {}
  <2>1. PICK d \in Distances : \A e \in Distances : d <= e
    <3>1. Distances \in SUBSET Nat
      BY <1>3, <1>4
    <3>2. Distances # {}
      BY <1>6
    <3> HIDE DEF Distances
    <3>3. QED BY <3>1, <3>2, Minimum
  <2>2. PICK k \in Preferences : d = rendered - Cardinality(Before(k))
    BY <2>1
  <2>3. \A j \in Preferences : rendered - Cardinality(Before(j)) \in Distances
    OBVIOUS
  <2>4. \A j \in Preferences : Cardinality(Before(j)) <= Cardinality(Before(k))
    <3> HIDE DEF Distances
    <3>1. \A j \in Preferences :
             rendered - Cardinality(Before(k)) <= rendered - Cardinality(Before(j))
      BY <2>1, <2>2, <2>3
    <3>2. QED BY <1>3, <3>1
  <2>5. k \notin Before(k) /\ k \in Keys /\ k \in Present
    <3>1. k \in Keys /\ k \in Present
      BY <1>1
    <3>2. ~ Younger(k, k)
      BY <1>1, <3>1 DEF Younger
    <3>3. QED BY <3>1, <3>2 DEF Before
  <2>6. PICK B : B = Before(k) \cup {k}
    OBVIOUS
  <2>7. Cardinality(B) = Cardinality(Before(k)) + 1 /\ B \in SUBSET Keys /\ IsFiniteSet(B)
    <3>1. Cardinality(B) = Cardinality(Before(k)) + 1
      BY <1>3, <2>5, <2>6, FS_AddElement
    <3>2. B \in SUBSET Keys
      BY <1>3, <2>5, <2>6
    <3>3. QED BY <1>2, <3>1, <3>2
  <2>8. Preferences \subseteq B
    <3>1. SUFFICES ASSUME NEW j \in Preferences, j \notin B PROVE FALSE
      OBVIOUS
    <3>2. j \in Present /\ j \in Keys /\ j # k /\ ~ Younger(j, k)
      BY <1>1, <2>6, <3>1 DEF Before
    <3>3. /\ j \in Nat /\ k \in Nat /\ prefs[j] \in Nat /\ prefs[k] \in Nat
      BY <1>1, <2>5, <3>2
    <3>4. Younger(k, j)
      BY <3>2, <3>3 DEF Younger
    <3>5. B \subseteq Before(j)
      <4>1. SUFFICES ASSUME NEW i \in Before(k) PROVE Younger(i, j)
        BY <2>5, <2>6, <3>4, <1>1 DEF Before
      <4>2. Younger(i, k) /\ i \in Nat /\ prefs[i] \in Nat
        BY <1>1, <1>3, <4>1 DEF Before
      <4>3. QED BY <3>3, <3>4, <4>2 DEF Younger
    <3>6. Cardinality(B) <= Cardinality(Before(j))
      BY <1>3, <3>5, FS_Subset
    <3>7. QED BY <1>3, <2>4, <2>7, <3>6
  <2>9. Cardinality(Preferences) <= Cardinality(B)
    BY <2>7, <2>8, FS_Subset
  <2>10. QED
    <3>1. Cardinality(Preferences) \in Nat
      BY <1>1, <1>2
    <3>2. Cardinality(Before(k)) < rendered /\ Cardinality(Before(k)) \in Nat
      BY <1>3, <1>4
    <3>3. QED BY <1>1, <2>7, <2>9, <3>1, <3>2
<1>7. QED BY <1>1, <1>5, <1>6

-----------------------------------------------------------------------------
(* The invariant.                                                          *)

Marks == {"none", "set", "del", "forgot"}

TaskType == [pc : Steps, current : SUBSET Keys, desired : SUBSET Keys, todo : SUBSET Keys,
             before : SUBSET Keys, since : [Keys -> Marks], index : Nat, key : Keys \cup {0},
             pressed : Keys \cup {0}, outdated : {"yes", "no"}]

Shape ==
    /\ prefs \in [Keys -> 0 .. clock] /\ clock \in 1 .. MaxClock /\ rendered \in Nat
    /\ shown \in Seq(Keys) /\ Len(shown) <= rendered /\ outdated \in {"yes", "no"}
    /\ task \in [Tasks -> TaskType]

\* The keys a consolidation may have taken away.
Gone(t) == IF t.pc = "ask" THEN {} ELSE t.current \ t.desired

Untouched(t) == \A k \in Keys : t.since[k] = "none"

\* What a consolidation t may count on, P being the keys that are present.  A key it
\* does not take away is there if somebody set it, or if it was there to begin with
\* and nobody touched it; and if nobody touched anything, P is what was there, less
\* what is dropped so far and, later, with what is kept.
Faithful(P, t) ==
    /\ t.current \subseteq t.before
    /\ t.pc # "ask" => Cardinality(t.desired) <= Cardinality(t.current)
    /\ t.pc = "drop" => t.todo \subseteq t.current \ t.desired
    /\ t.pc = "put" => t.todo \subseteq t.desired
    /\ \A k \in Keys \ Gone(t) :
         t.since[k] = "set" \/ (t.since[k] = "none" /\ k \in t.before) => k \in P
    /\ Untouched(t) =>
         /\ t.pc = "ask" => P \subseteq t.before
         /\ t.pc = "drop" => P \subseteq t.before \ ((t.current \ t.desired) \ t.todo)
         /\ t.pc \in {"put", "done"} => P \subseteq (t.before \ t.current) \cup t.desired

\* What a task of the keyboard holds, Q being the preferences read now and n the buttons
\* there may be: unless it is out of date, the key pressed is the one at its index, and
\* the list to be drawn Q.
Fitting(Q, n, t) ==
    /\ t.pc = "press" => t.index >= 1 /\ (t.outdated = "no" => t.pressed = ByKey(Q)[t.index])
    /\ t.pc = "delete" => t.key \in Keys /\ (t.outdated = "no" => t.key = t.pressed)
    /\ t.pc = "edit" => /\ Cardinality(t.current) <= n
                        /\ t.outdated = "no" => t.current = Q

Working == {"ask", "drop", "put", "done"}

Good(P, Q, n, t) ==
    /\ t.pc \in Working => Faithful(P, t)
    /\ Fitting(Q, n, t)

TasksInv == \A t \in Tasks : Good(Present, Preferences, rendered, task[t])

\* The buttons are those of the table, unless the message is out of date or was never
\* shown.
ShownInv == outdated = "no" => shown = Listing \/ shown = <<>>

IInv == Shape /\ TasksInv /\ ShownInv

-----------------------------------------------------------------------------
(* A write by one task, seen by the others.                                *)

\* What a write makes of the keys there are.
Written(P, k, at) == IF at = 0 THEN P \ {k} ELSE P \cup {k}

LEMMA WriteWrites ==
    ASSUME Shape, NEW k \in Keys, NEW at \in 0 .. clock, Write(k, at)
    PROVE  /\ Present' = Written(Present, k, at)
           /\ prefs' \in [Keys -> 0 .. clock]
           /\ outdated' = "yes" /\ shown' = shown
<1>1. /\ prefs' = [prefs EXCEPT ![k] = at] /\ prefs' \in [Keys -> 0 .. clock]
      /\ outdated' = "yes" /\ shown' = shown
  BY DEF Write, Shape
<1>2. \A j \in Keys : prefs'[j] = IF j = k THEN at ELSE prefs[j]
  BY <1>1 DEF Shape
<1>3. Present' = Written(Present, k, at)
  BY <1>2 DEF Present, Written
<1>4. QED BY <1>1, <1>3

\* A consolidation that is told of the write can count on as much as before.
LEMMA ToldIsFaithful ==
    ASSUME NEW P \in SUBSET Keys, NEW t \in TaskType, Faithful(P, t),
           NEW k \in Keys, NEW at \in Nat, NEW what \in Marks \ {"none"}, at = 0 <=> what # "set",
           NEW u \in TaskType, u = [t EXCEPT !.since[k] = what]
    PROVE  Faithful(Written(P, k, at), u)
<1>1. /\ u.pc = t.pc /\ u.current = t.current /\ u.desired = t.desired /\ u.todo = t.todo
      /\ u.before = t.before
      /\ \A j \in Keys : u.since[j] = IF j = k THEN what ELSE t.since[j]
  BY DEF TaskType
<1>2. ~ Untouched(u)
  BY <1>1 DEF Untouched
<1>3. Gone(u) = Gone(t)
  BY <1>1 DEF Gone
<1>4. ASSUME NEW j \in Keys \ Gone(u),
             u.since[j] = "set" \/ (u.since[j] = "none" /\ j \in u.before)
      PROVE  j \in Written(P, k, at)
  <2>1. CASE j = k
    BY <1>1, <1>4, <2>1 DEF Written
  <2>2. CASE j # k
    <3>1. j \in P
      BY <1>1, <1>3, <1>4, <2>2 DEF Faithful
    <3>2. QED BY <2>2, <3>1 DEF Written
  <2>3. QED BY <2>1, <2>2
<1>5. QED BY <1>1, <1>2, <1>4 DEF Faithful

\* Every task but the one that writes is good after the write, whatever is read now.
LEMMA TellKeeps ==
    ASSUME Shape, TasksInv, NEW k \in Keys, NEW at \in 0 .. clock, NEW what \in Marks \ {"none"},
           at = 0 <=> what # "set",
           NEW U \in SUBSET Reliant, NEW x \in Tasks, x \in Reliant => x \in U,
           NEW Q, NEW u, u = Tell(U, k, what)[x]
    PROVE  u \in TaskType /\ Good(Written(Present, k, at), Q, rendered, u)
<1>1. PICK t : t = task[x]
  OBVIOUS
<1>2. /\ t \in TaskType /\ Fitting(Preferences, rendered, t)
      /\ t.pc \in Working => Faithful(Present, t)
  BY <1>1 DEF Shape, TasksInv, Good
<1>3. Present \in SUBSET Keys /\ at \in Nat
  BY DEF Present, Shape
<1>4. x \in U <=> t.pc \in Working
  BY <1>1 DEF Reliant, Working
<1>5. CASE x \in U
  <2>1. u = [t EXCEPT !.since[k] = what]
    BY <1>1, <1>5 DEF Tell
  <2>2. u \in TaskType /\ u.pc = t.pc
    BY <1>2, <2>1 DEF TaskType
  <2>3. Faithful(Written(Present, k, at), u)
    BY <1>2, <1>3, <1>4, <1>5, <2>1, <2>2, ToldIsFaithful
  <2>4. Fitting(Q, rendered, u)
    BY <1>4, <1>5, <2>2 DEF Fitting, Working
  <2>5. QED BY <2>2, <2>3, <2>4 DEF Good
<1>6. CASE x \notin U /\ t.pc \in {"press", "edit"}
  <2>1. u = [t EXCEPT !.outdated = "yes"]
    BY <1>1, <1>6 DEF Tell
  <2>2. /\ u \in TaskType /\ u.pc = t.pc /\ u.outdated = "yes" /\ u.index = t.index
        /\ u.current = t.current
    BY <1>2, <2>1 DEF TaskType
  <2>3. Fitting(Q, rendered, u)
    BY <1>2, <1>6, <2>2 DEF Fitting
  <2>4. QED BY <1>6, <2>2, <2>3 DEF Good, Working
<1>7. CASE x \notin U /\ t.pc \notin {"press", "edit"}
  <2>1. u = t
    BY <1>1, <1>7 DEF Tell
  <2>2. QED BY <1>2, <1>4, <1>7, <2>1 DEF Good, Fitting
<1>8. QED BY <1>5, <1>6, <1>7

\* So a write leaves the invariant, if the task that writes, if one does, is good.
LEMMA WriteKeeps ==
    ASSUME IInv, NEW k \in Keys, NEW at \in 0 .. clock, NEW what \in Marks \ {"none"},
           at = 0 <=> what # "set", Write(k, at), clock' = clock, rendered' = rendered,
           NEW U \in SUBSET Reliant, task' \in [Tasks -> TaskType],
           \A x \in Tasks :
              \/ (x \in Reliant => x \in U) /\ task'[x] = Tell(U, k, what)[x]
              \/ Good(Written(Present, k, at), Preferences', rendered, task'[x])
    PROVE  IInv'
<1>1. /\ Present' = Written(Present, k, at) /\ prefs' \in [Keys -> 0 .. clock]
      /\ outdated' = "yes" /\ shown' = shown
  BY WriteWrites DEF IInv
<1>2. Shape'
  BY <1>1 DEF IInv, Shape, TaskType
<1>3. ShownInv'
  BY <1>1 DEF ShownInv
<1>4. ASSUME NEW x \in Tasks
      PROVE  Good(Written(Present, k, at), Preferences', rendered, task'[x])
  <2>1. SUFFICES ASSUME x \in Reliant => x \in U, task'[x] = Tell(U, k, what)[x]
                 PROVE  Good(Written(Present, k, at), Preferences', rendered, task'[x])
    OBVIOUS
  <2>2. QED BY <2>1, TellKeeps DEF IInv
<1>5. TasksInv'
  BY <1>1, <1>4 DEF TasksInv
<1>6. QED BY <1>2, <1>3, <1>5 DEF IInv

\* A step that writes nothing and changes at most one task keeps it, if that is good.
LEMMA TaskKeeps ==
    ASSUME IInv, prefs' = prefs, clock' = clock, rendered' = rendered,
           NEW t \in Tasks, NEW u \in TaskType, Good(Present, Preferences, rendered, u),
           task' = [task EXCEPT ![t] = u],
           shown' \in Seq(Keys), Len(shown') <= rendered, outdated' \in {"yes", "no"},
           outdated' = "no" => shown' = Listing \/ shown' = <<>>
    PROVE  IInv'
<1>1. Present' = Present /\ Preferences' = Preferences /\ Listing' = Listing
  <2>1. Present' = Present
    BY DEF Present
  <2>2. Preferences' = Preferences
    BY <2>1 DEF Preferences, Younger
  <2>3. QED BY <2>1, <2>2 DEF Listing
<1>2. /\ task' \in [Tasks -> TaskType]
      /\ \A x \in Tasks : task'[x] = IF x = t THEN u ELSE task[x]
  BY DEF IInv, Shape
<1>3. Shape'
  BY <1>2 DEF IInv, Shape, TaskType
<1>4. TasksInv'
  BY <1>1, <1>2 DEF IInv, TasksInv
<1>5. ShownInv'
  BY <1>1 DEF ShownInv
<1>6. QED BY <1>3, <1>4, <1>5 DEF IInv

LEMMA IdleIsGood ==
    Idle \in TaskType /\ \A P, Q, n : Good(P, Q, n, Idle)
BY DEF Idle, TaskType, Steps, Marks, Good, Working, Fitting

-----------------------------------------------------------------------------
(* The steps.                                                              *)

LEMMA ReadFacts ==
    ASSUME Shape
    PROVE  /\ Present \in SUBSET Keys /\ Preferences \in SUBSET Keys /\ Preferences \subseteq Present
           /\ Cardinality(Preferences) <= rendered
           /\ Listing \in Seq(Keys) /\ Len(Listing) <= rendered /\ Len(Listing) \in Nat
           /\ \A i \in 1 .. Len(Listing) : Listing[i] \in Keys
<1>1. prefs \in [Keys -> Nat] /\ rendered \in Nat
  BY DEF Shape
<1>2. /\ Present \in SUBSET Keys /\ Preferences \in SUBSET Keys /\ Preferences \subseteq Present
      /\ Cardinality(Preferences) <= rendered
  BY <1>1, FewAreRead
<1>3. Listing \in Seq(Preferences) /\ Len(Listing) = Cardinality(Preferences)
  BY <1>2, ByKeyIsSequence DEF Listing
<1>4. Listing \in Seq(Keys)
  BY <1>2, <1>3
<1>5. QED BY <1>2, <1>3, <1>4

LEMMA TickKeeps ==
    ASSUME IInv, Tick
    PROVE  IInv'
<1>1. Shape'
  <2>1. clock \in 1 .. MaxClock /\ clock < MaxClock /\ clock' = clock + 1
    BY DEF IInv, Shape, Tick
  <2>2. clock' \in 1 .. MaxClock /\ 0 .. clock \subseteq 0 .. clock'
    BY <2>1, SizesAssumption
  <2>3. prefs' \in [Keys -> 0 .. clock']
    BY <2>2 DEF IInv, Shape, Tick
  <2>4. QED BY <2>2, <2>3 DEF IInv, Shape, TaskType, Tick, memory
<1>2. Present' = Present /\ Preferences' = Preferences /\ Listing' = Listing
  BY DEF Tick, Present, Preferences, Younger, Listing
<1>3. TasksInv' /\ ShownInv'
  BY <1>2 DEF IInv, TasksInv, ShownInv, Tick, memory
<1>4. QED BY <1>1, <1>3 DEF IInv

LEMMA StutterKeeps ==
    ASSUME IInv, UNCHANGED vars
    PROVE  IInv'
<1>1. Shape'
  BY DEF IInv, Shape, TaskType, vars, environment, memory
<1>2. Present' = Present /\ Preferences' = Preferences /\ Listing' = Listing
  BY DEF vars, environment, Present, Preferences, Younger, Listing
<1>3. TasksInv' /\ ShownInv'
  BY <1>2 DEF IInv, TasksInv, ShownInv, vars, environment, memory
<1>4. QED BY <1>1, <1>3 DEF IInv

LEMMA ShowKeeps ==
    ASSUME IInv, ShowMemory
    PROVE  IInv'
<1>1. Shape'
  BY ReadFacts DEF IInv, Shape, TaskType, ShowMemory, environment
<1>2. Present' = Present /\ Preferences' = Preferences /\ Listing' = Listing
  BY DEF ShowMemory, environment, Present, Preferences, Younger, Listing
<1>3. TasksInv' /\ ShownInv'
  BY <1>2 DEF IInv, TasksInv, ShownInv, ShowMemory, environment
<1>4. QED BY <1>1, <1>3 DEF IInv

LEMMA RememberKeeps ==
    ASSUME IInv, NEW t \in Tasks, NEW k \in Keys, Remember(t, k)
    PROVE  IInv'
<1>1. PICK u : u = [Idle EXCEPT !.pc = "read"]
  OBVIOUS
<1>2. u \in TaskType /\ u.pc = "read"
  BY <1>1, IdleIsGood DEF TaskType, Steps
<1>3. \A P, Q, n : Good(P, Q, n, u)
  BY <1>2 DEF Good, Working, Fitting
<1>4. /\ Write(k, clock) /\ task' = [Tell(Reliant, k, "set") EXCEPT ![t] = u]
      /\ clock' = clock /\ rendered' = rendered
  BY <1>1 DEF Remember, SetPreference, environment
<1>5. clock \in 0 .. clock /\ clock # 0
  BY DEF IInv, Shape
<1>6. \A x \in Tasks : Tell(Reliant, k, "set")[x] \in TaskType
  BY <1>5, TellKeeps DEF IInv, Marks
<1>7. /\ task' \in [Tasks -> TaskType] /\ task'[t] = u
      /\ \A x \in Tasks \ {t} : task'[x] = Tell(Reliant, k, "set")[x]
  BY <1>2, <1>4, <1>6 DEF Tell
<1>8. "set" \in Marks \ {"none"}
  BY DEF Marks
<1>9. \A x \in Tasks :
         \/ (x \in Reliant => x \in Reliant) /\ task'[x] = Tell(Reliant, k, "set")[x]
         \/ Good(Written(Present, k, clock), Preferences', rendered, task'[x])
  BY <1>3, <1>7
<1>10. QED
  BY <1>4, <1>5, <1>7, <1>8, <1>9, WriteKeeps

\* A deletion from outside: the tool's, or a button's.
LEMMA ForgetKeeps ==
    ASSUME IInv, NEW k \in Keys, Forget(k)
    PROVE  IInv'
<1>1. /\ Write(k, 0) /\ task' = Tell(Reliant, k, "forgot")
      /\ clock' = clock /\ rendered' = rendered
  BY DEF Forget, DeletePreference, environment
<1>2. 0 \in 0 .. clock
  BY DEF IInv, Shape
<1>3. \A x \in Tasks : Tell(Reliant, k, "forgot")[x] \in TaskType
  BY <1>2, TellKeeps DEF IInv, Marks
<1>4. task' \in [Tasks -> TaskType]
  BY <1>1, <1>3 DEF Tell
<1>5. "forgot" \in Marks \ {"none"}
  BY DEF Marks
<1>6. QED BY <1>1, <1>2, <1>4, <1>5, WriteKeeps

LEMMA DeleteKeeps ==
    ASSUME IInv, NEW t \in Tasks, Delete(t)
    PROVE  IInv'
<1>1. PICK u : u = [Idle EXCEPT !.pc = "reread"]
  OBVIOUS
<1>2. PICK k : k = task[t].key
  OBVIOUS
<1>3. k \in Keys
  BY <1>2 DEF IInv, TasksInv, Good, Fitting, Delete, At
<1>4. u \in TaskType /\ u.pc = "reread"
  BY <1>1, IdleIsGood DEF TaskType, Steps
<1>5. \A P, Q, n : Good(P, Q, n, u)
  BY <1>4 DEF Good, Working, Fitting
<1>6. /\ Write(k, 0) /\ task' = [Tell(Reliant, k, "forgot") EXCEPT ![t] = u]
      /\ clock' = clock /\ rendered' = rendered
  BY <1>1, <1>2 DEF Delete, DeletePreference, environment
<1>7. 0 \in 0 .. clock
  BY DEF IInv, Shape
<1>8. \A x \in Tasks : Tell(Reliant, k, "forgot")[x] \in TaskType
  BY <1>3, <1>7, TellKeeps DEF IInv, Marks
<1>9. /\ task' \in [Tasks -> TaskType] /\ task'[t] = u
      /\ \A x \in Tasks \ {t} : task'[x] = Tell(Reliant, k, "forgot")[x]
  BY <1>4, <1>6, <1>8 DEF Tell
<1>10. "forgot" \in Marks \ {"none"}
  BY DEF Marks
<1>11. \A x \in Tasks :
          \/ (x \in Reliant => x \in Reliant) /\ task'[x] = Tell(Reliant, k, "forgot")[x]
          \/ Good(Written(Present, k, 0), Preferences', rendered, task'[x])
  BY <1>5, <1>9
<1>12. QED
  BY <1>3, <1>6, <1>7, <1>9, <1>10, <1>11, WriteKeeps

\* A consolidation drops one of the keys it read and is not to keep.
LEMMA DropKeeps ==
    ASSUME IInv, NEW t \in Tasks, Drop(t)
    PROVE  IInv'
<1>1. PICK v : v = task[t]
  OBVIOUS
<1>2. v \in TaskType /\ v.pc = "drop" /\ Faithful(Present, v) /\ t \in Reliant
  BY <1>1 DEF IInv, Shape, TasksInv, Good, Drop, At, Working, Reliant
<1>3. Present \in SUBSET Keys
  BY ReadFacts DEF IInv
<1>4. CASE v.todo = {}
  <2>1. PICK u : u = [v EXCEPT !.pc = "put", !.todo = v.desired]
    OBVIOUS
  <2>2. /\ u \in TaskType /\ u.pc = "put" /\ u.todo = v.desired /\ u.desired = v.desired
        /\ u.current = v.current /\ u.before = v.before /\ u.since = v.since
    BY <1>2, <2>1 DEF TaskType, Steps
  <2>3. Gone(u) = Gone(v) /\ (Untouched(u) <=> Untouched(v))
    BY <1>2, <2>2 DEF Gone, Untouched
  <2>4. Faithful(Present, u)
    BY <1>2, <1>4, <2>2, <2>3 DEF Faithful
  <2>5. Good(Present, Preferences, rendered, u)
    BY <2>2, <2>4 DEF Good, Fitting
  <2>6. task' = [task EXCEPT ![t] = u] /\ UNCHANGED <<prefs, clock, rendered, shown, outdated>>
    BY <1>1, <1>4, <2>1 DEF Drop, environment, memory, IInv, Shape
  <2>7. QED BY <2>2, <2>5, <2>6, TaskKeeps DEF IInv, Shape, ShownInv
<1>5. CASE v.todo # {}
  <2>1. PICK k : k = CHOOSE i \in v.todo : \A j \in v.todo : i <= j
    OBVIOUS
  <2>2. k \in v.todo /\ k \in Keys /\ k \in v.current \ v.desired
    <3>1. v.todo \subseteq Keys /\ v.todo \in SUBSET Nat
      BY <1>2, SizesAssumption DEF TaskType
    <3>2. \E i \in v.todo : \A j \in v.todo : i <= j
      BY <1>5, <3>1, Minimum
    <3>3. k \in v.todo
      BY <2>1, <3>2
    <3>4. QED BY <1>2, <3>1, <3>3 DEF Faithful
  <2>3. PICK U \in SUBSET Reliant : U = Reliant \ {t}
    OBVIOUS
  <2>4. PICK told : told = Tell(U, k, "del")
    OBVIOUS
  <2>5. PICK u : u = [v EXCEPT !.todo = @ \ {k}]
    OBVIOUS
  <2>6. /\ Write(k, 0) /\ task' = [told EXCEPT ![t].todo = @ \ {k}]
        /\ clock' = clock /\ rendered' = rendered
    BY <1>1, <1>5, <2>1, <2>3, <2>4 DEF Drop, DeletePreference, environment
  <2>7. 0 \in 0 .. clock
    BY DEF IInv, Shape
  <2>8. told[t] = v
    BY <1>1, <1>2, <2>3, <2>4 DEF Tell
  <2>9. \A x \in Tasks \ {t} : told[x] \in TaskType
    BY <2>2, <2>3, <2>4, <2>7, TellKeeps DEF IInv, Marks
  <2>10. /\ u \in TaskType /\ u.pc = "drop" /\ u.todo = v.todo \ {k} /\ u.desired = v.desired
         /\ u.current = v.current /\ u.before = v.before /\ u.since = v.since
    BY <1>2, <2>5 DEF TaskType
  <2>11. /\ task' \in [Tasks -> TaskType] /\ task'[t] = u
         /\ \A x \in Tasks \ {t} : task'[x] = told[x]
    <3>1. told \in [Tasks -> TaskType]
      BY <1>2, <2>4, <2>8, <2>9 DEF Tell
    <3>2. task' = [told EXCEPT ![t] = u]
      BY <2>5, <2>6, <2>8, <3>1
    <3>3. QED BY <2>10, <3>1, <3>2
  <2>12. Gone(u) = Gone(v) /\ (Untouched(u) <=> Untouched(v))
    BY <1>2, <2>10 DEF Gone, Untouched
  <2>13. Faithful(Present \ {k}, u)
    <3>1. k \in Gone(u)
      BY <2>2, <2>10 DEF Gone
    <3>2. \A j \in Keys \ Gone(u) :
            u.since[j] = "set" \/ (u.since[j] = "none" /\ j \in u.before) => j \in Present \ {k}
      BY <1>2, <2>10, <2>12, <3>1 DEF Faithful
    <3>3. Untouched(u) => Present \ {k} \subseteq u.before \ ((u.current \ u.desired) \ u.todo)
      BY <1>2, <2>10, <2>12 DEF Faithful
    <3>4. QED BY <1>2, <2>10, <3>2, <3>3 DEF Faithful
  <2>14. Good(Written(Present, k, 0), Preferences', rendered, u)
    BY <2>10, <2>13 DEF Good, Fitting, Written
  <2>15. "del" \in Marks \ {"none"}
    BY DEF Marks
  <2>16. \A x \in Tasks :
            \/ (x \in Reliant => x \in U) /\ task'[x] = Tell(U, k, "del")[x]
            \/ Good(Written(Present, k, 0), Preferences', rendered, task'[x])
    BY <2>3, <2>4, <2>11, <2>14
  <2>17. Write(k, 0) /\ clock' = clock /\ rendered' = rendered
    BY <2>6
  <2>18. task' \in [Tasks -> TaskType]
    BY <2>11
  <2>19. QED
    BY <2>2, <2>3, <2>7, <2>15, <2>16, <2>17, <2>18, WriteKeeps
<1>6. QED BY <1>4, <1>5

\* A consolidation writes one of the keys it keeps.
LEMMA PutKeeps ==
    ASSUME IInv, NEW t \in Tasks, Put(t)
    PROVE  IInv'
<1>1. PICK v : v = task[t]
  OBVIOUS
<1>2. v \in TaskType /\ v.pc = "put" /\ Faithful(Present, v) /\ t \in Reliant
  BY <1>1 DEF IInv, Shape, TasksInv, Good, Put, At, Working, Reliant
<1>3. Present \in SUBSET Keys
  BY ReadFacts DEF IInv
<1>4. PICK U \in SUBSET Reliant : U = Reliant \ {t}
  OBVIOUS
<1>5. PICK k \in v.todo :
        /\ SetPreference(k)
        /\ task' = [Tell(U, k, "set") EXCEPT ![t].todo = @ \ {k},
                                             ![t].pc = IF v.todo = {k} THEN "done" ELSE "put"]
  BY <1>1, <1>4 DEF Put
<1>6. PICK step \in {"done", "put"} : step = IF v.todo = {k} THEN "done" ELSE "put"
  OBVIOUS
<1>7. PICK told : told = Tell(U, k, "set")
  OBVIOUS
<1>8. PICK u : u = [v EXCEPT !.todo = @ \ {k}, !.pc = step]
  OBVIOUS
<1>9. k \in Keys /\ k \in v.desired
  BY <1>2, <1>5 DEF TaskType, Faithful
<1>10. Write(k, clock) /\ clock' = clock /\ rendered' = rendered
  BY <1>5 DEF Put, SetPreference, environment
<1>11. clock \in 0 .. clock /\ clock # 0
  BY DEF IInv, Shape
<1>12. told[t] = v
  BY <1>1, <1>2, <1>4, <1>7 DEF Tell
<1>13. \A x \in Tasks \ {t} : told[x] \in TaskType
  BY <1>4, <1>7, <1>9, <1>11, TellKeeps DEF IInv, Marks
<1>14. /\ u \in TaskType /\ u.pc = step /\ u.todo = v.todo \ {k} /\ u.desired = v.desired
       /\ u.current = v.current /\ u.before = v.before /\ u.since = v.since
  BY <1>2, <1>8 DEF TaskType, Steps
<1>15. /\ task' \in [Tasks -> TaskType] /\ task'[t] = u
       /\ \A x \in Tasks \ {t} : task'[x] = told[x]
  <2>1. told \in [Tasks -> TaskType]
    BY <1>2, <1>7, <1>12, <1>13 DEF Tell
  <2>2. task' = [told EXCEPT ![t].todo = @ \ {k}, ![t].pc = step]
    BY <1>5, <1>6, <1>7
  <2>3. task' = [told EXCEPT ![t] = u]
    BY <1>8, <1>12, <2>1, <2>2
  <2>4. QED BY <1>14, <2>1, <2>3
<1>16. Gone(u) = Gone(v) /\ (Untouched(u) <=> Untouched(v))
  BY <1>2, <1>14 DEF Gone, Untouched
<1>17. Faithful(Present \cup {k}, u)
  <2>1. \A j \in Keys \ Gone(u) :
          u.since[j] = "set" \/ (u.since[j] = "none" /\ j \in u.before) => j \in Present \cup {k}
    BY <1>2, <1>14, <1>16 DEF Faithful
  <2>2. Untouched(u) => Present \cup {k} \subseteq (u.before \ u.current) \cup u.desired
    BY <1>2, <1>9, <1>14, <1>16 DEF Faithful
  <2>3. QED BY <1>2, <1>14, <2>1, <2>2 DEF Faithful
<1>18. Good(Written(Present, k, clock), Preferences', rendered, u)
  BY <1>11, <1>14, <1>17 DEF Good, Fitting, Written
<1>19. "set" \in Marks \ {"none"}
  BY DEF Marks
<1>20. \A x \in Tasks :
          \/ (x \in Reliant => x \in U) /\ task'[x] = Tell(U, k, "set")[x]
          \/ Good(Written(Present, k, clock), Preferences', rendered, task'[x])
  BY <1>4, <1>7, <1>15, <1>18
<1>21. QED
  BY <1>4, <1>9, <1>10, <1>11, <1>15, <1>19, <1>20, WriteKeeps

\* The steps that end a task.
LEMMA IdleKeeps ==
    ASSUME IInv, NEW t \in Tasks, task' = [task EXCEPT ![t] = Idle],
           UNCHANGED <<prefs, environment, memory>>
    PROVE  IInv'
BY IdleIsGood, TaskKeeps DEF IInv, Shape, ShownInv, environment, memory

\* The table is read for a consolidation.
LEMMA ReadKeeps ==
    ASSUME IInv, NEW t \in Tasks, Read(t)
    PROVE  IInv'
<1>1. CASE Cardinality(Preferences) < Threshold
  BY <1>1, IdleKeeps DEF Read
<1>2. CASE ~ (Cardinality(Preferences) < Threshold)
  <2>1. PICK u : u = [Idle EXCEPT !.pc = "ask", !.current = Preferences, !.before = Present]
    OBVIOUS
  <2>2. Preferences \subseteq Present /\ Present \in SUBSET Keys /\ Preferences \in SUBSET Keys
    BY ReadFacts DEF IInv
  <2>3. /\ u \in TaskType /\ u.pc = "ask" /\ u.current = Preferences /\ u.before = Present
        /\ \A k \in Keys : u.since[k] = "none"
    BY <2>1, <2>2 DEF Idle, TaskType, Steps, Marks
  <2>4. Good(Present, Preferences, rendered, u)
    BY <2>2, <2>3 DEF Good, Faithful, Fitting
  <2>5. task' = [task EXCEPT ![t] = u] /\ UNCHANGED <<prefs, environment, memory>>
    BY <1>2, <2>1 DEF Read
  <2>6. QED BY <2>3, <2>4, <2>5, TaskKeeps DEF IInv, Shape, ShownInv, environment, memory
<1>3. QED BY <1>1, <1>2

\* The answer of the model becomes the plan.
LEMMA AskKeeps ==
    ASSUME IInv, NEW t \in Tasks, Ask(t)
    PROVE  IInv'
<1>1. PICK v : v = task[t]
  OBVIOUS
<1>2. v \in TaskType /\ v.pc = "ask" /\ Faithful(Present, v)
  BY <1>1 DEF IInv, Shape, TasksInv, Good, Ask, At, Working
<1>3. PICK answer \in SUBSET Keys :
        task' = [task EXCEPT ![t] =
                   IF Acceptable(answer, @.current)
                   THEN [@ EXCEPT !.pc = "drop", !.desired = answer,
                                  !.todo = Dropped(task[t].current, answer)]
                   ELSE Idle]
  BY DEF Ask
<1>4. UNCHANGED <<prefs, environment, memory>>
  BY DEF Ask
<1>5. CASE ~ Acceptable(answer, v.current)
  <2>1. task' = [task EXCEPT ![t] = Idle]
    BY <1>1, <1>3, <1>5 DEF IInv, Shape
  <2>2. QED BY <1>4, <2>1, IdleKeeps
<1>6. CASE Acceptable(answer, v.current)
  <2>1. PICK u : u = [v EXCEPT !.pc = "drop", !.desired = answer, !.todo = v.current \ answer]
    OBVIOUS
  <2>2. /\ u \in TaskType /\ u.pc = "drop" /\ u.desired = answer /\ u.todo = v.current \ answer
        /\ u.current = v.current /\ u.before = v.before /\ u.since = v.since
    BY <1>2, <2>1 DEF TaskType, Steps
  <2>3. (Untouched(u) <=> Untouched(v)) /\ Gone(v) = {}
    BY <1>2, <2>2 DEF Gone, Untouched
  <2>4. Faithful(Present, u)
    <3>1. \A k \in Keys \ Gone(u) :
            u.since[k] = "set" \/ (u.since[k] = "none" /\ k \in u.before) => k \in Present
      BY <1>2, <2>2, <2>3 DEF Faithful
    <3>2. Untouched(u) => Present \subseteq u.before \ ((u.current \ u.desired) \ u.todo)
      BY <1>2, <2>2, <2>3 DEF Faithful
    <3>3. QED BY <1>2, <1>6, <2>2, <3>1, <3>2 DEF Faithful, Acceptable
  <2>5. Good(Present, Preferences, rendered, u)
    BY <2>2, <2>4 DEF Good, Fitting
  <2>6. task' = [task EXCEPT ![t] = u]
    BY <1>1, <1>3, <1>6, <2>1 DEF Dropped, IInv, Shape
  <2>7. QED
    BY <1>4, <2>2, <2>5, <2>6, TaskKeeps DEF IInv, Shape, ShownInv, environment, memory
<1>7. QED BY <1>5, <1>6

LEMMA PressKeeps ==
    ASSUME IInv, NEW t \in Tasks, NEW i \in 1 .. Len(shown), Press(t, i)
    PROVE  IInv'
<1>1. PICK u : u = [Idle EXCEPT !.pc = "press", !.index = i, !.pressed = shown[i],
                                !.outdated = outdated]
  OBVIOUS
<1>2. /\ shown \in Seq(Keys) /\ i \in Nat /\ i >= 1 /\ shown[i] \in Keys /\ shown # <<>>
      /\ outdated \in {"yes", "no"}
  BY DEF IInv, Shape
<1>3. /\ u \in TaskType /\ u.pc = "press" /\ u.index = i /\ u.pressed = shown[i]
      /\ u.outdated = outdated
  BY <1>1, <1>2, IdleIsGood DEF TaskType, Steps
<1>4. outdated = "no" => shown[i] = ByKey(Preferences)[i]
  BY <1>2 DEF IInv, ShownInv, Listing
<1>5. Good(Present, Preferences, rendered, u)
  BY <1>2, <1>3, <1>4 DEF Good, Fitting, Working
<1>6. task' = [task EXCEPT ![t] = u] /\ UNCHANGED <<prefs, environment, memory>>
  BY <1>1 DEF Press
<1>7. QED BY <1>3, <1>5, <1>6, TaskKeeps DEF IInv, Shape, ShownInv, environment, memory

\* The index of the button is looked up in the table as it is now.
LEMMA ResolveKeeps ==
    ASSUME IInv, NEW t \in Tasks, Resolve(t)
    PROVE  IInv'
<1>1. PICK v : v = task[t]
  OBVIOUS
<1>2. v \in TaskType /\ v.pc = "press" /\ Fitting(Preferences, rendered, v)
  BY <1>1 DEF IInv, Shape, TasksInv, Good, Resolve, At
<1>3. /\ Preferences \in SUBSET Keys /\ Cardinality(Preferences) <= rendered
      /\ \A i \in 1 .. Len(Listing) : Listing[i] \in Keys
      /\ Len(Listing) \in Nat
  BY ReadFacts DEF IInv
<1>4. UNCHANGED <<prefs, environment, memory>>
  BY DEF Resolve
<1>5. CASE v.index <= Len(Listing)
  <2>1. PICK k : k = Listing[v.index]
    OBVIOUS
  <2>2. PICK u : u = [v EXCEPT !.pc = "delete", !.key = k]
    OBVIOUS
  <2>3. v.index \in 1 .. Len(Listing)
    BY <1>2, <1>3, <1>5 DEF TaskType, Fitting
  <2>4. k \in Keys /\ (v.outdated = "no" => k = v.pressed)
    BY <1>2, <1>3, <2>1, <2>3 DEF Fitting, Listing
  <2>5. /\ u \in TaskType /\ u.pc = "delete" /\ u.key = k /\ u.pressed = v.pressed
        /\ u.outdated = v.outdated
    BY <1>2, <2>2, <2>4 DEF TaskType, Steps
  <2>6. Good(Present, Preferences, rendered, u)
    BY <2>4, <2>5 DEF Good, Fitting, Working
  <2>7. task' = [task EXCEPT ![t] = u]
    BY <1>1, <1>5, <2>1, <2>2 DEF Resolve, Lookup, IInv, Shape
  <2>8. QED
    BY <1>4, <2>5, <2>6, <2>7, TaskKeeps DEF IInv, Shape, ShownInv, environment, memory
<1>6. CASE ~ (v.index <= Len(Listing))
  <2>1. PICK u : u = [Idle EXCEPT !.pc = "edit", !.current = Preferences]
    OBVIOUS
  <2>2. u \in TaskType /\ u.pc = "edit" /\ u.current = Preferences
    BY <1>3, <2>1, IdleIsGood DEF TaskType, Steps
  <2>3. Good(Present, Preferences, rendered, u)
    BY <1>3, <2>2 DEF Good, Fitting, Working
  <2>4. task' = [task EXCEPT ![t] = u]
    BY <1>1, <1>6, <2>1 DEF Resolve, IInv, Shape
  <2>5. QED
    BY <1>4, <2>2, <2>3, <2>4, TaskKeeps DEF IInv, Shape, ShownInv, environment, memory
<1>7. QED BY <1>5, <1>6

LEMMA RereadKeeps ==
    ASSUME IInv, NEW t \in Tasks, Reread(t)
    PROVE  IInv'
<1>1. PICK u : u = [task[t] EXCEPT !.pc = "edit", !.current = Preferences, !.outdated = "no"]
  OBVIOUS
<1>2. /\ Preferences \in SUBSET Keys /\ Cardinality(Preferences) <= rendered
      /\ task[t] \in TaskType
  BY ReadFacts DEF IInv, Shape
<1>3. u \in TaskType /\ u.pc = "edit" /\ u.current = Preferences
  BY <1>1, <1>2 DEF TaskType, Steps
<1>4. Good(Present, Preferences, rendered, u)
  BY <1>2, <1>3 DEF Good, Fitting, Working
<1>5. task' = [task EXCEPT ![t] = u] /\ UNCHANGED <<prefs, environment, memory>>
  BY <1>1 DEF Reread, IInv, Shape
<1>6. QED BY <1>3, <1>4, <1>5, TaskKeeps DEF IInv, Shape, ShownInv, environment, memory

LEMMA EditKeeps ==
    ASSUME IInv, NEW t \in Tasks, Edit(t)
    PROVE  IInv'
<1>1. PICK v : v = task[t]
  OBVIOUS
<1>2. v \in TaskType /\ v.pc = "edit" /\ Fitting(Preferences, rendered, v)
  BY <1>1 DEF IInv, Shape, TasksInv, Good, Edit, At
<1>3. task' = [task EXCEPT ![t] = Idle] /\ UNCHANGED <<prefs, environment>>
  BY DEF Edit
<1>4. CASE UNCHANGED memory
  BY <1>3, <1>4, IdleKeeps
<1>5. CASE shown' = ByKey(v.current) /\ outdated' = v.outdated
  <2>1. v.current \in SUBSET Keys /\ Cardinality(v.current) <= rendered
    BY <1>2 DEF TaskType, Fitting
  <2>2. ByKey(v.current) \in Seq(v.current) /\ Len(ByKey(v.current)) = Cardinality(v.current)
    BY <2>1, ByKeyIsSequence
  <2>3. shown' \in Seq(Keys) /\ Len(shown') <= rendered
    BY <1>5, <2>1, <2>2
  <2>4. outdated' \in {"yes", "no"} /\ (outdated' = "no" => shown' = Listing)
    BY <1>2, <1>5 DEF TaskType, Fitting, Listing
  <2>5. QED
    BY <1>3, <2>3, <2>4, IdleIsGood, TaskKeeps DEF environment
<1>6. QED BY <1>1, <1>4, <1>5 DEF Edit

-----------------------------------------------------------------------------
(* Theorems.                                                               *)

\* What each task read, and what the others did to it since, accounts for what is in
\* the table and on the buttons, in every state.
THEOREM Invariance == Spec => []IInv
<1>1. Init => IInv
  <2> SUFFICES ASSUME Init PROVE IInv
    OBVIOUS
  <2>1. Shape
    <3>1. clock \in 1 .. MaxClock /\ rendered \in Nat
      BY SizesAssumption DEF Init
    <3>2. task \in [Tasks -> TaskType]
      BY IdleIsGood DEF Init
    <3>3. shown \in Seq(Keys) /\ Len(shown) = 0
      BY DEF Init
    <3>4. prefs \in [Keys -> 0 .. clock]
      BY <3>1 DEF Init
    <3>5. QED BY <3>1, <3>2, <3>3, <3>4 DEF Init, Shape
  <2>2. TasksInv
    BY IdleIsGood DEF Init, TasksInv
  <2>3. ShownInv
    BY DEF Init, ShownInv
  <2>4. QED BY <2>1, <2>2, <2>3 DEF IInv
<1>2. IInv /\ [Next]_vars => IInv'
  <2> SUFFICES ASSUME IInv, [Next]_vars PROVE IInv'
    OBVIOUS
  <2>1. CASE Tick \/ ShowMemory
    BY <2>1, TickKeeps, ShowKeeps
  <2>2. ASSUME NEW k \in Keys, Forget(k)
        PROVE  IInv'
    BY <2>2, ForgetKeeps
  <2>3. ASSUME NEW t \in Tasks, Step(t)
        PROVE  IInv'
    <3>1. CASE \E k \in Keys : Remember(t, k)
      BY <3>1, RememberKeeps
    <3>2. CASE Read(t) \/ Ask(t) \/ Drop(t) \/ Put(t)
      BY <3>2, ReadKeeps, AskKeeps, DropKeeps, PutKeeps
    <3>3. CASE \E i \in 1 .. Len(shown) : Press(t, i)
      BY <3>3, PressKeeps
    <3>4. CASE Resolve(t) \/ Delete(t) \/ Reread(t) \/ Edit(t)
      BY <3>4, ResolveKeeps, DeleteKeeps, RereadKeeps, EditKeeps
    <3>5. CASE Return(t) \/ Abandon(t)
      BY <3>5, IdleKeeps DEF Return, Abandon
    <3>6. QED BY <2>3, <3>1, <3>2, <3>3, <3>4, <3>5 DEF Step
  <2>4. CASE UNCHANGED vars
    BY <2>4, StutterKeeps
  <2>5. QED BY <2>1, <2>2, <2>3, <2>4 DEF Next
<1>3. QED BY <1>1, <1>2, PTL DEF Spec

\* Shape of the state: the keyboard never shows more than MAX_RENDERED_PREFERENCES
\* buttons, and a task about to delete has a key to delete.
THEOREM TypeCorrect == Spec => []TypeOK
<1>1. IInv => TypeOK
  <2> SUFFICES ASSUME IInv PROVE TypeOK
    OBVIOUS
  <2>1. ASSUME NEW t \in Tasks
        PROVE  /\ task[t].pc \in Steps
               /\ UNION {task[t].current, task[t].desired, task[t].todo, task[t].before} \subseteq Keys
               /\ task[t].since \in [Keys -> {"none", "set", "del", "forgot"}]
               /\ {task[t].key, task[t].pressed} \subseteq Keys \cup {0}
               /\ At(t, "delete") => task[t].key \in Keys
    <3>1. task[t] \in TaskType /\ Fitting(Preferences, rendered, task[t])
      BY DEF IInv, Shape, TasksInv, Good
    <3>2. QED BY <3>1 DEF TaskType, Marks, Fitting, At
  <2>2. QED BY <2>1 DEF IInv, Shape, TypeOK
<1>2. QED BY <1>1, Invariance, PTL

\* A consolidation takes away nothing that it did not read: no key set while the
\* model was thinking, no row beyond the rendered ones.
THEOREM Survive == Spec => []OthersSurvive
<1>1. IInv => OthersSurvive
  <2> SUFFICES ASSUME IInv, NEW t \in Tasks, Consolidating(t), NEW k \in Keys \ task[t].current,
                      task[t].since[k] = "set" \/ (task[t].since[k] = "none" /\ k \in task[t].before)
               PROVE  k \in Present
    BY DEF OthersSurvive
  <2>1. Faithful(Present, task[t]) /\ task[t].pc # "ask"
    BY DEF IInv, TasksInv, Good, Consolidating, Working
  <2>2. k \in Keys \ Gone(task[t])
    BY <2>1 DEF Gone
  <2>3. QED BY <2>1, <2>2 DEF Faithful
<1>2. QED BY <1>1, Invariance, PTL

\* A consolidation cut short anywhere does no harm: what the answer keeps is there,
\* and left alone the profile is not longer than it was found.
THEOREM Harmless == Spec => []HalfWayHarmless
<1>1. IInv => HalfWayHarmless
  <2> SUFFICES ASSUME IInv, NEW t \in Tasks, Consolidating(t)
               PROVE  /\ \A k \in task[t].current \cap task[t].desired :
                            task[t].since[k] \in {"none", "set"} => k \in Present
                      /\ Alone(t) => Cardinality(Present) <= Cardinality(task[t].before)
    BY DEF HalfWayHarmless
  <2>1. PICK v : v = task[t]
    OBVIOUS
  <2>2. v \in TaskType /\ Faithful(Present, v) /\ v.pc \in {"drop", "put", "done"}
    BY <2>1 DEF IInv, Shape, TasksInv, Good, Consolidating, Working
  <2>3. ASSUME NEW k \in v.current \cap v.desired, v.since[k] \in {"none", "set"}
        PROVE  k \in Present
    <3>1. k \in Keys \ Gone(v) /\ k \in v.before
      BY <2>2 DEF TaskType, Faithful, Gone
    <3>2. QED BY <2>2, <2>3, <3>1 DEF Faithful
  <2>4. ASSUME Untouched(v)
        PROVE  Cardinality(Present) <= Cardinality(v.before)
    <3>1. \A S \in SUBSET Keys : IsFiniteSet(S) /\ Cardinality(S) \in Nat
      BY SizesAssumption, FS_Subset, FS_CardinalityType
    <3>2. /\ Present \in SUBSET Keys /\ v.before \in SUBSET Keys /\ v.current \in SUBSET Keys
          /\ v.desired \in SUBSET Keys /\ v.current \subseteq v.before
      BY <2>2, ReadFacts DEF IInv, TaskType, Faithful
    <3>3. CASE v.pc = "drop"
      <4>1. Present \subseteq v.before
        BY <2>2, <2>4, <3>3 DEF Faithful
      <4>2. QED BY <3>1, <3>2, <4>1, FS_Subset
    <3>4. CASE v.pc \in {"put", "done"}
      <4>1. PICK K : K = v.before \ v.current
        OBVIOUS
      <4>2. Present \subseteq K \cup v.desired /\ Cardinality(v.desired) <= Cardinality(v.current)
        BY <2>2, <2>4, <3>4, <4>1 DEF Faithful
      <4>3. K \in SUBSET Keys /\ (K \cup v.desired) \in SUBSET Keys
        BY <3>2, <4>1
      <4>4. Cardinality(Present) <= Cardinality(K \cup v.desired)
        BY <3>1, <4>2, <4>3, FS_Subset
      <4>5. Cardinality(K \cup v.desired) <= Cardinality(K) + Cardinality(v.desired)
        <5>1. Cardinality(K \cup v.desired)
                = Cardinality(K) + Cardinality(v.desired) - Cardinality(K \cap v.desired)
          BY <3>1, <3>2, <4>3, FS_Union
        <5>2. Cardinality(K \cap v.desired) \in Nat
          <6>1. (K \cap v.desired) \in SUBSET Keys
            BY <3>2
          <6>2. QED BY <3>1, <6>1
        <5>3. QED BY <3>1, <3>2, <4>3, <5>1, <5>2
      <4>6. Cardinality(v.before) = Cardinality(K) + Cardinality(v.current)
        <5>1. K \cup v.current = v.before /\ K \cap v.current = {}
          BY <3>2, <4>1
        <5>2. Cardinality(K \cup v.current)
                = Cardinality(K) + Cardinality(v.current) - Cardinality(K \cap v.current)
          BY <3>1, <3>2, <4>3, FS_Union
        <5>3. Cardinality(K \cap v.current) = 0
          BY <5>1, FS_EmptySet
        <5>4. Cardinality(K) \in Nat /\ Cardinality(v.current) \in Nat
          BY <3>1, <3>2, <4>3
        <5>5. Cardinality(K \cup v.current) = Cardinality(K) + Cardinality(v.current)
          BY <5>2, <5>3, <5>4
        <5>6. QED BY <5>1, <5>5
      <4>7. QED BY <3>1, <3>2, <4>2, <4>3, <4>4, <4>5, <4>6
    <3>5. QED BY <2>2, <3>3, <3>4
  <2>5. QED BY <2>1, <2>3, <2>4 DEF Alone, Untouched
<1>2. QED BY <1>1, Invariance, PTL

\* The button pressed deletes the preference that is on it, as long as nothing was
\* written between the two readings of the table.
THEOREM Pressed == Spec => []PressedDeleted
<1>1. IInv => PressedDeleted
  BY DEF IInv, TasksInv, Good, Fitting, At, PressedDeleted
<1>2. QED BY <1>1, Invariance, PTL
=============================================================================
