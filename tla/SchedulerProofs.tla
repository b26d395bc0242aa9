-------------------------- MODULE SchedulerProofs --------------------------
(***************************************************************************)
(* Proofs about Scheduler, for every schedule, period, grace and list of   *)
(* recipients, and any number of restarts.                                 *)
(*                                                                         *)
(* Nothing records who has got a digest: that no one gets it twice rests   *)
(* on the fire times.  A job in the store of a running process is due at a *)
(* later time than any it was submitted for (StoreInv), so a fire has one  *)
(* run; and a run has sent only to the recipients before the one it is at  *)
(* (RunInv).                                                               *)
(***************************************************************************)
EXTENDS Scheduler, SequenceTheorems, TLAPS

USE CronAssumption, IdsAssumption

Names == {Recipients[i] : i \in 1 .. Len(Recipients)}
Runs == [pc : {"idle", "submitted", "running", "send", "sent"}, fire : 0 .. now,
         at : Nat, code : {"none", "RUB"}]
Sent == [to : Names, fire : Nat, code : {"none", "RUB"}]

\* TypeOK, with the shape of the histories.
Shape ==
    /\ TypeOK
    /\ submitted \in [Jobs -> SUBSET Nat]
    /\ digests \in Seq(Sent)
    /\ refused \in SUBSET (Names \X Nat)

\* A job is due later than at any time it was submitted for; a stale one never was.
StoreInv ==
    /\ \A j \in Jobs : \A f \in submitted[j] : f <= now
    /\ up = "yes" => \A j \in Wanted : \A f \in submitted[j] : f < store[j]
    /\ \A j \in Stale : submitted[j] = {}

\* Has the digest of a fire been sent to a recipient, or did its send raise?
Served(to, fire) ==
    \/ <<to, fire>> \in refused
    \/ \E k \in 1 .. Len(digests) : digests[k].to = to /\ digests[k].fire = fire

\* The run of the digest: its fire is one it was submitted for; before it sends
\* nobody has got the digest of that fire; while it sends, those before the one
\* it is at, with the text it made.
RunInv ==
    LET r == run[Digest]
    IN  /\ r.pc # "idle" => r.fire \in submitted[Digest] /\ r.at >= 1
        /\ r.pc \in {"submitted", "running"} =>
             r.at = 1 /\ \A k \in 1 .. Len(digests) : digests[k].fire # r.fire
        /\ r.pc = "send" =>
             /\ r.at <= Len(Recipients)
             /\ \A k \in 1 .. Len(digests) : digests[k].fire = r.fire =>
                  /\ digests[k].code = r.code
                  /\ \E i \in 1 .. r.at - 1 : digests[k].to = Recipients[i]
             /\ \A i \in 1 .. r.at - 1 : Served(Recipients[i], r.fire)

\* What was sent was of a fire the job was submitted for.
DigestsInv == \A k \in 1 .. Len(digests) : digests[k].fire \in submitted[Digest]

IInv == Shape /\ StoreInv /\ RunInv /\ DigestsInv /\ OncePerFire /\ NobodyRobbed /\ SameDigest

-----------------------------------------------------------------------------
(* Fire times.                                                             *)

\* The latest fire is at or before a time, and the next one behind it.
LEMMA FireBounds ==
    ASSUME NEW t \in Nat
    PROVE  /\ LatestFire(t) \in 0 .. t /\ NextFire(t) \in Nat
           /\ t < NextFire(t)
           /\ NextFire(t) = LatestFire(t) + Period
           /\ NextFire(t) % Period = 0
<1>1. t \div Period \in Nat /\ (t \div Period) * Period <= t /\ t < (t \div Period) * Period + Period
  OBVIOUS
<1>2. (t \div Period + 1) * Period = (t \div Period) * Period + Period
  BY <1>1
<1>3. \A q \in Nat : (q * Period) % Period = 0
  OBVIOUS
<1>4. QED BY <1>1, <1>2, <1>3 DEF LatestFire, NextFire

\* A fire time that has come is not behind the latest.
LEMMA LatestIsLatest ==
    ASSUME NEW t \in Nat, NEW f \in Nat, f % Period = 0, f <= t
    PROVE  f <= LatestFire(t)
<1>1. PICK q \in Nat : f = q * Period
  <2>1. f \div Period \in Nat
    OBVIOUS
  <2>2. f = (f \div Period) * Period
    OBVIOUS
  <2>3. QED BY <2>1, <2>2
<1>2. SUFFICES ASSUME t \div Period + 1 <= q PROVE FALSE
  BY <1>1 DEF LatestFire
<1>3. (t \div Period + 1) * Period <= q * Period
  BY <1>2
<1>4. QED BY <1>1, <1>3, FireBounds DEF NextFire

\* Fire times do not go back.
LEMMA NextMonotone ==
    ASSUME NEW t \in Nat
    PROVE  NextFire(t) <= NextFire(t + 1)
<1>1. t \div Period <= (t + 1) \div Period
  OBVIOUS
<1>2. QED BY <1>1 DEF NextFire

-----------------------------------------------------------------------------
(* The steps.                                                              *)

LEMMA RecipientsShape ==
    /\ Len(Recipients) \in Nat
    /\ Recipients # <<>> => Len(Recipients) >= 1
    /\ \A i, k \in 1 .. Len(Recipients) : Recipients[i] = Recipients[k] => i = k
<1>1. Recipients \in Seq({Recipients[i] : i \in 1 .. Len(Recipients)})
  BY RecipientsAssumption
<1>2. QED BY <1>1, EmptySeq, LenProperties, RecipientsAssumption

LEMMA NotRunningIsRun == TypeOK => NotRunning \in Runs
<1>1. TypeOK => now \in Nat
  BY DEF TypeOK
<1>2. QED BY <1>1 DEF NotRunning, Runs

LEMMA InitIInv == Init => IInv
<1> SUFFICES ASSUME Init PROVE IInv
  OBVIOUS
<1> USE DEF Init
<1>1. Period \in 1 .. NextFire(1)
  BY FireBounds
<1>2. Period % Period = 0
  OBVIOUS
<1>3. TypeOK
  BY <1>1, <1>2 DEF TypeOK, Jobs, NotRunning
<1>4. Shape
  BY <1>3 DEF Shape
<1>5. StoreInv /\ DigestsInv /\ OncePerFire /\ SameDigest
  BY DEF StoreInv, DigestsInv, OncePerFire, SameDigest, Jobs
<1>6. run[Digest].pc = "idle"
  BY DEF Jobs, NotRunning
<1>7. RunInv /\ NobodyRobbed
  BY <1>6 DEF RunInv, NobodyRobbed
<1>8. QED BY <1>4, <1>5, <1>7 DEF IInv

\* A step that sends nothing, submits nothing and leaves the digest's run alone,
\* or ends it.
LEMMA QuietStep ==
    ASSUME IInv, UNCHANGED history, run'[Digest] \in {run[Digest], NotRunning}
    PROVE  RunInv' /\ DigestsInv' /\ OncePerFire' /\ NobodyRobbed' /\ SameDigest'
<1> USE DEF history, IInv
<1>1. DigestsInv' /\ OncePerFire' /\ SameDigest'
  BY DEF DigestsInv, OncePerFire, SameDigest
<1>2. CASE run'[Digest] = run[Digest]
  <2>1. \A to, fire : Served(to, fire)' <=> Served(to, fire)
    BY DEF Served
  <2>2. RunInv'
    BY <1>2, <2>1 DEF RunInv
  <2>3. NobodyRobbed'
    BY <1>2, <2>1 DEF NobodyRobbed
  <2>4. QED BY <1>1, <2>2, <2>3
<1>3. CASE run'[Digest] = NotRunning
  <2>1. RunInv'
    BY <1>3 DEF RunInv, NotRunning
  <2>2. NobodyRobbed'
    BY <1>3 DEF NobodyRobbed, NotRunning
  <2>3. QED BY <1>1, <2>1, <2>2
<1>4. QED BY <1>2, <1>3

LEMMA TickStep == IInv /\ Tick => IInv'
<1> SUFFICES ASSUME IInv, Tick PROVE IInv'
  OBVIOUS
<1> USE DEF IInv, Tick, app, history
<1>1. now \in Nat /\ now' = now + 1 /\ now' \in Nat
  BY DEF Shape, TypeOK
<1>2. NextFire(now) <= NextFire(now') /\ NextFire(now') \in Nat /\ NextFire(now) \in Nat
  BY <1>1, NextMonotone, FireBounds
<1>3. TypeOK'
  BY <1>1, <1>2 DEF Shape, TypeOK
<1>4. Shape' /\ StoreInv'
  BY <1>1, <1>3 DEF Shape, StoreInv
<1>5. QED BY <1>4, QuietStep

\* The schedule is registered: every job is due later than now.
LEMMA StartStep == IInv /\ Start => IInv'
<1> SUFFICES ASSUME IInv, Start PROVE IInv'
  OBVIOUS
<1> USE DEF IInv, Start, history
<1>1. now \in Nat /\ now >= 1
  BY DEF Shape, TypeOK
<1>2. store' = [j \in Wanted |-> NextFire(now)]
  BY DEF Registered, Reconcile
<1>3. /\ NextFire(now) \in 1 .. NextFire(now) /\ NextFire(now) % Period = 0
      /\ now < NextFire(now)
  BY <1>1, FireBounds
<1>4. DOMAIN store' = Wanted /\ \A j \in Wanted : store'[j] = NextFire(now)
  BY <1>2
<1>5. /\ DOMAIN store' \subseteq Jobs
      /\ \A j \in DOMAIN store' :
           store'[j] \in 1 .. NextFire(now') /\ store'[j] % Period = 0
  BY <1>4, <1>3 DEF Jobs
<1>6. now' \in 1 .. MaxNow /\ upSince' \in 0 .. now' /\ up' \in {"yes", "no"}
  BY DEF Shape, TypeOK
<1>7. TypeOK'
  BY <1>4, <1>5, <1>6 DEF Shape, TypeOK
<1>8. Shape'
  BY <1>7 DEF Shape
<1>9. StoreInv'
  BY <1>1, <1>3, <1>4 DEF Shape, StoreInv, Jobs
<1>10. QED BY <1>8, <1>9, QuietStep

LEMMA ResolveStep == IInv /\ Resolve => IInv'
<1> SUFFICES ASSUME IInv, Resolve PROVE IInv'
  OBVIOUS
<1> USE DEF IInv, Resolve, history
<1>1. Shape' /\ StoreInv'
  BY DEF Shape, TypeOK, StoreInv
<1>2. QED BY <1>1, QuietStep

LEMMA StopStep == IInv /\ Stop => IInv'
<1> SUFFICES ASSUME IInv, Stop PROVE IInv'
  OBVIOUS
<1> USE DEF IInv, Stop, history
<1>1. Shape' /\ StoreInv'
  BY DEF Shape, TypeOK, StoreInv, NotRunning
<1>2. run'[Digest] = NotRunning
  BY DEF Jobs
<1>3. QED BY <1>1, <1>2, QuietStep

\* A job that comes to be submitted is submitted for a fire later than any before.
LEMMA SubmitStep == ASSUME IInv, NEW j \in Jobs, Submit(j) PROVE IInv'
<1> USE DEF IInv, Submit, app
<1> DEFINE f == LatestFire(now)
<1>1. now \in Nat /\ now >= 1 /\ j \in Wanted /\ DOMAIN store = Wanted /\ store[j] \in Nat
      /\ store[j] % Period = 0 /\ store[j] <= now
  <2>1. now \in Nat /\ up = "yes" /\ j \in DOMAIN store /\ store[j] <= now
    BY DEF Shape, TypeOK
  <2>2. /\ DOMAIN store = Wanted
        /\ store[j] \in 1 .. NextFire(now) /\ store[j] % Period = 0
    BY <2>1 DEF Shape, TypeOK
  <2>3. QED BY <2>1, <2>2
<1>2. f \in 0 .. now /\ NextFire(now) \in Nat /\ now < NextFire(now) /\ NextFire(now) % Period = 0
      /\ store[j] <= f
  BY <1>1, FireBounds, LatestIsLatest
<1>3. \A g \in submitted[j] : g < f /\ g \in Nat
  BY <1>1, <1>2 DEF StoreInv, Shape
<1> HIDE DEF f
<1>4. /\ DOMAIN store' = Wanted
      /\ \A i \in Wanted : store'[i] = IF i = j THEN NextFire(now) ELSE store[i]
  BY <1>1
<1>5. \A i \in Wanted : store'[i] \in 1 .. NextFire(now) /\ store'[i] % Period = 0
  <2>1. \A i \in Wanted : store[i] \in 1 .. NextFire(now) /\ store[i] % Period = 0
    BY <1>1 DEF Shape, TypeOK
  <2>2. NextFire(now) \in 1 .. NextFire(now) /\ NextFire(now) % Period = 0
    BY <1>1, <1>2
  <2>3. QED BY <1>4, <2>1, <2>2
<1>6. CASE ~ MayStart(j)
  <2>1. Shape'
    BY <1>1, <1>4, <1>5, <1>6 DEF Shape, TypeOK, Jobs
  <2>2. StoreInv'
    BY <1>1, <1>2, <1>4, <1>6 DEF StoreInv, Shape, Jobs
  <2>3. UNCHANGED <<run, history>>
    BY <1>6 DEF history
  <2>4. QED BY <2>1, <2>2, <2>3, QuietStep
<1>7. CASE MayStart(j)
  <2>1. /\ run' = [run EXCEPT ![j] = [pc |-> "submitted", fire |-> f, at |-> 1, code |-> "none"]]
        /\ submitted' = [submitted EXCEPT ![j] = submitted[j] \cup {f}]
    BY <1>7 DEF f, NotRunning
  <2>2. run' \in [Jobs -> Runs]
    BY <1>2, <2>1 DEF Shape, TypeOK, Runs
  <2>3. TypeOK'
    BY <1>1, <1>4, <1>5, <2>2 DEF Shape, TypeOK, Jobs, Runs
  <2>4. Shape'
    BY <1>2, <2>1, <2>3 DEF Shape
  <2>5. StoreInv'
    BY <1>1, <1>2, <1>3, <1>4, <2>1 DEF StoreInv, Shape, Jobs
  <2>6. OncePerFire' /\ SameDigest'
    BY <1>1, <2>1 DEF OncePerFire, SameDigest, Shape, Jobs
  <2>7. DigestsInv'
    BY <2>1 DEF DigestsInv, Shape, Jobs
  <2>8. RunInv' /\ NobodyRobbed'
    <3>1. CASE j # Digest
      <4>1. UNCHANGED run[Digest] /\ UNCHANGED submitted[Digest]
        BY <2>1, <3>1 DEF Shape, TypeOK, Jobs
      <4>2. UNCHANGED <<digests, refused>>
        OBVIOUS
      <4>3. \A to, fire : Served(to, fire)' <=> Served(to, fire)
        BY <4>2 DEF Served
      <4>4. RunInv'
        BY <4>1, <4>2, <4>3 DEF RunInv
      <4>5. NobodyRobbed'
        BY <4>1, <4>2 DEF NobodyRobbed
      <4>6. QED BY <4>4, <4>5
    <3>2. CASE j = Digest
      <4>1. run'[Digest] = [pc |-> "submitted", fire |-> f, at |-> 1, code |-> "none"]
            /\ f \in submitted'[Digest]
        BY <2>1, <3>2 DEF Shape, TypeOK, Jobs
      <4>2. \A k \in 1 .. Len(digests) : digests[k].fire # f
        BY <1>3, <3>2, <1>2 DEF DigestsInv
      <4>3. RunInv'
        BY <4>1, <4>2 DEF RunInv
      <4>4. NobodyRobbed'
        BY <4>1 DEF NobodyRobbed
      <4>5. QED BY <4>3, <4>4
    <3>3. QED BY <3>1, <3>2
  <2>9. QED BY <2>4, <2>5, <2>6, <2>7, <2>8
<1>8. QED BY <1>6, <1>7

LEMMA LaunchStep == ASSUME IInv, NEW j \in Jobs, Launch(j) PROVE IInv'
<1> USE DEF IInv, Launch, app, history
<1>1. run' \in [Jobs -> Runs]
  <2>1. \/ run' = [run EXCEPT ![j] = [run[j] EXCEPT !.pc = "running"]]
        \/ run' = [run EXCEPT ![j] = NotRunning]
    BY DEF Shape, TypeOK
  <2>2. [run[j] EXCEPT !.pc = "running"] \in Runs /\ NotRunning \in Runs
    BY NotRunningIsRun DEF Shape, TypeOK, Runs
  <2>3. QED BY <2>1, <2>2 DEF Shape, TypeOK, Runs
<1>2. Shape' /\ StoreInv'
  BY <1>1 DEF Shape, TypeOK, StoreInv, Runs
<1>3. CASE j = Digest /\ InGrace(run[j].fire)
  <2>1. run'[Digest] = [run[Digest] EXCEPT !.pc = "running"]
    BY <1>3 DEF Shape, TypeOK
  <2>2. run'[Digest].pc = "running" /\ run'[Digest].fire = run[Digest].fire
        /\ run'[Digest].at = run[Digest].at
    BY <2>1 DEF Shape, TypeOK, Jobs
  <2>3. RunInv' /\ NobodyRobbed'
    BY <1>3, <2>2 DEF RunInv, NobodyRobbed
  <2>4. DigestsInv' /\ OncePerFire' /\ SameDigest'
    BY DEF DigestsInv, OncePerFire, SameDigest
  <2>5. QED BY <1>2, <2>3, <2>4
<1>4. CASE ~ (j = Digest /\ InGrace(run[j].fire))
  <2>1. run'[Digest] \in {run[Digest], NotRunning}
    BY <1>4 DEF Shape, TypeOK, Jobs
  <2>2. QED BY <1>2, <2>1, QuietStep
<1>5. QED BY <1>3, <1>4

LEMMA FinishStep == ASSUME IInv, NEW j \in Jobs, Finish(j) PROVE IInv'
<1> USE DEF IInv, Finish, app, history
<1>1. run' \in [Jobs -> Runs]
  BY NotRunningIsRun DEF Shape, TypeOK, Runs
<1>2. Shape' /\ StoreInv'
  BY <1>1 DEF Shape, TypeOK, StoreInv, Runs
<1>3. run'[Digest] \in {run[Digest], NotRunning}
  BY DEF Shape, TypeOK, Jobs
<1>4. QED BY <1>2, <1>3, QuietStep

LEMMA ReturnStep == IInv /\ Return => IInv'
<1> SUFFICES ASSUME IInv, Return PROVE IInv'
  OBVIOUS
<1> USE DEF IInv, Return, app, history
<1>1. run' \in [Jobs -> Runs]
  BY NotRunningIsRun DEF Shape, TypeOK, Runs
<1>2. Shape' /\ StoreInv'
  BY <1>1 DEF Shape, TypeOK, StoreInv, Runs
<1>3. run'[Digest] = NotRunning
  BY DEF Shape, TypeOK, Jobs
<1>4. QED BY <1>2, <1>3, QuietStep

\* The text is made, with the currency of the moment.
LEMMA ComposeStep == IInv /\ Compose => IInv'
<1> SUFFICES ASSUME IInv, Compose PROVE IInv'
  OBVIOUS
<1> USE DEF IInv, Compose, app, history
<1>1. run' = [run EXCEPT ![Digest] = [run[Digest] EXCEPT !.pc = "send", !.code = currency]]
  BY DEF Shape, TypeOK, Jobs
<1>2. /\ run'[Digest].pc = "send" /\ run'[Digest].fire = run[Digest].fire
      /\ run'[Digest].at = run[Digest].at
  BY <1>1 DEF Shape, TypeOK, Jobs
<1>3. run' \in [Jobs -> Runs]
  <2>1. run \in [Jobs -> Runs] /\ currency \in {"none", "RUB"}
    BY DEF Shape, TypeOK, Runs
  <2>2. [run[Digest] EXCEPT !.pc = "send", !.code = currency] \in Runs
    BY <2>1 DEF Jobs, Runs
  <2>3. QED BY <1>1, <2>1, <2>2
<1>4. Shape' /\ StoreInv'
  BY <1>3 DEF Shape, TypeOK, StoreInv, Runs
<1>5. Len(Recipients) >= 1 /\ Len(Recipients) \in Nat
  BY RecipientsShape
<1>6. RunInv' /\ NobodyRobbed'
  <2>1. run[Digest].at = 1 /\ \A k \in 1 .. Len(digests) : digests[k].fire # run[Digest].fire
    BY DEF RunInv
  <2>2. RunInv'
    <3>1. run'[Digest].at = 1 /\ \A k \in 1 .. Len(digests) : digests[k].fire # run'[Digest].fire
      BY <1>2, <2>1
    <3>2. run'[Digest].fire \in submitted[Digest]
      BY <1>2 DEF RunInv
    <3>3. UNCHANGED <<digests, submitted>> /\ 1 .. run'[Digest].at - 1 = {}
      BY <3>1
    <3>4. QED BY <1>2, <1>5, <3>1, <3>2, <3>3 DEF RunInv
  <2>3. NobodyRobbed'
    BY <1>2 DEF NobodyRobbed
  <2>4. QED BY <2>2, <2>3
<1>7. DigestsInv' /\ OncePerFire' /\ SameDigest'
  BY DEF DigestsInv, OncePerFire, SameDigest
<1>8. QED BY <1>4, <1>6, <1>7

\* A send, taken or refused: the run goes on behind the recipient it was at, who
\* has now been served.
LEMMA SendStep == IInv /\ Send => IInv'
<1> SUFFICES ASSUME IInv, Send, NEW r, r = run[Digest], NEW to, to = Recipients[r.at],
                    NEW d, d = [to |-> to, fire |-> r.fire, code |-> r.code]
             PROVE  IInv'
  OBVIOUS
<1>1. /\ r.pc = "send" /\ r.at \in 1 .. Len(Recipients) /\ r.fire \in Nat
      /\ r.code \in {"none", "RUB"}
      /\ r.fire \in submitted[Digest] /\ r.fire <= now
      /\ Len(Recipients) \in Nat
      /\ r \in [pc : {"idle", "submitted", "running", "send", "sent"}, fire : 0 .. now,
                at : Nat, code : {"none", "RUB"}]
  BY RecipientsShape DEF IInv, Send, Shape, TypeOK, RunInv, Jobs
<1>2. \/ digests' = Append(digests, d) /\ UNCHANGED refused
      \/ refused' = refused \cup {<<to, r.fire>>} /\ UNCHANGED digests
  BY DEF Send, Code
<1>3. run' = [run EXCEPT ![Digest] = AfterSend(r)]
  BY DEF Send, AfterRefusal
<1>4. UNCHANGED <<now, up, store, currency, lookup, upSince, submitted, restarts>>
  BY DEF Send, app
<1>5. to \in Names /\ d \in Sent /\ digests \in Seq(Sent) /\ refused \in SUBSET (Names \X Nat)
  BY <1>1 DEF Names, Sent, IInv, Shape
<1>6. \A k \in 1 .. Len(digests) : digests[k].fire = r.fire =>
        digests[k].code = r.code /\ digests[k].to # to
  BY <1>1, RecipientsShape DEF IInv, RunInv
<1>7. \A i \in 1 .. r.at - 1 : Served(Recipients[i], r.fire)
  BY <1>1 DEF IInv, RunInv
<1>8. /\ DigestsInv /\ OncePerFire /\ SameDigest /\ StoreInv /\ TypeOK
      /\ submitted \in [Jobs -> SUBSET Nat]
  BY DEF IInv, Shape
<1>9. /\ run'[Digest].fire = r.fire /\ run'[Digest].code = r.code
      /\ \/ r.at < Len(Recipients) /\ run'[Digest].at = r.at + 1 /\ run'[Digest].pc = "send"
         \/ r.at = Len(Recipients) /\ run'[Digest].at = r.at /\ run'[Digest].pc = "sent"
  BY <1>1, <1>3, <1>8 DEF AfterSend, TypeOK, Jobs
<1>10. TypeOK'
  <2>1. AfterSend(r) \in Runs
    <3>1. PICK q \in Runs : q = r
      BY <1>8, <1>1 DEF TypeOK, Runs, Jobs
    <3>2. [q EXCEPT !.at = @ + 1] \in Runs /\ [q EXCEPT !.pc = "sent"] \in Runs
      BY <3>1 DEF Runs
    <3>3. QED BY <3>1, <3>2 DEF AfterSend
  <2>2. run' \in [Jobs -> Runs]
    BY <2>1, <1>3, <1>8 DEF TypeOK, Runs
  <2>3. QED BY <2>2, <1>4, <1>8 DEF TypeOK, Runs
<1>11. digests' \in Seq(Sent)
  BY <1>2, <1>5
<1>12. refused' \in SUBSET (Names \X Nat)
  BY <1>1, <1>2, <1>5
<1>13. /\ digests' \in Seq(Sent) /\ refused' \in SUBSET (Names \X Nat)
       /\ Len(digests) \in Nat
  BY <1>11, <1>12, <1>5
<1>14. Shape' /\ StoreInv'
  BY <1>4, <1>8, <1>10, <1>13 DEF Shape, StoreInv
<1>15. \A name, fire : Served(name, fire) => Served(name, fire)'
  <2>1. CASE refused' = refused \cup {<<to, r.fire>>} /\ UNCHANGED digests
    BY <2>1 DEF Served
  <2>2. CASE digests' = Append(digests, d) /\ UNCHANGED refused
    <3>1. \A k \in 1 .. Len(digests) : k \in 1 .. Len(digests') /\ digests'[k] = digests[k]
      BY <2>2, <1>5, <1>13
    <3>2. QED BY <2>2, <3>1 DEF Served
  <2>3. QED BY <2>1, <2>2, <1>2
<1>16. Served(to, r.fire)'
  <2>1. CASE refused' = refused \cup {<<to, r.fire>>}
    BY <2>1 DEF Served
  <2>2. CASE digests' = Append(digests, d)
    <3>1. digests'[Len(digests')].to = to /\ digests'[Len(digests')].fire = r.fire
          /\ Len(digests') \in 1 .. Len(digests')
      BY <2>2, <1>5, <1>13
    <3>2. QED BY <3>1 DEF Served
  <2>3. QED BY <2>1, <2>2, <1>2
<1>17. \A i \in 1 .. r.at : Served(Recipients[i], r.fire)'
  BY <1>1, <1>7, <1>15, <1>16
<1>18. DigestsInv' /\ OncePerFire' /\ SameDigest'
  <2>1. CASE UNCHANGED digests
    BY <2>1, <1>4, <1>8 DEF DigestsInv, OncePerFire, SameDigest
  <2>2. CASE digests' = Append(digests, d)
    <3>1. /\ Len(digests') = Len(digests) + 1 /\ digests'[Len(digests) + 1] = d
          /\ \A k \in 1 .. Len(digests) : digests'[k] = digests[k]
      BY <2>2, <1>5
    <3>2. d.to = to /\ d.fire = r.fire /\ d.code = r.code
      OBVIOUS
    <3>3. \A k \in 1 .. Len(digests') : k \in 1 .. Len(digests) \/ k = Len(digests) + 1
      BY <3>1, <1>13
    <3>4. DigestsInv'
      BY <3>1, <3>2, <3>3, <1>1, <1>4, <1>8 DEF DigestsInv
    <3>5. OncePerFire'
      BY <3>1, <3>2, <3>3, <1>4, <1>6, <1>8 DEF OncePerFire
    <3>6. SameDigest'
      BY <3>1, <3>2, <3>3, <1>6, <1>8 DEF SameDigest
    <3>7. QED BY <3>4, <3>5, <3>6
  <2>3. QED BY <2>1, <2>2, <1>2
<1>19. CASE r.at < Len(Recipients)
  <2>1. run'[Digest].pc = "send" /\ run'[Digest].at = r.at + 1
    BY <1>19, <1>9, <1>1
  <2>2. \A k \in 1 .. Len(digests') : digests'[k].fire = r.fire =>
          /\ digests'[k].code = r.code
          /\ \E i \in 1 .. r.at : digests'[k].to = Recipients[i]
    <3>1. \A k \in 1 .. Len(digests) : digests[k].fire = r.fire =>
            /\ digests[k].code = r.code
            /\ \E i \in 1 .. r.at : digests[k].to = Recipients[i]
      BY <1>1 DEF IInv, RunInv
    <3>2. CASE UNCHANGED digests
      BY <3>1, <3>2
    <3>3. CASE digests' = Append(digests, d)
      <4>1. /\ Len(digests) \in Nat /\ Len(digests') = Len(digests) + 1
            /\ \A k \in 1 .. Len(digests) : digests'[k] = digests[k]
            /\ digests'[Len(digests) + 1] = d
        BY <3>3, <1>5
      <4>2. d.to = Recipients[r.at] /\ d.code = r.code /\ r.at \in 1 .. r.at
        BY <1>1
      <4>3. \A k \in 1 .. Len(digests') : k \in 1 .. Len(digests) \/ k = Len(digests) + 1
        BY <4>1
      <4>4. QED BY <3>1, <4>1, <4>2, <4>3
    <3>4. QED BY <3>2, <3>3, <1>2
  <2>3. RunInv' /\ NobodyRobbed'
    BY <2>1, <2>2, <1>1, <1>4, <1>9, <1>17 DEF RunInv, NobodyRobbed
  <2>4. QED BY <2>3, <1>14, <1>18 DEF IInv
<1>20. CASE r.at = Len(Recipients)
  <2>1. run'[Digest].pc = "sent" /\ run'[Digest].at = r.at
    BY <1>20, <1>9, <1>1
  <2>2. RunInv'
    BY <2>1, <1>1, <1>4, <1>9 DEF RunInv
  <2>3. NobodyRobbed'
    BY <2>1, <1>9, <1>17, <1>20 DEF NobodyRobbed, Served
  <2>4. QED BY <2>2, <2>3, <1>14, <1>18 DEF IInv
<1>21. QED BY <1>1, <1>19, <1>20

LEMMA NextIInv == IInv /\ [Next]_vars => IInv'
<1> SUFFICES ASSUME IInv, [Next]_vars PROVE IInv'
  OBVIOUS
<1>1. CASE UNCHANGED vars
  <2>1. Shape' /\ StoreInv'
    BY <1>1 DEF IInv, Shape, TypeOK, StoreInv, vars, app
  <2>2. QED BY <1>1, <2>1, QuietStep DEF IInv, vars, history
<1>2. QED
  BY <1>1, TickStep, StartStep, ResolveStep, StopStep, SubmitStep, LaunchStep, FinishStep,
     ComposeStep, SendStep, ReturnStep DEF Next

-----------------------------------------------------------------------------
\* The inductive invariant.
THEOREM Invariance == Spec => []IInv
BY InitIInv, NextIInv, PTL DEF Spec

\* The clock, the job store and the runs keep their shape; a running process has
\* the schedule's jobs in its store and no others (scheduler.py:57-66).
THEOREM TypeCorrect == Spec => []TypeOK
<1>1. IInv => TypeOK
  BY DEF IInv, Shape
<1>2. QED BY <1>1, Invariance, PTL

\* No recipient gets the digest of one fire twice, whenever the process stops and
\* comes back, although nothing records the deliveries; no stale job runs.
THEOREM Once == Spec => []OncePerFire
<1>1. IInv => OncePerFire
  BY DEF IInv
<1>2. QED BY <1>1, Invariance, PTL

\* A run that gets to its end has served every recipient, but those whose own
\* send raised (digest.py:52-58).
THEOREM Everyone == Spec => []NobodyRobbed
<1>1. IInv => NobodyRobbed
  BY DEF IInv
<1>2. QED BY <1>1, Invariance, PTL

\* All recipients of a fire get one text, although the currency may change while
\* it is being delivered (digest.py:51).
THEOREM Same == Spec => []SameDigest
<1>1. IInv => SameDigest
  BY DEF IInv
<1>2. QED BY <1>1, Invariance, PTL
=============================================================================
