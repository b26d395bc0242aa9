------------------------------ MODULE DemandLog ------------------------------
(***************************************************************************)
(* What the snapshot history promises the analytics that read it: a log of *)
(* complete days that only grows, each day entered after every older day   *)
(* of the backfill window.  A day may stay out of the log only by leaving  *)
(* the window (an outage longer than the window), never because a younger  *)
(* day got ahead of it.                                                    *)
(***************************************************************************)
EXTENDS Naturals

CONSTANTS Backfill, FirstDay, LastDay

VARIABLES today, done

Init == today = FirstDay /\ done = {}

\* A day passes.
Advance ==
    /\ today < LastDay
    /\ today' = today + 1
    /\ UNCHANGED done

\* A complete day is entered, the older days of the window being there.
Enter(d) ==
    /\ d \notin done
    /\ today - Backfill .. d - 1 \subseteq done
    /\ done' = done \cup {d}
    /\ UNCHANGED today

Next == Advance \/ \E d \in 0 .. today - 1 : Enter(d)

Spec == Init /\ [][Next]_<<today, done>>
=============================================================================
