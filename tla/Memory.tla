------------------------------- MODULE Memory -------------------------------
(***************************************************************************)
(* One user's durable preferences: the user_memory table of                *)
(* src/chic/store/db.py, the remember and forget tools and the             *)
(* consolidation of src/chic/agent/agent.py, and the /memory keyboard of   *)
(* src/chic/telegram/bot.py.                                               *)
(*                                                                         *)
(* Every operation is a task cut into the steps between its awaits; tasks  *)
(* overlap, as updates are handled concurrently and the tool calls of one  *)
(* model answer run side by side.  A consolidation reads the table, asks   *)
(* the model for a canonical list, and applies it one transaction at a     *)
(* time; the process may die between any two.                              *)
(*                                                                         *)
(* Keys are numbers, in their sort order.  A preference is the second it   *)
(* was last written in, 0 when it is not there: its text is left out.      *)
(***************************************************************************)
EXTENDS Naturals, FiniteSets, Sequences

CONSTANTS
    Tasks,      \* the tasks that may be under way at once
    Keys,       \* keys of preferences, numbers above 0
    Threshold,  \* CONSOLIDATE_THRESHOLD
    Limits,     \* the values of MAX_RENDERED_PREFERENCES to look at
    MaxClock    \* bound: the seconds the clock counts

ASSUME SizesAssumption ==
    /\ Keys \subseteq Nat \ {0} /\ IsFiniteSet(Keys)
    /\ Threshold \in Nat /\ Limits \subseteq Nat /\ MaxClock \in Nat \ {0}

VARIABLES
    rendered,   \* MAX_RENDERED_PREFERENCES; it stays as it is
    prefs,      \* the table: key -> updated_at, 0 for no row
    clock,      \* _now(), whole seconds
    task,       \* what each task holds across its awaits
    shown,      \* the keys on the buttons of the memory message
    outdated    \* history: has the table been written since that list was read

memory == <<shown, outdated>>
environment == <<clock, rendered>>
vars == <<prefs, environment, task, memory>>

Steps == {"idle", "read", "ask", "drop", "put", "done", "press", "delete", "reread", "edit"}

\* since: what others did to each key after the task read the table; pressed and
\* outdated: the key on the button pressed, and is the list it is on, or the one a
\* redrawing holds, older than a write.
Idle == [pc |-> "idle", current |-> {}, desired |-> {}, todo |-> {}, before |-> {},
         since |-> [k \in Keys |-> "none"], index |-> 0, key |-> 0, pressed |-> 0,
         outdated |-> "no"]

Init ==
    /\ rendered \in Limits
    /\ prefs = [k \in Keys |-> 0]
    /\ clock = 1
    /\ task = [t \in Tasks |-> Idle]
    /\ shown = <<>> /\ outdated = "no"

-----------------------------------------------------------------------------
(* The store.                                                              *)

Present == {k \in Keys : prefs[k] # 0}

\* The row of k comes before that of j in the subquery: written later, and in
\* the same second the smaller key, which is the order of the primary key.
Younger(k, j) == prefs[k] > prefs[j] \/ (prefs[k] = prefs[j] /\ k < j)

\* Store.preferences: the latest rows, as many as are rendered ...
Preferences == {k \in Present : Cardinality({j \in Present : Younger(j, k)}) < rendered}

\* ... in the order of their keys.  (SortSeq, under the library's SetToSortSeq, is a
\* primitive that the prover knows nothing of.)
ByKey(S) ==
    CHOOSE q \in [1 .. Cardinality(S) -> S] : \A i, j \in DOMAIN q : i < j => q[i] < q[j]

Listing == ByKey(Preferences)

\* Tasks that act on what they read of the table.
Reliant == {t \in Tasks : task[t].pc \in {"ask", "drop", "put", "done"}}

\* The tasks with what those of U, and those that hold a list, are to know of a
\* write to k.
Tell(U, k, what) ==
    [u \in Tasks |->
       IF u \in U THEN [task[u] EXCEPT !.since[k] = what]
       ELSE IF task[u].pc \in {"press", "edit"} THEN [task[u] EXCEPT !.outdated = "yes"]
       ELSE task[u]]

\* Store.set_preference and Store.delete_preference, a transaction each.
Write(k, at) ==
    /\ prefs' = [prefs EXCEPT ![k] = at]
    /\ outdated' = "yes" /\ UNCHANGED shown
SetPreference(k)    == Write(k, clock)
DeletePreference(k) == Write(k, 0)

-----------------------------------------------------------------------------
(* Remember, and the consolidation that follows it.                        *)

At(t, step) == task[t].pc = step

Tick ==
    /\ clock < MaxClock
    /\ clock' = clock + 1
    /\ UNCHANGED <<rendered, prefs, task, memory>>

\* _remember with a key and a value that are well formed: the upsert.
Remember(t, k) ==
    /\ At(t, "idle")
    /\ SetPreference(k)
    /\ task' = [Tell(Reliant, k, "set") EXCEPT ![t] = [Idle EXCEPT !.pc = "read"]]
    /\ UNCHANGED environment

\* _maybe_consolidate: too few preferences, or on to the model.
Read(t) ==
    /\ At(t, "read")
    /\ task' = [task EXCEPT ![t] =
                  IF Cardinality(Preferences) < Threshold THEN Idle
                  ELSE [Idle EXCEPT !.pc = "ask", !.current = Preferences, !.before = Present]]
    /\ UNCHANGED <<prefs, environment, memory>>

\* Mutant of Acceptable: the length of the answer is not looked at.
AcceptableAnyLength(desired, current) == desired # {}

\* The guard on the parsed answer: not empty and not longer than the profile.
Acceptable(desired, current) ==
    desired # {} /\ Cardinality(desired) <= Cardinality(current)

\* Mutants of Dropped: the profile is emptied before it is written again, and
\* the table is read a second time.
DroppedAll(current, desired) == current
DroppedNow(current, desired) == Present \ desired

\* The keys to delete: those read that the answer does not keep.
Dropped(current, desired) == current \ desired

\* The model answered: nothing usable, or the keys of a profile.  A failed
\* call, an empty text and one without JSON parse to the empty answer.
Ask(t) ==
    /\ At(t, "ask")
    /\ \E answer \in SUBSET Keys :
         task' = [task EXCEPT ![t] =
                    IF Acceptable(answer, @.current)
                    THEN [@ EXCEPT !.pc = "drop", !.desired = answer,
                                   !.todo = Dropped(task[t].current, answer)]
                    ELSE Idle]
    /\ UNCHANGED <<prefs, environment, memory>>

\* Delete the next key that is not kept, in the order read; then on to the sets.
Drop(t) ==
    /\ At(t, "drop")
    /\ IF task[t].todo = {}
       THEN /\ task' = [task EXCEPT ![t].pc = "put", ![t].todo = task[t].desired]
            /\ UNCHANGED <<prefs, memory>>
       ELSE LET k == CHOOSE i \in task[t].todo : \A j \in task[t].todo : i <= j
            IN  /\ DeletePreference(k)
                /\ task' = [Tell(Reliant \ {t}, k, "del") EXCEPT ![t].todo = @ \ {k}]
    /\ UNCHANGED environment

\* Write the answer's keys in the answer's order, whatever that is.
Put(t) ==
    /\ At(t, "put")
    /\ \E k \in task[t].todo :
         /\ SetPreference(k)
         /\ task' = [Tell(Reliant \ {t}, k, "set") EXCEPT
                       ![t].todo = @ \ {k},
                       ![t].pc = IF task[t].todo = {k} THEN "done" ELSE "put"]
    /\ UNCHANGED environment

\* The tool returns.
Return(t) ==
    /\ At(t, "done")
    /\ task' = [task EXCEPT ![t] = Idle]
    /\ UNCHANGED <<prefs, environment, memory>>

-----------------------------------------------------------------------------
(* Forgetting: the agent's tool, and the buttons of /memory.               *)

\* The forget_preference tool: one transaction.
Forget(k) ==
    /\ DeletePreference(k)
    /\ task' = Tell(Reliant, k, "forgot")
    /\ UNCHANGED environment

\* /memory: the message appears with the list that was read for it.
ShowMemory ==
    /\ shown' = Listing /\ outdated' = "no"
    /\ UNCHANGED <<prefs, environment, task>>

\* The user presses a button; its data is its index.
Press(t, i) ==
    /\ At(t, "idle")
    /\ task' = [task EXCEPT ![t] = [Idle EXCEPT !.pc = "press", !.index = i, !.pressed = shown[i],
                                             !.outdated = outdated]]
    /\ UNCHANGED <<prefs, environment, memory>>

\* Mutant of Lookup: from the end, as if the latest came first.
LookupReversed(i) == Listing[Len(Listing) + 1 - i]

\* prefs[idx]
Lookup(i) == Listing[i]

\* _cb_memory_forget: the preferences are read again and the index looked up.
Resolve(t) ==
    /\ At(t, "press")
    /\ task' = [task EXCEPT ![t] =
                  IF @.index <= Len(Listing)
                  THEN [@ EXCEPT !.pc = "delete", !.key = Lookup(task[t].index)]
                  ELSE [Idle EXCEPT !.pc = "edit", !.current = Preferences]]
    /\ UNCHANGED <<prefs, environment, memory>>

Delete(t) ==
    /\ At(t, "delete")
    /\ DeletePreference(task[t].key)
    /\ task' = [Tell(Reliant, task[t].key, "forgot") EXCEPT ![t] = [Idle EXCEPT !.pc = "reread"]]
    /\ UNCHANGED environment

Reread(t) ==
    /\ At(t, "reread")
    /\ task' = [task EXCEPT ![t].pc = "edit", ![t].current = Preferences,
                             ![t].outdated = "no"]
    /\ UNCHANGED <<prefs, environment, memory>>

\* The message is redrawn, or Telegram refuses the edit.
Edit(t) ==
    /\ At(t, "edit")
    /\ \/ shown' = ByKey(task[t].current) /\ outdated' = task[t].outdated
       \/ UNCHANGED memory
    /\ task' = [task EXCEPT ![t] = Idle]
    /\ UNCHANGED <<prefs, environment>>

\* The task fails, or the process dies.
Abandon(t) ==
    /\ ~ At(t, "idle")
    /\ task' = [task EXCEPT ![t] = Idle]
    /\ UNCHANGED <<prefs, environment, memory>>

Step(t) ==
    \/ \E k \in Keys : Remember(t, k)
    \/ Read(t) \/ Ask(t) \/ Drop(t) \/ Put(t) \/ Return(t)
    \/ \E i \in 1 .. Len(shown) : Press(t, i)
    \/ Resolve(t) \/ Delete(t) \/ Reread(t) \/ Edit(t)
    \/ Abandon(t)

Next ==
    \/ Tick \/ ShowMemory
    \/ \E k \in Keys : Forget(k)
    \/ \E t \in Tasks : Step(t)

Spec == Init /\ [][Next]_vars

-----------------------------------------------------------------------------
(* Properties.                                                             *)

\* Shape of the state; a task in the delete step has a key to delete.
TypeOK ==
    /\ prefs \in [Keys -> 0 .. clock] /\ clock \in 1 .. MaxClock
    /\ shown \in Seq(Keys) /\ Len(shown) <= rendered
    /\ \A t \in Tasks :
         /\ task[t].pc \in Steps
         /\ UNION {task[t].current, task[t].desired, task[t].todo, task[t].before} \subseteq Keys
         /\ task[t].since \in [Keys -> {"none", "set", "del", "forgot"}]
         /\ {task[t].key, task[t].pressed} \subseteq Keys \cup {0}
         /\ At(t, "delete") => task[t].key \in Keys

Consolidating(t) == task[t].pc \in {"drop", "put", "done"}

\* Nobody else has touched the table since the task read it.
Alone(t) == \A k \in Keys : task[t].since[k] = "none"

\* A consolidation never takes away what it did not read: neither a key that
\* was set while the model was thinking, nor a row beyond the rendered ones.
OthersSurvive ==
    \A t \in Tasks : Consolidating(t) =>
        \A k \in Keys \ task[t].current :
            \/ task[t].since[k] = "set"
            \/ task[t].since[k] = "none" /\ k \in task[t].before
            => k \in Present

\* At every moment of a consolidation, so that a crash half-way does no harm, a
\* preference that the answer keeps is there; and left alone, the consolidation has
\* not made the profile longer than it found it.
HalfWayHarmless ==
    \A t \in Tasks : Consolidating(t) =>
        /\ \A k \in task[t].current \cap task[t].desired :
             task[t].since[k] \in {"none", "set"} => k \in Present
        /\ Alone(t) => Cardinality(Present) <= Cardinality(task[t].before)

\* The press of a button deletes the preference that is on it, as long as nothing
\* was written between the reading of the list on the screen and that of the press.
\* (The key in the button's data would make it so always; it is the index.)
PressedDeleted ==
    \A t \in Tasks : At(t, "delete") /\ task[t].outdated = "no" => task[t].key = task[t].pressed
=============================================================================
