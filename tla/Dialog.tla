------------------------------- MODULE Dialog -------------------------------
(***************************************************************************)
(* One user's dialog: ChicAgent.handle and reset of src/chic/agent/agent.py *)
(* over the messages and session_summary tables of src/chic/store/db.py.   *)
(*                                                                         *)
(* Every update is handled by a task of its own, so turns of one user      *)
(* overlap with each other and with /new; a turn is cut into the steps     *)
(* between its awaits.  It reads the session's epoch (the id of the last   *)
(* reset row), the rolling summary, and the rows after the summary's       *)
(* watermark; when these exceed the budget it folds all but the latest     *)
(* into the summary; it runs the model on summary and rows; it stores its  *)
(* question and its answer, one transaction each.                          *)
(*                                                                         *)
(* A row's id is its index in rows: ids grow by one and nothing is deleted. *)
(* A summary is the set of the row ids it was made from.  Every message    *)
(* weighs one unit of the budget.                                          *)
(***************************************************************************)
EXTENDS Integers, Sequences, FiniteSets

CONSTANTS
    Slots,          \* the update tasks that may be under way at once
    Budgets,        \* the summary_char_budgets an agent may be made with, in messages;
                    \* negative: no summary
    KeepRecent,     \* SUMMARY_KEEP_RECENT
    ScanLimit,      \* MAX_UNSUMMARIZED_SCAN
    HistoryDepth,   \* history_depth, for a negative budget
    MaxRows         \* bound: rows in the table

ASSUME SizesAssumption ==
    /\ Budgets \subseteq Int /\ KeepRecent \in Nat /\ ScanLimit \in Nat /\ HistoryDepth \in Nat
    /\ MaxRows \in Nat

VARIABLES
    budget,     \* _summary_char_budget, set when the agent is made
    rows,       \* the user's rows of messages: role, and the session its turn read
    summaries,  \* session_summary: a function of the epochs that have a row
    turn        \* what each task holds across its awaits

vars == <<budget, rows, summaries, turn>>

Roles == {"user", "assistant", "reset"}
Steps == {"idle", "recent", "summary", "tail", "fold", "put", "run", "user", "answer"}

Ids == 1 .. Len(rows)

\* Row ids of user/assistant messages after an id.
Said(after) == {i \in Ids : i > after /\ rows[i].role # "reset"}

\* The first and the last n of a set of ids, in id order.
First(S, n) == {i \in S : Cardinality({j \in S : j <= i}) <= n}
Last(S, n)  == {i \in S : Cardinality({j \in S : j >= i}) <= n}

Idle == [pc |-> "idle", epoch |-> 0, cover |-> {}, upto |-> 0, tail |-> {}, hist |-> {},
         top |-> 0, whole |-> "yes"]

Init ==
    /\ budget \in Budgets
    /\ rows = <<>>
    /\ summaries = [e \in {} |-> {}]
    /\ turn = [s \in Slots |-> Idle]

-----------------------------------------------------------------------------
(* The store.                                                              *)

\* Store.session_epoch: the id of the last reset row, or 0.
SessionEpoch ==
    CHOOSE e \in 0 .. Len(rows) :
        /\ e # 0 => rows[e].role = "reset"
        /\ \A i \in Ids : rows[i].role = "reset" => i <= e

\* Store.get_session_summary: no row reads as an empty summary up to id 0.
GetSessionSummary(e) ==
    IF e \in DOMAIN summaries THEN summaries[e] ELSE [cover |-> {}, upto |-> 0]

\* Store.put_session_summary: an unconditional upsert on the epoch.
PutSessionSummary(e, r) ==
    summaries' = [x \in DOMAIN summaries \cup {e} |-> IF x = e THEN r ELSE summaries[x]]

\* Store.messages_since: the oldest rows after the watermark, up to limit.
MessagesSince(since, limit) == First(Said(since), limit)

\* Store.recent_messages: the youngest rows of the session current right now.
RecentMessages(n) == Last(Said(SessionEpoch), n)

\* Store.append_message, in a transaction of its own.
Append1(role, sess) ==
    /\ Len(rows) < MaxRows
    /\ rows' = Append(rows, [role |-> role, sess |-> sess])

-----------------------------------------------------------------------------
(* A turn.                                                                 *)

At(s, step) == turn[s].pc = step

\* handle: session_epoch is read.
Begin(s) ==
    /\ At(s, "idle")
    /\ turn' = [turn EXCEPT ![s] =
                  [Idle EXCEPT !.pc = IF budget < 0 THEN "recent" ELSE "summary",
                               !.epoch = SessionEpoch]]
    /\ UNCHANGED <<budget, rows, summaries>>

\* _condense_history without summaries.
ReadRecent(s) ==
    /\ At(s, "recent")
    /\ turn' = [turn EXCEPT ![s].hist = RecentMessages(HistoryDepth), ![s].top = Len(rows),
                            ![s].pc = "run"]
    /\ UNCHANGED <<budget, rows, summaries>>

\* Mutant of Since: the watermark of an absent summary is not raised to the epoch.
SinceWatermark(upto, epoch) == upto

\* "if up_to < epoch: up_to = epoch"
Since(upto, epoch) == IF upto < epoch THEN epoch ELSE upto

\* _condense_history: the summary and its watermark, not below the epoch.
ReadSummary(s) ==
    /\ At(s, "summary")
    /\ LET r == GetSessionSummary(turn[s].epoch)
       IN  turn' = [turn EXCEPT
                      ![s].cover = r.cover,
                      ![s].upto = Since(r.upto, turn[s].epoch),
                      ![s].pc = "tail"]
    /\ UNCHANGED <<budget, rows, summaries>>

\* Mutant of Kept: the slice is taken at the wrong end.
KeptOldest(tail) == First(tail, KeepRecent)

\* recent: the last messages of the tail, which stay verbatim.
Kept(tail) == Last(tail, KeepRecent)

\* The rows after the watermark; within the budget, or few, they are the history.
ReadTail(s) ==
    /\ At(s, "tail")
    /\ LET tail == MessagesSince(turn[s].upto, ScanLimit)
           fits == Cardinality(tail) <= budget \/ Cardinality(tail) <= KeepRecent
       IN  turn' = [turn EXCEPT
                      ![s].tail = tail,
                      ![s].hist = IF fits THEN tail ELSE Kept(tail),
                      ![s].top = Len(rows),
                      ![s].pc = IF fits THEN "run" ELSE "fold"]
    /\ UNCHANGED <<budget, rows, summaries>>

\* Mutant of Foldable: the whole tail is summarised, the recent messages too.
FoldableTail(t) == t.tail

\* foldable: the tail but the messages kept.
Foldable(t) == t.tail \ t.hist

\* _summarize_into: the model call fails (or answers nothing), and the turn goes
\* on with the last messages; or it answers with a longer summary.
Fold(s) ==
    /\ At(s, "fold")
    /\ \/ turn' = [turn EXCEPT ![s].whole = "no", ![s].pc = "run"]
       \/ turn' = [turn EXCEPT ![s].cover = @ \cup Foldable(turn[s]), ![s].pc = "put"]
    /\ UNCHANGED <<budget, rows, summaries>>

\* Mutant of Watermark: the last id of the tail instead of the last one folded.
WatermarkOfTail(t) == CHOOSE i \in t.tail : \A j \in t.tail : j <= i

\* foldable[-1].id
Watermark(t) == CHOOSE i \in Foldable(t) : \A j \in Foldable(t) : j <= i

\* put_session_summary.
Put(s) ==
    /\ At(s, "put")
    /\ PutSessionSummary(turn[s].epoch,
                         [cover |-> turn[s].cover, upto |-> Watermark(turn[s])])
    /\ turn' = [turn EXCEPT ![s].pc = "run"]
    /\ UNCHANGED <<budget, rows>>

\* The model answered.
Run(s) ==
    /\ At(s, "run")
    /\ turn' = [turn EXCEPT ![s].pc = "user"]
    /\ UNCHANGED <<budget, rows, summaries>>

\* _persist: the question, then the answer; a failed insert (or an empty text)
\* is passed over.
PersistUser(s) ==
    /\ At(s, "user")
    /\ Append1("user", turn[s].epoch) \/ UNCHANGED rows
    /\ turn' = [turn EXCEPT ![s].pc = "answer"]
    /\ UNCHANGED <<budget, summaries>>

PersistAnswer(s) ==
    /\ At(s, "answer")
    /\ Append1("assistant", turn[s].epoch) \/ UNCHANGED rows
    /\ turn' = [turn EXCEPT ![s] = Idle]
    /\ UNCHANGED <<budget, summaries>>

\* An exception or the usage limit ends the turn; or the process dies.
Abandon(s) ==
    /\ ~ At(s, "idle")
    /\ turn' = [turn EXCEPT ![s] = Idle]
    /\ UNCHANGED <<budget, rows, summaries>>

\* /new: start_session.
Reset ==
    /\ Append1("reset", Len(rows) + 1)
    /\ UNCHANGED <<budget, summaries, turn>>

Step(s) ==
    \/ Begin(s) \/ ReadRecent(s) \/ ReadSummary(s) \/ ReadTail(s) \/ Fold(s) \/ Put(s)
    \/ Run(s) \/ PersistUser(s) \/ PersistAnswer(s) \/ Abandon(s)

Next == Reset \/ \E s \in Slots : Step(s)

Spec == Init /\ [][Next]_vars

-----------------------------------------------------------------------------
(* Properties.                                                             *)

\* The session epochs there are: 0 and the reset rows.
Epochs == {0} \cup {i \in Ids : rows[i].role = "reset"}

\* Shape of the state; every epoch read or summarised is that of a session.
TypeOK ==
    /\ budget \in Budgets
    /\ rows \in Seq([role : Roles, sess : Nat])
    /\ DOMAIN summaries \subseteq Epochs
    /\ \A e \in DOMAIN summaries : summaries[e] \in [cover : SUBSET Ids, upto : Ids]
    /\ turn \in [Slots -> [pc : Steps, epoch : Epochs, cover : SUBSET Ids, upto : 0 .. Len(rows),
                           tail : SUBSET Ids, hist : SUBSET Ids, top : 0 .. Len(rows),
                           whole : {"yes", "no"}]]

\* A stored summary was made from exactly the session's messages up to its
\* watermark: whatever turns overlap, and although the upsert may move the
\* watermark back, no message falls between summary and tail and none is in
\* both.
SummaryIsExact ==
    \A e \in DOMAIN summaries :
        summaries[e].cover = {i \in Said(e) : i <= summaries[e].upto}

\* What a turn puts before the model.
Context(t) == t.cover \cup t.hist

\* The messages of the session there were when the turn read its tail.
Known(t) == {i \in Said(t.epoch) : i <= t.top}

\* With summaries on: the scan for the tail was not cut off at its limit.
Scanned(t) == budget >= 0 /\ Cardinality(t.tail) < ScanLimit

\* With a working summariser, and fewer than MAX_UNSUMMARIZED_SCAN messages after
\* the watermark, the model is given all of the dialog since /new, each message
\* once, in the summary or verbatim.
ContextComplete ==
    \A s \in Slots : At(s, "run") /\ Scanned(turn[s]) /\ turn[s].whole = "yes" =>
        /\ Context(turn[s]) = Known(turn[s])
        /\ turn[s].cover \cap turn[s].hist = {}

\* Under the same limit the last KeepRecent messages are given verbatim, whether
\* the summariser answered or not.
RecentVerbatim ==
    \A s \in Slots : At(s, "run") /\ Scanned(turn[s]) =>
        Last(Known(turn[s]), KeepRecent) \subseteq turn[s].hist

\* Nothing stored before the reset row a turn found reaches the model, neither
\* as a message nor through a summary.
ForgetsBeforeReset ==
    \A s \in Slots : At(s, "run") => \A i \in Context(turn[s]) : i > turn[s].epoch

\* What bot.py:52 and bot.py:66 tell the user of /new: the dialog so far no
\* longer counts.  A turn is given only what turns of its own session said.
SessionIsolation ==
    \A s \in Slots : At(s, "run") =>
        \A i \in Context(turn[s]) : rows[i].sess >= turn[s].epoch
=============================================================================
