-------------------------------- MODULE Bot --------------------------------
(***************************************************************************)
(* The handlers of ChicBot (src/chic/telegram/bot.py) between the endpoint *)
(* of the Webhook module and the chat: a message runs a turn of the agent  *)
(* and its answer goes out in chunks; a clarifying question carries a      *)
(* keyboard, and a press of one of its buttons runs a turn with the label. *)
(*                                                                         *)
(* A handler is cut where it waits: at the edit that marks a question as   *)
(* answered, at the agent, and at each chunk.  Every call of Telegram may  *)
(* be refused (TelegramBadRequest) or fail otherwise, before or after it   *)
(* took effect.  A press comes with the message as it was when the button  *)
(* was pressed, so two quick presses both carry the keyboard.              *)
(***************************************************************************)
EXTENDS Webhook

CONSTANTS
    Messages,       \* updates that are messages, or presses in the menu
    Presses,        \* updates that are presses of a clarification button
    Failing,        \* updates for which calls may fail and so raise
    MaxChunks,      \* bound: the chunks of an answer
    MaxQuestions    \* bound: the clarifying questions of the model

ASSUME UpdateKinds == Messages \cup Presses = Updates /\ Messages \cap Presses = {}
ASSUME FewFail == Cardinality(Failing) <= N

VARIABLES
    turn,       \* handlers: the step, and where they are in the answer
    press,      \* what Telegram put into each press
    asked,      \* the chat: how many clarifying questions have appeared in it
    open,       \* the chat: the questions that have their keyboard
    picked      \* history: the questions marked as answered for a turn

chat == <<press, asked, open, picked>>
vars == <<webhook, turn, chat>>

\* left: chunks to go; twice: a chunk was delivered again; gap: a chunk was left
\* out that Telegram would have taken.
Begun == [step |-> "begin", left |-> 0, asks |-> "no", twice |-> "no", gap |-> "no"]
NoPress == [question |-> 0, label |-> "no", late |-> "no"]

Init ==
    /\ WebhookInit
    /\ turn = [t \in Tasks |-> Begun]
    /\ press = [u \in Presses |-> NoPress]
    /\ asked = 0 /\ open = {} /\ picked = {}

-----------------------------------------------------------------------------
(* The handlers.                                                           *)

At(t, step) == task[t] # Idle /\ turn[t].step = step

MayFail(t) == task[t].update \in Failing

\* The handler is over; whether a chunk went out twice is still to be seen.
EndWith(t, result, last) ==
    /\ HandlerEnds(t, result)
    /\ turn' = [turn EXCEPT ![t] = [Begun EXCEPT !.twice = last]]

End(t, result) == EndWith(t, result, "no")

\* The handler raises at a call that fails.
Raise(t) == MayFail(t) /\ End(t, "raised")

\* The handler goes on.
GoTo(t, step) ==
    /\ turn' = [turn EXCEPT ![t].step = step]
    /\ UNCHANGED webhook

\* What an edit that takes the keyboard away may do to the open questions.
EditOutcomes(q) == {open, open \ {q}}

\* Mutant of Marked: the edit keeps the keyboard.
MarkedKeeping(q) == open

\* _mark_answered: the message is edited without a keyboard.
Marked(q) == open \ {q}

\* _cb_clarify: the label is looked up in the pressed message and the question
\* marked with it, before the turn; a refused edit is suppressed.
Pick(t) ==
    /\ At(t, "begin") /\ task[t].update \in Presses
    /\ LET p == press[task[t].update]
       IN  /\ p.label = "yes"
           /\ \/ /\ open' = Marked(p.question)
                 /\ picked' = picked \cup {p.question}
                 /\ GoTo(t, "run")
              \/ GoTo(t, "run") /\ UNCHANGED <<open, picked>>
              \/ Raise(t) /\ open' \in EditOutcomes(p.question) /\ UNCHANGED picked
    /\ UNCHANGED <<press, asked>>

\* _cb_clarify: a press that carries no label, or that asks to write freely;
\* the keyboard goes, and no turn runs.
NoLabel(t) ==
    /\ At(t, "begin") /\ task[t].update \in Presses
    /\ LET p == press[task[t].update]
       IN  /\ p.label = "no"
           /\ open' \in EditOutcomes(p.question)
           /\ End(t, "nothing") \/ Raise(t)
    /\ UNCHANGED <<press, asked, picked>>

\* A message, or a question of the menu, is on its way to the agent.  Where the
\* handlers decline it (a user who is not allowed, nothing in it, a photo too
\* large or lost) they end as Run may: with a notice, with nothing, or raising.
Asks(t) == At(t, "run") \/ (At(t, "begin") /\ task[t].update \in Messages)

\* _run_and_deliver: the agent answers, plainly or with a question, in some
\* number of chunks, or not at all; or it raises and the user is told so.
Run(t) ==
    /\ Asks(t)
    /\ \/ \E n \in 1 .. MaxChunks, asks \in {"yes", "no"} :
            /\ asks = "yes" => asked < MaxQuestions
            /\ turn' = [turn EXCEPT ![t] = [Begun EXCEPT !.step = "send", !.left = n,
                                                        !.asks = asks]]
            /\ UNCHANGED webhook
       \/ End(t, "nothing") \/ End(t, "notice")
       \/ Raise(t)
    /\ UNCHANGED chat

\* How Telegram answers a message that is sent: it takes it, it refuses it, or
\* the call fails with the message lost or delivered all the same.
Replies(t) == {"ok", "refused"} \cup IF MayFail(t) THEN {"lost", "late"} ELSE {}
Copies(reply) == IF reply \in {"ok", "late"} THEN 1 ELSE 0

\* Mutants of Resent: after any exception, and never.
ResentAlways(reply) == reply # "ok"
ResentNever(reply) == FALSE

\* _send_chunks: what makes it send the chunk again as raw text.
Resent(reply) == reply = "refused"

\* _send_chunks: the next chunk, as MarkdownV2 and if need be as raw text, whose
\* refusal is suppressed.  The last one carries the keyboard.
Send(t) ==
    /\ At(t, "send")
    /\ \E markdown, raw \in Replies(t) :
         LET copies == Copies(markdown) + (IF Resent(markdown) THEN Copies(raw) ELSE 0)
             fails == (IF Resent(markdown) THEN raw ELSE markdown) \in {"lost", "late"}
             gap == copies = 0 /\ ~ fails /\ "ok" \in {markdown, raw}
             now == [turn[t] EXCEPT !.left = @ - 1, !.twice = IF copies > 1 THEN "yes" ELSE @,
                                    !.gap = IF gap THEN "yes" ELSE @]
         IN  /\ IF now.asks = "yes" /\ now.left = 0 /\ copies > 0
                THEN asked' = asked + 1 /\ open' = open \cup {asked + 1}
                ELSE UNCHANGED <<asked, open>>
             /\ \/ fails /\ EndWith(t, "raised", now.twice)
                \/ /\ ~ fails /\ now.left = 0
                   /\ EndWith(t, IF now.gap = "yes" THEN "gap" ELSE "told", now.twice)
                \/ /\ ~ fails /\ now.left > 0
                   /\ turn' = [turn EXCEPT ![t] = now] /\ UNCHANGED webhook
    /\ UNCHANGED <<press, picked>>

-----------------------------------------------------------------------------
(* The user, Telegram and the process.                                     *)

Write(u) ==
    /\ u \in Messages
    /\ Arrive(u) /\ UNCHANGED <<turn, chat>>

\* A button of a question that is on the user's screen, whether or not it has
\* been taken away meanwhile.
Press(u) ==
    /\ Arrive(u)
    /\ \E q \in 1 .. asked, label \in {"yes", "no"} :
         /\ label = "yes" => q \in open
         /\ press' = [press EXCEPT ![u] =
                     [question |-> q, label |-> label,
                      late |-> IF q \in picked THEN "yes" ELSE "no"]]
    /\ UNCHANGED <<turn, asked, open, picked>>

\* The endpoint's steps leave the handlers and the chat alone.
Deliver(t, u) == Feed(t, u) /\ UNCHANGED <<turn, chat>>
Drop(t) == Timeout(t) /\ UNCHANGED <<turn, chat>>

Handler(t) ==
    \/ Pick(t) \/ NoLabel(t)
    \/ Run(t) \/ Send(t)

Die == Restart /\ turn' = [t \in Tasks |-> Begun] /\ UNCHANGED chat

Next ==
    \/ \E u \in Updates : Write(u)
    \/ \E u \in Presses : Press(u)
    \/ \E t \in Tasks : Drop(t) \/ Handler(t) \/ \E u \in Updates : Deliver(t, u)
    \/ Die

\* Telegram does not forget an update, and the event loop runs every request;
\* a handler ends because every wait in it has a timeout.  Timeouts of
\* Telegram, restarts and users are never forced.
Fairness ==
    /\ \A u \in Updates : SF_vars(\E t \in Tasks : Deliver(t, u))
    /\ \A t \in Tasks : WF_vars(Handler(t))

Spec == Init /\ [][Next]_vars
FairSpec == Spec /\ Fairness

-----------------------------------------------------------------------------
(* Properties.                                                             *)

\* An update Telegram no longer delivers was answered: the user was told all of
\* the answer that Telegram would take, or there was nothing to tell.  There are
\* two exceptions.  A call that failed made the handler raise, and the post that
\* followed was dropped as a duplicate; or, after a timeout, a restart cut the
\* handler short.
AckedMeansAnswered ==
    \A u \in Updates : queue[u] = "acked" =>
        \/ u \in answered
        \/ u \in raised
        \/ Handling(u) # {}
        \/ u \in timedOut /\ restarts > 0

\* One handling never delivers a chunk twice, however Telegram answers it.
DeliveredOnce == \A t \in Tasks : turn[t].twice = "no"

\* A press that comes after the question was marked for another press runs no
\* turn: the same question is not answered twice.
AnsweredStaysAnswered ==
    \A t \in Tasks : At(t, "run") => press[task[t].update].late = "no"

\* An update that can be read is not posted for ever, although its handler may
\* raise each time: the endpoint answers the post that follows a failure as a
\* duplicate.  One that aiogram's model cannot read is posted, and rejected each time.
Settles ==
    <>[](\A u \in Updates : \/ queue[u] \in {"none", "acked"}
                            \/ queue[u] = "rejected")
=============================================================================
