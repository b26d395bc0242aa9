------------------------------ MODULE Replies ------------------------------
(***************************************************************************)
(* What an answer is made into: source_chunks of                           *)
(* src/chic/telegram/render.py, the clarifying question of                 *)
(* src/chic/agent/agent.py and its keyboard in                             *)
(* src/chic/telegram/keyboards.py.  A text is a sequence of characters, 0  *)
(* for a newline; an option is a text, "" if there is nothing in it.       *)
(***************************************************************************)
EXTENDS Integers, Sequences, FiniteSetsExt, SequencesExt

CONSTANT SplitTarget    \* _SPLIT_TARGET

ASSUME SplitAssumption == SplitTarget \in Nat \ {0}

Newline == 0

\* What a list holds beside x, in order.
Without(s, x) ==
    LET kept[n \in 0 .. Len(s)] ==
            IF n = 0 THEN <<>>
            ELSE IF s[n] = x THEN kept[n - 1] ELSE Append(kept[n - 1], s[n])
    IN  kept[Len(s)]

\* rstrip
Stripped(s) == SubSeq(s, 1, Max({0} \cup {i \in DOMAIN s : s[i] # Newline}))

\* Where a text that is too long is cut: behind the last newline of the second
\* half of a piece, or else hard.
Cut(s) ==
    LET newlines == {i \in SplitTarget \div 2 + 1 .. SplitTarget : s[i] = Newline}
    IN  IF newlines = {} THEN SplitTarget ELSE Max(newlines)

\* Mutant of Left: a newline is skipped, whether or not there is one.
LeftSkipping(s) == Len(s) - Cut(s) - 1

\* How much of a text is left behind the cut.
Left(s) == Len(s) - Cut(s)

\* source_chunks; pieces[n] are those of the last n characters.
SourceChunks(text) ==
    LET Rest(n) == SubSeq(text, Len(text) - n + 1, Len(text))
        pieces[n \in 0 .. Len(text)] ==
            IF n > SplitTarget
            THEN <<Stripped(SubSeq(Rest(n), 1, Cut(Rest(n))))>> \o pieces[Left(Rest(n))]
            ELSE Without(<<Stripped(Rest(n))>>, <<>>)
    IN  IF Len(text) <= SplitTarget THEN <<text>> ELSE pieces[Len(text)]

\* _clarify_result: the options with something in them; fewer than two are none.
Options(options) ==
    LET given == Without(options, "")
    IN  IF Len(given) < 2 THEN <<>> ELSE given

\* clarify_keyboard, which _deliver makes if there are options: the buttons, by
\* the data a press sends.
Keyboard(options, custom) ==
    IF options = <<>> THEN <<>>
    ELSE [i \in DOMAIN options |-> [data |-> i, text |-> options[i]]]
         \o (IF custom = "yes" THEN <<[data |-> 0, text |-> "custom"]>> ELSE <<>>)

\* button_label: the text of the first button with the data, or "".
ButtonLabel(buttons, data) ==
    LET with == {i \in DOMAIN buttons : buttons[i].data = data}
    IN  IF with = {} THEN "" ELSE buttons[Min(with)].text
=============================================================================
