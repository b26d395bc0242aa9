----------------------------- MODULE Grounding -----------------------------
(***************************************************************************)
(* Number grounding, src/chic/agent/guardrail.py: which figures of an      *)
(* answer do not come from what the tools returned or the user wrote.  A   *)
(* value is a whole number of Unit-ths; how a figure was written is kept   *)
(* as its style, the scanning of the text is left out.                     *)
(***************************************************************************)
EXTENDS Integers, FiniteSets, FiniteSetsExt

CONSTANT Unit       \* the parts of a unit of a figure

ASSUME UnitAssumption == Unit \in Nat \ {0}

Distance(a, b) == IF a >= b THEN a - b ELSE b - a

\* collect_known_numbers: the figures of every tool result, parsed or scanned
\* where it was cut off, and those of the user's message.
KnownNumbers(outputs, message) == (UNION outputs) \cup message

\* _is_significant: a bare number that may be a year, or is small, is not.
Significant(f) ==
    \/ f.style \in {"percent", "fraction", "grouped"}
    \/ /\ ~ (f.value % Unit = 0 /\ 1900 * Unit <= f.value /\ f.value <= 2099 * Unit)
       /\ Distance(f.value, 0) >= 100 * Unit

\* Mutant of Tolerance: one part in five hundred.
ToleranceWider(n, k) == Max({Unit, Distance(k, 0) \div 500, Distance(n, 0) \div 500})

\* The window of _matches: one unit, or one part in a thousand.  (Distances are
\* whole, so that rounding the window down changes nothing.)
Tolerance(n, k) == Max({Unit, Distance(k, 0) \div 1000, Distance(n, 0) \div 1000})

\* _matches
Matches(n, known) == \E k \in known : Distance(n, k) <= Tolerance(n, k)

\* check_answer: the significant figures, and those without a match.
CheckAnswer(figures, known) ==
    LET checked == {f \in figures : Significant(f)}
    IN  [checked |-> checked, unexplained |-> {f \in checked : ~ Matches(f.value, known)}]
=============================================================================
