-------------------------------- MODULE Figures --------------------------------
(* What the modules about the figures of the screens share. A figure is drawn *)
(* from data that do not change while it is drawn: the variable holds the     *)
(* data, and a property of a figure is an invariant about the data it is      *)
(* drawn from. Numbers are integers: a fraction is counted in hundredths.     *)
EXTENDS Integers, Sequences, FiniteSets

CONSTANTS
    Nothing,    \* null or undefined
    Garbage     \* a value that no number can be read from

\* What is not there, or cannot be read, is no number.
ASSUME ValuesAssumption == Nothing \notin Int /\ Garbage \notin Int \cup {Nothing}

VARIABLE shown  \* the data of the figure looked at, or Nothing

One == 100      \* the number 1, in hundredths

Drawn(kind) == shown # Nothing /\ shown.kind = kind

Falsy(v) == v \in {Nothing, 0}
Either(v, w) == IF v = Nothing THEN w ELSE v
Clamp(v, low, high) == IF v < low THEN low ELSE IF v > high THEN high ELSE v
Least(S) == CHOOSE v \in S : \A w \in S : v <= w
Greatest(S) == CHOOSE v \in S : \A w \in S : w <= v
When(cond, s) == IF cond THEN s ELSE <<>>
Take(s, n) == SubSeq(s, 1, IF n < Len(s) THEN n ELSE Len(s))

(* A number that came as a number or as text, null when it is neither.        *)
ParseNumber(v) == IF v \in {Nothing, Garbage} THEN Nothing ELSE v

(* A percentage above one counts in percent, any other as a fraction.         *)
NormalizePercent(v) ==
    IF v = Nothing THEN Nothing ELSE Clamp(IF v > One THEN v \div One ELSE v, 0, One)
=============================================================================
