-------------------------------- MODULE Sums --------------------------------
(***************************************************************************)
(* Sums over the rows of a table.  They are counted: how a sum changes     *)
(* with one row follows from facts about finite sets.                      *)
(***************************************************************************)
EXTENDS Integers, FiniteSets

\* The units of the amounts f[x], each with its x, and how many they are.
Units(f) == UNION {{x} \X (1 .. f[x]) : x \in DOMAIN f}
Total(f) == Cardinality(Units(f))

\* The sum of amounts that may be negative.
Gains(f) == [x \in DOMAIN f |-> IF f[x] > 0 THEN f[x] ELSE 0]
Losses(f) == [x \in DOMAIN f |-> IF f[x] < 0 THEN -f[x] ELSE 0]
Balance(f) == Total(Gains(f)) - Total(Losses(f))
=============================================================================
