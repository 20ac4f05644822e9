--------------------------- MODULE MCDerivedIndex ---------------------------
(* Instances of DerivedIndex for TLC. *)
EXTENDS DerivedIndex

CONSTANTS m1, m2

\* The second text has two chunks, and with a chunk of another note's that is more than
\* one query reads.
TextChunks == [s \in 1..MaxSaves |-> IF s = 2 THEN 2 ELSE 1]

\* m1 sees nothing in the first text, m2 nothing in a part of the second.
Directionless == {<<m1, 1, 1>>, <<m2, 2, 1>>}
=============================================================================
