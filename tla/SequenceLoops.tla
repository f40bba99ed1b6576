---------------------------- MODULE SequenceLoops ----------------------------
(***************************************************************************)
(* Loops the code writes again and again, as operators on sequences.  They  *)
(* are recursive functions and not SelectSeq, a fold over a set or a power, *)
(* whose definitions the provers cannot use.                                *)
(***************************************************************************)
EXTENDS Integers, Sequences

\* The running sums of a sequence of numbers: Sums(s)[i] is the sum of its first i.
Sums(s) ==
    LET sum[i \in 0 .. Len(s)] == IF i = 0 THEN 0 ELSE sum[i - 1] + s[i]
    IN sum

\* Picks(s, I)[n] is what the loop has kept after the first n elements of s, when it
\* keeps those at the positions in I.
Picks(s, I) ==
    LET kept[i \in 0 .. Len(s)] ==
          IF i = 0 THEN <<>>
          ELSE IF i \in I THEN Append(kept[i - 1], s[i])
          ELSE kept[i - 1]
    IN kept

\* The elements of s at the positions in I, in their order.
Picked(s, I) == Picks(s, I)[Len(s)]

\* The sequences that take an element of each set, in order.
OneOfEach(sets) ==
    LET chosen[i \in 0 .. Len(sets)] ==
          IF i = 0 THEN {<<>>} ELSE {Append(c, x) : c \in chosen[i - 1], x \in sets[i]}
    IN chosen[Len(sets)]

\* The powers of two up to the n-th.
Powers(n) ==
    LET power[i \in 0 .. n] == IF i = 0 THEN 1 ELSE 2 * power[i - 1]
    IN power
==============================================================================
