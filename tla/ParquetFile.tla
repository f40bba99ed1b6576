----------------------------- MODULE ParquetFile -----------------------------
(***************************************************************************)
(* What a Parquet file under construction promises to a reader, and nothing *)
(* about how it is written.  Row groups are added one at a time; at some    *)
(* point the file is sealed and from then on a reader sees exactly those    *)
(* row groups, or it is lost and no reader ever opens it.  Nothing leads     *)
(* out of either end, and nothing is added after it.                        *)
(*                                                                          *)
(* N2PWriter implements this module (ImplementsParquetFile there).           *)
(***************************************************************************)
EXTENDS Sequences

CONSTANT RowGroup  \* the row groups a caller may add

VARIABLES
    state,  \* "writing", "sealed" or "lost"
    groups  \* the row groups added, or what a reader of the sealed file sees

vars == <<state, groups>>

TypeOK ==
    /\ state \in {"writing", "sealed", "lost"}
    /\ groups \in Seq(RowGroup)

Init ==
    /\ state = "writing"
    /\ groups = <<>>

Add(g) ==
    /\ state = "writing"
    /\ groups' = Append(groups, g)
    /\ UNCHANGED state

\* The file a reader sees is the sequence of row groups added, no more and no less.
Seal ==
    /\ state = "writing"
    /\ state' = "sealed"
    /\ UNCHANGED groups

Lose ==
    /\ state = "writing"
    /\ state' = "lost"
    /\ UNCHANGED groups

Next == Seal \/ Lose \/ \E g \in RowGroup : Add(g)

Spec == Init /\ [][Next]_vars
==============================================================================
