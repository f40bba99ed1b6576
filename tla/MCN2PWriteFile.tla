--------------------------- MODULE MCN2PWriteFile ---------------------------
(* N2PWriteFile on one batch of each outcome. *)
EXTENDS N2PWriteFile

Table == [wellFormed |-> TRUE, supported |-> TRUE, columns |-> 2,
          leaves |-> <<"bytes", "integer">>, rows |-> 2]

MCBatches ==
    { Table,
      [Table EXCEPT !.wellFormed = FALSE],
      [Table EXCEPT !.supported = FALSE],
      [Table EXCEPT !.columns = 1, !.leaves = <<>>],
      [Table EXCEPT !.columns = 1, !.leaves = <<"bytes", "bytes", "other">>] }
============================================================================
