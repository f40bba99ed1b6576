---------------------------- MODULE MCN2PWriter ----------------------------
(* N2PWriter on the record batches that reach each of its outcomes. *)
EXTENDS N2PWriter

Table == [wellFormed |-> TRUE, supported |-> TRUE, columns |-> 2,
          leaves |-> <<"bytes", "integer">>, rows |-> 2]

MCBatches ==
    { Table,
      [Table EXCEPT !.wellFormed = FALSE],               \* a null pointer
      [Table EXCEPT !.supported = FALSE],                \* a type with no mapping
      [Table EXCEPT !.columns = 1, !.leaves = <<>>],     \* one struct without fields
      [Table EXCEPT !.columns = 1, !.leaves = <<"bytes", "float">>, !.rows = 1] }
============================================================================
