------------------------------- MODULE MCPyTable -------------------------------
(* Small sources for PyTable. *)
EXTENDS PyTable

Plain ==
    [kind |-> "stream", batches |-> 1, capsules |-> 2, schema |-> FALSE,
     misnamed |-> "none", columns |-> {}]

Streams ==
    {[Plain EXCEPT !.batches = n, !.misnamed = m] : n \in 0 .. 2, m \in {"none", "stream"}}
\* Objects with __arrow_c_array__ alone, whose array capsule has its name.
SingleBatches ==
    {[Plain EXCEPT !.kind = "array", !.capsules = c, !.schema = s, !.misnamed = m] :
       c \in {1, 2, 3}, s \in BOOLEAN, m \in {"none", "schema"}}

Int16 ==
    [name |-> "a", ndarray |-> TRUE, dtype |-> "i", itemsize |-> 2, order |-> "little",
     ndim |-> 1, contiguous |-> TRUE, values |-> <<5, 6>>]
Double == [Int16 EXCEPT !.name = "b", !.dtype = "f", !.itemsize = 8, !.values = <<7, 8>>]

Numpy(columns) == [Plain EXCEPT !.kind = "numpy", !.columns = columns]
Refused ==
    {{}, {[Int16 EXCEPT !.ndarray = FALSE]}, {[Int16 EXCEPT !.contiguous = FALSE]},
     {[Int16 EXCEPT !.ndim = 2]}, {[Int16 EXCEPT !.dtype = "O", !.itemsize = 8]},
     {[Int16 EXCEPT !.dtype = "f"]}, {Int16, [Double EXCEPT !.values = <<7>>]}}
NumpyBatches == {Numpy(columns) : columns \in Refused \cup {{Int16}, {Int16, Double}}}

With(functions, sources) == [function : functions, source : sources]

\* write_batch is not called with a NumPy batch, and no array capsule has a wrong name:
\* both end the process (ExportUses, and NeverReleasesNothing for an invariant).
MCUses ==
    With({"write_table", "consume"}, Streams \cup NumpyBatches)
      \cup With({"write_table", "write_batch"},
                SingleBatches \cup {[Plain EXCEPT !.kind = "neither"]})

\* A column of booleans, whose second value is TRUE.
Bools == [Int16 EXCEPT !.dtype = "b", !.itemsize = 1, !.values = <<0, 1>>]
BoolUses ==
    With({"write_table"}, {Numpy({Bools}), Numpy({Int16, [Bools EXCEPT !.name = "b"]})})

ExportUses == With({"write_batch"}, {Numpy({Int16}), Numpy({Int16, Double})})
===============================================================================
