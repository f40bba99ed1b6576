------------------------------ MODULE MCPyWriter ------------------------------
(* Two threads that write batches of different lengths. *)
EXTENDS PyWriter, TLC

CONSTANTS t1, t2, b1, b2

MCThreads == {t1, t2}
MCBatches == {b1, b2}
MCTables == {<<>>, <<b1, b2>>}
MCRows == (b1 :> 2) @@ (b2 :> 0)
==============================================================================
