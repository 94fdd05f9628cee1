--------------------------- MODULE MCInitGlobals ---------------------------
(* Threads are interchangeable. *)
EXTENDS InitGlobals, TLC

Interchangeable == Permutations(Thread)

=============================================================================
