---------------------------- MODULE MCJdbcModule ----------------------------
(* The instances of JdbcModule that TLC checks. *)
EXTENDS JdbcModule, TLC

\* Slots and contexts are only ever chosen by \E, so they may be permuted.
\* Handles and objects are not: FreshUUID and NextObject choose among them.
Interchangeable == Permutations(Ref) \cup Permutations(Context)
=============================================================================
