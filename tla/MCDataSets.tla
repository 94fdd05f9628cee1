----------------------------- MODULE MCDataSets -----------------------------
(* The instances of DataSets that TLC checks. *)
EXTENDS DataSets, TLC

\* Every name is chosen by \E.
Interchangeable ==
  Permutations(Result) \cup Permutations(Statement) \cup Permutations(DataSet)
  \cup Permutations(Reader)
=============================================================================
