---------------------------- MODULE MCSessions ----------------------------
(* A manual transaction, one with an isolation level by name, and the     *)
(* defaults.                                                              *)
EXTENDS Sessions, TLC

Asking(autocommit, level) ==
  [key \in Key |-> CASE key = "autocommit" -> autocommit
                     [] key = "isolation-level" -> level
                     [] OTHER -> NULL]

SomeOptions ==
  {Asking("false", "number"), Asking("false", "name"), Asking(NULL, NULL)}

Interchangeable ==
  Permutations(Context) \cup Permutations(Conn)
  \cup Permutations(Session) \cup Permutations(Work)

=============================================================================
