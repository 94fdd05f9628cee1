--------------------------- MODULE HandleRegistry ---------------------------
(***************************************************************************)
(* What the handles of the JDBC module promise a query, without references *)
(* or a Java machine: a handle stands for one object from the moment it is *)
(* issued until the query closes it or its context ends, closing a handle  *)
(* takes nothing from any other, and a handle is never issued twice.       *)
(***************************************************************************)
CONSTANTS Context, UUID, MapName, Object, NULL

VARIABLES denotes, \* denotes[c][m][u]: the object handle u stands for, or NULL
          spent    \* the handles issued so far

vars == <<denotes, spent>>

Init ==
  /\ denotes = [c \in Context |-> [m \in MapName |-> [u \in UUID |-> NULL]]]
  /\ spent = {}

\* o is what some handle of context c, in one of these maps, stands for.
Known(c, maps, o) == \E m \in maps, u \in UUID : denotes[c][m][u] = o

New(o) == \A c \in Context : ~Known(c, MapName, o)

\* A handle of connections or prepared statements is for an object of its
\* own; a data set may also be the result of a prepared statement at hand.
Issue(c, m, u, o) ==
  /\ u \notin spent
  /\ \/ New(o)
     \/ m = "Statements" /\ Known(c, {"PreparedStatements"}, o)
  /\ denotes' = [denotes EXCEPT ![c][m][u] = o]
  /\ spent' = spent \cup {u}

Close(c, m, u) ==
  /\ m # "Connections" /\ denotes[c][m][u] # NULL
  /\ denotes' = [denotes EXCEPT ![c][m][u] = NULL]
  /\ UNCHANGED spent

End(c) ==
  /\ denotes' = [denotes EXCEPT ![c] = [m \in MapName |-> [u \in UUID |-> NULL]]]
  /\ UNCHANGED spent

Next ==
  \E c \in Context :
    \/ End(c)
    \/ \E m \in MapName, u \in UUID :
         Close(c, m, u) \/ \E o \in Object : Issue(c, m, u, o)

Spec == Init /\ [][Next]_vars
=============================================================================
