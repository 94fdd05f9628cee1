----------------------------- MODULE RowStream -----------------------------
(***************************************************************************)
(* What the results of queries promise their readers, without cursors or   *)
(* iterators: a result is a stream of rows, and every row of it is taken   *)
(* by one reader or dropped.  No row comes back, a closed stream gives     *)
(* none, and what happens to one stream leaves the rows of others alone.   *)
(***************************************************************************)
EXTENDS Integers

CONSTANTS Result, RowCount, NULL

VARIABLES left,  \* left[r]: how many rows r still has to give, or NULL
          taken, \* taken[r]: how many it gave
          open   \* the streams that are open

vars == <<left, taken, open>>

Init ==
  /\ left = [r \in Result |-> NULL]
  /\ taken = [r \in Result |-> 0]
  /\ open = {}

\* A new stream, which may replace an open one.
Begin(r, n) ==
  /\ left[r] = NULL
  /\ left' = [left EXCEPT ![r] = n]
  /\ \E replaced \in {{}} \cup {{q} : q \in Result} : open' = (open \ replaced) \cup {r}
  /\ UNCHANGED taken

Take(r) ==
  /\ r \in open /\ left[r] > 0
  /\ left' = [left EXCEPT ![r] = @ - 1]
  /\ taken' = [taken EXCEPT ![r] = @ + 1]
  /\ UNCHANGED open

\* Rows that nobody gets: all up to the last k.
Drop(r, k) ==
  /\ r \in open /\ k < left[r]
  /\ left' = [left EXCEPT ![r] = k]
  /\ UNCHANGED <<taken, open>>

Close(r) ==
  /\ open' = open \ {r}
  /\ UNCHANGED <<left, taken>>

Next ==
  \E r \in Result :
    \/ \E n \in RowCount : Begin(r, n)
    \/ Take(r)
    \/ left[r] # NULL /\ \E k \in 0 .. left[r] - 1 : Drop(r, k)
    \/ Close(r)

Spec == Init /\ [][Next]_vars
=============================================================================
