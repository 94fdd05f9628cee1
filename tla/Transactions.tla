---------------------------- MODULE Transactions ----------------------------
(***************************************************************************)
(* What transactions promise: the work done over a connection takes effect *)
(* at once or is pending there, all that is pending on a connection is     *)
(* published or discarded together, and what was settled stays settled.    *)
(***************************************************************************)
CONSTANTS Conn, Work

VARIABLES pending,   \* pending[k]: the work waiting on connection k
          published,
          discarded

vars == <<pending, published, discarded>>

Init ==
  /\ pending = [k \in Conn |-> {}]
  /\ published = {}
  /\ discarded = {}

New(w) == w \notin published \cup discarded \cup UNION {pending[k] : k \in Conn}

Do(w, k) ==
  /\ New(w)
  /\ \/ /\ pending' = [pending EXCEPT ![k] = @ \cup {w}]
        /\ UNCHANGED published
     \/ /\ published' = published \cup {w}
        /\ UNCHANGED pending
  /\ UNCHANGED discarded

\* The transactions of some connections end, each one way or the other.
Settle(good, bad) ==
  /\ good \cap bad = {}
  /\ pending' = [k \in Conn |-> IF k \in good \cup bad THEN {} ELSE pending[k]]
  /\ published' = published \cup UNION {pending[k] : k \in good}
  /\ discarded' = discarded \cup UNION {pending[k] : k \in bad}

Next ==
  \/ \E w \in Work, k \in Conn : Do(w, k)
  \/ \E good, bad \in SUBSET Conn : Settle(good, bad)

Spec == Init /\ [][Next]_vars
=============================================================================
