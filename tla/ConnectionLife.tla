--------------------------- MODULE ConnectionLife ---------------------------
(***************************************************************************)
(* What becomes of connections, whoever asks for them and whatever else is *)
(* done: a connection is opened once, for one context that is still there  *)
(* or for nobody, it stays open until it is cut off or its context ends,   *)
(* the end of a context closes all it has, and what was closed stays so.   *)
(***************************************************************************)
CONSTANTS Context, Conn

VARIABLES state, \* state[k]: "none", "open" or "closed"
          held,  \* held[c]: the connections context c can reach
          ended  \* the contexts that are over

vars == <<state, held, ended>>

Init ==
  /\ state = [k \in Conn |-> "none"]
  /\ held = [c \in Context |-> {}]
  /\ ended = {}

Opened(k) ==
  /\ state[k] = "none"
  /\ state' = [state EXCEPT ![k] = "open"]
  /\ UNCHANGED ended

Open(c, k) ==
  /\ c \notin ended
  /\ Opened(k)
  /\ held' = [held EXCEPT ![c] = @ \cup {k}]

\* Nobody gets it, and nobody closes it but the other end.
Abandon(k) == Opened(k) /\ UNCHANGED held

CutOff(k) ==
  /\ state[k] = "open"
  /\ state' = [state EXCEPT ![k] = "closed"]
  /\ UNCHANGED <<held, ended>>

End(c) ==
  /\ c \notin ended
  /\ state' = [k \in Conn |-> IF k \in held[c] THEN "closed" ELSE state[k]]
  /\ held' = [held EXCEPT ![c] = {}]
  /\ ended' = ended \cup {c}

Next ==
  \/ \E c \in Context : End(c) \/ \E k \in Conn : Open(c, k)
  \/ \E k \in Conn : Abandon(k) \/ CutOff(k)

Spec == Init /\ [][Next]_vars
=============================================================================
