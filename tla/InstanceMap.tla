---------------------------- MODULE InstanceMap ----------------------------
(***************************************************************************)
(* The instance maps: for every dynamic context (a running query) three    *)
(* maps from handle (a UUID handed to the query as an xs:anyURI) to a JNI  *)
(* local reference.  getCreateInstanceMap creates a map when it is first   *)
(* asked for, so a map nobody asked for and an empty map are the same, and *)
(* a map is total over UUID here, with NULL where find() meets end().      *)
(***************************************************************************)
EXTENDS JavaVM

CONSTANTS Context,   \* the dynamic contexts
          UUID       \* what getUUID can return

VARIABLE instanceMap \* instanceMap[c][m][u]: the reference stored under u

MapName == {"Connections", "Statements", "PreparedStatements"}

\* The interfaces whose methods are called through a handle of map m.
Stored(m) == CASE m = "Connections"        -> {"Connection"}
               [] m = "Statements"         -> {"Statement", "PreparedStatement"}
               [] m = "PreparedStatements" -> {"PreparedStatement"}

InstanceMapTypeOK ==
  instanceMap \in [Context -> [MapName -> [UUID -> Ref \cup {NULL}]]]

EmptyMaps == [m \in MapName |-> [u \in UUID |-> NULL]]

InitInstanceMaps == instanceMap = [c \in Context |-> EmptyMaps]

getInstance(c, m, u) == instanceMap[c][m][u]

Holds(c, m, u) == getInstance(c, m, u) # NULL

\* std::map::insert: an entry that is already there stays as it is.
storeInstance(c, m, u, r) ==
  instanceMap' = [instanceMap EXCEPT ![c][m][u] = IF @ = NULL THEN r ELSE @]

\* A slip to guard against: the reference is given back and the entry stays.
deleteInstanceKeepsEntry(c, m, u) ==
  /\ DeleteLocalRefs({getInstance(c, m, u)})
  /\ UNCHANGED instanceMap

\* The reference is given back to the machine and the entry erased.  (The
\* branch that closes a connection first is left out: no function deletes
\* from the Connections map.)
deleteInstance(c, m, u) ==
  /\ DeleteLocalRefs({getInstance(c, m, u)})
  /\ instanceMap' = [instanceMap EXCEPT ![c][m][u] = NULL]

\* The references a context holds in one of its maps.
RefsIn(c, m) == {getInstance(c, m, u) : u \in UUID} \ {NULL}

\* Two entries of the context hold the same reference, one as a connection.
SharesConnectionRef(c) ==
  \E u, v \in UUID, m \in MapName :
    /\ <<m, v>> # <<"Connections", u>>
    /\ Holds(c, "Connections", u)
    /\ getInstance(c, m, v) = getInstance(c, "Connections", u)

\* Every connection of the context can be told to close.
ConnectionsDenote(c) ==
  \A r \in RefsIn(c, "Connections") : Denotes(r, {"Connection"})

\* Slips to guard against: destroy() reaches the references of every context;
\* it forgets to close connections; it drops the maps instead of emptying them.
destroyMapsOfAll(c) ==
  /\ DeleteLocalRefs(UNION {RefsIn(d, m) : d \in Context, m \in MapName})
  /\ open' = open \ {slot[r] : r \in RefsIn(c, "Connections")}
  /\ instanceMap' = [instanceMap EXCEPT ![c] = EmptyMaps]

destroyMapsUnclosed(c) ==
  /\ DeleteLocalRefs(UNION {RefsIn(c, m) : m \in MapName})
  /\ open' = open
  /\ instanceMap' = [instanceMap EXCEPT ![c] = EmptyMaps]

destroyMapsDropped(c) ==
  /\ DeleteLocalRefs(UNION {RefsIn(c, m) : m \in MapName})
  /\ open' = open \ {slot[r] : r \in RefsIn(c, "Connections")}
  /\ instanceMap' = [d \in Context \ {c} |-> instanceMap[d]]

\* destroy() of the three maps: every connection is closed, every reference
\* of the context deleted, the maps emptied.  Statements are not closed.
destroyMaps(c) ==
  /\ DeleteLocalRefs(UNION {RefsIn(c, m) : m \in MapName})
  /\ open' = open \ {slot[r] : r \in RefsIn(c, "Connections")}
  /\ instanceMap' = [instanceMap EXCEPT ![c] = EmptyMaps]
=============================================================================
