----------------------- MODULE JdbcConnections_proofs -----------------------
(***************************************************************************)
(* The connections behind the handles live as those of ConnectionLife, for *)
(* a query that closes no alias.  The seven kinds of steps again: only a   *)
(* new object, the end of a context and a close at the other end are seen. *)
(***************************************************************************)
EXTENDS JdbcRefinement_proofs

StateMap == [o \in Object |-> StateOf(o)]
HeldMap  == [c \in Context |-> HeldBy(c)]

-----------------------------------------------------------------------------
(* What the abstract connections see of a step *)

\* A new object is seen if it is a connection.
LEMMA NewState ==
  ASSUME TypeOK, NEW cls \in Class, NEW p \in Object \cup {NULL}, NEW r \in Ref,
         NewObject(cls, p, r)
  PROVE  /\ StateMap[NextObject] = "none"
         /\ StateMap' = IF cls = "Connection"
                          THEN [StateMap EXCEPT ![NextObject] = "open"] ELSE StateMap
<1>1. /\ NextObject \in Object /\ class[NextObject] = "none"
      /\ \A o \in Object : class'[o] = IF o = NextObject THEN cls ELSE class[o]
      /\ open' = open \cup {NextObject}
  BY NewObjectEffect
<1>2. StateOf(NextObject) = "none"
  BY <1>1 DEF StateOf
<1>3. \A o \in Object \ {NextObject} : StateOf(o)' = StateOf(o)
  BY <1>1 DEF StateOf
<1>4. ASSUME NEW n \in Object, n = NextObject
      PROVE  StateOf(n)' = IF cls = "Connection" THEN "open" ELSE "none"
  BY <1>1, <1>4 DEF StateOf
<1>5. PICK n \in Object : n = NextObject
  BY <1>1
<1>6. StateMap' = [o \in Object |-> IF o = n /\ cls = "Connection" THEN "open" ELSE StateOf(o)]
  BY <1>2, <1>3, <1>4, <1>5 DEF StateMap
<1> QED BY <1>2, <1>5, <1>6 DEF StateMap

\* The connections of a context are told by the entries and their targets.
LEMMA SameHeld ==
  ASSUME NEW c \in Context,
         \A u \in UUID : (Holds(c, "Connections", u))' <=> Holds(c, "Connections", u),
         \A u \in UUID : Holds(c, "Connections", u) => target'[u] = target[u]
  PROVE  HeldBy(c)' = HeldBy(c)
BY DEF HeldBy

\* What a context has are connections, each of them there.
LEMMA HeldAreConnections ==
  ASSUME Bookkeeping, NEW c \in Context
  PROVE  \A o \in HeldBy(c) : o \in Object /\ class[o] = "Connection"
<1>1. "Connections" \in MapName
  BY DEF MapName
<1> QED
  BY <1>1, StoredClasses
  DEF HeldBy, Bookkeeping, HandlesFit, HandlesIssued, TypeOK

-----------------------------------------------------------------------------
(* Steps of the connections *)

\* A new entry adds a connection if it is one of the first map.
LEMMA IssueHeld ==
  ASSUME Bookkeeping, NEW c \in Context, NEW m \in MapName, NEW r \in Ref,
         NEW o \in Object, Issue(c, m, r, o)
  PROVE  HeldMap' = IF m = "Connections" THEN [HeldMap EXCEPT ![c] = @ \cup {o}]
                                         ELSE HeldMap
<1>1. /\ FreshUUID \in UUID /\ target[FreshUUID] = NULL
      /\ \A d \in Context, n \in MapName, v \in UUID :
           instanceMap'[d][n][v] =
             IF d = c /\ n = m /\ v = FreshUUID THEN r ELSE instanceMap[d][n][v]
      /\ \A v \in UUID : target'[v] = IF v = FreshUUID THEN o ELSE target[v]
  BY IssueEffect DEF Bookkeeping
<1>2. r # NULL /\ "Connections" \in MapName
  BY NullAssumption DEF MapName
<1>3. \A d \in Context, v \in UUID : Holds(d, "Connections", v) => v # FreshUUID
  BY <1>1, <1>2 DEF Bookkeeping, HandlesIssued
<1>4. \A d \in Context : d # c \/ m # "Connections" => HeldBy(d)' = HeldBy(d)
  BY <1>1, <1>2, <1>3, SameHeld DEF Holds, getInstance
<1>5. CASE m # "Connections"
  BY <1>4, <1>5 DEF HeldMap
<1>6. CASE m = "Connections"
  <2>1. \A v \in UUID : (Holds(c, "Connections", v))' <=>
                          Holds(c, "Connections", v) \/ v = FreshUUID
    BY <1>1, <1>2, <1>6 DEF Holds, getInstance
  <2>2. \A v \in UUID : Holds(c, "Connections", v) => target'[v] = target[v]
    BY <1>1, <1>3
  <2>3. target'[FreshUUID] = o
    BY <1>1
  <2>4. HeldBy(c)' = HeldBy(c) \cup {o}
    BY <1>1, <2>1, <2>2, <2>3 DEF HeldBy
  <2> QED BY <1>4, <1>6, <2>4 DEF HeldMap
<1> QED BY <1>5, <1>6

\* Entries that leave one of the other maps are not seen, nor are calls that
\* change no entry.
LEMMA HeldStays ==
  ASSUME UNCHANGED target,
         \A d \in Context, u \in UUID :
           instanceMap'[d]["Connections"][u] = instanceMap[d]["Connections"][u]
  PROVE  HeldMap' = HeldMap
<1>1. \A d \in Context : HeldBy(d)' = HeldBy(d)
  BY SameHeld DEF Holds, getInstance
<1> QED BY <1>1 DEF HeldMap

\* A new object is abandoned, or is no connection.
LEMMA AllocatesLife ==
  ASSUME Bookkeeping, Allocates
  PROVE  UNCHANGED Life!vars \/ Life!Next
<1>1. PICK cls \in Class, p \in Object \cup {NULL}, r \in Ref : NewObject(cls, p, r)
  BY DEF Allocates
<1>2. NextObject \in Object
  BY <1>1, NewObjectEffect DEF Bookkeeping
<1>3. /\ StateMap[NextObject] = "none"
      /\ StateMap' = IF cls = "Connection"
                       THEN [StateMap EXCEPT ![NextObject] = "open"] ELSE StateMap
  BY <1>1, NewState DEF Bookkeeping
<1>4. HeldMap' = HeldMap /\ ended' = ended
  BY HeldStays DEF Allocates, handleVars
<1>5. CASE cls = "Connection"
  <2>1. Life!Abandon(NextObject)
    BY <1>3, <1>4, <1>5 DEF Life!Abandon, Life!Opened, StateMap, HeldMap
  <2> QED BY <1>2, <2>1 DEF Life!Next
<1>6. CASE cls # "Connection"
  BY <1>3, <1>4, <1>6 DEF Life!vars, StateMap, HeldMap
<1> QED BY <1>5, <1>6

\* A handle for a new connection opens it; one for a statement is not seen.
LEMMA IssuesLife ==
  ASSUME Bookkeeping, Issues
  PROVE  UNCHANGED Life!vars \/ Life!Next
<1>1. PICK c \in Context, m \in MapName, r \in Ref, p \in Object \cup {NULL},
           cls \in Class :
        /\ cls \in Stored(m)
        /\ NewObject(cls, p, r) /\ Issue(c, m, r, NextObject) /\ c \notin ended
  BY DEF Issues
<1>2. NextObject \in Object
  BY <1>1, NewObjectEffect DEF Bookkeeping
<1>3. /\ StateMap[NextObject] = "none"
      /\ StateMap' = IF cls = "Connection"
                       THEN [StateMap EXCEPT ![NextObject] = "open"] ELSE StateMap
  BY <1>1, NewState DEF Bookkeeping
<1>4. HeldMap' = IF m = "Connections" THEN [HeldMap EXCEPT ![c] = @ \cup {NextObject}]
                                      ELSE HeldMap
  BY <1>1, <1>2, IssueHeld
<1>5. m = "Connections" <=> cls = "Connection"
  BY <1>1, StoredClasses DEF MapName
<1>6. ended' = ended
  BY <1>1 DEF Issue
<1>7. CASE m = "Connections"
  <2>1. Life!Open(c, NextObject)
    BY <1>1, <1>3, <1>4, <1>5, <1>6, <1>7 DEF Life!Open, Life!Opened, StateMap, HeldMap
  <2> QED BY <1>2, <2>1 DEF Life!Next
<1>8. CASE m # "Connections"
  BY <1>3, <1>4, <1>5, <1>6, <1>8 DEF Life!vars, StateMap, HeldMap
<1> QED BY <1>7, <1>8

\* execute-prepared leaves the connections alone.
LEMMA AliasesLife ==
  ASSUME Bookkeeping, Aliases
  PROVE  UNCHANGED Life!vars
<1>1. PICK c \in Context, w \in UUID :
        LET r == getInstance(c, "PreparedStatements", w)
        IN  /\ Holds(c, "PreparedStatements", w)
            /\ Denotes(r, {"PreparedStatement"})
            /\ Issue(c, "Statements", r, slot[r])
            /\ UNCHANGED <<javaVars, env>>
  BY DEF Aliases
<1> DEFINE r == instanceMap[c]["PreparedStatements"][w]
<1>2. /\ r \in Ref /\ slot[r] \in Object /\ "Statements" \in MapName
      /\ Issue(c, "Statements", r, slot[r])
      /\ UNCHANGED <<class, open>>
  BY <1>1
  DEF Bookkeeping, TypeOK, JavaTypeOK, InstanceMapTypeOK, Holds, getInstance,
      Denotes, MapName, javaVars
<1>3. HeldMap' = HeldMap
  BY <1>2, IssueHeld
<1>4. StateMap' = StateMap /\ ended' = ended
  BY <1>2 DEF StateMap, StateOf, Issue
<1> QED BY <1>3, <1>4 DEF Life!vars, StateMap, HeldMap

\* The end of a context closes what it has, where its entries are sound.
LEMMA DestroysLife ==
  ASSUME Bookkeeping, Sound, Destroys
  PROVE  Life!Next
<1>1. PICK c \in Context :
        /\ destroyMaps(c) /\ c \notin ended /\ ended' = ended \cup {c}
        /\ UNCHANGED <<class, target>>
  BY DEF Destroys
<1>2. "Connections" \in MapName
  BY DEF MapName
<1>3. {slot[r] : r \in RefsIn(c, "Connections")} = HeldBy(c)
  BY <1>2 DEF RefsIn, HeldBy, Sound, Holds
<1>4. open' = open \ HeldBy(c)
  BY <1>1, <1>3 DEF destroyMaps
<1>5. \A o \in Object : StateOf(o)' = IF o \in HeldBy(c) THEN "closed" ELSE StateOf(o)
  <2> SUFFICES ASSUME NEW o \in Object
               PROVE  (IF class[o] # "Connection" THEN "none"
                       ELSE IF o \in open' THEN "open" ELSE "closed")
                        = IF o \in HeldBy(c) THEN "closed" ELSE StateOf(o)
    BY <1>1 DEF StateOf
  <2>1. CASE o \in HeldBy(c)
    BY <1>4, <2>1, HeldAreConnections
  <2>2. CASE o \notin HeldBy(c)
    BY <1>4, <2>2 DEF StateOf
  <2> QED BY <2>1, <2>2
<1>6. StateMap' = [o \in Object |-> IF o \in HeldMap[c] THEN "closed" ELSE StateMap[o]]
  BY <1>5 DEF StateMap, HeldMap
<1>7. \A d \in Context, v \in UUID :
        instanceMap'[d]["Connections"][v] =
          IF d = c THEN NULL ELSE instanceMap[d]["Connections"][v]
  BY <1>1, <1>2, destroyMapsEffect DEF Bookkeeping
<1>8. HeldBy(c)' = {}
  BY <1>7 DEF HeldBy, Holds, getInstance
<1>9. \A d \in Context \ {c} : HeldBy(d)' = HeldBy(d)
  BY <1>1, <1>7, SameHeld DEF Holds, getInstance
<1>10. HeldMap' = [HeldMap EXCEPT ![c] = {}]
  BY <1>8, <1>9 DEF HeldMap
<1>11. Life!End(c)
  BY <1>1, <1>6, <1>10 DEF Life!End, StateMap, HeldMap
<1> QED BY <1>11 DEF Life!Next

\* What is closed at the other end is a connection, or not seen.
LEMMA ClosesLife ==
  ASSUME Bookkeeping, Closes
  PROVE  UNCHANGED Life!vars \/ Life!Next
<1>1. PICK q \in Object : open' = open \ {q}
  BY DEF Closes
<1>2. HeldMap' = HeldMap /\ UNCHANGED <<class, ended>>
  BY HeldStays DEF Closes, handleVars
<1>3. \A o \in Object \ {q} : StateOf(o)' = StateOf(o)
  BY <1>1, <1>2 DEF StateOf
<1>4. CASE class[q] = "Connection" /\ q \in open
  <2>1. StateOf(q) = "open" /\ StateOf(q)' = "closed"
    BY <1>1, <1>2, <1>4 DEF StateOf
  <2>2. StateMap' = [StateMap EXCEPT ![q] = "closed"] /\ StateMap[q] = "open"
    BY <1>3, <2>1 DEF StateMap
  <2>3. Life!CutOff(q)
    BY <1>2, <2>2 DEF Life!CutOff, StateMap, HeldMap
  <2> QED BY <2>3 DEF Life!Next
<1>5. CASE ~(class[q] = "Connection" /\ q \in open)
  <2>1. StateOf(q)' = StateOf(q)
    BY <1>1, <1>2, <1>5 DEF StateOf
  <2>2. StateMap' = StateMap
    BY <1>3, <2>1 DEF StateMap
  <2> QED BY <1>2, <2>2 DEF Life!vars, StateMap, HeldMap
<1> QED BY <1>4, <1>5

\* Calls that change no handle and no object, and those that close a handle of
\* a statement, are not seen.
LEMMA OthersLife ==
  ASSUME Bookkeeping, Quiet \/ Deletes
  PROVE  UNCHANGED Life!vars
<1>1. UNCHANGED <<class, open, target, ended>>
  BY DEF Quiet, Deletes, javaVars, handleVars
<1>2. \A d \in Context, u \in UUID :
        instanceMap'[d]["Connections"][u] = instanceMap[d]["Connections"][u]
  <2>1. CASE Quiet
    BY <2>1 DEF Quiet, handleVars
  <2>2. CASE Deletes
    <3>1. PICK c \in Context, m \in MapName \ {"Connections"}, u \in UUID :
            Holds(c, m, u) /\ deleteInstance(c, m, u)
      BY <2>2 DEF Deletes
    <3> QED BY <3>1, deleteInstanceEffect DEF Bookkeeping, MapName
  <2> QED BY <2>1, <2>2
<1>3. HeldMap' = HeldMap
  BY <1>1, <1>2, HeldStays
<1>4. StateMap' = StateMap
  BY <1>1 DEF StateMap, StateOf
<1> QED BY <1>1, <1>3, <1>4 DEF Life!vars, StateMap, HeldMap

-----------------------------------------------------------------------------
(* The theorem *)

\* No connection is there before the first call.
LEMMA InitLife ==
  ASSUME Init
  PROVE  Life!Init
<1>1. \A o \in Object : StateOf(o) = "none"
  BY DEF Init, InitJava, StateOf
<1>2. \A c \in Context : HeldBy(c) = {}
  BY DEF Init, InitInstanceMaps, EmptyMaps, HeldBy, Holds, getInstance, MapName
<1> QED BY <1>1, <1>2 DEF Init, Life!Init

\* Every disciplined step is one of the abstract connections, or none.
LEMMA StepLife ==
  ASSUME DInv, [DisciplinedNext]_vars
  PROVE  DInv' /\ [Life!Next]_(Life!vars)
<1>1. DInv'
  BY StepRefines
<1>2. Bookkeeping /\ Sound
  BY DEF DInv, IInv, HandlesKeepTheirObject, Sound
<1>3. CASE DisciplinedNext
  <2>1. Kind
    BY <1>3, DisciplineStep
  <2> QED
    BY <1>1, <1>2, <2>1, AllocatesLife, IssuesLife, AliasesLife, DestroysLife,
       ClosesLife, OthersLife
    DEF Kind
<1>4. CASE UNCHANGED vars
  <2>1. UNCHANGED <<class, open, target, instanceMap, ended>>
    BY <1>4 DEF vars, javaVars, handleVars
  <2>2. HeldMap' = HeldMap
    BY <2>1, HeldStays
  <2>3. StateMap' = StateMap
    BY <2>1 DEF StateMap, StateOf
  <2> QED BY <1>1, <2>1, <2>2, <2>3 DEF Life!vars, StateMap, HeldMap
<1> QED BY <1>3, <1>4

\* For a query that closes no alias, connections live as ConnectionLife has it:
\* destroy() closes those of its context and no others, though all it has are
\* references, and no function closes one.
THEOREM ConnectionsLiveOn == DisciplinedSpec => ImplementsConnectionLife
<1>1. Init => DInv /\ Life!Init
  BY InitRefines, InitLife
<1>2. DInv /\ [DisciplinedNext]_vars => DInv' /\ [Life!Next]_(Life!vars)
  BY StepLife
<1> QED
  BY <1>1, <1>2, PTL DEF DisciplinedSpec, ImplementsConnectionLife, Life!Spec
=============================================================================
