----------------------- MODULE JdbcRefinement_proofs -----------------------
(***************************************************************************)
(* The instance maps implement HandleRegistry for a query that closes no   *)
(* alias.  The discipline makes ~AliasClosed an invariant; Sound then says *)
(* that what an entry denotes is the target of its handle, and each kind   *)
(* of step is a step of the registry or a stutter.                         *)
(***************************************************************************)
EXTENDS JdbcModule_proofs

DInv == IInv /\ ~AliasClosed

\* What the registry sees, said with targets: no slot is mentioned.
Stands(c, m, u) == IF Holds(c, m, u) THEN target[u] ELSE NULL

StandsMap ==
  [c \in Context |-> [m \in MapName |-> [u \in UUID |-> Stands(c, m, u)]]]

DenotedMap ==
  [c \in Context |-> [m \in MapName |-> [u \in UUID |-> Denoted(c, m, u)]]]

Spent == {u \in UUID : target[u] # NULL}

\* Where handles keep their object, what an entry denotes is its target.
LEMMA SoundStands ==
  ASSUME Sound
  PROVE  DenotedMap = StandsMap
BY DEF Sound, DenotedMap, StandsMap, Denoted, Stands

\* That holds on both sides of a disciplined step.
LEMMA StandsNow ==
  ASSUME DInv, DInv'
  PROVE  DenotedMap = StandsMap /\ DenotedMap' = StandsMap'
<1>1. Sound /\ Sound'
  BY DEF DInv, IInv, HandlesKeepTheirObject, Sound
<1> QED
  BY <1>1, SoundStands DEF Sound, DenotedMap, StandsMap, Denoted, Stands

-----------------------------------------------------------------------------
(* The discipline *)

\* Under the discipline no alias is ever closed.
LEMMA DisciplineStep ==
  ASSUME DInv, DisciplinedNext
  PROVE  DInv' /\ Kind
<1>1. Kind /\ RestOK
  BY StepKinds DEF DInv, IInv, Bookkeeping, DisciplinedNext
<1>2. IInv'
  BY IInvStep DEF DInv, DisciplinedNext
<1>3. ASSUME NEW u \in closed', NEW w \in UUID \ {u}, target'[w] = target'[u]
      PROVE  FALSE
  <2>1. CASE u \in closed
    <3>1. /\ u \in UUID /\ target[u] # NULL /\ target'[u] = target[u]
          /\ \A c \in Context, m \in MapName : instanceMap[c][m][u] = NULL
      BY <1>1, <2>1, HistoryGrows
      DEF DInv, IInv, Bookkeeping, ClosedGone, TypeOK, Holds, getInstance
    <3>2. target[w] # target[u]
      BY <2>1 DEF DInv, AliasClosed
    <3>3. target'[w] # target[w]
      BY <1>3, <3>1, <3>2
    <3>4. CASE Issues
      <4>1. PICK c \in Context, m \in MapName, r \in Ref, cls \in Class,
                 p \in Object \cup {NULL} :
              NewObject(cls, p, r) /\ Issue(c, m, r, NextObject)
        BY <3>4 DEF Issues
      <4>2. NextObject \in Object /\ class[NextObject] = "none"
        BY <4>1, NewObjectEffect DEF DInv, IInv, Bookkeeping
      <4>3. target'[w] = NextObject
        BY <3>3, <4>1, <4>2, IssueEffect DEF DInv, IInv, Bookkeeping
      <4> QED
        BY <1>3, <3>1, <4>2, <4>3 DEF DInv, IInv, Bookkeeping, TargetsCreated
    <3>5. CASE Aliases
      <4>1. PICK c \in Context, v \in UUID :
              LET r == getInstance(c, "PreparedStatements", v)
              IN  /\ Holds(c, "PreparedStatements", v)
                  /\ Denotes(r, {"PreparedStatement"})
                  /\ Issue(c, "Statements", r, slot[r])
        BY <3>5 DEF Aliases
      <4>2. /\ "PreparedStatements" \in MapName /\ "Statements" \in MapName
            /\ instanceMap[c]["PreparedStatements"][v] \in Ref
            /\ slot[instanceMap[c]["PreparedStatements"][v]] = target[v]
            /\ target[v] \in Object
        BY <4>1
        DEF MapName, DInv, IInv, Bookkeeping, HandlesKeepTheirObject, TypeOK,
            HandlesIssued, InstanceMapTypeOK, Holds, getInstance
      <4>3. target'[w] = target[v]
        BY <3>3, <4>1, <4>2, IssueEffect
        DEF DInv, IInv, Bookkeeping, getInstance
      <4>4. v # u
        BY <3>1, <4>1, <4>2 DEF Holds, getInstance
      <4> QED BY <1>3, <2>1, <3>1, <4>3, <4>4 DEF DInv, AliasClosed
    <3> QED
      BY <1>1, <3>3, <3>4, <3>5
      DEF Kind, Quiet, Allocates, Deletes, Destroys, Closes, handleVars
  <2>2. CASE u \notin closed
    <3>1. target[w] # target[u]
      BY <1>3, <2>2 DEF DisciplinedNext, Unshared
    <3>2. Deletes
      BY <1>1, <1>3, <2>2
      DEF Kind, Quiet, Allocates, Issues, Aliases, Issue, Destroys, Closes,
          handleVars
    <3> QED BY <1>3, <3>1, <3>2 DEF Deletes
  <2> QED BY <2>1, <2>2
<1> QED BY <1>1, <1>2, <1>3 DEF DInv, AliasClosed

-----------------------------------------------------------------------------
(* Steps of the registry *)

\* Two maps of maps with the same entries are the same.
LEMMA SameMaps ==
  ASSUME NEW X, NEW f \in [Context -> [MapName -> [UUID -> X]]],
         NEW g \in [Context -> [MapName -> [UUID -> X]]],
         \A c \in Context, m \in MapName, u \in UUID : f[c][m][u] = g[c][m][u]
  PROVE  f = g
<1>1. \A c \in Context, m \in MapName : f[c][m] = g[c][m]
  OBVIOUS
<1>2. \A c \in Context : f[c] = g[c]
  BY <1>1
<1> QED BY <1>2

\* The entries, seen by their targets, are objects.
LEMMA StandsMapType ==
  ASSUME TypeOK
  PROVE  StandsMap \in [Context -> [MapName -> [UUID -> Object \cup {NULL}]]]
BY DEF StandsMap, Stands, TypeOK

\* A new entry, as the registry sees it.
LEMMA IssueStands ==
  ASSUME Bookkeeping, TypeOK', NEW c \in Context, NEW m \in MapName,
         NEW r \in Ref, NEW o \in Object, Issue(c, m, r, o)
  PROVE  /\ FreshUUID \in UUID \ Spent
         /\ StandsMap' = [StandsMap EXCEPT ![c][m][FreshUUID] = o]
         /\ Spent' = Spent \cup {FreshUUID}
<1>1. /\ FreshUUID \in UUID /\ target[FreshUUID] = NULL
      /\ \A d \in Context, n \in MapName, v \in UUID :
           instanceMap'[d][n][v] =
             IF d = c /\ n = m /\ v = FreshUUID THEN r ELSE instanceMap[d][n][v]
      /\ \A v \in UUID : target'[v] = IF v = FreshUUID THEN o ELSE target[v]
  BY IssueEffect DEF Bookkeeping
<1>2. r # NULL /\ o # NULL
  BY NullAssumption
<1>3. \A d \in Context, n \in MapName, v \in UUID :
        Stands(d, n, v)' =
          IF d = c /\ n = m /\ v = FreshUUID THEN o ELSE Stands(d, n, v)
  <2> SUFFICES ASSUME NEW d \in Context, NEW n \in MapName, NEW v \in UUID
               PROVE  Stands(d, n, v)' =
                        IF d = c /\ n = m /\ v = FreshUUID THEN o ELSE Stands(d, n, v)
    OBVIOUS
  <2>1. CASE d = c /\ n = m /\ v = FreshUUID
    BY <1>1, <1>2, <2>1 DEF Stands, Holds, getInstance
  <2>2. CASE ~(d = c /\ n = m /\ v = FreshUUID) /\ ~Holds(d, n, v)
    BY <1>1, <2>2 DEF Stands, Holds, getInstance
  <2>3. CASE ~(d = c /\ n = m /\ v = FreshUUID) /\ Holds(d, n, v)
    <3>1. v # FreshUUID
      BY <1>1, <2>3 DEF Bookkeeping, HandlesIssued
    <3> QED BY <1>1, <2>3, <3>1 DEF Stands, Holds, getInstance
  <2> QED BY <2>1, <2>2, <2>3
<1>4. StandsMap' = [StandsMap EXCEPT ![c][m][FreshUUID] = o]
  <2>1. StandsMap' \in [Context -> [MapName -> [UUID -> Object \cup {NULL}]]]
    BY DEF StandsMap, Stands, TypeOK
  <2>2. StandsMap \in [Context -> [MapName -> [UUID -> Object \cup {NULL}]]]
    BY StandsMapType DEF Bookkeeping
  <2> DEFINE g == [StandsMap EXCEPT ![c][m][FreshUUID] = o]
  <2>3. g \in [Context -> [MapName -> [UUID -> Object \cup {NULL}]]]
    BY <1>1, <2>2
  <2>4. \A d \in Context, n \in MapName, v \in UUID : StandsMap'[d][n][v] = g[d][n][v]
    BY <1>1, <1>3, <2>2 DEF StandsMap
  <2> QED BY <2>1, <2>3, <2>4, SameMaps
<1>5. Spent' = Spent \cup {FreshUUID} /\ FreshUUID \in UUID \ Spent
  BY <1>1, <1>2 DEF Spent
<1> QED BY <1>4, <1>5

\* Registry!Next, spelled out over the maps above.
LEMMA RegistryNext ==
  ASSUME NEW c \in Context, DenotedMap = StandsMap, DenotedMap' = StandsMap',
         \/ /\ StandsMap' = [StandsMap EXCEPT ![c] =
                               [m \in MapName |-> [u \in UUID |-> NULL]]]
            /\ Spent' = Spent
         \/ \E m \in MapName \ {"Connections"}, u \in UUID :
              /\ StandsMap[c][m][u] # NULL
              /\ StandsMap' = [StandsMap EXCEPT ![c][m][u] = NULL]
              /\ Spent' = Spent
         \/ \E m \in MapName, u \in UUID \ Spent, o \in Object :
              /\ \/ \A d \in Context, n \in MapName, v \in UUID : StandsMap[d][n][v] # o
                 \/ /\ m = "Statements"
                    /\ \E v \in UUID : StandsMap[c]["PreparedStatements"][v] = o
              /\ StandsMap' = [StandsMap EXCEPT ![c][m][u] = o]
              /\ Spent' = Spent \cup {u}
  PROVE  Registry!Next
<1>1. DenotedMap = StandsMap /\ DenotedMap' = StandsMap'
  OBVIOUS
<1>2. \A d \in Context, o \in Object, maps \in SUBSET MapName :
        Registry!Known(d, maps, o) <=>
          \E n \in maps, v \in UUID : DenotedMap[d][n][v] = o
  BY DEF Registry!Known, DenotedMap
<1>3. ASSUME NEW m \in MapName, NEW u \in UUID \ Spent, NEW o \in Object,
             \/ \A d \in Context, n \in MapName, v \in UUID : DenotedMap[d][n][v] # o
             \/ /\ m = "Statements"
                /\ \E v \in UUID : DenotedMap[c]["PreparedStatements"][v] = o,
             DenotedMap' = [DenotedMap EXCEPT ![c][m][u] = o],
             Spent' = Spent \cup {u}
      PROVE  Registry!Issue(c, m, u, o)
  <2>1. Registry!New(o) \/ (m = "Statements" /\ Registry!Known(c, {"PreparedStatements"}, o))
    BY <1>2, <1>3 DEF Registry!New, MapName
  <2> QED BY <1>3, <2>1 DEF Registry!Issue, DenotedMap, Spent
<1>4. ASSUME NEW m \in MapName \ {"Connections"}, NEW u \in UUID,
             DenotedMap[c][m][u] # NULL,
             DenotedMap' = [DenotedMap EXCEPT ![c][m][u] = NULL], Spent' = Spent
      PROVE  Registry!Close(c, m, u)
  BY <1>4 DEF Registry!Close, DenotedMap, Spent
<1>5. ASSUME DenotedMap' = [DenotedMap EXCEPT ![c] =
                              [m \in MapName |-> [u \in UUID |-> NULL]]],
             Spent' = Spent
      PROVE  Registry!End(c)
  BY <1>5 DEF Registry!End, DenotedMap, Spent
<1> QED BY <1>1, <1>3, <1>4, <1>5 DEF Registry!Next

\* A new handle for a new object is an Issue of the registry.
LEMMA IssuesRefine ==
  ASSUME DInv, DInv', Issues
  PROVE  Registry!Next
<1>1. PICK c \in Context, m \in MapName, r \in Ref, cls \in Class,
           p \in Object \cup {NULL} :
        NewObject(cls, p, r) /\ Issue(c, m, r, NextObject)
  BY DEF Issues
<1>2. NextObject \in Object /\ class[NextObject] = "none"
  BY <1>1, NewObjectEffect DEF DInv, IInv, Bookkeeping
<1>3. \A d \in Context, n \in MapName, v \in UUID : StandsMap[d][n][v] # NextObject
  BY <1>2, NullAssumption
  DEF StandsMap, Stands, DInv, IInv, Bookkeeping, TargetsCreated
<1>4. /\ FreshUUID \in UUID \ Spent
      /\ StandsMap' = [StandsMap EXCEPT ![c][m][FreshUUID] = NextObject]
      /\ Spent' = Spent \cup {FreshUUID}
  BY <1>1, <1>2, IssueStands DEF DInv, IInv, Bookkeeping
<1>5. DenotedMap = StandsMap /\ DenotedMap' = StandsMap'
  BY StandsNow
<1> QED BY <1>2, <1>3, <1>4, <1>5, RegistryNext

\* A data set of a prepared statement is an Issue of the registry.
LEMMA AliasesRefine ==
  ASSUME DInv, DInv', Aliases
  PROVE  Registry!Next
<1>1. PICK c \in Context, w \in UUID :
        LET r == getInstance(c, "PreparedStatements", w)
        IN  /\ Holds(c, "PreparedStatements", w)
            /\ Issue(c, "Statements", r, slot[r])
  BY DEF Aliases
<1> DEFINE r == instanceMap[c]["PreparedStatements"][w]
           o == target[w]
<1>2. /\ "PreparedStatements" \in MapName /\ "Statements" \in MapName
      /\ r \in Ref /\ o \in Object
      /\ Issue(c, "Statements", r, o)
  BY <1>1
  DEF MapName, DInv, IInv, Bookkeeping, HandlesKeepTheirObject, TypeOK,
      HandlesIssued, InstanceMapTypeOK, Holds, getInstance
<1>3. StandsMap[c]["PreparedStatements"][w] = o
  BY <1>1, <1>2 DEF StandsMap, Stands
<1> HIDE DEF o
<1>4. /\ FreshUUID \in UUID \ Spent
      /\ StandsMap' = [StandsMap EXCEPT ![c]["Statements"][FreshUUID] = o]
      /\ Spent' = Spent \cup {FreshUUID}
  BY <1>2, IssueStands DEF DInv, IInv, Bookkeeping
<1>5. DenotedMap = StandsMap /\ DenotedMap' = StandsMap'
  BY StandsNow
<1> QED BY <1>2, <1>3, <1>4, <1>5, RegistryNext

\* Closing a handle that shares its object with no other is a Close.
LEMMA DeletesRefine ==
  ASSUME DInv, DInv', Deletes
  PROVE  Registry!Next
<1>1. PICK c \in Context, m \in MapName \ {"Connections"}, u \in UUID :
        Holds(c, m, u) /\ deleteInstance(c, m, u) /\ target' = target
  BY DEF Deletes
<1>2. \A d \in Context, n \in MapName, v \in UUID :
        instanceMap'[d][n][v] =
          IF d = c /\ n = m /\ v = u THEN NULL ELSE instanceMap[d][n][v]
  BY <1>1, deleteInstanceEffect DEF DInv, IInv, Bookkeeping
<1>3. \A d \in Context, n \in MapName, v \in UUID :
        StandsMap'[d][n][v] =
          IF d = c /\ n = m /\ v = u THEN NULL ELSE StandsMap[d][n][v]
  BY <1>1, <1>2 DEF StandsMap, Stands, Holds, getInstance
<1>4. StandsMap' = [StandsMap EXCEPT ![c][m][u] = NULL]
  <2>1. /\ StandsMap \in [Context -> [MapName -> [UUID -> Object \cup {NULL}]]]
        /\ StandsMap' \in [Context -> [MapName -> [UUID -> Object \cup {NULL}]]]
    BY DEF DInv, IInv, Bookkeeping, StandsMap, Stands, TypeOK
  <2> DEFINE g == [StandsMap EXCEPT ![c][m][u] = NULL]
  <2>2. /\ g \in [Context -> [MapName -> [UUID -> Object \cup {NULL}]]]
        /\ \A d \in Context, n \in MapName, v \in UUID :
             g[d][n][v] = IF d = c /\ n = m /\ v = u THEN NULL ELSE StandsMap[d][n][v]
    BY <2>1
  <2> HIDE DEF g
  <2>3. StandsMap' = g
    BY <1>3, <2>1, <2>2, SameMaps
  <2> QED BY <2>3 DEF g
<1>5. StandsMap[c][m][u] # NULL
  BY <1>1 DEF StandsMap, Stands, DInv, IInv, Bookkeeping, HandlesIssued
<1>6. Spent' = Spent
  BY <1>1 DEF Spent
<1>7. DenotedMap = StandsMap /\ DenotedMap' = StandsMap'
  BY StandsNow
<1> QED BY <1>4, <1>5, <1>6, <1>7, RegistryNext

\* The end of a context is an End of the registry.
LEMMA DestroysRefine ==
  ASSUME DInv, DInv', Destroys
  PROVE  Registry!Next
<1>1. PICK c \in Context : destroyMaps(c) /\ target' = target
  BY DEF Destroys
<1>2. \A d \in Context, n \in MapName, v \in UUID :
        instanceMap'[d][n][v] = IF d = c THEN NULL ELSE instanceMap[d][n][v]
  BY <1>1, destroyMapsEffect DEF DInv, IInv, Bookkeeping
<1>3. \A d \in Context, n \in MapName, v \in UUID :
        StandsMap'[d][n][v] = IF d = c THEN NULL ELSE StandsMap[d][n][v]
  BY <1>1, <1>2 DEF StandsMap, Stands, Holds, getInstance
<1> DEFINE g == [StandsMap EXCEPT ![c] = [m \in MapName |-> [u \in UUID |-> NULL]]]
<1>4. StandsMap' = g
  <2>1. /\ StandsMap \in [Context -> [MapName -> [UUID -> Object \cup {NULL}]]]
        /\ StandsMap' \in [Context -> [MapName -> [UUID -> Object \cup {NULL}]]]
    BY DEF DInv, IInv, Bookkeeping, StandsMap, Stands, TypeOK
  <2>2. /\ g \in [Context -> [MapName -> [UUID -> Object \cup {NULL}]]]
        /\ \A d \in Context, n \in MapName, v \in UUID :
             g[d][n][v] = IF d = c THEN NULL ELSE StandsMap[d][n][v]
    BY <2>1
  <2> HIDE DEF g
  <2> QED BY <1>3, <2>1, <2>2, SameMaps
<1>5. Spent' = Spent
  BY <1>1 DEF Spent
<1>6. DenotedMap = StandsMap /\ DenotedMap' = StandsMap'
  BY StandsNow
<1> QED BY <1>4, <1>5, <1>6, RegistryNext

\* The other kinds change nothing the registry sees.
LEMMA OthersStutter ==
  ASSUME DInv, DInv', Quiet \/ Closes \/ Allocates
  PROVE  DenotedMap' = DenotedMap /\ Spent' = Spent
<1>1. StandsMap' = StandsMap /\ Spent' = Spent
  BY DEF Quiet, Closes, Allocates, handleVars, StandsMap, Stands, Holds,
         getInstance, Spent
<1> QED BY <1>1, StandsNow

-----------------------------------------------------------------------------
(* The theorem *)

\* Empty maps are an empty registry.
LEMMA InitRefines == Init => DInv /\ Registry!Init
<1> SUFFICES ASSUME Init PROVE DInv /\ Registry!Init
  OBVIOUS
<1>1. DInv
  BY InitIInv DEF DInv, Init, AliasClosed
<1>2. \A c \in Context, m \in MapName, u \in UUID : Denoted(c, m, u) = NULL
  BY DEF Denoted, Init, InitInstanceMaps, EmptyMaps, Holds, getInstance
<1>3. Spent = {}
  BY DEF Init, Spent
<1>4. Registry!Init
  BY <1>2, <1>3 DEF Registry!Init, Spent
<1> QED BY <1>1, <1>4

\* Every kind of step is a step of the registry or a stutter.
LEMMA KindRefines ==
  ASSUME DInv, DInv', Kind
  PROVE  UNCHANGED Registry!vars \/ Registry!Next
<1>1. CASE Quiet \/ Closes \/ Allocates
  BY <1>1, OthersStutter DEF Registry!vars, DenotedMap, Spent
<1>2. CASE ~(Quiet \/ Closes \/ Allocates)
  BY <1>2, IssuesRefine, AliasesRefine, DeletesRefine, DestroysRefine DEF Kind
<1> QED BY <1>1, <1>2

\* Every disciplined step is a step of the registry or a stutter.
LEMMA StepRefines == DInv /\ [DisciplinedNext]_vars => DInv' /\ [Registry!Next]_(Registry!vars)
<1> SUFFICES ASSUME DInv, [DisciplinedNext]_vars
             PROVE  DInv' /\ [Registry!Next]_(Registry!vars)
  OBVIOUS
<1>1. CASE DisciplinedNext
  BY <1>1, DisciplineStep, KindRefines
<1>2. CASE UNCHANGED vars
  <2>1. IInv' /\ ~AliasClosed'
    BY <1>2, IInvStep DEF DInv, AliasClosed, vars, handleVars
  <2>2. UNCHANGED <<instanceMap, slot, target>>
    BY <1>2 DEF vars, javaVars, handleVars
  <2>3. DenotedMap' = DenotedMap /\ Spent' = Spent
    BY <2>2 DEF DenotedMap, Spent, Denoted, Holds, getInstance
  <2> QED BY <2>1, <2>3 DEF DInv, Registry!vars, DenotedMap, Spent
<1> QED BY <1>1, <1>2

\* For a query that closes no alias, the maps over recycled references behave
\* as the registry of handles.
THEOREM MapsImplementRegistry == DisciplinedSpec => ImplementsRegistry
BY InitRefines, StepRefines, PTL DEF DisciplinedSpec, ImplementsRegistry, Registry!Spec

\* Any query: as long as the step closes no alias, it is one of the registry.
LEMMA StepUntilAliasClosed ==
  ASSUME IInv, Next, ~AliasClosed'
  PROVE  UNCHANGED Registry!vars \/ Registry!Next
<1>1. Kind
  BY StepKinds DEF IInv, Bookkeeping
<1>2. DInv
  BY <1>1, AliasClosedStays DEF DInv, IInv
<1>3. DInv'
  BY IInvStep DEF DInv
<1> QED BY <1>1, <1>2, <1>3, KindRefines

\* Without any discipline: the maps over recycled references behave as the
\* registry of handles up to the step at which the query closes an alias.
THEOREM RegistryWhileUnaliased == Spec => RegistryUntilAliasClosed
<1> DEFINE Steps == \/ UNCHANGED <<slot, handleVars>>
                    \/ AliasClosed' \/ UNCHANGED Registry!vars \/ Registry!Next
<1>1. IInv /\ [Next]_vars => [Steps]_vars
  BY StepUntilAliasClosed
<1>2. Init => Registry!Init
  BY InitRefines
<1>3. RegistryUntilAliasClosed <=> Registry!Init /\ [][Steps]_vars
  BY DEF RegistryUntilAliasClosed
<1> QED BY <1>1, <1>2, <1>3, IInvInvariant, PTL DEF Spec
=============================================================================
