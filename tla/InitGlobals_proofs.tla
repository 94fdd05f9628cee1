------------------------ MODULE InitGlobals_proofs ------------------------
(***************************************************************************)
(* For any number of threads: identifiers are missing only where an        *)
(* initialisation is under way or has failed.  The inductive invariant is  *)
(* GlobalsInv; every action either leaves the globals alone (Aside) or is  *)
(* one of the steps of initGlobals.                                        *)
(***************************************************************************)
EXTENDS InitGlobals, TLAPS

\* The table of the groups: what each position holds.
LEMMA GroupTable ==
  /\ \A k \in Position : Group[k] \in Groups
  /\ \A k \in Position : k < Last => Group[k] # "SQLTypes"
  /\ \A g \in Groups \ {"SQLTypes"} : \E k \in Position : k < Last /\ Group[k] = g
  /\ "SQLTypes" \in Groups
<1>1. Group[Last] = "SQLTypes"
  BY DEF Group, Last
<1>2. Last \in Position
  BY DEF Position, Last
<1>3. \A k \in Position : Group[k] \in Groups
  BY DEF Groups
<1>4. "SQLTypes" \in Groups
  BY <1>1, <1>2, <1>3
<1>5. ASSUME NEW k \in Position, k < Last
      PROVE  Group[k] # "SQLTypes"
  <2>1. k \in {1, 2, 3, 4, 5, 6, 7, 8, 9}
    BY <1>5 DEF Position, Last
  <2> QED
    BY <2>1 DEF Group
<1>6. ASSUME NEW g \in Groups, g # "SQLTypes"
      PROVE  \E k \in Position : k < Last /\ Group[k] = g
  <2>1. PICK k \in Position : g = Group[k]
    BY DEF Groups
  <2>2. k # Last
    BY <1>1, <1>6, <2>1
  <2>3. k < Last
    BY <2>2 DEF Position, Last
  <2> QED
    BY <2>1, <2>3
<1> QED
  BY <1>3, <1>4, <1>5, <1>6

\* What the invariant says as long as no lookup failed.
Intact == Progress /\ TypesLast /\ TypesComing /\ FlagSet /\ EnvHasAuthor

EnvBehindThreads == \A t \in Thread : phase[t] \notin {"query", "attach"} => env # NULL

LEMMA InvParts ==
  GlobalsInv <=> TypeOK /\ EnvBehindThreads /\ (~cut => Intact) /\ OwnInitSuffices
BY DEF GlobalsInv, Intact, EnvBehindThreads

LEMMA InitInv == Init => GlobalsInv
<1> SUFFICES ASSUME Init PROVE GlobalsInv
  OBVIOUS
<1>1. TypeOK
  <2>1. 1 \in Position
    BY DEF Position, Last
  <2>2. at \in [Thread -> Position] /\ env \in Thread \cup {NULL}
    BY <2>1 DEF Init
  <2> QED
    BY <2>2 DEF Init, TypeOK
<1> QED
  BY <1>1 DEF Init, GlobalsInv, Progress, TypesLast, TypesComing, FlagSet,
              EnvHasAuthor, OwnInitSuffices, Initialising

\* A step that leaves the globals and the initialising threads alone.
Aside ==
  /\ UNCHANGED <<env, loaded, typesLoaded, at, initialised, cut>>
  /\ pending' \subseteq Thread /\ connected' \subseteq Thread /\ missed' \subseteq Groups
  /\ \/ UNCHANGED phase
     \/ \E t \in Thread, p \in {"query", "attach", "connect"} :
          /\ phase[t] \in {"query", "attach", "connect"}
          /\ Goto(t, p)
          /\ p = "connect" => env # NULL

LEMMA AsideInv == GlobalsInv /\ Aside => GlobalsInv'
<1> SUFFICES ASSUME GlobalsInv, Aside PROVE GlobalsInv'
  OBVIOUS
<1> USE InvParts DEF Aside
<1>1. CASE UNCHANGED phase
  BY <1>1 DEF TypeOK, EnvBehindThreads, Intact, Progress, TypesLast, TypesComing,
              FlagSet, EnvHasAuthor, OwnInitSuffices, Initialising, GlobalsInv
<1>2. ASSUME NEW t \in Thread, NEW p \in {"query", "attach", "connect"},
             phase[t] \in {"query", "attach", "connect"}, Goto(t, p),
             p = "connect" => env # NULL
      PROVE  GlobalsInv'
  <2>1. phase' = [phase EXCEPT ![t] = p]
    BY <1>2 DEF Goto
  <2>2. TypeOK'
    BY <2>1 DEF TypeOK
  <2>3. \A u \in Thread : /\ u # t => phase'[u] = phase[u]
                          /\ phase'[t] = p
    BY <2>1 DEF TypeOK
  <2>4. \A u \in Thread, q \in {"lookup", "flag", "types"} : phase'[u] = q <=> phase[u] = q
    BY <1>2, <2>3
  <2>5. EnvBehindThreads'
    BY <1>2, <2>3 DEF EnvBehindThreads
  <2>6. ~cut => Intact'
    <3> SUFFICES ASSUME ~cut PROVE Intact'
      OBVIOUS
    <3>1. Progress'
      BY <2>4 DEF Intact, Progress
    <3>2. TypesLast'
      BY <2>4 DEF Intact, TypesLast
    <3>3. TypesComing'
      BY <2>4 DEF Intact, TypesComing
    <3>4. FlagSet'
      BY <2>4 DEF Intact, FlagSet
    <3>5. EnvHasAuthor'
      BY <2>4 DEF Intact, EnvHasAuthor, Initialising
    <3> QED
      BY <3>1, <3>2, <3>3, <3>4, <3>5 DEF Intact
  <2>7. OwnInitSuffices'
    BY DEF OwnInitSuffices
  <2> QED
    BY <2>2, <2>5, <2>6, <2>7 DEF GlobalsInv, Intact, EnvBehindThreads
<1> QED
  BY <1>1, <1>2

LEMMA AttachInv ==
  ASSUME GlobalsInv, NEW t \in Thread, Attach(t)
  PROVE  GlobalsInv'
<1> USE InvParts
<1>1. phase[t] = "attach" /\ env' = t /\ env' # NULL
  BY ThreadAssumption DEF Attach
<1>2. UNCHANGED <<loaded, typesLoaded, pending, connected, initialised, missed>>
  BY DEF Attach
<1>3. CASE Goto(t, "lookup") /\ at' = [at EXCEPT ![t] = 1] /\ UNCHANGED cut
  <2>1. TypeOK'
    BY <1>1, <1>2, <1>3 DEF TypeOK, Goto, Position, Last
  <2>2. \A u \in Thread : u # t => phase'[u] = phase[u] /\ at'[u] = at[u]
    BY <1>3 DEF Goto, TypeOK
  <2>3. phase'[t] = "lookup" /\ at'[t] = 1
    BY <1>3 DEF Goto, TypeOK
  <2>4. ~cut => Intact'
    <3> SUFFICES ASSUME ~cut PROVE Intact'
      OBVIOUS
    <3>1. Progress'
      <4> SUFFICES ASSUME NEW u \in Thread, phase'[u] = "lookup",
                          NEW k \in Position, k < at'[u]
                   PROVE  Group[k] \in loaded'
        BY DEF Progress
      <4>1. u # t
        BY <2>3 DEF Position, Last
      <4> QED
        BY <1>2, <2>2, <4>1 DEF Intact, Progress
    <3>2. TypesLast'
      BY <1>2, <2>2, <2>3 DEF Intact, TypesLast
    <3>3. TypesComing'
      BY <1>1, <1>2, <2>2 DEF Intact, TypesComing
    <3>4. FlagSet'
      BY <1>2, <2>2, <2>3 DEF Intact, FlagSet
    <3>5. EnvHasAuthor'
      BY <2>3 DEF EnvHasAuthor, Initialising
    <3> QED
      BY <3>1, <3>2, <3>3, <3>4, <3>5 DEF Intact
  <2> QED
    BY <1>1, <1>2, <1>3, <2>1, <2>4 DEF GlobalsInv, Intact, EnvBehindThreads, OwnInitSuffices
<1>4. CASE Goto(t, "query") /\ cut' = TRUE /\ UNCHANGED at
  <2>1. TypeOK'
    BY <1>1, <1>2, <1>4 DEF TypeOK, Goto
  <2> QED
    BY <1>1, <1>2, <1>4, <2>1 DEF GlobalsInv, OwnInitSuffices
<1> QED
  BY <1>3, <1>4 DEF Attach

LEMMA InitGroupInv ==
  ASSUME GlobalsInv, NEW t \in Thread, InitGroup(t)
  PROVE  GlobalsInv'
<1> USE InvParts
<1> DEFINE g == Group[at[t]]
<1>1. /\ phase[t] = "lookup" /\ at[t] < Last /\ at[t] \in Position
      /\ at' = [at EXCEPT ![t] = at[t] + 1]
      /\ UNCHANGED <<env, typesLoaded, phase, connected, initialised, missed>>
  BY DEF InitGroup, TypeOK
<1>2. g \in Groups /\ g # "SQLTypes"
  BY <1>1, GroupTable
<1>3. /\ at[t] + 1 \in Position
      /\ \A k \in Position : k < at[t] + 1 => k < at[t] \/ k = at[t]
  BY <1>1 DEF Position, Last
<1>4. EnvBehindThreads'
  BY <1>1 DEF EnvBehindThreads
<1>5. CASE loaded' = loaded \cup {g} /\ UNCHANGED <<pending, cut>>
  <2>1. TypeOK'
    BY <1>1, <1>2, <1>3, <1>5 DEF TypeOK
  <2>2. ~cut => Intact'
    <3> SUFFICES ASSUME ~cut PROVE Intact'
      OBVIOUS
    <3>1. Progress'
      <4> SUFFICES ASSUME NEW u \in Thread, phase'[u] = "lookup",
                          NEW k \in Position, k < at'[u]
                   PROVE  Group[k] \in loaded'
        BY DEF Progress
      <4>1. CASE u = t
        <5>1. k < at[t] + 1
          BY <1>1, <4>1 DEF TypeOK
        <5>2. CASE k = at[t]
          BY <1>5, <5>2
        <5>3. CASE k < at[t]
          BY <1>1, <1>5, <5>3 DEF Intact, Progress
        <5> QED
          BY <1>3, <5>1, <5>2, <5>3
      <4>2. CASE u # t
        <5>1. at'[u] = at[u] /\ phase[u] = "lookup"
          BY <1>1, <4>2 DEF TypeOK
        <5> QED
          BY <1>5, <5>1 DEF Intact, Progress
      <4> QED
        BY <4>1, <4>2
    <3>2. TypesLast'
      BY <1>1, <1>5 DEF Intact, TypesLast
    <3>3. TypesComing'
      BY <1>1, <1>5 DEF Intact, TypesComing
    <3>4. FlagSet'
      BY <1>1 DEF Intact, FlagSet
    <3>5. EnvHasAuthor'
      BY <1>1 DEF Intact, EnvHasAuthor, Initialising
    <3> QED
      BY <3>1, <3>2, <3>3, <3>4, <3>5 DEF Intact
  <2>3. OwnInitSuffices'
    BY <1>1, <1>5 DEF OwnInitSuffices
  <2> QED
    BY <1>4, <1>5, <2>1, <2>2, <2>3 DEF GlobalsInv, Intact, EnvBehindThreads
<1>6. CASE /\ loaded' = loaded \ {g}
           /\ pending' = pending \cup {t}
           /\ cut' = TRUE
  <2>1. TypeOK'
    BY <1>1, <1>3, <1>6 DEF TypeOK
  <2> QED
    BY <1>4, <1>6, <2>1 DEF GlobalsInv, EnvBehindThreads, OwnInitSuffices
<1> QED
  BY <1>5, <1>6 DEF InitGroup, LookUp

LEMMA InitTypesInv ==
  ASSUME GlobalsInv, NEW t \in Thread, InitTypes(t)
  PROVE  GlobalsInv'
<1> USE InvParts
<1>1. /\ phase[t] = "lookup" /\ at[t] = Last
      /\ UNCHANGED <<env, loaded, typesLoaded, at, pending, connected, cut, missed>>
  BY DEF InitTypes
<1>2. ~cut => Groups \ {"SQLTypes"} \subseteq loaded
  <2> SUFFICES ASSUME ~cut, NEW g \in Groups, g # "SQLTypes" PROVE g \in loaded
    OBVIOUS
  <2>1. PICK k \in Position : k < Last /\ Group[k] = g
    BY GroupTable
  <2> QED
    BY <1>1, <2>1 DEF Intact, Progress
<1>3. env # NULL
  BY <1>1 DEF EnvBehindThreads
<1>4. CASE typesLoaded /\ Return(t)
  <2>1. phase' = [phase EXCEPT ![t] = "connect"] /\ initialised' = initialised \cup {t}
    BY <1>4 DEF Return, Goto
  <2>2. TypeOK'
    BY <1>1, <2>1 DEF TypeOK
  <2>3. phase'[t] = "connect" /\ \A u \in Thread : u # t => phase'[u] = phase[u]
    BY <2>1 DEF TypeOK
  <2>4. EnvBehindThreads'
    BY <1>1, <1>3 DEF EnvBehindThreads
  <2>5. ~cut => Intact'
    <3> SUFFICES ASSUME ~cut PROVE Intact'
      OBVIOUS
    <3>1. Progress'
      BY <1>1, <2>3 DEF Intact, Progress
    <3>2. TypesLast'
      BY <1>1, <1>2 DEF TypesLast
    <3>3. TypesComing'
      BY <1>1, <1>4, <2>3 DEF Intact, TypesComing
    <3>4. FlagSet' /\ EnvHasAuthor'
      BY <1>1, <1>4, <2>1 DEF FlagSet, EnvHasAuthor
    <3> QED
      BY <3>1, <3>2, <3>3, <3>4 DEF Intact
  <2>6. OwnInitSuffices'
    BY <1>1, <1>2 DEF OwnInitSuffices
  <2> QED
    BY <1>1, <2>2, <2>4, <2>5, <2>6 DEF GlobalsInv, Intact, EnvBehindThreads
<1>5. CASE ~typesLoaded /\ Goto(t, "flag") /\ UNCHANGED initialised
  <2>1. phase' = [phase EXCEPT ![t] = "flag"]
    BY <1>5 DEF Goto
  <2>2. TypeOK'
    BY <1>1, <1>5, <2>1 DEF TypeOK
  <2>3. phase'[t] = "flag" /\ \A u \in Thread : u # t => phase'[u] = phase[u]
    BY <2>1 DEF TypeOK
  <2>4. EnvBehindThreads'
    BY <1>1, <1>3 DEF EnvBehindThreads
  <2>5. ~cut => Intact'
    <3> SUFFICES ASSUME ~cut PROVE Intact'
      OBVIOUS
    <3>1. Progress'
      BY <1>1, <2>3 DEF Intact, Progress
    <3>2. TypesLast'
      BY <1>1, <1>2 DEF TypesLast
    <3>3. TypesComing'
      BY <1>1, <1>5 DEF TypesComing
    <3>4. FlagSet'
      BY <1>1, <1>5, <2>3 DEF Intact, FlagSet
    <3>5. EnvHasAuthor'
      BY <2>3 DEF EnvHasAuthor, Initialising
    <3> QED
      BY <3>1, <3>2, <3>3, <3>4, <3>5 DEF Intact
  <2>6. OwnInitSuffices'
    BY <1>1, <1>5 DEF OwnInitSuffices
  <2> QED
    BY <1>1, <2>2, <2>4, <2>5, <2>6 DEF GlobalsInv, Intact, EnvBehindThreads
<1> QED
  BY <1>4, <1>5 DEF InitTypes

LEMMA SetFlagInv ==
  ASSUME GlobalsInv, NEW t \in Thread, SetFlag(t)
  PROVE  GlobalsInv'
<1> USE InvParts
<1>1. /\ phase[t] = "flag" /\ typesLoaded' = TRUE
      /\ phase' = [phase EXCEPT ![t] = "types"]
      /\ UNCHANGED <<env, loaded, at, pending, connected, initialised, cut, missed>>
  BY DEF SetFlag, Goto
<1>2. phase'[t] = "types" /\ \A u \in Thread : u # t => phase'[u] = phase[u]
  BY <1>1 DEF TypeOK
<1>3. TypeOK'
  BY <1>1 DEF TypeOK
<1>4. EnvBehindThreads'
  BY <1>1, <1>2 DEF EnvBehindThreads
<1>5. ~cut => Intact'
  <2> SUFFICES ASSUME ~cut PROVE Intact'
    OBVIOUS
  <2>1. Progress'
    BY <1>1, <1>2 DEF Intact, Progress
  <2>2. TypesLast'
    BY <1>1 DEF Intact, TypesLast
  <2>3. TypesComing' /\ FlagSet'
    BY <1>1, <1>2 DEF TypesComing, FlagSet
  <2>4. EnvHasAuthor'
    BY <1>2 DEF EnvHasAuthor, Initialising
  <2> QED
    BY <2>1, <2>2, <2>3, <2>4 DEF Intact
<1>6. OwnInitSuffices'
  BY <1>1 DEF OwnInitSuffices
<1> QED
  BY <1>1, <1>3, <1>4, <1>5, <1>6 DEF GlobalsInv, Intact, EnvBehindThreads

LEMMA ReadTypesInv ==
  ASSUME GlobalsInv, NEW t \in Thread, ReadTypes(t)
  PROVE  GlobalsInv'
<1> USE InvParts
<1>1. /\ phase[t] = "types"
      /\ phase' = [phase EXCEPT ![t] = "connect"]
      /\ initialised' = initialised \cup {t}
      /\ UNCHANGED <<env, typesLoaded, at, connected, missed>>
  BY DEF ReadTypes, Return, Goto
<1>2. phase'[t] = "connect" /\ \A u \in Thread : u # t => phase'[u] = phase[u]
  BY <1>1 DEF TypeOK
<1>3. EnvBehindThreads'
  BY <1>1, <1>2 DEF EnvBehindThreads
<1>4. CASE loaded' = loaded \cup {"SQLTypes"} /\ UNCHANGED <<pending, cut>>
  <2>1. TypeOK'
    BY <1>1, <1>4, GroupTable DEF TypeOK
  <2>2. ~cut => Groups \ {"SQLTypes"} \subseteq loaded /\ typesLoaded'
    BY <1>1 DEF Intact, TypesLast, FlagSet
  <2>3. ~cut => Intact'
    <3> SUFFICES ASSUME ~cut PROVE Intact'
      OBVIOUS
    <3>1. Progress'
      BY <1>1, <1>2, <1>4 DEF Intact, Progress
    <3>2. TypesLast'
      BY <1>4, <2>2 DEF TypesLast
    <3>3. TypesComing'
      BY <1>4 DEF TypesComing
    <3>4. FlagSet' /\ EnvHasAuthor'
      BY <1>1, <2>2 DEF FlagSet, EnvHasAuthor
    <3> QED
      BY <3>1, <3>2, <3>3, <3>4 DEF Intact
  <2>4. OwnInitSuffices'
    BY <1>4, <2>2 DEF OwnInitSuffices
  <2> QED
    BY <1>3, <1>4, <2>1, <2>3, <2>4 DEF GlobalsInv, Intact, EnvBehindThreads
<1>5. CASE /\ loaded' = loaded \ {"SQLTypes"}
           /\ pending' = pending \cup {t}
           /\ cut' = TRUE
  <2>1. TypeOK'
    BY <1>1, <1>5 DEF TypeOK
  <2> QED
    BY <1>3, <1>5, <2>1 DEF GlobalsInv, EnvBehindThreads, OwnInitSuffices
<1> QED
  BY <1>4, <1>5 DEF ReadTypes, LookUp

\* The calls that are no step of initGlobals leave the globals alone.
LEMMA OutsideIsAside ==
  ASSUME GlobalsInv, NEW t \in Thread,
         \/ CallConnect(t) \/ NoVM(t) \/ Connect(t)
         \/ \E g \in Groups : JniCall(t, g)
  PROVE  Aside
<1> USE InvParts
<1>1. pending \subseteq Thread /\ connected \subseteq Thread /\ missed \subseteq Groups
  BY DEF TypeOK
<1>2. "DriverManager" \in Groups
  <2>1. 1 \in Position /\ Group[1] = "DriverManager"
    BY DEF Position, Last, Group
  <2> QED
    BY <2>1, GroupTable
<1>3. CASE CallConnect(t)
  <2>1. CASE env = NULL
    BY <1>1, <1>3, <2>1 DEF CallConnect, Aside
  <2>2. CASE env # NULL
    BY <1>1, <1>3, <2>2 DEF CallConnect, Aside
  <2> QED
    BY <2>1, <2>2
<1>4. CASE NoVM(t)
  BY <1>1, <1>4 DEF NoVM, Aside
<1>5. CASE Connect(t)
  <2>1. /\ phase[t] = "connect" /\ Goto(t, "query")
        /\ UNCHANGED <<env, loaded, typesLoaded, at, initialised, cut>>
    BY <1>5 DEF Connect
  <2>2. pending' \subseteq Thread
    BY <1>1, <1>5 DEF Connect
  <2>3. connected' \subseteq Thread /\ missed' \subseteq Groups
    BY <1>1, <1>2, <1>5 DEF Connect
  <2> QED
    BY <2>1, <2>2, <2>3 DEF Aside
<1>6. ASSUME NEW g \in Groups, JniCall(t, g) PROVE Aside
  BY <1>1, <1>6 DEF JniCall, Aside
<1> QED
  BY <1>3, <1>4, <1>5, <1>6

LEMMA StepInv == GlobalsInv /\ [Next]_vars => GlobalsInv'
<1> SUFFICES ASSUME GlobalsInv, [Next]_vars PROVE GlobalsInv'
  OBVIOUS
<1>1. ASSUME NEW t \in Thread, Step(t) PROVE GlobalsInv'
  <2>1. CASE \/ CallConnect(t) \/ NoVM(t) \/ Connect(t)
             \/ \E g \in Groups : JniCall(t, g)
    BY <2>1, OutsideIsAside, AsideInv
  <2>2. CASE Attach(t)
    BY <2>2, AttachInv
  <2>3. CASE InitGroup(t)
    BY <2>3, InitGroupInv
  <2>4. CASE InitTypes(t)
    BY <2>4, InitTypesInv
  <2>5. CASE ReadTypes(t)
    BY <2>5, ReadTypesInv
  <2>6. CASE SetFlag(t)
    BY <2>6, SetFlagInv
  <2> QED
    BY <1>1, <2>1, <2>2, <2>3, <2>4, <2>5, <2>6 DEF Step
<1>2. CASE UNCHANGED vars
  <2>1. Aside
    BY <1>2, InvParts DEF vars, Aside, TypeOK
  <2> QED
    BY <2>1, AsideInv
<1> QED
  BY <1>1, <1>2 DEF Next

\* The globals are inductively sound: as long as no lookup failed, whatever a
\* thread relies on is loaded or about to be.
THEOREM GlobalsInductive == Spec => []GlobalsInv
<1> QED
  BY InitInv, StepInv, PTL DEF Spec

\* Every variable keeps its type.
THEOREM GlobalsTyped == Spec => []TypeOK
<1>1. GlobalsInv => TypeOK
  BY DEF GlobalsInv
<1> QED
  BY <1>1, GlobalsInductive, PTL

LEMMA QuietFromInv == GlobalsInv => LoadedWhenQuiet
<1> SUFFICES ASSUME GlobalsInv, env # NULL, ~cut, \A t \in Thread : ~Initialising(t)
             PROVE  loaded = Groups
  BY DEF LoadedWhenQuiet
<1>1. initialised # {}
  BY DEF GlobalsInv, EnvHasAuthor
<1>2. Groups \ {"SQLTypes"} \subseteq loaded
  BY <1>1 DEF GlobalsInv, OwnInitSuffices
<1>3. "SQLTypes" \in loaded
  BY <1>1 DEF GlobalsInv, FlagSet, TypesComing, Initialising
<1> QED
  BY <1>2, <1>3 DEF GlobalsInv, TypeOK

\* env set and nobody initialising: everything is there, unless a lookup
\* failed.
THEOREM EnvMeansLoaded == Spec => []LoadedWhenQuiet
BY GlobalsInductive, QuietFromInv, PTL

\* A thread that went through initGlobals itself misses at most the SQL types.
THEOREM OwnInitIsEnough == Spec => []OwnInitSuffices
<1>1. GlobalsInv => OwnInitSuffices
  BY DEF GlobalsInv
<1> QED
  BY <1>1, GlobalsInductive, PTL

LEMMA MissingStep ==
  GlobalsInv /\ [Next]_vars =>
    [missed' # missed => cut \/ \E t \in Thread : Initialising(t)]_vars
<1> SUFFICES ASSUME GlobalsInv, Next, missed' # missed, ~cut,
                    \A t \in Thread : ~Initialising(t)
             PROVE  FALSE
  BY DEF vars
<1>1. PICK t \in Thread : Step(t)
  BY DEF Next
<1>2. LoadedWhenQuiet
  BY QuietFromInv
<1>3. CASE Connect(t)
  <2>1. "DriverManager" \notin loaded /\ phase[t] = "connect"
    BY <1>3 DEF Connect
  <2>2. env # NULL
    BY <2>1 DEF GlobalsInv
  <2>3. loaded = Groups
    BY <1>2, <2>2 DEF LoadedWhenQuiet
  <2>4. 1 \in Position /\ Group[1] = "DriverManager"
    BY DEF Position, Last, Group
  <2> QED
    BY <2>1, <2>3, <2>4, GroupTable
<1>4. ASSUME NEW g \in Groups, JniCall(t, g) PROVE FALSE
  <2>1. g \notin loaded /\ env # NULL
    BY <1>4 DEF JniCall
  <2> QED
    BY <1>2, <2>1 DEF LoadedWhenQuiet
<1>5. ~(CallConnect(t) \/ NoVM(t) \/ Attach(t) \/ InitGroup(t) \/ InitTypes(t)
        \/ SetFlag(t) \/ ReadTypes(t))
  BY DEF CallConnect, NoVM, Attach, InitGroup, InitTypes, SetFlag, ReadTypes
<1> QED
  BY <1>1, <1>3, <1>4, <1>5 DEF Step

\* An identifier is missing where it is used only while a thread initialises,
\* or after an initialisation failed.
THEOREM MissingHasACause == Spec => MissingNeedsRaceOrFailure
BY MissingStep, GlobalsInductive, PTL DEF Spec, MissingNeedsRaceOrFailure

LEMMA SettledStep ==
  GlobalsInv /\ [Next]_vars => [Settled => Settled' /\ UNCHANGED <<env, loaded>>]_vars
<1> SUFFICES ASSUME GlobalsInv, Next, Settled
             PROVE  Settled' /\ UNCHANGED <<env, loaded>>
  BY DEF vars
<1>1. PICK t \in Thread : Step(t)
  BY DEF Next
<1>2. phase[t] \in {"query", "connect"} /\ env # NULL
  BY DEF Settled
<1>3. ~(NoVM(t) \/ Attach(t) \/ InitGroup(t) \/ InitTypes(t) \/ SetFlag(t)
        \/ ReadTypes(t))
  BY <1>2 DEF NoVM, Attach, InitGroup, InitTypes, SetFlag, ReadTypes
<1>4. CASE CallConnect(t)
  <2>1. phase' = [phase EXCEPT ![t] = "connect"] /\ UNCHANGED <<env, loaded>>
    BY <1>2, <1>4 DEF CallConnect, Goto
  <2> QED
    BY <2>1 DEF Settled, GlobalsInv, TypeOK
<1>5. CASE Connect(t)
  <2>1. phase' = [phase EXCEPT ![t] = "query"] /\ UNCHANGED <<env, loaded>>
    BY <1>5 DEF Connect, Goto
  <2> QED
    BY <2>1 DEF Settled, GlobalsInv, TypeOK
<1>6. ASSUME NEW g \in Groups, JniCall(t, g) PROVE Settled' /\ UNCHANGED <<env, loaded>>
  BY <1>6 DEF JniCall, Settled
<1> QED
  BY <1>1, <1>3, <1>4, <1>5, <1>6 DEF Step

\* What is missing when initialisation has come to rest is missing for good.
THEOREM FailureIsForGood == Spec => NeverRepaired
BY SettledStep, GlobalsInductive, PTL DEF Spec, NeverRepaired

=============================================================================
