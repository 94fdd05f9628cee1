---------------------- MODULE SessionsRefinement_proofs ----------------------
(* The connections of Sessions live as those of ConnectionLife, and the work *)
(* over them fares as that of Transactions, for any number of each.          *)
EXTENDS Sessions_proofs

\* Work pending on connection k.
PendingOn(k) == {w \in Work : Pending(w, k)}

PendingMap == [k \in Conn |-> PendingOn(k)]

-----------------------------------------------------------------------------
(* Connections *)

\* Nothing is connected at first, and every step is one of the abstract
\* connections, or none.
LEMMA SessionsStepLife ==
  ASSUME SessionsInv, [Next]_vars
  PROVE  [Life!Next]_(Life!vars)
<1>1. ASSUME NEW s \in Session, NEW c \in Context, NEW o \in Options, NEW k \in Conn,
             Connect(s, c, o, k)
      PROVE  Life!Next
  <2>1. Life!Open(c, k)
    BY <1>1 DEF Connect, Opens, Life!Open, Life!Opened
  <2> QED BY <2>1 DEF Life!Next
<1>2. ASSUME NEW c \in Context, NEW o \in Options, NEW k \in Conn, ConnectRefused(c, o, k)
      PROVE  Life!Next
  <2>1. Life!Abandon(k)
    BY <1>2 DEF ConnectRefused, Opens, Life!Abandon, Life!Opened
  <2> QED BY <2>1 DEF Life!Next
<1>3. ASSUME NEW c \in Context, DestroyContext(c)
      PROVE  Life!Next
  <2>1. Life!End(c)
    BY <1>3 DEF DestroyContext, Life!End
  <2> QED BY <2>1 DEF Life!Next
<1>4. ASSUME NEW k \in Conn, DriverCloses(k)
      PROVE  Life!Next
  <2>1. Life!CutOff(k)
    BY <1>4 DEF DriverCloses, Life!CutOff
  <2> QED BY <2>1 DEF Life!Next
<1>5. ASSUME NEW s \in Session, NEW c \in Context, NEW o \in Options, ConnectAgain(s, c, o)
      PROVE  UNCHANGED Life!vars
  BY <1>5 DEF ConnectAgain, connVars, Life!vars
<1>6. ASSUME NEW s \in Session,
             Commit(s) \/ Rollback(s) \/ \E w \in Work : Update(s, w)
      PROVE  UNCHANGED Life!vars
  BY <1>6 DEF Commit, Rollback, Settle, Update, connVars, Life!vars
<1>7. CASE UNCHANGED vars
  BY <1>7 DEF vars, connVars, Life!vars
<1> QED
  BY <1>1, <1>2, <1>3, <1>4, <1>5, <1>6, <1>7 DEF Next

\* Sessions, refused options and remembered answers leave connections the
\* life ConnectionLife gives them: the end of a context closes its own and no
\* others, and a closed one never comes back.
THEOREM SharedConnectionsLiveOn == Spec => ImplementsConnectionLife
<1>1. Init => Life!Init
  BY DEF Init, Life!Init
<1>2. SessionsInv /\ [Next]_vars => [Life!Next]_(Life!vars)
  BY SessionsStepLife
<1> QED
  BY <1>1, <1>2, SessionsInductive, PTL DEF Spec, ImplementsConnectionLife, Life!Spec

-----------------------------------------------------------------------------
(* Transactions *)

\* Work is pending on one connection at most.
LEMMA OnePlace ==
  ASSUME SessionsInv
  PROVE  /\ \A w \in Work, k, j \in Conn : Pending(w, k) /\ Pending(w, j) => k = j
         /\ \A w \in Work, k \in Conn : Pending(w, k) => place[w] = "pending"
BY DEF Pending

\* What leaves the work and the connections of its sessions alone is not seen.
LEMMA WorkUnseen ==
  ASSUME SessionsInv, UNCHANGED workVars,
         \A u \in Session : session[u] # NULL => session'[u] = session[u]
  PROVE  UNCHANGED Transacted!vars
<1>1. \A w \in Work : by[w] # NULL => by[w] \in Session
  BY DEF SessionsInv, TypeOK
<1>2. \A w \in Work, k \in Conn : Pending(w, k)' <=> Pending(w, k)
  BY <1>1 DEF Pending, workVars, SessionsInv, WorkHasSession
<1> QED
  BY <1>2 DEF Transacted!vars, Placed, workVars

\* New work is pending on no connection, and was never settled.
LEMMA UpdateDoes ==
  ASSUME SessionsInv, NEW s \in Session, NEW w \in Work, Update(s, w)
  PROVE  Transacted!Do(w, session[s])
<1> DEFINE k == session[s]
<1> USE DEF SessionsInv, TypeOK
<1>1. /\ k \in Conn /\ place[w] = "new" /\ s # NULL
      /\ by' = [by EXCEPT ![w] = s] /\ session' = session
  BY NullAssumption DEF Update, Active
<1>2. PICK end \in {"published", "pending"} : place' = [place EXCEPT ![w] = end]
  BY DEF Update
<1>3. /\ place'[w] = end /\ by'[w] = s
      /\ \A v \in Work \ {w} : place'[v] = place[v] /\ by'[v] = by[v]
  BY <1>1, <1>2
<1>4. Transacted!New(w)
  BY <1>1 DEF Transacted!New, Placed, Pending
<1>5. \A v \in Work \ {w}, j \in Conn : Pending(v, j)' <=> Pending(v, j)
  BY <1>1, <1>3 DEF Pending
<1>6. \A j \in Conn : ~Pending(w, j) /\ (Pending(w, j)' <=> end = "pending" /\ j = k)
  BY <1>1, <1>3 DEF Pending
<1>7. Placed("discarded")' = Placed("discarded")
  BY <1>1, <1>3 DEF Placed
<1>8. CASE end = "pending"
  <2>1. Placed("published")' = Placed("published")
    BY <1>1, <1>3, <1>8 DEF Placed
  <2>2. PendingMap' = [PendingMap EXCEPT ![k] = @ \cup {w}]
    BY <1>1, <1>5, <1>6, <1>8 DEF PendingMap, PendingOn
  <2> QED BY <1>4, <1>7, <2>1, <2>2 DEF Transacted!Do, PendingMap, PendingOn
<1>9. CASE end = "published"
  <2>1. Placed("published")' = Placed("published") \cup {w}
    BY <1>1, <1>3, <1>9 DEF Placed
  <2>2. PendingMap' = PendingMap
    BY <1>5, <1>6, <1>9 DEF PendingMap, PendingOn
  <2> QED BY <1>4, <1>7, <2>1, <2>2 DEF Transacted!Do, PendingMap, PendingOn
<1> QED
  BY <1>2, <1>8, <1>9

\* A step that publishes what is pending on the connections in good, discards
\* what is pending on those in bad and moves nothing else settles them.
LEMMA SettlesAll ==
  ASSUME SessionsInv, NEW good \in SUBSET Conn, NEW bad \in SUBSET Conn,
         good \cap bad = {}, UNCHANGED <<session, by>>,
         \A w \in Work : place'[w] =
           IF \E k \in good : Pending(w, k) THEN "published"
           ELSE IF \E k \in bad : Pending(w, k) THEN "discarded" ELSE place[w]
  PROVE  Transacted!Settle(good, bad)
<1>1. \A w \in Work, k, j \in Conn : Pending(w, k) /\ Pending(w, j) => k = j
  BY OnePlace
<1>2. \A w \in Work, k \in Conn : Pending(w, k) => place[w] = "pending"
  BY OnePlace
<1>3. \A w \in Work, k \in good \cup bad : ~Pending(w, k)'
  BY <1>1, <1>2 DEF Pending
<1>4. \A w \in Work, k \in Conn \ (good \cup bad) : Pending(w, k)' <=> Pending(w, k)
  BY <1>1, <1>2 DEF Pending
<1>5. PendingMap' = [k \in Conn |-> IF k \in good \cup bad THEN {} ELSE PendingOn(k)]
  BY <1>3, <1>4 DEF PendingMap, PendingOn
<1>6. Placed("published")' = Placed("published") \cup UNION {PendingOn(k) : k \in good}
  BY <1>1, <1>2 DEF Placed, PendingOn
<1>7. Placed("discarded")' = Placed("discarded") \cup UNION {PendingOn(k) : k \in bad}
  BY <1>1, <1>2 DEF Placed, PendingOn
<1>8. \A S \in SUBSET Conn :
        UNION {PendingMap[k] : k \in S} = UNION {PendingOn(k) : k \in S}
  BY DEF PendingMap
<1>9. \A k \in Conn : PendingMap[k] = PendingOn(k)
  BY DEF PendingMap
<1>10. PendingMap' = [k \in Conn |-> IF k \in good \cup bad THEN {} ELSE PendingMap[k]]
  BY <1>5, <1>9
<1> QED
  BY <1>6, <1>7, <1>8, <1>10 DEF Transacted!Settle, PendingMap, PendingOn

\* Commit and rollback settle the one connection of their session.
LEMMA SettleSettles ==
  ASSUME SessionsInv, NEW s \in Session, NEW end \in {"published", "discarded"},
         Settle(s, end)
  PROVE  \E good, bad \in SUBSET Conn : Transacted!Settle(good, bad)
<1> DEFINE k == session[s]
<1>1. /\ k \in Conn /\ UNCHANGED <<session, by>>
      /\ \A w \in Work : place'[w] = IF Pending(w, k) THEN end ELSE place[w]
  BY DEF Settle, Active, SessionsInv, TypeOK
<1>2. CASE end = "published"
  <2>1. Transacted!Settle({k}, {})
    BY <1>1, <1>2, SettlesAll
  <2> QED BY <1>1, <2>1
<1>3. CASE end = "discarded"
  <2>1. Transacted!Settle({}, {k})
    BY <1>1, <1>3, SettlesAll
  <2> QED BY <1>1, <2>1
<1> QED
  BY <1>2, <1>3

\* The end of a context settles all its connections, as the driver likes.
LEMMA DestroyContextSettles ==
  ASSUME SessionsInv, NEW c \in Context, DestroyContext(c)
  PROVE  \E good, bad \in SUBSET Conn : Transacted!Settle(good, bad)
<1>1. PICK end \in [Conn -> {"published", "discarded"}] :
        place' = [w \in Work |-> IF \E k \in held[c] : Pending(w, k)
                                 THEN end[session[by[w]]] ELSE place[w]]
  BY DEF DestroyContext
<1> DEFINE good == {k \in held[c] : end[k] = "published"}
           bad  == {k \in held[c] : end[k] = "discarded"}
<1>2. held[c] \in SUBSET Conn /\ UNCHANGED <<session, by>>
  BY DEF DestroyContext, SessionsInv, TypeOK
<1>3. good \in SUBSET Conn /\ bad \in SUBSET Conn /\ good \cap bad = {}
  BY <1>2
<1>4. ASSUME NEW w \in Work
      PROVE  place'[w] = IF \E k \in good : Pending(w, k) THEN "published"
                         ELSE IF \E k \in bad : Pending(w, k) THEN "discarded"
                         ELSE place[w]
  <2>1. CASE \E k \in held[c] : Pending(w, k)
    <3>1. PICK k \in held[c] : Pending(w, k)
      BY <2>1
    <3>2. session[by[w]] = k /\ place'[w] = end[k] /\ k \in Conn
      BY <1>1, <1>2, <3>1 DEF Pending
    <3>3. \A j \in held[c] : Pending(w, j) => j = k
      BY <3>1 DEF Pending
    <3>4. end[k] \in {"published", "discarded"}
      BY <3>2
    <3> QED BY <3>1, <3>2, <3>3, <3>4
  <2>2. CASE ~\E k \in held[c] : Pending(w, k)
    BY <1>1, <2>2
  <2> QED BY <2>1, <2>2
<1>5. Transacted!Settle(good, bad)
  BY <1>2, <1>3, <1>4, SettlesAll
<1> QED
  BY <1>3, <1>5

\* A connection that is cut off takes all that is pending on it along.
LEMMA DriverClosesSettles ==
  ASSUME SessionsInv, NEW k \in Conn, DriverCloses(k)
  PROVE  \E good, bad \in SUBSET Conn : Transacted!Settle(good, bad)
<1>1. /\ UNCHANGED <<session, by>>
      /\ \A w \in Work : place'[w] = IF Pending(w, k) THEN "discarded" ELSE place[w]
  BY DEF DriverCloses
<1>2. Transacted!Settle({}, {k})
  BY <1>1, SettlesAll
<1> QED
  BY <1>2

LEMMA SessionsStepTransacted ==
  ASSUME SessionsInv, [Next]_vars
  PROVE  [Transacted!Next]_(Transacted!vars)
<1>1. ASSUME NEW s \in Session, NEW c \in Context, NEW o \in Options, NEW k \in Conn,
             Connect(s, c, o, k)
      PROVE  UNCHANGED Transacted!vars
  <2>1. /\ UNCHANGED workVars /\ session[s] = NULL
        /\ session' = [session EXCEPT ![s] = k]
    BY <1>1 DEF Connect, Returns
  <2> QED BY <2>1, WorkUnseen DEF SessionsInv, TypeOK
<1>2. ASSUME NEW s \in Session, NEW c \in Context, NEW o \in Options, ConnectAgain(s, c, o)
      PROVE  UNCHANGED Transacted!vars
  <2>1. PICK e \in cached : Returns(s, o, e.conn)
    BY <1>2 DEF ConnectAgain
  <2>2. /\ UNCHANGED workVars /\ session[s] = NULL
        /\ session' = [session EXCEPT ![s] = e.conn]
    BY <1>2, <2>1 DEF ConnectAgain, Returns
  <2> QED BY <2>2, WorkUnseen DEF SessionsInv, TypeOK
<1>3. ASSUME NEW c \in Context, NEW o \in Options, NEW k \in Conn, ConnectRefused(c, o, k)
      PROVE  UNCHANGED Transacted!vars
  BY <1>3, WorkUnseen DEF ConnectRefused
<1>4. ASSUME NEW s \in Session, Commit(s) \/ Rollback(s)
      PROVE  Transacted!Next
  BY <1>4, SettleSettles DEF Commit, Rollback, Transacted!Next
<1>5. ASSUME NEW s \in Session, NEW w \in Work, Update(s, w)
      PROVE  Transacted!Next
  <2>1. session[s] \in Conn
    BY <1>5 DEF Update, Active, SessionsInv, TypeOK
  <2> QED BY <1>5, <2>1, UpdateDoes DEF Transacted!Next
<1>6. ASSUME NEW c \in Context, DestroyContext(c)
      PROVE  Transacted!Next
  BY <1>6, DestroyContextSettles DEF Transacted!Next
<1>7. ASSUME NEW k \in Conn, DriverCloses(k)
      PROVE  Transacted!Next
  BY <1>7, DriverClosesSettles DEF Transacted!Next
<1>8. CASE UNCHANGED vars
  BY <1>8, WorkUnseen DEF vars
<1> QED
  BY <1>1, <1>2, <1>3, <1>4, <1>5, <1>6, <1>7, <1>8 DEF Next

\* All the work pending on a connection shares one fate, whichever session,
\* context or driver decides it, no work is settled twice, and none gets lost.
THEOREM WorkIsTransacted == Spec => ImplementsTransactions
<1>1. Init => Transacted!Init
  BY DEF Init, Transacted!Init, Placed, Pending
<1>2. SessionsInv /\ [Next]_vars => [Transacted!Next]_(Transacted!vars)
  BY SessionsStepTransacted
<1> QED
  BY <1>1, <1>2, SessionsInductive, PTL DEF Spec, ImplementsTransactions, Transacted!Spec
=============================================================================
