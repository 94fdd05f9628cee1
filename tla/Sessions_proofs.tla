--------------------------- MODULE Sessions_proofs ---------------------------
(* Every property of Sessions, for any number of connections, sessions and *)
(* contexts, any work and any options.                                     *)
EXTENDS Sessions, TLAPS

\* The types of the two functions on options.
LEMMA OptionTypes ==
  /\ Default \in [Key -> Setting \cup {NULL}]
  /\ \A o \in Options : /\ o \in [Key -> Setting \cup {NULL}]
                        /\ Named(o) \in SUBSET Key
                        /\ \A keys \in SUBSET Key :
                             Applied(o, keys) \in [Key -> Setting \cup {NULL}]
<1>1. Default \in [Key -> Setting \cup {NULL}]
  BY DEF Default, Key, Setting
<1>2. ASSUME NEW o \in Options
      PROVE  /\ o \in [Key -> Setting \cup {NULL}]
             /\ Named(o) \in SUBSET Key
             /\ \A keys \in SUBSET Key :
                  Applied(o, keys) \in [Key -> Setting \cup {NULL}]
  <2>1. o \in [Key -> Setting \cup {NULL}]
    BY OptionsAssumption
  <2>2. ASSUME NEW keys \in SUBSET Key
        PROVE  Applied(o, keys) \in [Key -> Setting \cup {NULL}]
    BY <1>1, <2>1 DEF Applied
  <2> QED
    BY <2>1, <2>2 DEF Named
<1> QED
  BY <1>1, <1>2

\* Nothing is connected at first.
LEMMA SessionsStart == Init => SessionsInv
<1> SUFFICES ASSUME Init
             PROVE  SessionsInv
  OBVIOUS
<1>1. TypeOK
  BY OptionTypes DEF Init, TypeOK
<1>2. AnswersGranted /\ OneAnswer /\ OpenHeld
  BY NullAssumption DEF Init, AnswersGranted, OneAnswer, OpenHeld
<1>3. WorkHasSession /\ PendingCanBeSettled /\ SettledByItsOwn
  BY NullAssumption DEF Init, WorkHasSession, PendingCanBeSettled, SettledByItsOwn
<1> QED
  BY <1>1, <1>2, <1>3 DEF SessionsInv

\* The parts of the invariant that speak of work survive what leaves the work
\* alone, closes nothing, takes nothing out of a map and changes no session.
LEMMA WorkKept ==
  ASSUME SessionsInv,
         UNCHANGED workVars,
         \A u \in Session : session[u] # NULL =>
           session'[u] = session[u] /\ asked'[u] = asked[u],
         \A k \in Conn : conn[k] = "open" => conn'[k] = "open",
         \A c \in Context : held[c] \subseteq held'[c]
  PROVE  WorkHasSession' /\ PendingCanBeSettled' /\ SettledByItsOwn'
<1> USE DEF SessionsInv, TypeOK, workVars
<1>1. \A w \in Work : /\ by[w] # NULL => by[w] \in Session
                      /\ settledBy[w] # NULL => settledBy[w] \in Session
  OBVIOUS
<1>2. WorkHasSession'
  BY <1>1 DEF WorkHasSession
<1>3. PendingCanBeSettled'
  <2> SUFFICES ASSUME NEW w \in Work, place[w] = "pending"
               PROVE  Active(by[w])'
    BY DEF PendingCanBeSettled
  <2>1. by[w] \in Session /\ Active(by[w])
    BY <1>1 DEF PendingCanBeSettled, WorkHasSession
  <2>2. session[by[w]] \in Conn /\ session'[by[w]] = session[by[w]]
    BY <2>1 DEF Active
  <2> QED
    BY <2>1, <2>2 DEF Active
<1>4. SettledByItsOwn'
  <2> SUFFICES ASSUME NEW w \in Work, settledBy[w] # NULL
               PROVE  /\ session'[settledBy[w]] = session'[by[w]]
                      /\ asked'[settledBy[w]] = asked'[by[w]]
    BY DEF SettledByItsOwn
  <2>1. settledBy[w] \in Session /\ by[w] \in Session
    BY <1>1 DEF WorkHasSession
  <2>2. session[settledBy[w]] # NULL /\ session[by[w]] # NULL
    BY DEF WorkHasSession
  <2> QED
    BY <2>1, <2>2 DEF SettledByItsOwn
<1> QED
  BY <1>2, <1>3, <1>4

\* A connection that was not there stood for no session and no answer, and
\* was in no map.
LEMMA NewIsNobodys ==
  ASSUME SessionsInv, NEW k \in Conn, conn[k] = "none"
  PROVE  /\ k \notin refused
         /\ \A u \in Session : session[u] # k
         /\ \A e \in cached : e.conn # k
         /\ \A c \in Context : k \notin held[c]
<1>1. k # NULL
  BY NullAssumption
<1> QED
  BY <1>1 DEF SessionsInv, OpenHeld, AnswersGranted, Granted

\* connect: the new connection has what the session asked for.
LEMMA ConnectKeeps ==
  ASSUME SessionsInv, NEW s \in Session, NEW c \in Context, NEW o \in Options,
         NEW k \in Conn, Connect(s, c, o, k)
  PROVE  SessionsInv'
<1> USE DEF SessionsInv
<1> DEFINE answer == [context |-> c, options |-> o, conn |-> k]
<1>1. /\ conn[k] = "none" /\ session[s] = NULL /\ k # NULL
      /\ conn' = [conn EXCEPT ![k] = "open"]
      /\ settings' = [settings EXCEPT ![k] = Applied(o, Named(o))]
      /\ session' = [session EXCEPT ![s] = k]
      /\ asked' = [asked EXCEPT ![s] = o]
      /\ held' = [held EXCEPT ![c] = held[c] \cup {k}]
      /\ c \notin ended
      /\ ended' = ended /\ refused' = refused /\ UNCHANGED workVars
  BY NullAssumption DEF Connect, Opens, Returns
<1>2. cached' \subseteq cached \cup {answer}
  BY DEF Connect
<1>3. TypeOK'
  <2>1. Applied(o, Named(o)) \in [Key -> Setting \cup {NULL}]
    BY OptionTypes
  <2>2. cached' \subseteq [context : Context, options : Options, conn : Conn]
    BY <1>2 DEF TypeOK
  <2> QED
    BY <1>1, <2>1, <2>2 DEF TypeOK, workVars
<1>4. /\ k \notin refused
      /\ \A u \in Session : session[u] # k
      /\ \A e \in cached : e.conn # k
      /\ \A d \in Context : k \notin held[d]
  BY <1>1, NewIsNobodys
<1>5. Granted(k, o)'
  BY <1>1, <1>4 DEF Granted, TypeOK
<1>6. ASSUME NEW j \in Conn, NEW p \in Options, j # k, Granted(j, p)
      PROVE  Granted(j, p)'
  BY <1>1, <1>6 DEF Granted, TypeOK
<1>7. \A u \in Session \ {s} : session'[u] = session[u] /\ asked'[u] = asked[u]
  BY <1>1 DEF TypeOK
<1>8. session'[s] = k /\ asked'[s] = o
  BY <1>1 DEF TypeOK
<1>9. AnswersGranted'
  <2>1. ASSUME NEW u \in Session, session'[u] # NULL
        PROVE  asked'[u] \in Options /\ Granted(session[u], asked[u])'
    <3>1. CASE u = s
      BY <3>1, <1>5, <1>8 DEF Granted
    <3>2. CASE u # s
      <4>1. session[u] # NULL /\ session[u] \in Conn /\ session[u] # k
        BY <2>1, <3>2, <1>7, <1>4 DEF TypeOK
      <4>2. asked[u] \in Options /\ Granted(session[u], asked[u])
        BY <4>1 DEF AnswersGranted
      <4>3. Granted(session[u], asked[u])'
        BY <4>1, <4>2, <1>1, <1>7, <3>2 DEF Granted, TypeOK
      <4> QED
        BY <4>2, <4>3, <3>2, <1>7
    <3> QED
      BY <3>1, <3>2
  <2>2. ASSUME NEW e \in cached'
        PROVE  Granted(e.conn, e.options)'
    <3>1. CASE e = answer
      BY <3>1, <1>5
    <3>2. CASE e \in cached
      <4>1. e.conn \in Conn /\ e.options \in Options
        BY <3>2 DEF TypeOK
      <4> QED
        BY <3>2, <4>1, <1>4, <1>6 DEF AnswersGranted
    <3> QED
      BY <3>1, <3>2, <1>2
  <2> QED
    BY <2>1, <2>2 DEF AnswersGranted
<1>10. OneAnswer'
  <2>1. ASSUME NEW e \in cached'
        PROVE  e = answer \/ (e \in cached /\ e.conn # k)
    BY <1>2, <1>4
  <2>2. \A u, v \in Session :
          session'[u] # NULL /\ session'[u] = session'[v] => asked'[u] = asked'[v]
    BY <1>1, <1>4, <1>7, <1>8 DEF OneAnswer
  <2>3. \A u \in Session : \A e \in cached' :
          session'[u] = e.conn => asked'[u] = e.options
    BY <2>1, <1>4, <1>7, <1>8 DEF OneAnswer
  <2>4. \A e, f \in cached' : e.conn = f.conn => e.options = f.options
    BY <2>1 DEF OneAnswer
  <2> QED
    BY <2>2, <2>3, <2>4 DEF OneAnswer
<1>11. OpenHeld'
  <2>1. held \in [Context -> SUBSET Conn] /\ conn \in [Conn -> {"none", "open", "closed"}]
    BY DEF TypeOK
  <2>2. /\ \A d \in Context \ {c} : held'[d] = held[d]
        /\ held'[c] = held[c] \cup {k}
    BY <1>1, <2>1
  <2>3. /\ \A j \in Conn \ {k} : conn'[j] = conn[j]
        /\ conn'[k] = "open"
    BY <1>1, <2>1
  <2>4. \A j \in refused' : conn'[j] # "none"
    BY <1>1, <2>3 DEF OpenHeld, TypeOK
  <2>5. \A j \in Conn : conn'[j] = "open" =>
          j \in refused' \/ \E d \in Context \ ended' : j \in held'[d]
    BY <1>1, <2>2, <2>3 DEF OpenHeld
  <2>6. \A d \in Context : \A j \in held'[d] : conn'[j] # "none" /\ d \notin ended'
    BY <1>1, <2>1, <2>2, <2>3 DEF OpenHeld
  <2> QED
    BY <2>4, <2>5, <2>6 DEF OpenHeld
<1>12. WorkHasSession' /\ PendingCanBeSettled' /\ SettledByItsOwn'
  <2>1. \A u \in Session : session[u] # NULL =>
          session'[u] = session[u] /\ asked'[u] = asked[u]
    BY <1>1, <1>7
  <2>2. \A j \in Conn : conn[j] = "open" => conn'[j] = "open"
    BY <1>1 DEF TypeOK
  <2>3. \A d \in Context : held[d] \subseteq held'[d]
    BY <1>1 DEF TypeOK
  <2> QED
    BY <1>1, <2>1, <2>2, <2>3, WorkKept
<1> QED
  BY <1>3, <1>9, <1>10, <1>11, <1>12

\* A refused connect leaves the connection to nobody.
LEMMA ConnectRefusedKeeps ==
  ASSUME SessionsInv, NEW c \in Context, NEW o \in Options, NEW k \in Conn,
         ConnectRefused(c, o, k)
  PROVE  SessionsInv'
<1> USE DEF SessionsInv
<1>1. PICK keys \in SUBSET Named(o) : Opens(k, o, keys)
  BY DEF ConnectRefused
<1>2. /\ conn[k] = "none" /\ k # NULL
      /\ conn' = [conn EXCEPT ![k] = "open"]
      /\ settings' = [settings EXCEPT ![k] = Applied(o, keys)]
      /\ refused' = refused \cup {k}
      /\ UNCHANGED <<held, ended, cached, session, asked, workVars>>
  BY <1>1, NullAssumption DEF ConnectRefused, Opens
<1>3. TypeOK'
  <2>1. Applied(o, keys) \in [Key -> Setting \cup {NULL}]
    BY OptionTypes
  <2> QED
    BY <1>2, <2>1 DEF TypeOK, workVars
<1>4. /\ \A u \in Session : session[u] # k
      /\ \A e \in cached : e.conn # k
      /\ \A d \in Context : k \notin held[d]
  BY <1>2, NewIsNobodys
<1>5. \A j \in Conn \ {k} : conn'[j] = conn[j] /\ settings'[j] = settings[j]
  BY <1>2 DEF TypeOK
<1>6. AnswersGranted'
  <2>1. ASSUME NEW u \in Session, session[u] # NULL
        PROVE  asked[u] \in Options /\ Granted(session[u], asked[u])'
    <3>1. session[u] \in Conn \ {k}
      BY <2>1, <1>4 DEF TypeOK
    <3>2. asked[u] \in Options /\ Granted(session[u], asked[u])
      BY <2>1 DEF AnswersGranted
    <3> QED
      BY <3>1, <3>2, <1>2, <1>5 DEF Granted
  <2>2. ASSUME NEW e \in cached
        PROVE  Granted(e.conn, e.options)'
    <3>1. e.conn \in Conn \ {k}
      BY <1>4 DEF TypeOK
    <3> QED
      BY <3>1, <1>2, <1>5 DEF AnswersGranted, Granted
  <2> QED
    BY <2>1, <2>2, <1>2 DEF AnswersGranted
<1>7. OneAnswer'
  BY <1>2 DEF OneAnswer
<1>8. OpenHeld'
  <2>1. conn'[k] = "open"
    BY <1>2 DEF TypeOK
  <2> QED
    BY <1>2, <1>4, <1>5, <2>1 DEF OpenHeld, TypeOK
<1>9. WorkHasSession' /\ PendingCanBeSettled' /\ SettledByItsOwn'
  <2>1. \A j \in Conn : conn[j] = "open" => conn'[j] = "open"
    BY <1>2, <1>5
  <2> QED
    BY <1>2, <2>1, WorkKept
<1> QED
  BY <1>3, <1>6, <1>7, <1>8, <1>9

\* The engine's answer is for the same options.
LEMMA ConnectAgainKeeps ==
  ASSUME SessionsInv, NEW s \in Session, NEW c \in Context, NEW o \in Options,
         ConnectAgain(s, c, o)
  PROVE  SessionsInv'
<1> USE DEF SessionsInv
<1>1. PICK e \in cached : e.options = o /\ Returns(s, o, e.conn)
  BY DEF ConnectAgain
<1>2. /\ session[s] = NULL
      /\ session' = [session EXCEPT ![s] = e.conn]
      /\ asked' = [asked EXCEPT ![s] = o]
      /\ UNCHANGED <<connVars, workVars>>
  BY <1>1 DEF ConnectAgain, Returns
<1>3. e.conn \in Conn /\ e.conn # NULL /\ Granted(e.conn, o)
  BY <1>1, NullAssumption DEF TypeOK, AnswersGranted
<1>4. TypeOK'
  BY <1>2, <1>3 DEF TypeOK, connVars, workVars
<1>5. \A u \in Session \ {s} : session'[u] = session[u] /\ asked'[u] = asked[u]
  BY <1>2 DEF TypeOK
<1>6. session'[s] = e.conn /\ asked'[s] = o
  BY <1>2 DEF TypeOK
<1>7. AnswersGranted'
  <2>1. ASSUME NEW u \in Session, session'[u] # NULL
        PROVE  asked'[u] \in Options /\ Granted(session[u], asked[u])'
    <3>1. CASE u = s
      BY <3>1, <1>2, <1>3, <1>6 DEF Granted, connVars
    <3>2. CASE u # s
      BY <2>1, <3>2, <1>2, <1>5 DEF AnswersGranted, Granted, connVars
    <3> QED
      BY <3>1, <3>2
  <2>2. \A f \in cached' : Granted(f.conn, f.options)'
    BY <1>2 DEF AnswersGranted, Granted, connVars
  <2> QED
    BY <2>1, <2>2 DEF AnswersGranted
<1>8. OneAnswer'
  <2>1. cached' = cached
    BY <1>2 DEF connVars
  <2>2. \A u, v \in Session :
          session'[u] # NULL /\ session'[u] = session'[v] => asked'[u] = asked'[v]
    BY <1>1, <1>3, <1>5, <1>6 DEF OneAnswer
  <2>3. \A u \in Session : \A f \in cached :
          session'[u] = f.conn => asked'[u] = f.options
    BY <1>1, <1>5, <1>6 DEF OneAnswer
  <2> QED
    BY <2>1, <2>2, <2>3 DEF OneAnswer
<1>9. OpenHeld'
  BY <1>2 DEF OpenHeld, connVars
<1>10. WorkHasSession' /\ PendingCanBeSettled' /\ SettledByItsOwn'
  <2>1. \A u \in Session : session[u] # NULL =>
          session'[u] = session[u] /\ asked'[u] = asked[u]
    BY <1>2, <1>5
  <2> QED
    BY <1>2, <2>1, WorkKept DEF connVars
<1> QED
  BY <1>4, <1>7, <1>8, <1>9, <1>10

\* The parts that speak of connections and sessions do not depend on work.
LEMMA ConnectionsKept ==
  ASSUME SessionsInv, UNCHANGED <<connVars, session, asked>>
  PROVE  AnswersGranted' /\ OneAnswer' /\ OpenHeld'
BY DEF SessionsInv, AnswersGranted, Granted, OneAnswer, OpenHeld, connVars

\* New work is pending on a connection that is open, or published.
LEMMA UpdateKeeps ==
  ASSUME SessionsInv, NEW s \in Session, NEW w \in Work, Update(s, w)
  PROVE  SessionsInv'
<1> USE DEF SessionsInv
<1>1. PICK end \in {"published", "pending"} : place' = [place EXCEPT ![w] = end]
  BY DEF Update
<1>2. /\ Active(s) /\ place[w] = "new"
      /\ by' = [by EXCEPT ![w] = s]
      /\ UNCHANGED <<connVars, session, asked, settledBy>>
  BY DEF Update
<1>3. TypeOK'
  BY <1>1, <1>2 DEF TypeOK, connVars
<1>4. /\ place'[w] = end /\ by'[w] = s
      /\ \A v \in Work \ {w} : place'[v] = place[v] /\ by'[v] = by[v]
  BY <1>1, <1>2 DEF TypeOK
<1>5. \A u : Active(u)' = Active(u)
  BY <1>2 DEF Active, connVars
<1>6. s # NULL
  BY NullAssumption
<1>7. session[s] # NULL
  BY <1>2 DEF Active
<1>8. settledBy[w] = NULL
  BY <1>2 DEF WorkHasSession
<1>9. WorkHasSession'
  BY <1>2, <1>4, <1>6, <1>7, <1>8 DEF WorkHasSession
<1>10. PendingCanBeSettled'
  BY <1>2, <1>4, <1>5 DEF PendingCanBeSettled
<1>11. SettledByItsOwn'
  BY <1>2, <1>4, <1>8 DEF SettledByItsOwn
<1> QED
  BY <1>2, <1>3, <1>9, <1>10, <1>11, ConnectionsKept

\* What is settled is the work of the connection, and its sessions asked for
\* the same.
LEMMA SettleKeeps ==
  ASSUME SessionsInv, NEW s \in Session, NEW end \in {"published", "discarded"},
         Settle(s, end)
  PROVE  SessionsInv'
<1> USE DEF SessionsInv
<1>1. /\ Active(s)
      /\ place' = [w \in Work |-> IF Pending(w, session[s]) THEN end ELSE place[w]]
      /\ settledBy' = [w \in Work |-> IF Pending(w, session[s]) THEN s ELSE settledBy[w]]
      /\ UNCHANGED <<connVars, session, asked, by>>
  BY DEF Settle
<1>2. TypeOK'
  BY <1>1 DEF TypeOK, connVars
<1>3. \A u : Active(u)' = Active(u)
  BY <1>1 DEF Active, connVars
<1>4. session[s] # NULL
  BY <1>1 DEF Active
<1>5. WorkHasSession'
  BY <1>1, <1>4 DEF WorkHasSession, Pending
<1>6. PendingCanBeSettled'
  BY <1>1, <1>3 DEF PendingCanBeSettled
<1>7. SettledByItsOwn'
  <2> SUFFICES ASSUME NEW w \in Work, settledBy'[w] # NULL
               PROVE  /\ session[settledBy'[w]] = session[by[w]]
                      /\ asked[settledBy'[w]] = asked[by[w]]
    BY <1>1 DEF SettledByItsOwn
  <2>1. CASE Pending(w, session[s])
    <3>1. by[w] \in Session /\ session[by[w]] = session[s] /\ settledBy'[w] = s
      BY <2>1, <1>1 DEF Pending, TypeOK
    <3> QED
      BY <3>1, <1>4 DEF OneAnswer
  <2>2. CASE ~Pending(w, session[s])
    BY <2>2, <1>1 DEF SettledByItsOwn
  <2> QED
    BY <2>1, <2>2
<1> QED
  BY <1>1, <1>2, <1>5, <1>6, <1>7, ConnectionsKept

\* What is pending on a connection of the context goes with it.
LEMMA DestroyContextKeeps ==
  ASSUME SessionsInv, NEW c \in Context, DestroyContext(c)
  PROVE  SessionsInv'
<1> USE DEF SessionsInv
<1>1. PICK end \in [Conn -> {"published", "discarded"}] :
        place' = [w \in Work |-> IF \E k \in held[c] : Pending(w, k)
                                 THEN end[session[by[w]]] ELSE place[w]]
  BY DEF DestroyContext
<1>2. /\ ended' = ended \cup {c}
      /\ held' = [held EXCEPT ![c] = {}]
      /\ conn' = [k \in Conn |-> IF k \in held[c] THEN "closed" ELSE conn[k]]
      /\ UNCHANGED <<settings, cached, refused, session, asked, by, settledBy>>
  BY DEF DestroyContext
<1>3. \A w \in Work : \A k \in held[c] : Pending(w, k) =>
        session[by[w]] = k /\ place'[w] \in {"published", "discarded"}
  BY <1>1 DEF Pending, TypeOK
<1>4. \A w \in Work : (\A k \in held[c] : ~Pending(w, k)) => place'[w] = place[w]
  BY <1>1
<1>5. TypeOK'
  <2>1. \A w \in Work : place'[w] \in {"new", "pending", "published", "discarded"}
    BY <1>3, <1>4 DEF TypeOK
  <2>2. place' \in [Work -> {"new", "pending", "published", "discarded"}]
    BY <1>1, <2>1
  <2> QED
    BY <1>2, <2>2 DEF TypeOK
<1>6. \A k \in Conn : conn[k] # "none" => conn'[k] # "none"
  BY <1>2
<1>7. AnswersGranted'
  <2>1. ASSUME NEW u \in Session, session[u] # NULL
        PROVE  asked[u] \in Options /\ Granted(session[u], asked[u])'
    BY <2>1, <1>2, <1>6 DEF AnswersGranted, Granted, TypeOK
  <2>2. ASSUME NEW e \in cached
        PROVE  Granted(e.conn, e.options)'
    BY <1>2, <1>6 DEF AnswersGranted, Granted, TypeOK
  <2> QED
    BY <2>1, <2>2, <1>2 DEF AnswersGranted
<1>8. OneAnswer'
  BY <1>2 DEF OneAnswer
<1>9. held'[c] = {} /\ \A d \in Context \ {c} : held'[d] = held[d]
  BY <1>2 DEF TypeOK
<1>10. OpenHeld'
  <2>1. \A k \in refused' : conn'[k] # "none"
    BY <1>2, <1>6 DEF OpenHeld, TypeOK
  <2>2. ASSUME NEW k \in Conn, conn'[k] = "open"
        PROVE  k \in refused' \/ \E d \in Context \ ended' : k \in held'[d]
    <3>1. conn[k] = "open" /\ k \notin held[c]
      BY <2>2, <1>2
    <3>2. k \in refused \/ \E d \in Context \ ended : k \in held[d]
      BY <3>1 DEF OpenHeld
    <3> QED
      BY <3>1, <3>2, <1>2, <1>9
  <2>3. \A d \in Context : \A k \in held'[d] : conn'[k] # "none" /\ d \notin ended'
    BY <1>2, <1>6, <1>9 DEF OpenHeld, TypeOK
  <2> QED
    BY <2>1, <2>2, <2>3 DEF OpenHeld
<1>11. WorkHasSession'
  <2>1. \A w \in Work : place'[w] # "new" <=> place[w] # "new"
    BY <1>3, <1>4 DEF Pending
  <2> QED
    BY <2>1, <1>2 DEF WorkHasSession
<1>12. PendingCanBeSettled'
  <2> SUFFICES ASSUME NEW w \in Work, place'[w] = "pending"
               PROVE  Active(by[w])'
    BY DEF PendingCanBeSettled
  <2>1. \A k \in held[c] : ~Pending(w, k)
    BY <1>3
  <2>2. place[w] = "pending"
    BY <2>1, <1>4
  <2>3. Active(by[w]) /\ by[w] # NULL
    BY <2>2 DEF PendingCanBeSettled, WorkHasSession
  <2>4. by[w] \in Session
    BY <2>3 DEF TypeOK
  <2>5. session[by[w]] \in Conn /\ session[by[w]] \notin held[c]
    BY <2>1, <2>2, <2>3, <2>4 DEF Pending, Active, TypeOK
  <2>6. conn'[session[by[w]]] = "open"
    BY <2>3, <2>5, <1>2 DEF Active
  <2>7. \E d \in Context : session[by[w]] \in held'[d]
    BY <2>3, <2>5, <1>9 DEF Active
  <2> QED
    BY <2>3, <2>6, <2>7, <1>2 DEF Active
<1>13. SettledByItsOwn'
  BY <1>2 DEF SettledByItsOwn
<1> QED
  BY <1>5, <1>7, <1>8, <1>10, <1>11, <1>12, <1>13

\* What was pending on a connection the driver closes is lost.
LEMMA DriverClosesKeeps ==
  ASSUME SessionsInv, NEW k \in Conn, DriverCloses(k)
  PROVE  SessionsInv'
<1> USE DEF SessionsInv
<1>1. /\ conn[k] = "open"
      /\ conn' = [conn EXCEPT ![k] = "closed"]
      /\ place' = [w \in Work |-> IF Pending(w, k) THEN "discarded" ELSE place[w]]
      /\ UNCHANGED <<settings, held, ended, cached, refused, session, asked, by, settledBy>>
  BY DEF DriverCloses
<1>2. TypeOK'
  BY <1>1 DEF TypeOK
<1>3. conn'[k] = "closed" /\ \A j \in Conn \ {k} : conn'[j] = conn[j]
  BY <1>1 DEF TypeOK
<1>4. \A j \in Conn : conn[j] # "none" => conn'[j] # "none"
  BY <1>1, <1>3
<1>5. AnswersGranted'
  <2>1. ASSUME NEW u \in Session, session[u] # NULL
        PROVE  asked[u] \in Options /\ Granted(session[u], asked[u])'
    BY <2>1, <1>1, <1>4 DEF AnswersGranted, Granted, TypeOK
  <2>2. ASSUME NEW e \in cached
        PROVE  Granted(e.conn, e.options)'
    BY <1>1, <1>4 DEF AnswersGranted, Granted, TypeOK
  <2> QED
    BY <2>1, <2>2, <1>1 DEF AnswersGranted
<1>6. OneAnswer'
  BY <1>1 DEF OneAnswer
<1>7. OpenHeld'
  <2>1. \A j \in refused' : conn'[j] # "none"
    BY <1>1, <1>4 DEF OpenHeld, TypeOK
  <2>2. \A j \in Conn : conn'[j] = "open" =>
          j \in refused' \/ \E d \in Context \ ended' : j \in held'[d]
    BY <1>1, <1>3 DEF OpenHeld
  <2>3. \A d \in Context : \A j \in held'[d] : conn'[j] # "none" /\ d \notin ended'
    BY <1>1, <1>4 DEF OpenHeld, TypeOK
  <2> QED
    BY <2>1, <2>2, <2>3 DEF OpenHeld
<1>8. WorkHasSession'
  BY <1>1 DEF WorkHasSession, Pending
<1>9. PendingCanBeSettled'
  <2> SUFFICES ASSUME NEW w \in Work, place'[w] = "pending"
               PROVE  Active(by[w])'
    BY DEF PendingCanBeSettled
  <2>1. ~Pending(w, k) /\ place[w] = "pending"
    BY <1>1
  <2>2. Active(by[w]) /\ by[w] # NULL
    BY <2>1 DEF PendingCanBeSettled, WorkHasSession
  <2>3. session[by[w]] \in Conn \ {k}
    BY <2>1, <2>2 DEF Pending, Active, TypeOK
  <2> QED
    BY <2>2, <2>3, <1>1, <1>3 DEF Active
<1>10. SettledByItsOwn'
  BY <1>1 DEF SettledByItsOwn
<1> QED
  BY <1>2, <1>5, <1>6, <1>7, <1>8, <1>9, <1>10

LEMMA SessionsStep == SessionsInv /\ [Next]_vars => SessionsInv'
<1> SUFFICES ASSUME SessionsInv, [Next]_vars
             PROVE  SessionsInv'
  OBVIOUS
<1>1. ASSUME NEW s \in Session, NEW c \in Context, NEW o \in Options, ConnectAgain(s, c, o)
      PROVE  SessionsInv'
  BY <1>1, ConnectAgainKeeps
<1>2. ASSUME NEW s \in Session, NEW c \in Context, NEW o \in Options, NEW k \in Conn,
             Connect(s, c, o, k)
      PROVE  SessionsInv'
  BY <1>2, ConnectKeeps
<1>3. ASSUME NEW c \in Context, NEW o \in Options, NEW k \in Conn, ConnectRefused(c, o, k)
      PROVE  SessionsInv'
  BY <1>3, ConnectRefusedKeeps
<1>4. ASSUME NEW s \in Session, Commit(s)
      PROVE  SessionsInv'
  BY <1>4, SettleKeeps DEF Commit
<1>5. ASSUME NEW s \in Session, Rollback(s)
      PROVE  SessionsInv'
  BY <1>5, SettleKeeps DEF Rollback
<1>6. ASSUME NEW s \in Session, NEW w \in Work, Update(s, w)
      PROVE  SessionsInv'
  BY <1>6, UpdateKeeps
<1>7. ASSUME NEW c \in Context, DestroyContext(c)
      PROVE  SessionsInv'
  BY <1>7, DestroyContextKeeps
<1>8. ASSUME NEW k \in Conn, DriverCloses(k)
      PROVE  SessionsInv'
  BY <1>8, DriverClosesKeeps
<1>9. CASE UNCHANGED vars
  <2>1. AnswersGranted' /\ OneAnswer' /\ OpenHeld'
    BY <1>9, ConnectionsKept DEF vars
  <2>2. WorkHasSession' /\ PendingCanBeSettled' /\ SettledByItsOwn'
    BY <1>9, WorkKept DEF vars, connVars
  <2>3. TypeOK'
    BY <1>9 DEF SessionsInv, TypeOK, vars, connVars, workVars
  <2> QED
    BY <2>1, <2>2, <2>3 DEF SessionsInv
<1> QED
  BY <1>1, <1>2, <1>3, <1>4, <1>5, <1>6, <1>7, <1>8, <1>9 DEF Next

\* Connections, sessions and remembered answers agree in every state.
THEOREM SessionsInductive == Spec => []SessionsInv
BY SessionsStart, SessionsStep, PTL DEF Spec

\* Every state is of the types TypeOK gives.
THEOREM SessionsTyped == Spec => []TypeOK
<1>1. SessionsInv => TypeOK
  BY DEF SessionsInv
<1> QED
  BY <1>1, SessionsInductive, PTL

\* Whoever got a handle from connect has exactly the options it asked for.
THEOREM HandlesHaveTheirOptions == Spec => []OptionsInForce
<1>1. SessionsInv => OptionsInForce
  BY DEF SessionsInv, AnswersGranted, Granted, OptionsInForce
<1> QED
  BY <1>1, SessionsInductive, PTL

\* Only a connection that refused an option in connect is open and out of
\* every live context's reach.
THEOREM OnlyRefusedAreUnreachable == Spec => []UnreachableWereRefused
<1>1. SessionsInv => UnreachableWereRefused
  BY NullAssumption DEF SessionsInv, AnswersGranted, Granted, OpenHeld, UnreachableWereRefused
<1> QED
  BY <1>1, SessionsInductive, PTL

\* No work stays pending where no query can commit it or roll it back.
THEOREM NoTransactionIsStranded == Spec => []PendingCanBeSettled
<1>1. SessionsInv => PendingCanBeSettled
  BY DEF SessionsInv
<1> QED
  BY <1>1, SessionsInductive, PTL

\* Only sessions that share a connection, and asked for the same, settle one
\* another's work.
THEOREM SettledBySharersOnly == Spec => []SettledByItsOwn
<1>1. SessionsInv => SettledByItsOwn
  BY DEF SessionsInv
<1> QED
  BY <1>1, SessionsInductive, PTL

=============================================================================
