------------------------------ MODULE Sessions ------------------------------
(***************************************************************************)
(* Connections with their options, and the transactions run over them.  A  *)
(* session is one evaluation of jdbc:connect by a query that came back     *)
(* with a handle.  connect is declared deterministic: the engine may       *)
(* answer it with the handle of an earlier call with the same arguments.   *)
(* Autocommit, commit and rollback are the driver's; the module passes     *)
(* them on.  A call that is refused and changes nothing is no step.        *)
(***************************************************************************)
CONSTANTS Context, \* the dynamic contexts
          Conn,    \* the Java connections
          Session, \* the evaluations of connect that give a handle
          Work,    \* updates, each executed once
          Options, \* the options a query may ask for
          NULL     \* an option not asked for; no session, no connection

Key     == {"autocommit", "readonly", "isolation-level"}
Setting == {"true", "false", "number", "name"}

ASSUME OptionsAssumption == Options \subseteq [Key -> Setting \cup {NULL}]
ASSUME NullAssumption == NULL \notin Conn \cup Session \cup Setting

VARIABLES
  conn,     \* conn[k]: "none", "open" or "closed"
  settings, \* settings[k]: the options in force on connection k
  held,     \* held[c]: the connections in the map of context c
  ended,    \* the contexts destroyed so far
  cached,   \* the answers the engine remembers: context, options, connection
  session,  \* session[s]: the connection of session s, or NULL
  asked,    \* history: the options session s asked for
  refused,  \* history: the connections that refused an option
  place,    \* place[w]: "new", "pending", "published" or "discarded"
  by,       \* by[w]: the session that executed w, or NULL
  settledBy \* history: the session that committed w or rolled it back

connVars == <<conn, settings, held, ended, cached, refused>>
workVars == <<place, by, settledBy>>
vars == <<connVars, session, asked, workVars>>

TypeOK ==
  /\ conn \in [Conn -> {"none", "open", "closed"}]
  /\ settings \in [Conn -> [Key -> Setting \cup {NULL}]]
  /\ held \in [Context -> SUBSET Conn]
  /\ ended \subseteq Context
  /\ cached \subseteq [context : Context, options : Options, conn : Conn]
  /\ session \in [Session -> Conn \cup {NULL}]
  /\ asked \in [Session -> Options \cup {NULL}]
  /\ refused \subseteq Conn
  /\ place \in [Work -> {"new", "pending", "published", "discarded"}]
  /\ by \in [Work -> Session \cup {NULL}]
  /\ settledBy \in [Work -> Session \cup {NULL}]

\* What a driver starts with.
Default == [key \in Key |-> CASE key = "autocommit" -> "true"
                              [] key = "readonly" -> "false"
                              [] OTHER -> NULL]

Named(o) == {key \in Key : o[key] # NULL}

\* The options of o named in keys have been applied.
Applied(o, keys) == [key \in Key |-> IF key \in keys THEN o[key] ELSE Default[key]]

Init ==
  /\ conn = [k \in Conn |-> "none"]
  /\ settings = [k \in Conn |-> Default]
  /\ held = [c \in Context |-> {}]
  /\ ended = {}
  /\ cached = {}
  /\ session = [s \in Session |-> NULL]
  /\ asked = [s \in Session |-> NULL]
  /\ refused = {}
  /\ place = [w \in Work |-> "new"]
  /\ by = [w \in Work |-> NULL]
  /\ settledBy = [w \in Work |-> NULL]

-----------------------------------------------------------------------------
(* connect *)

\* getConnection, and the options in keys of o set on what it returned.
Opens(k, o, keys) ==
  /\ conn[k] = "none"
  /\ conn' = [conn EXCEPT ![k] = "open"]
  /\ settings' = [settings EXCEPT ![k] = Applied(o, keys)]

Returns(s, o, k) ==
  /\ session[s] = NULL
  /\ session' = [session EXCEPT ![s] = k]
  /\ asked' = [asked EXCEPT ![s] = o]

\* A slip to guard against: what an option asks for is left at its default.
ConnectForgets(s, c, o, k) ==
  /\ c \notin ended
  /\ \E keys \in SUBSET Named(o) : Opens(k, o, keys)
  /\ Returns(s, o, k)
  /\ held' = [held EXCEPT ![c] = @ \cup {k}]
  /\ UNCHANGED <<ended, cached, refused, workVars>>

\* A slip to guard against: nobody looks whether getConnection failed.
ConnectUnchecked(s, c, o, k) ==
  /\ c \notin ended
  /\ Opens(k, o, Named(o))
  /\ Returns(s, o, NULL)
  /\ held' = [held EXCEPT ![c] = @ \cup {NULL}]
  /\ UNCHANGED <<ended, cached, refused, workVars>>

\* Every option is set, the connection is stored; the engine remembers the
\* answer, or does not.
Connect(s, c, o, k) ==
  /\ c \notin ended
  /\ \A key \in Key : o[key] # "name"
  /\ Opens(k, o, Named(o))
  /\ Returns(s, o, k)
  /\ held' = [held EXCEPT ![c] = @ \cup {k}]
  /\ cached' \in {cached, cached \cup {[context |-> c, options |-> o, conn |-> k]}}
  /\ UNCHANGED <<ended, refused, workVars>>

\* An option is refused: by the driver, or because the isolation level is
\* given by the name the documentation has for it and the code reads a number.
\* The connection is in no map, with what was set before.
ConnectRefused(c, o, k) ==
  /\ c \notin ended
  /\ \E keys \in (SUBSET Named(o)) \ {Named(o)} :
       /\ \A key \in keys : o[key] # "name"
       /\ Opens(k, o, keys)
  /\ refused' = refused \cup {k}
  /\ UNCHANGED <<held, ended, cached, session, asked, workVars>>

\* A slip to guard against: the engine goes by part of the arguments.
ConnectAgainRegardless(s, c, o) ==
  /\ c \notin ended
  /\ \E e \in cached : e.context = c /\ Returns(s, o, e.conn)
  /\ UNCHANGED <<connVars, workVars>>

\* The engine answers from an earlier call in the same query.
ConnectAgain(s, c, o) ==
  /\ c \notin ended
  /\ \E e \in cached : e.context = c /\ e.options = o /\ Returns(s, o, e.conn)
  /\ UNCHANGED <<connVars, workVars>>

-----------------------------------------------------------------------------
(* Transactions *)

\* The handle of session s is found, and its connection is open.
Active(s) ==
  /\ session[s] # NULL /\ conn[session[s]] = "open"
  /\ \E c \in Context : session[s] \in held[c]

Pending(w, k) == place[w] = "pending" /\ by[w] # NULL /\ session[by[w]] = k

\* execute, execute-update and the executions of prepared statements.
Update(s, w) ==
  /\ Active(s)
  /\ place[w] = "new"
  /\ place' = [place EXCEPT ![w] =
       IF settings[session[s]]["autocommit"] = "true" THEN "published" ELSE "pending"]
  /\ by' = [by EXCEPT ![w] = s]
  /\ UNCHANGED <<connVars, session, asked, settledBy>>

\* A slip to guard against: a session settles what it executed itself.
SettleOwn(s, end) ==
  /\ Active(s)
  /\ place' = [w \in Work |-> IF Pending(w, session[s]) /\ by[w] = s
                                THEN end ELSE place[w]]
  /\ settledBy' = [w \in Work |-> IF Pending(w, session[s]) /\ by[w] = s
                                    THEN s ELSE settledBy[w]]
  /\ UNCHANGED <<connVars, session, asked, by>>

\* The transaction of a connection ends; one in autocommit mode has none.
Settle(s, end) ==
  /\ Active(s)
  /\ place' = [w \in Work |-> IF Pending(w, session[s]) THEN end ELSE place[w]]
  /\ settledBy' = [w \in Work |-> IF Pending(w, session[s]) THEN s ELSE settledBy[w]]
  /\ UNCHANGED <<connVars, session, asked, by>>

Commit(s)   == Settle(s, "published")
Rollback(s) == Settle(s, "discarded")

-----------------------------------------------------------------------------
(* Ends *)

\* A slip to guard against: the maps go, the connections stay.
DestroyContextUnclosed(c) ==
  /\ c \notin ended
  /\ ended' = ended \cup {c}
  /\ held' = [held EXCEPT ![c] = {}]
  /\ UNCHANGED <<conn, settings, cached, refused, session, asked, workVars>>

\* destroy() closes every connection of the context, without a commit or a
\* rollback: the driver does as it likes with what is pending.
DestroyContext(c) ==
  /\ c \notin ended
  /\ ended' = ended \cup {c}
  /\ held' = [held EXCEPT ![c] = {}]
  /\ conn' = [k \in Conn |-> IF k \in held[c] THEN "closed" ELSE conn[k]]
  /\ \E end \in [Conn -> {"published", "discarded"}] :
       place' = [w \in Work |-> IF \E k \in held[c] : Pending(w, k)
                                THEN end[session[by[w]]] ELSE place[w]]
  /\ UNCHANGED <<settings, cached, refused, session, asked, by, settledBy>>

\* The server or the driver closes a connection.
DriverCloses(k) ==
  /\ conn[k] = "open"
  /\ conn' = [conn EXCEPT ![k] = "closed"]
  /\ place' = [w \in Work |-> IF Pending(w, k) THEN "discarded" ELSE place[w]]
  /\ UNCHANGED <<settings, held, ended, cached, refused, session, asked, by, settledBy>>

Next ==
  \/ \E c \in Context, o \in Options :
       \/ \E s \in Session : ConnectAgain(s, c, o) \/ \E k \in Conn : Connect(s, c, o, k)
       \/ \E k \in Conn : ConnectRefused(c, o, k)
  \/ \E s \in Session : Commit(s) \/ Rollback(s) \/ \E w \in Work : Update(s, w)
  \/ \E c \in Context : DestroyContext(c)
  \/ \E k \in Conn : DriverCloses(k)

Spec == Init /\ [][Next]_vars

-----------------------------------------------------------------------------
(* Properties *)

\* Whoever got a handle has every option it asked for, and no other: no
\* connection is handed out half-way through its options, and none that the
\* engine answers with was made for other ones.
OptionsInForce ==
  \A s \in Session : session[s] # NULL =>
    settings[session[s]] = Applied(asked[s], Named(asked[s]))

\* An open connection that no live context has in its map refused an option
\* in connect; it was never handed out, so no work hangs on it.
UnreachableWereRefused ==
  \A k \in Conn : conn[k] = "open" /\ (\A c \in Context \ ended : k \notin held[c]) =>
    k \in refused /\ \A s \in Session : session[s] # k

\* Work is pending only where the query can still settle it: on an open
\* connection in the map of a live context.  No transaction outlives that.
PendingCanBeSettled ==
  \A w \in Work : place[w] = "pending" => Active(by[w])

\* A commit or rollback settles the work of another session only if the
\* engine gave both one connection, which takes the same options.
SettledByItsOwn ==
  \A w \in Work : settledBy[w] # NULL =>
    /\ session[settledBy[w]] = session[by[w]]
    /\ asked[settledBy[w]] = asked[by[w]]

-----------------------------------------------------------------------------
(* The life of connections, and transactions *)

Life == INSTANCE ConnectionLife WITH state <- conn

\* Sessions that share connections, options that are refused and answers the
\* engine remembers leave connections the life they have in JdbcModule.
ImplementsConnectionLife == Life!Spec

Placed(where) == {w \in Work : place[w] = where}

Transacted == INSTANCE Transactions WITH
  pending   <- [k \in Conn |-> {w \in Work : Pending(w, k)}],
  published <- Placed("published"),
  discarded <- Placed("discarded")

\* Whoever settles, and whatever ends, all the work pending on a connection
\* shares one fate, no work is settled twice, and none gets lost.
ImplementsTransactions == Transacted!Spec

-----------------------------------------------------------------------------
(* The inductive invariant *)

\* Sessions and remembered answers stand for connections that were opened
\* with exactly their options and refused none.
Granted(k, o) ==
  /\ conn[k] # "none" /\ k \notin refused
  /\ settings[k] = Applied(o, Named(o))

AnswersGranted ==
  /\ \A s \in Session : session[s] # NULL => asked[s] \in Options /\ Granted(session[s], asked[s])
  /\ \A e \in cached : Granted(e.conn, e.options)

\* One connection is for one set of arguments.
OneAnswer ==
  /\ \A s, u \in Session : session[s] # NULL /\ session[s] = session[u] => asked[s] = asked[u]
  /\ \A s \in Session, e \in cached : session[s] = e.conn => asked[s] = e.options
  /\ \A e, f \in cached : e.conn = f.conn => e.options = f.options

\* A connection refuses only once it is there.  An open one is in the map of
\* a live context, unless it refused.
OpenHeld ==
  /\ \A k \in refused : conn[k] # "none"
  /\ \A k \in Conn : conn[k] = "open" => k \in refused \/ \E c \in Context \ ended : k \in held[c]
  /\ \A c \in Context : \A k \in held[c] : conn[k] # "none" /\ c \notin ended

WorkHasSession ==
  \A w \in Work :
    /\ place[w] # "new" => by[w] # NULL /\ session[by[w]] # NULL
    /\ settledBy[w] # NULL => session[settledBy[w]] # NULL /\ place[w] # "new"

\* The inductive invariant behind OptionsInForce and SettledByItsOwn: a
\* connection, the sessions over it and the answers remembered agree.
SessionsInv ==
  /\ TypeOK
  /\ AnswersGranted
  /\ OneAnswer
  /\ OpenHeld
  /\ WorkHasSession
  /\ PendingCanBeSettled
  /\ SettledByItsOwn

=============================================================================
