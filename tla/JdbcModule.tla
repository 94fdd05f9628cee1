----------------------------- MODULE JdbcModule -----------------------------
(***************************************************************************)
(* The external functions of the JDBC module as a query engine calls them: *)
(* one action per function, run to its return or its throw.  What is       *)
(* modelled is the life of the handles: which maps hold which references,  *)
(* what the references denote, which objects are open, what a call reports *)
(* when it fails.  Rows, parameters and transactions are left out.         *)
(***************************************************************************)
EXTENDS InstanceMap

VARIABLES
  env,     \* initGlobals has stored the JNI environment
  ended,   \* the contexts destroyed so far
  fault,   \* "stale": a JNI call on a reference that denotes no suitable
           \* object; "null": one on NULL; "terminated": std::terminate
  reply,   \* the error of the last step: the map it looked in, handle, code
  target,  \* history: the object a handle was issued for
  closed   \* history: the handles closed by the query itself

handleVars == <<instanceMap, target, closed>>
vars == <<javaVars, handleVars, env, ended, fault, reply>>

Answer(m, u, code) == [map |-> m, uuid |-> u, code |-> code]
Silent == Answer(NULL, NULL, "ok")

Code == {"ok", "true", "false", "VM001", "SQL08003", "SQL003", "SQL004",
         "SQL005", "SQL008", "JAVA-EXCEPTION", "ZORBA-ERROR"}

\* What a failing connect reports: an exception of the driver, or an error of
\* the engine for an option that is not of the type the code reads it as (an
\* isolation level given by its name).
ConnectError == {"JAVA-EXCEPTION", "ZORBA-ERROR"}

Replies == [map : MapName \cup {NULL}, uuid : UUID \cup {NULL}, code : Code]

TypeOK ==
  /\ JavaTypeOK
  /\ InstanceMapTypeOK
  /\ env \in BOOLEAN
  /\ ended \subseteq Context
  /\ fault \in {"none", "stale", "null", "terminated"}
  /\ reply \in Replies
  /\ target \in [UUID -> Object \cup {NULL}]
  /\ closed \subseteq UUID

Init ==
  /\ InitJava
  /\ InitInstanceMaps
  /\ env = FALSE
  /\ ended = {}
  /\ fault = "none"
  /\ reply = Silent
  /\ target = [u \in UUID |-> NULL]
  /\ closed = {}

-----------------------------------------------------------------------------
(* How a call ends when it changes nothing but what it reports. *)

Report(answer) ==
  /\ reply' = answer
  /\ UNCHANGED <<javaVars, handleVars, env, ended, fault>>

\* The process is lost: whatever happens next is not modelled.
Fail(how) ==
  /\ fault' = how
  /\ UNCHANGED <<javaVars, handleVars, env, ended, reply>>

throwMapError(m) ==
  CASE m = "Connections"        -> "SQL08003"
    [] m = "Statements"         -> "SQL003"
    [] m = "PreparedStatements" -> "SQL008"

\* getObject and deleteObject: the handle is in no entry of the map.
NotFound(c, m, u) ==
  /\ ~Holds(c, m, u)
  /\ Report(Answer(m, u, throwMapError(m)))

\* CHECK_CONNECTION
Unconnected(m, u) ==
  /\ ~env
  /\ Report(Answer(m, u, "SQL08003"))

\* The reference found is good for the JNI calls the function makes on it.
Found(c, m, u) ==
  /\ Holds(c, m, u)
  /\ Denotes(getInstance(c, m, u), Stored(m))

\* ... and the driver can do what the function asks for.
Works(c, m, u) == Found(c, m, u) /\ Usable(slot[getInstance(c, m, u)])

\* The driver may refuse any call; throwJavaException then reports it.
JavaThrows(c, m, u) ==
  /\ Found(c, m, u)
  /\ Report(Answer(m, u, "JAVA-EXCEPTION"))

\* A reference is in the map, but its slot is empty or reused for an object
\* of another interface: the JNI call is undefined.
Misfires(c, m, u) ==
  /\ Holds(c, m, u)
  /\ ~Denotes(getInstance(c, m, u), Stored(m))
  /\ Fail("stale")

Lookup(c, m, u) == NotFound(c, m, u) \/ JavaThrows(c, m, u) \/ Misfires(c, m, u)

\* The ways to fail of a function that begins with CHECK_CONNECTION.
Guarded(c, m, u) == Unconnected(m, u) \/ (env /\ Lookup(c, m, u))

\* A function that leaves handles, references and open objects as they are.
Call(c, m, u) ==
  \/ Guarded(c, m, u)
  \/ /\ env /\ Works(c, m, u)
     /\ Report(Silent)

\* A setter that also turns down a value of another type, before any JNI
\* call is made.
TypedSetter(c, u) ==
  \/ Call(c, "PreparedStatements", u)
  \/ /\ env /\ Holds(c, "PreparedStatements", u)
     /\ Report(Answer("PreparedStatements", u, "SQL004"))

\* A slip to guard against: the handle returned may be in use already.
RepeatedUUID == CHOOSE u \in UUID : TRUE

\* getUUID: a handle that was never issued before (uuid::create).
CanIssue == \E u \in UUID : target[u] = NULL
FreshUUID == CHOOSE u \in UUID : target[u] = NULL

\* A slip to guard against: the handle is stored before the last call that
\* may fail.
IssueTooEarly(c, m, r, o) ==
  /\ CanIssue
  /\ storeInstance(c, m, FreshUUID, r)
  /\ target' = [target EXCEPT ![FreshUUID] = o]
  /\ reply' \in {Silent, Answer(NULL, NULL, "JAVA-EXCEPTION")}
  /\ UNCHANGED <<closed, ended, fault>>

\* Reference r, which denotes o, is stored under a new handle and returned.
Issue(c, m, r, o) ==
  /\ CanIssue
  /\ storeInstance(c, m, FreshUUID, r)
  /\ target' = [target EXCEPT ![FreshUUID] = o]
  /\ reply' = Silent
  /\ UNCHANGED <<closed, ended, fault>>

\* The function throws: what it created stays behind, under no handle.
Abandon(m, u, code) ==
  /\ reply' = Answer(m, u, code)
  /\ UNCHANGED <<handleVars, ended, fault>>

-----------------------------------------------------------------------------
(* Connections *)

\* A slip to guard against: initGlobals leaves env as it is.
ConnectWithoutEnv(c) ==
  \/ /\ ~env
     /\ Report(Answer(NULL, NULL, "VM001"))
  \/ \E r \in Ref :
       /\ NewObject("Connection", NULL, r)
       /\ UNCHANGED env
       /\ \/ Issue(c, "Connections", r, NextObject)
          \/ \E code \in ConnectError : Abandon(NULL, NULL, code)

\* The connection is stored only after every option has been set, so one
\* whose options are refused stays open with no handle to it.
Connect(c) ==
  \/ /\ ~env
     /\ Report(Answer(NULL, NULL, "VM001"))
  \/ /\ env' = TRUE
     /\ reply' \in {Answer(NULL, NULL, code) : code \in ConnectError}
     /\ UNCHANGED <<javaVars, handleVars, ended, fault>>
  \/ \E r \in Ref :
       /\ env' = TRUE
       /\ NewObject("Connection", NULL, r)
       /\ \/ Issue(c, "Connections", r, NextObject)
          \/ \E code \in ConnectError : Abandon(NULL, NULL, code)

\* isClosed answers for a connection that is no longer open as well.
IsConnected(c, u) ==
  \/ Guarded(c, "Connections", u)
  \/ /\ env /\ Found(c, "Connections", u)
     /\ LET isOpen == slot[getInstance(c, "Connections", u)] \in open
        IN  Report(Answer("Connections", u, IF isOpen THEN "true" ELSE "false"))

ConnectionOptions(c, u) == Call(c, "Connections", u)
Commit(c, u)            == Call(c, "Connections", u)
Rollback(c, u)          == Call(c, "Connections", u)

\* The exception of getMetaData is not looked for: getTables is then called
\* on the NULL it returned.
Tables(c, u) ==
  \/ Call(c, "Connections", u)
  \/ /\ env /\ Found(c, "Connections", u)
     /\ Fail("null")

-----------------------------------------------------------------------------
(* Statements *)

\* createStatement or prepareStatement on connection u, in slot r.
NewStatement(c, u, cls, r) ==
  /\ Works(c, "Connections", u)
  /\ NewObject(cls, slot[getInstance(c, "Connections", u)], r)
  /\ UNCHANGED env

Execute(c, u) ==
  \/ Guarded(c, "Connections", u)
  \/ \E r \in Ref :
       /\ env /\ NewStatement(c, u, "Statement", r)
       /\ Issue(c, "Statements", r, NextObject) \/ Abandon("Connections", u, "JAVA-EXCEPTION")

\* The statement gets no handle, whether the query fails or returns rows.
ExecuteQuery(c, u) ==
  \/ Guarded(c, "Connections", u)
  \/ \E r \in Ref :
       /\ env /\ NewStatement(c, u, "Statement", r)
       /\ reply' \in {Silent, Answer("Connections", u, "JAVA-EXCEPTION")}
       /\ UNCHANGED <<handleVars, ended, fault>>

ExecuteUpdate(c, u) == ExecuteQuery(c, u)

-----------------------------------------------------------------------------
(* Prepared statements *)

\* No CHECK_CONNECTION here.
PrepareStatement(c, u) ==
  \/ Lookup(c, "Connections", u)
  \/ \E r \in Ref :
       /\ NewStatement(c, u, "PreparedStatement", r)
       /\ Issue(c, "PreparedStatements", r, NextObject)

SetNumeric(c, u)        == TypedSetter(c, u)
SetString(c, u)         == TypedSetter(c, u)
SetBoolean(c, u)        == TypedSetter(c, u)
SetNull(c, u)           == Call(c, "PreparedStatements", u)
SetValue(c, u)          == Call(c, "PreparedStatements", u)
ClearParams(c, u)       == Call(c, "PreparedStatements", u)
ParameterMetadata(c, u) == Call(c, "PreparedStatements", u)

\* A slip to guard against: the data set of a prepared statement is stored
\* under a handle of the other map.
ExecutePreparedIntoPrepared(c, u) ==
  LET r == getInstance(c, "PreparedStatements", u)
  IN  \/ Guarded(c, "PreparedStatements", u)
      \/ /\ env /\ Works(c, "PreparedStatements", u)
         /\ Issue(c, "PreparedStatements", r, slot[r])
         /\ UNCHANGED <<javaVars, env>>

\* The reference of the prepared statement itself is stored under the new
\* data set handle.
ExecutePrepared(c, u) ==
  LET r == getInstance(c, "PreparedStatements", u)
  IN  \/ Guarded(c, "PreparedStatements", u)
      \/ /\ env /\ Works(c, "PreparedStatements", u)
         /\ Issue(c, "Statements", r, slot[r])
         /\ UNCHANGED <<javaVars, env>>

ExecuteQueryPrepared(c, u)  == Call(c, "PreparedStatements", u)
ExecuteUpdatePrepared(c, u) == Call(c, "PreparedStatements", u)

\* deleteObject: the reference goes, the statement stays open in the driver.
deleteObject(c, m, u) ==
  \/ NotFound(c, m, u)
  \/ /\ Holds(c, m, u)
     /\ deleteInstance(c, m, u)
     /\ closed' = closed \cup {u}
     /\ reply' = Silent
     /\ UNCHANGED <<class, owner, open, target, env, ended, fault>>

ClosePrepared(c, u) ==
  \/ Unconnected("PreparedStatements", u)
  \/ /\ env
     /\ deleteObject(c, "PreparedStatements", u)

-----------------------------------------------------------------------------
(* Data sets *)

\* SQL005: the statement counted updates.
ResultSet(c, u) ==
  \/ Call(c, "Statements", u)
  \/ /\ env /\ Works(c, "Statements", u)
     /\ Report(Answer("Statements", u, "SQL005"))

Metadata(c, u)     == Call(c, "Statements", u)
AffectedRows(c, u) == Call(c, "Statements", u)

\* No CHECK_CONNECTION here.
CloseDataSet(c, u) == deleteObject(c, "Statements", u)

-----------------------------------------------------------------------------
(* The end of a context, and the other end of a connection *)

\* The query is over and its maps are destroyed.  destroy() is declared
\* throw(): an exception of Connection.close ends the process.
DestroyContext(c) ==
  \/ /\ ConnectionsDenote(c)
     /\ destroyMaps(c)
     /\ ended' = ended \cup {c}
     /\ reply' = Silent
     /\ UNCHANGED <<class, owner, target, closed, env, fault>>
  \/ /\ RefsIn(c, "Connections") # {}
     /\ Fail("terminated")
  \/ /\ ~ConnectionsDenote(c) \/ SharesConnectionRef(c)
     /\ Fail("stale")

\* The server or the driver closes a connection.
DriverCloses(o) ==
  /\ fault = "none"
  /\ class[o] = "Connection" /\ o \in open
  /\ open' = open \ {o}
  /\ reply' = Silent
  /\ UNCHANGED <<slot, class, owner, handleVars, env, ended, fault>>

ConnectionFunction(c, u) ==
  \/ IsConnected(c, u) \/ ConnectionOptions(c, u) \/ Commit(c, u)
  \/ Rollback(c, u) \/ Tables(c, u) \/ Execute(c, u) \/ ExecuteQuery(c, u)
  \/ ExecuteUpdate(c, u) \/ PrepareStatement(c, u)

PreparedFunction(c, u) ==
  \/ SetNumeric(c, u) \/ SetString(c, u) \/ SetBoolean(c, u) \/ SetNull(c, u)
  \/ SetValue(c, u) \/ ClearParams(c, u) \/ ParameterMetadata(c, u)
  \/ ExecutePrepared(c, u) \/ ExecuteQueryPrepared(c, u)
  \/ ExecuteUpdatePrepared(c, u) \/ ClosePrepared(c, u)

DataSetFunction(c, u) ==
  \/ ResultSet(c, u) \/ Metadata(c, u) \/ AffectedRows(c, u)
  \/ CloseDataSet(c, u)

Next ==
  \/ \E c \in Context :
       /\ fault = "none" /\ c \notin ended
       /\ \/ Connect(c)
          \/ DestroyContext(c)
          \/ \E u \in UUID : \/ ConnectionFunction(c, u)
                             \/ PreparedFunction(c, u)
                             \/ DataSetFunction(c, u)
  \/ \E o \in Object : DriverCloses(o)

Spec == Init /\ [][Next]_vars

-----------------------------------------------------------------------------
(* Properties *)

\* The query closed a handle while another was issued for the same object:
\* one of a prepared statement and the data sets executing it returned.
AliasClosed ==
  \E u \in closed : \E w \in UUID \ {u} : target[w] = target[u]

\* As long as no alias was closed, a handle stands for the object it was
\* issued for: no slot a live handle refers to is emptied or handed out again,
\* by whatever calls of whatever contexts (storeInstance, deleteInstance,
\* destroy and the machine's reuse of slots).
HandlesKeepTheirObject ==
  AliasClosed \/ \A c \in Context, m \in MapName, u \in UUID :
                    Holds(c, m, u) => slot[getInstance(c, m, u)] = target[u]

\* As long as no alias was closed, no JNI call is made on a dead reference or
\* on an object of another interface, by destroy() at the end of a context
\* least of all.
NoStaleCall == fault = "stale" => AliasClosed

\* A handle in a map means that env is set: the functions that leave out
\* CHECK_CONNECTION (prepare-statement, close-dataset) never call through a
\* NULL environment, and neither does destroy().
LiveHandlesHaveEnv ==
  (\E c \in Context, m \in MapName, u \in UUID : Holds(c, m, u)) => env

\* As long as no alias was closed, a connection that was handed out and is in
\* no map any more has been closed: InstanceMap::destroy loses none.
ConnectionsClosedWithContext ==
  AliasClosed \/ \A u \in UUID :
    /\ target[u] # NULL /\ class[target[u]] = "Connection"
    /\ \A c \in Context : ~Holds(c, "Connections", u)
    => target[u] \notin open

\* A call that reports an error has stored no handle, removed none and put no
\* other object behind one, however far it got before it failed.
ErrorsChangeNoHandle ==
  [][reply'.code \notin {"ok", "true", "false"} => UNCHANGED handleVars]_vars

\* A handle stands for one object for ever, in one place, under one reference,
\* and once it is in no map it never is again: no later call, of this context
\* or another, finds an old handle.  That holds after an alias was closed, too.
GoneForGood ==
  [][UNCHANGED handleVars \/ \A u \in UUID : target[u] # NULL =>
       /\ target'[u] = target[u]
       /\ \A c \in Context, m \in MapName :
            instanceMap'[c][m][u] \in {instanceMap[c][m][u], NULL}]_vars

-----------------------------------------------------------------------------
(* The inductive invariant *)

\* Only issued handles are in a map, each in one place.
HandlesIssued ==
  \A c \in Context, m \in MapName, u \in UUID : Holds(c, m, u) => target[u] # NULL

OnePlace ==
  \A c, d \in Context, m, n \in MapName, u \in UUID :
    Holds(c, m, u) /\ Holds(d, n, u) => c = d /\ m = n

\* A closed handle was issued and is in no map any more.
ClosedGone ==
  \A u \in closed :
    /\ target[u] # NULL
    /\ \A c \in Context, m \in MapName : ~Holds(c, m, u)

\* A handle is issued for an object that exists, of a class its map stores,
\* and only a prepared statement has several handles.
TargetsCreated == \A u \in UUID : target[u] # NULL => class[target[u]] # "none"

HandlesFit ==
  \A c \in Context, m \in MapName, u \in UUID :
    Holds(c, m, u) => class[target[u]] \in Stored(m)

OnlyPreparedShared ==
  \A u, w \in UUID :
    u # w /\ target[u] # NULL /\ target[u] = target[w] =>
      class[target[u]] = "PreparedStatement"

\* All handles for one object are in the maps of one context, so that the end
\* of a context takes no reference from another.
OneContext ==
  \A c, d \in Context, m, n \in MapName, u, w \in UUID :
    Holds(c, m, u) /\ Holds(d, n, w) /\ target[u] = target[w] => c = d

Bookkeeping ==
  /\ TypeOK
  /\ LiveHandlesHaveEnv
  /\ HandlesIssued
  /\ OnePlace
  /\ ClosedGone
  /\ TargetsCreated
  /\ HandlesFit
  /\ OnlyPreparedShared

\* The inductive invariant behind HandlesKeepTheirObject: it is what the calls
\* have to maintain for the maps and the machine's slots to stay in step.
IInv ==
  /\ Bookkeeping
  /\ HandlesKeepTheirObject
  /\ AliasClosed \/ OneContext
  /\ NoStaleCall
  /\ ConnectionsClosedWithContext

-----------------------------------------------------------------------------
(* The handles as a registry, for a query that closes no alias *)

Unshared(u) == \A w \in UUID \ {u} : target[w] # target[u]

\* The query closes only handles that share their object with no other.
DisciplinedNext == Next /\ \A u \in closed' \ closed : Unshared(u)

DisciplinedSpec == Init /\ [][DisciplinedNext]_vars

Denoted(c, m, u) ==
  IF Holds(c, m, u) THEN slot[getInstance(c, m, u)] ELSE NULL

Registry == INSTANCE HandleRegistry WITH
  denotes <- [c \in Context |-> [m \in MapName |-> [u \in UUID |-> Denoted(c, m, u)]]],
  spent   <- {u \in UUID : target[u] # NULL}

\* Instance maps over recycled references implement the registry of handles
\* as long as the query closes no alias.
ImplementsRegistry == Registry!Spec

\* For any query: up to the step that closes an alias, every step is one of the
\* registry.
RegistryUntilAliasClosed ==
  /\ Registry!Init
  /\ [][\/ UNCHANGED <<slot, handleVars>>
        \/ AliasClosed' \/ UNCHANGED Registry!vars \/ Registry!Next]_vars

-----------------------------------------------------------------------------
(* The life of connections, for such a query *)

StateOf(o) ==
  IF class[o] # "Connection" THEN "none" ELSE IF o \in open THEN "open" ELSE "closed"

\* The connections that handles of context c were issued for.
HeldBy(c) == {target[u] : u \in {v \in UUID : Holds(c, "Connections", v)}}

Life == INSTANCE ConnectionLife WITH
  Conn  <- Object,
  state <- [o \in Object |-> StateOf(o)],
  held  <- [c \in Context |-> HeldBy(c)]

\* Connections behind recycled references, which only destroy() and the driver
\* close, live as the abstract ones do: none is closed but by the end of the
\* one context that has it, and then it is.
ImplementsConnectionLife == Life!Spec

-----------------------------------------------------------------------------
(* What the documentation of the functions says *)

\* prepare-statement: "for multiple executions with diferent values".  A
\* prepared statement the query did not close is there to be executed again,
\* whatever data sets of it were closed.
PreparedOutlivesDataSets ==
  \A c \in Context, u \in UUID :
    Holds(c, "PreparedStatements", u) =>
      slot[getInstance(c, "PreparedStatements", u)] = target[u]

\* close-prepared "Closes and frees from memory any prepared SQL statement";
\* close-dataset "Closes and free resources from a particular DataSet".
ClosedHandlesAreClosed == \A u \in closed : target[u] \notin open

=============================================================================
