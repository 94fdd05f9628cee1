------------------------- MODULE JdbcModule_proofs -------------------------
(***************************************************************************)
(* Proofs about JdbcModule, for any number of contexts, handles, slots and *)
(* objects.  The functions of the module are many, but what a step can do  *)
(* to handles and objects is one of seven kinds; StepKinds sorts them, and *)
(* the invariants are then proved kind by kind.                            *)
(***************************************************************************)
EXTENDS JdbcModule, TLAPS

-----------------------------------------------------------------------------
(* The kinds of steps *)

\* An entry that no JNI call may be made on.
StaleEntry ==
  \/ \E c \in Context, m \in MapName, u \in UUID :
       Holds(c, m, u) /\ ~Denotes(getInstance(c, m, u), Stored(m))
  \/ \E c \in Context : SharesConnectionRef(c)

\* Handles and objects stay as they are.
Quiet ==
  /\ UNCHANGED <<javaVars, handleVars, ended>>
  /\ env => env'
  /\ fault' = "stale" => fault = "stale" \/ StaleEntry

\* A new object that no handle stands for.
Allocates ==
  /\ \E cls \in Class, p \in Object \cup {NULL}, r \in Ref : NewObject(cls, p, r)
  /\ UNCHANGED <<handleVars, ended, fault>>
  /\ env => env'

\* A new object and a handle for it.
Issues ==
  \E c \in Context, m \in MapName, p \in Object \cup {NULL}, r \in Ref :
    \E cls \in Stored(m) \cap Class :
      /\ NewObject(cls, p, r)
      /\ Issue(c, m, r, NextObject)
      /\ c \notin ended
      /\ m = "Statements" => cls = "Statement"
      /\ env'

\* A further handle for the object of a prepared handle.
Aliases ==
  \E c \in Context, u \in UUID :
    LET r == getInstance(c, "PreparedStatements", u)
    IN  /\ Holds(c, "PreparedStatements", u)
        /\ Denotes(r, {"PreparedStatement"})
        /\ Issue(c, "Statements", r, slot[r])
        /\ UNCHANGED <<javaVars, env>>

\* A handle of a statement is closed.
Deletes ==
  \E c \in Context, m \in MapName \ {"Connections"}, u \in UUID :
    /\ Holds(c, m, u)
    /\ deleteInstance(c, m, u)
    /\ closed' = closed \cup {u}
    /\ reply' = Silent
    /\ UNCHANGED <<class, owner, open, target, env, ended, fault>>

\* The maps of a context are destroyed.
Destroys ==
  \E c \in Context :
    /\ destroyMaps(c)
    /\ c \notin ended /\ ended' = ended \cup {c}
    /\ reply' = Silent
    /\ UNCHANGED <<class, owner, target, closed, env, fault>>

\* An object is closed behind the module's back.
Closes ==
  /\ \E o \in Object : open' = open \ {o}
  /\ UNCHANGED <<slot, class, owner, handleVars, env, ended, fault>>

Kind == Quiet \/ Allocates \/ Issues \/ Aliases \/ Deletes \/ Destroys \/ Closes

\* The variables no kind speaks of keep their type.
RestOK ==
  /\ env' \in BOOLEAN
  /\ ended' \subseteq Context
  /\ fault' \in {"none", "stale", "null", "terminated"}
  /\ reply' \in Replies

-----------------------------------------------------------------------------
(* Every step is of one of the kinds *)

\* What Stored says of each of the three maps.
LEMMA StoredClasses ==
  /\ Stored("Connections") = {"Connection"}
  /\ Stored("Statements") = {"Statement", "PreparedStatement"}
  /\ Stored("PreparedStatements") = {"PreparedStatement"}
BY DEF Stored

\* An answer about a map and a handle, with a code functions report, is a reply.
LEMMA AnswerType ==
  ASSUME NEW m \in MapName \cup {NULL}, NEW u \in UUID \cup {NULL}, NEW code \in Code
  PROVE  Answer(m, u, code) \in Replies
BY DEF Answer, Replies

\* So is the answer of a function that has nothing to report.
LEMMA SilentType == Silent \in Replies
BY AnswerType DEF Silent, Code

\* A function that only reports leaves handles and objects as they are.
LEMMA ReportQuiet ==
  ASSUME TypeOK, NEW a \in Replies, Report(a)
  PROVE  Quiet /\ RestOK
BY DEF TypeOK, Report, Quiet, RestOK

\* So does one whose handle is not found, whose JNI call throws or misfires
\* (getObject, throwJavaException); only a stale entry makes it misfire.
LEMMA LookupQuiet ==
  ASSUME TypeOK, NEW c \in Context, NEW m \in MapName, NEW u \in UUID,
         Lookup(c, m, u)
  PROVE  Quiet /\ RestOK
<1>1. throwMapError(m) \in Code
  BY DEF throwMapError, MapName, Code
<1>2. CASE NotFound(c, m, u)
  BY <1>1, <1>2, AnswerType, ReportQuiet DEF NotFound
<1>3. CASE JavaThrows(c, m, u)
  BY <1>3, AnswerType, ReportQuiet DEF JavaThrows, Code
<1>4. CASE Misfires(c, m, u)
  BY <1>4 DEF TypeOK, Misfires, Fail, Quiet, RestOK, StaleEntry
<1> QED BY <1>2, <1>3, <1>4 DEF Lookup

\* So does one that CHECK_CONNECTION turns away.
LEMMA GuardedQuiet ==
  ASSUME TypeOK, NEW c \in Context, NEW m \in MapName, NEW u \in UUID,
         Guarded(c, m, u)
  PROVE  Quiet /\ RestOK
<1>1. CASE Unconnected(m, u)
  BY <1>1, AnswerType, ReportQuiet DEF Unconnected, Code
<1> QED BY <1>1, LookupQuiet DEF Guarded

\* So do the functions that only read or configure a Java object.
LEMMA CallQuiet ==
  ASSUME TypeOK, NEW c \in Context, NEW m \in MapName, NEW u \in UUID,
         Call(c, m, u)
  PROVE  Quiet /\ RestOK
BY GuardedQuiet, SilentType, ReportQuiet DEF Call

\* So do the setters of prepared parameters that check the type of the value.
LEMMA TypedSetterQuiet ==
  ASSUME TypeOK, NEW c \in Context, NEW u \in UUID, TypedSetter(c, u)
  PROVE  Quiet /\ RestOK
<1>1. "PreparedStatements" \in MapName
  BY DEF MapName
<1>2. Answer("PreparedStatements", u, "SQL004") \in Replies
  BY <1>1, AnswerType DEF Code
<1> QED BY <1>1, <1>2, CallQuiet, ReportQuiet DEF TypedSetter

\* What a new handle and a failure after an allocation leave behind.
LEMMA IssueRest ==
  ASSUME TypeOK, env' \in BOOLEAN, NEW c, NEW m, NEW r, NEW o, Issue(c, m, r, o)
  PROVE  RestOK
BY SilentType DEF TypeOK, Issue, RestOK

\* connect issues a handle, leaves a connection behind or changes nothing.
LEMMA ConnectKind ==
  ASSUME TypeOK, NEW c \in Context, c \notin ended, Connect(c)
  PROVE  Kind /\ RestOK
<1>1. /\ Answer(NULL, NULL, "VM001") \in Replies
      /\ \A code \in ConnectError : Answer(NULL, NULL, code) \in Replies
  BY AnswerType DEF Code, ConnectError
<1>2. /\ "Connections" \in MapName
      /\ "Connection" \in Stored("Connections") \cap Class
  BY StoredClasses DEF MapName, Class
<1>3. CASE Report(Answer(NULL, NULL, "VM001"))
  BY <1>1, <1>3, ReportQuiet DEF Kind
<1>4. CASE /\ env' = TRUE
           /\ reply' \in {Answer(NULL, NULL, code) : code \in ConnectError}
           /\ UNCHANGED <<javaVars, handleVars, ended, fault>>
  BY <1>1, <1>4 DEF Kind, Quiet, RestOK, TypeOK
<1>5. ASSUME NEW r \in Ref, env' = TRUE, NewObject("Connection", NULL, r),
             Issue(c, "Connections", r, NextObject)
      PROVE  Kind /\ RestOK
  <2>1. RestOK
    BY <1>5, IssueRest
  <2>2. Issues
    BY <1>2, <1>5 DEF Issues
  <2> QED BY <2>1, <2>2 DEF Kind
<1>6. ASSUME NEW r \in Ref, env' = TRUE, NewObject("Connection", NULL, r),
             NEW code \in ConnectError, Abandon(NULL, NULL, code)
      PROVE  Kind /\ RestOK
  <2>1. Allocates
    BY <1>2, <1>6 DEF Allocates, Abandon
  <2>2. RestOK
    BY <1>1, <1>6 DEF Abandon, RestOK, TypeOK
  <2> QED BY <2>1, <2>2 DEF Kind
<1> QED BY <1>3, <1>4, <1>5, <1>6 DEF Connect

\* A statement is created for a connection: its owner is an object.
LEMMA NewStatementFacts ==
  ASSUME TypeOK, NEW c \in Context, NEW u \in UUID, NEW cls, NEW r \in Ref,
         NewStatement(c, u, cls, r)
  PROVE  /\ \E p \in Object \cup {NULL} : NewObject(cls, p, r)
         /\ env' = env
<1>1. getInstance(c, "Connections", u) \in Ref
  BY DEF NewStatement, Works, Found, Holds, getInstance, TypeOK,
         InstanceMapTypeOK, MapName
<1>2. slot[getInstance(c, "Connections", u)] \in Object \cup {NULL}
  BY <1>1 DEF TypeOK, JavaTypeOK
<1> QED BY <1>2 DEF NewStatement

\* execute issues a data set, leaves a statement behind or changes nothing.
LEMMA ExecuteKind ==
  ASSUME TypeOK, NEW c \in Context, c \notin ended, NEW u \in UUID, Execute(c, u)
  PROVE  Kind /\ RestOK
<1>1. /\ "Connections" \in MapName /\ "Statements" \in MapName
      /\ "Statement" \in Stored("Statements") \cap Class
      /\ Answer("Connections", u, "JAVA-EXCEPTION") \in Replies
  BY StoredClasses, AnswerType DEF MapName, Class, Code
<1>2. CASE Guarded(c, "Connections", u)
  BY <1>1, <1>2, GuardedQuiet DEF Kind
<1>3. ASSUME NEW r \in Ref, env, NewStatement(c, u, "Statement", r),
             Issue(c, "Statements", r, NextObject)
      PROVE  Kind /\ RestOK
  <2>1. PICK p \in Object \cup {NULL} : NewObject("Statement", p, r)
    BY <1>3, NewStatementFacts
  <2>2. env' = env
    BY <1>3, NewStatementFacts
  <2>3. RestOK
    BY <1>3, <2>2, IssueRest DEF TypeOK
  <2>4. Issues
    BY <1>1, <1>3, <2>1, <2>2 DEF Issues
  <2> QED BY <2>3, <2>4 DEF Kind
<1>4. ASSUME NEW r \in Ref, NewStatement(c, u, "Statement", r),
             Abandon("Connections", u, "JAVA-EXCEPTION")
      PROVE  Kind /\ RestOK
  <2>1. Allocates
    BY <1>1, <1>4, NewStatementFacts DEF Allocates, Abandon
  <2>2. RestOK
    BY <1>1, <1>4, NewStatementFacts DEF Abandon, RestOK, TypeOK
  <2> QED BY <2>1, <2>2 DEF Kind
<1> QED BY <1>2, <1>3, <1>4 DEF Execute

\* execute-query and execute-update at most leave a statement behind.
LEMMA ExecuteQueryKind ==
  ASSUME TypeOK, NEW c \in Context, NEW u \in UUID, ExecuteQuery(c, u)
  PROVE  Kind /\ RestOK
<1>1. /\ "Connections" \in MapName /\ "Statement" \in Class
      /\ {Silent, Answer("Connections", u, "JAVA-EXCEPTION")} \subseteq Replies
  BY SilentType, AnswerType DEF MapName, Class, Code
<1>2. CASE Guarded(c, "Connections", u)
  BY <1>1, <1>2, GuardedQuiet DEF Kind
<1>3. ASSUME NEW r \in Ref, NewStatement(c, u, "Statement", r),
             reply' \in {Silent, Answer("Connections", u, "JAVA-EXCEPTION")},
             UNCHANGED <<handleVars, ended, fault>>
      PROVE  Kind /\ RestOK
  <2>1. Allocates
    BY <1>1, <1>3, NewStatementFacts DEF Allocates
  <2>2. RestOK
    BY <1>1, <1>3, NewStatementFacts DEF RestOK, TypeOK
  <2> QED BY <2>1, <2>2 DEF Kind
<1> QED BY <1>2, <1>3 DEF ExecuteQuery

\* prepare-statement, although it skips CHECK_CONNECTION, issues a handle only
\* when env is set: it found its connection in a map.
LEMMA PrepareStatementKind ==
  ASSUME TypeOK, NEW c \in Context, c \notin ended, NEW u \in UUID, PrepareStatement(c, u),
         \A d \in Context, m \in MapName, v \in UUID : Holds(d, m, v) => env
  PROVE  Kind /\ RestOK
<1>1. /\ "Connections" \in MapName /\ "PreparedStatements" \in MapName
      /\ "PreparedStatement" \in Stored("PreparedStatements") \cap Class
  BY StoredClasses DEF MapName, Class
<1>2. CASE Lookup(c, "Connections", u)
  BY <1>1, <1>2, LookupQuiet DEF Kind
<1>3. ASSUME NEW r \in Ref, NewStatement(c, u, "PreparedStatement", r),
             Issue(c, "PreparedStatements", r, NextObject)
      PROVE  Kind /\ RestOK
  <2>1. PICK p \in Object \cup {NULL} : NewObject("PreparedStatement", p, r)
    BY <1>3, NewStatementFacts
  <2>2. env' = env /\ env
    BY <1>1, <1>3, NewStatementFacts DEF NewStatement, Works, Found
  <2>3. RestOK
    BY <1>3, <2>2, IssueRest DEF TypeOK
  <2>4. Issues
    BY <1>1, <1>3, <2>1, <2>2 DEF Issues
  <2> QED BY <2>3, <2>4 DEF Kind
<1> QED BY <1>2, <1>3 DEF PrepareStatement

\* execute-prepared issues a further handle for its prepared statement.
LEMMA ExecutePreparedKind ==
  ASSUME TypeOK, NEW c \in Context, NEW u \in UUID, ExecutePrepared(c, u)
  PROVE  Kind /\ RestOK
<1> DEFINE r == getInstance(c, "PreparedStatements", u)
<1>1. "PreparedStatements" \in MapName
  BY DEF MapName
<1>2. CASE Guarded(c, "PreparedStatements", u)
  BY <1>1, <1>2, GuardedQuiet DEF Kind
<1>3. CASE /\ Works(c, "PreparedStatements", u)
           /\ Issue(c, "Statements", r, slot[r])
           /\ UNCHANGED <<javaVars, env>>
  <2>1. env' \in BOOLEAN
    BY <1>3 DEF TypeOK
  <2>2. RestOK
    BY <1>3, <2>1, IssueRest
  <2>3. Aliases
    BY <1>3, StoredClasses DEF Aliases, Works, Found
  <2> QED BY <2>2, <2>3 DEF Kind
<1> QED BY <1>2, <1>3 DEF ExecutePrepared

\* deleteObject closes a handle of a statement, or finds none.
LEMMA deleteObjectKind ==
  ASSUME TypeOK, NEW c \in Context, NEW m \in MapName \ {"Connections"},
         NEW u \in UUID, deleteObject(c, m, u)
  PROVE  Kind /\ RestOK
<1>1. CASE NotFound(c, m, u)
  BY <1>1, LookupQuiet DEF Lookup, Kind
<1>2. CASE ~NotFound(c, m, u)
  <2>1. Deletes
    BY <1>2 DEF deleteObject, Deletes
  <2>2. RestOK
    BY <1>2, SilentType DEF deleteObject, RestOK, TypeOK
  <2> QED BY <2>1, <2>2 DEF Kind
<1> QED BY <1>1, <1>2

\* The end of a context destroys its maps; it fails on stale entries only.
LEMMA DestroyContextKind ==
  ASSUME TypeOK, NEW c \in Context, c \notin ended, DestroyContext(c)
  PROVE  Kind /\ RestOK
<1>1. CASE /\ destroyMaps(c)
           /\ ended' = ended \cup {c}
           /\ reply' = Silent
           /\ UNCHANGED <<class, owner, target, closed, env, fault>>
  BY <1>1, SilentType DEF Destroys, Kind, RestOK, TypeOK
<1>2. CASE Fail("terminated")
  BY <1>2 DEF Fail, Quiet, Kind, RestOK, TypeOK
<1>3. CASE /\ ~ConnectionsDenote(c) \/ SharesConnectionRef(c)
           /\ Fail("stale")
  <2>1. StaleEntry
    <3>1. CASE SharesConnectionRef(c)
      BY <3>1 DEF StaleEntry
    <3>2. CASE ~ConnectionsDenote(c)
      <4>1. PICK u \in UUID : /\ Holds(c, "Connections", u)
                              /\ ~Denotes(getInstance(c, "Connections", u), {"Connection"})
        BY <3>2 DEF ConnectionsDenote, RefsIn, Holds
      <4> QED BY <4>1, StoredClasses DEF StaleEntry, MapName
    <3> QED BY <1>3, <3>1, <3>2
  <2> QED BY <1>3, <2>1 DEF Fail, Quiet, Kind, RestOK, TypeOK
<1> QED BY <1>1, <1>2, <1>3 DEF DestroyContext

\* The driver closing a connection touches no handle.
LEMMA DriverClosesKind ==
  ASSUME TypeOK, NEW o \in Object, DriverCloses(o)
  PROVE  Kind /\ RestOK
BY SilentType DEF DriverCloses, Closes, Kind, RestOK, TypeOK

\* Every function that takes a connection is of one of the kinds.
LEMMA ConnectionFunctionKind ==
  ASSUME TypeOK, NEW c \in Context, c \notin ended, NEW u \in UUID, ConnectionFunction(c, u),
         \A d \in Context, m \in MapName, v \in UUID : Holds(d, m, v) => env
  PROVE  Kind /\ RestOK
<1>1. "Connections" \in MapName
  BY DEF MapName
<1>2. CASE IsConnected(c, u)
  <2>1. \A code \in {"true", "false"} : Answer("Connections", u, code) \in Replies
    BY <1>1, AnswerType DEF Code
  <2> QED BY <1>1, <1>2, <2>1, GuardedQuiet, ReportQuiet DEF IsConnected, Kind
<1>3. CASE Call(c, "Connections", u)
  BY <1>1, <1>3, CallQuiet DEF Kind
<1>4. CASE Fail("null")
  BY <1>4 DEF Fail, Quiet, Kind, RestOK, TypeOK
<1> QED
  BY <1>2, <1>3, <1>4, ExecuteKind, ExecuteQueryKind, PrepareStatementKind
  DEF ConnectionFunction, ConnectionOptions, Commit, Rollback, Tables,
      ExecuteUpdate

\* Every function that takes a prepared statement is of one of the kinds.
LEMMA PreparedFunctionKind ==
  ASSUME TypeOK, NEW c \in Context, NEW u \in UUID, PreparedFunction(c, u)
  PROVE  Kind /\ RestOK
<1>1. "PreparedStatements" \in MapName
  BY DEF MapName
<1>2. CASE TypedSetter(c, u)
  BY <1>2, TypedSetterQuiet DEF Kind
<1>3. CASE Call(c, "PreparedStatements", u)
  BY <1>1, <1>3, CallQuiet DEF Kind
<1>4. CASE ClosePrepared(c, u)
  <2>1. CASE Unconnected("PreparedStatements", u)
    BY <1>1, <2>1, GuardedQuiet DEF Guarded, Kind
  <2>2. CASE deleteObject(c, "PreparedStatements", u)
    BY <1>1, <2>2, deleteObjectKind
  <2> QED BY <1>4, <2>1, <2>2 DEF ClosePrepared
<1> QED
  BY <1>2, <1>3, <1>4, ExecutePreparedKind
  DEF PreparedFunction, SetNumeric, SetString, SetBoolean, SetNull, SetValue,
      ClearParams, ParameterMetadata, ExecuteQueryPrepared, ExecuteUpdatePrepared

\* Every function that takes a data set is of one of the kinds.
LEMMA DataSetFunctionKind ==
  ASSUME TypeOK, NEW c \in Context, NEW u \in UUID, DataSetFunction(c, u)
  PROVE  Kind /\ RestOK
<1>1. "Statements" \in MapName /\ "Statements" # "Connections"
  BY DEF MapName
<1>2. CASE Call(c, "Statements", u)
  BY <1>1, <1>2, CallQuiet DEF Kind
<1>3. CASE Report(Answer("Statements", u, "SQL005"))
  BY <1>1, <1>3, AnswerType, ReportQuiet DEF Kind, Code
<1>4. CASE CloseDataSet(c, u)
  BY <1>1, <1>4, deleteObjectKind DEF CloseDataSet
<1> QED
  BY <1>2, <1>3, <1>4 DEF DataSetFunction, ResultSet, Metadata, AffectedRows

\* Every step is of one of the seven kinds, whatever function it runs; that
\* prepare-statement is no exception, without CHECK_CONNECTION, takes
\* LiveHandlesHaveEnv.
LEMMA StepKinds ==
  ASSUME TypeOK, LiveHandlesHaveEnv, Next
  PROVE  Kind /\ RestOK
<1>1. \A d \in Context, m \in MapName, v \in UUID : Holds(d, m, v) => env
  BY DEF LiveHandlesHaveEnv
<1> QED
  BY <1>1, ConnectKind, DestroyContextKind, DriverClosesKind,
     ConnectionFunctionKind, PreparedFunctionKind, DataSetFunctionKind
  DEF Next

-----------------------------------------------------------------------------
(* What the kinds of steps do to the entries of the maps *)

\* getUUID returns a handle that was never issued.
LEMMA FreshUUIDFacts ==
  ASSUME CanIssue
  PROVE  FreshUUID \in UUID /\ target[FreshUUID] = NULL
BY DEF CanIssue, FreshUUID

\* NextObject is an object that did not exist.
LEMMA NextObjectFacts ==
  ASSUME CanAllocate
  PROVE  NextObject \in Object /\ class[NextObject] = "none"
BY DEF CanAllocate, NextObject

\* Issue adds one entry and one target, under a handle that was in no map.
LEMMA IssueEffect ==
  ASSUME TypeOK, HandlesIssued, NEW c \in Context, NEW m \in MapName,
         NEW r \in Ref, NEW o \in Object, Issue(c, m, r, o)
  PROVE  /\ FreshUUID \in UUID /\ target[FreshUUID] = NULL
         /\ instanceMap' \in [Context -> [MapName -> [UUID -> Ref \cup {NULL}]]]
         /\ target' \in [UUID -> Object \cup {NULL}]
         /\ \A d \in Context, n \in MapName, v \in UUID :
              instanceMap'[d][n][v] =
                IF d = c /\ n = m /\ v = FreshUUID THEN r ELSE instanceMap[d][n][v]
         /\ \A v \in UUID :
              target'[v] = IF v = FreshUUID THEN o ELSE target[v]
         /\ closed' = closed /\ fault' = fault
<1>1. FreshUUID \in UUID /\ target[FreshUUID] = NULL
  BY FreshUUIDFacts DEF Issue
<1>2. instanceMap[c][m][FreshUUID] = NULL
  BY <1>1 DEF HandlesIssued, Holds, getInstance
<1> QED
  BY <1>1, <1>2 DEF TypeOK, InstanceMapTypeOK, Issue, storeInstance

\* An entry after Issue is the new one or one that was there, untouched.
LEMMA IssueEntries ==
  ASSUME TypeOK, HandlesIssued, NEW c \in Context, NEW m \in MapName,
         NEW r \in Ref, NEW o \in Object, Issue(c, m, r, o)
  PROVE  \A d \in Context, n \in MapName, v \in UUID :
           instanceMap'[d][n][v] # NULL =>
             \/ /\ d = c /\ n = m /\ v = FreshUUID
                /\ instanceMap'[d][n][v] = r /\ target'[v] = o
             \/ /\ instanceMap[d][n][v] # NULL
                /\ instanceMap'[d][n][v] = instanceMap[d][n][v]
                /\ v # FreshUUID /\ target[v] # NULL /\ target'[v] = target[v]
BY IssueEffect DEF HandlesIssued, Holds, getInstance

\* NewObject fills a slot that was empty, with an object that did not exist.
LEMMA NewObjectEffect ==
  ASSUME TypeOK, NEW cls \in Class, NEW p \in Object \cup {NULL}, NEW r \in Ref,
         NewObject(cls, p, r)
  PROVE  /\ NextObject \in Object /\ class[NextObject] = "none"
         /\ slot[r] = NULL
         /\ JavaTypeOK'
         /\ \A q \in Ref : slot'[q] = IF q = r THEN NextObject ELSE slot[q]
         /\ \A o \in Object : class'[o] = IF o = NextObject THEN cls ELSE class[o]
         /\ open' = open \cup {NextObject}
BY NextObjectFacts DEF NewObject, TypeOK, JavaTypeOK

\* deleteInstance empties one entry and the slot it referred to.
LEMMA deleteInstanceEffect ==
  ASSUME TypeOK, NEW c \in Context, NEW m \in MapName, NEW u \in UUID,
         Holds(c, m, u), deleteInstance(c, m, u)
  PROVE  /\ instanceMap' \in [Context -> [MapName -> [UUID -> Ref \cup {NULL}]]]
         /\ slot' \in [Ref -> Object \cup {NULL}]
         /\ \A d \in Context, n \in MapName, v \in UUID :
              instanceMap'[d][n][v] =
                IF d = c /\ n = m /\ v = u THEN NULL ELSE instanceMap[d][n][v]
         /\ \A q \in Ref :
              slot'[q] = IF q = instanceMap[c][m][u] THEN NULL ELSE slot[q]
BY DEF deleteInstance, DeleteLocalRefs, getInstance, TypeOK, JavaTypeOK,
       InstanceMapTypeOK

\* destroy() empties the entries of one context and the slots they referred to,
\* and leaves none of its connections open.
LEMMA destroyMapsEffect ==
  ASSUME TypeOK, NEW c \in Context, destroyMaps(c)
  PROVE  /\ instanceMap' \in [Context -> [MapName -> [UUID -> Ref \cup {NULL}]]]
         /\ slot' \in [Ref -> Object \cup {NULL}]
         /\ open' \subseteq open
         /\ \A d \in Context, n \in MapName, v \in UUID :
              instanceMap'[d][n][v] = IF d = c THEN NULL ELSE instanceMap[d][n][v]
         /\ \A q \in Ref :
              slot'[q] = IF \E n \in MapName, v \in UUID : instanceMap[c][n][v] = q
                           THEN NULL ELSE slot[q]
         /\ \A v \in UUID :
              instanceMap[c]["Connections"][v] # NULL =>
                slot[instanceMap[c]["Connections"][v]] \notin open'
<1>1. \A q \in Ref : q # NULL
  BY NullAssumption
<1>2. \A q \in Ref : (\E n \in MapName : q \in RefsIn(c, n)) <=>
                     (\E n \in MapName, v \in UUID : instanceMap[c][n][v] = q)
  BY <1>1 DEF RefsIn, getInstance
<1>3. \A q \in Ref :
        slot'[q] = IF \E n \in MapName : q \in RefsIn(c, n) THEN NULL ELSE slot[q]
  BY DEF destroyMaps, DeleteLocalRefs
<1>4. slot' \in [Ref -> Object \cup {NULL}]
  BY DEF destroyMaps, DeleteLocalRefs, TypeOK, JavaTypeOK
<1>5. /\ instanceMap' \in [Context -> [MapName -> [UUID -> Ref \cup {NULL}]]]
      /\ \A d \in Context, n \in MapName, v \in UUID :
           instanceMap'[d][n][v] = IF d = c THEN NULL ELSE instanceMap[d][n][v]
  BY DEF destroyMaps, EmptyMaps, TypeOK, InstanceMapTypeOK
<1>6. \A v \in UUID :
        instanceMap[c]["Connections"][v] # NULL =>
          slot[instanceMap[c]["Connections"][v]] \notin open'
  BY DEF destroyMaps, RefsIn, getInstance
<1> QED BY <1>2, <1>3, <1>4, <1>5, <1>6 DEF destroyMaps

-----------------------------------------------------------------------------
(* Every kind of step keeps the books *)

\* A step that changes no handle and no object keeps the books.
LEMMA QuietBookkeeping ==
  ASSUME Bookkeeping, Quiet, RestOK
  PROVE  Bookkeeping'
<1> USE DEF Quiet, javaVars, handleVars
<1>1. TypeOK'
  BY DEF Bookkeeping, TypeOK, JavaTypeOK, InstanceMapTypeOK, RestOK
<1>2. LiveHandlesHaveEnv'
  BY DEF Bookkeeping, LiveHandlesHaveEnv, Holds, getInstance
<1>3. (HandlesIssued /\ OnePlace /\ ClosedGone)'
  BY DEF Bookkeeping, HandlesIssued, OnePlace, ClosedGone, Holds, getInstance
<1>4. (TargetsCreated /\ HandlesFit /\ OnlyPreparedShared)'
  BY DEF Bookkeeping, TargetsCreated, HandlesFit, OnlyPreparedShared, Holds,
         getInstance
<1> QED BY <1>1, <1>2, <1>3, <1>4 DEF Bookkeeping

\* An object without a handle keeps the books: it is new to every target.
LEMMA AllocatesBookkeeping ==
  ASSUME Bookkeeping, Allocates, RestOK
  PROVE  Bookkeeping'
<1>1. PICK cls \in Class, p \in Object \cup {NULL}, r \in Ref : NewObject(cls, p, r)
  BY DEF Allocates
<1>2. /\ JavaTypeOK'
      /\ \A o \in Object : class[o] # "none" => class'[o] = class[o]
  BY <1>1, NewObjectEffect DEF Bookkeeping
<1> USE DEF Allocates, handleVars
<1>3. TypeOK'
  BY <1>2 DEF Bookkeeping, TypeOK, InstanceMapTypeOK, RestOK
<1>4. LiveHandlesHaveEnv'
  BY DEF Bookkeeping, LiveHandlesHaveEnv, Holds, getInstance
<1>5. (HandlesIssued /\ OnePlace /\ ClosedGone)'
  BY DEF Bookkeeping, HandlesIssued, OnePlace, ClosedGone, Holds, getInstance
<1>6. \A u \in UUID : target[u] # NULL => class'[target[u]] = class[target[u]]
  BY <1>2 DEF Bookkeeping, TargetsCreated, TypeOK
<1>7. (TargetsCreated /\ HandlesFit /\ OnlyPreparedShared)'
  BY <1>6 DEF Bookkeeping, TargetsCreated, HandlesFit, OnlyPreparedShared,
              HandlesIssued, Holds, getInstance
<1> QED BY <1>3, <1>4, <1>5, <1>7 DEF Bookkeeping

\* A new handle for a new object keeps the books.
LEMMA IssuesBookkeeping ==
  ASSUME Bookkeeping, Issues, RestOK
  PROVE  Bookkeeping'
<1>1. PICK c \in Context, m \in MapName, p \in Object \cup {NULL}, r \in Ref :
        \E cls \in Stored(m) \cap Class :
          /\ NewObject(cls, p, r)
          /\ Issue(c, m, r, NextObject)
          /\ m = "Statements" => cls = "Statement"
          /\ env'
  BY DEF Issues
<1>2. PICK cls \in Stored(m) \cap Class :
        NewObject(cls, p, r) /\ Issue(c, m, r, NextObject) /\ env'
  BY <1>1
<1> DEFINE F == FreshUUID  N == NextObject
<1>3. /\ N \in Object /\ class[N] = "none" /\ N # NULL
      /\ JavaTypeOK'
      /\ \A o \in Object : class'[o] = IF o = N THEN cls ELSE class[o]
  BY <1>2, NewObjectEffect, NullAssumption DEF Bookkeeping
<1>4. /\ F \in UUID /\ target[F] = NULL
      /\ instanceMap' \in [Context -> [MapName -> [UUID -> Ref \cup {NULL}]]]
      /\ target' \in [UUID -> Object \cup {NULL}]
      /\ \A d \in Context, n \in MapName, v \in UUID :
           instanceMap'[d][n][v] =
             IF d = c /\ n = m /\ v = F THEN r ELSE instanceMap[d][n][v]
      /\ \A v \in UUID : target'[v] = IF v = F THEN N ELSE target[v]
      /\ closed' = closed
  BY <1>2, <1>3, IssueEffect DEF Bookkeeping
<1> HIDE DEF F, N
<1>5. \A v \in UUID : target[v] # NULL => /\ target[v] # N
                                        /\ class'[target[v]] = class[target[v]]
  BY <1>3 DEF Bookkeeping, TargetsCreated, TypeOK
<1>6. TypeOK'
  BY <1>3, <1>4 DEF Bookkeeping, TypeOK, InstanceMapTypeOK, RestOK
<1>7. LiveHandlesHaveEnv'
  BY <1>2 DEF LiveHandlesHaveEnv
<1>8. \A d \in Context, n \in MapName, v \in UUID :
        instanceMap'[d][n][v] # NULL =>
          \/ d = c /\ n = m /\ v = F /\ target'[v] = N
          \/ /\ instanceMap[d][n][v] # NULL
             /\ v # F /\ target[v] # NULL /\ target'[v] = target[v]
  BY <1>2, <1>3, IssueEntries DEF Bookkeeping, F, N
<1>9. HandlesIssued' /\ OnePlace'
  <2>1. HandlesIssued'
    BY <1>3, <1>8 DEF HandlesIssued, Holds, getInstance
  <2>2. OnePlace'
    BY <1>8 DEF Bookkeeping, OnePlace, Holds, getInstance
  <2> QED BY <2>1, <2>2
<1>10. ClosedGone'
  BY <1>3, <1>4, <1>8 DEF Bookkeeping, ClosedGone, TypeOK, Holds, getInstance
<1>11. TargetsCreated'
  BY <1>2, <1>3, <1>4, <1>5 DEF Bookkeeping, TargetsCreated, Class
<1>12. HandlesFit'
  BY <1>2, <1>3, <1>5, <1>8 DEF Bookkeeping, HandlesFit, Holds, getInstance
<1>13. OnlyPreparedShared'
  BY <1>3, <1>4, <1>5 DEF Bookkeeping, OnlyPreparedShared
<1> QED
  BY <1>6, <1>7, <1>8, <1>9, <1>10, <1>11, <1>12, <1>13 DEF Bookkeeping

\* A further handle for a prepared statement keeps the books: it is the one
\* class that may be shared.
LEMMA AliasesBookkeeping ==
  ASSUME Bookkeeping, Aliases, RestOK
  PROVE  Bookkeeping'
<1>1. PICK c \in Context, u \in UUID :
        LET r == getInstance(c, "PreparedStatements", u)
        IN  /\ Holds(c, "PreparedStatements", u)
            /\ Denotes(r, {"PreparedStatement"})
            /\ Issue(c, "Statements", r, slot[r])
            /\ UNCHANGED <<javaVars, env>>
  BY DEF Aliases
<1> DEFINE r == instanceMap[c]["PreparedStatements"][u]
           F == FreshUUID  o == slot[r]
<1>2. /\ r \in Ref /\ o \in Object /\ o # NULL
      /\ class[o] = "PreparedStatement"
      /\ Issue(c, "Statements", r, o)
      /\ "Statements" \in MapName /\ "PreparedStatements" \in MapName
  BY <1>1, NullAssumption
  DEF Bookkeeping, TypeOK, JavaTypeOK, InstanceMapTypeOK, Holds, getInstance,
      Denotes, MapName
<1>3. /\ F \in UUID /\ target[F] = NULL
      /\ instanceMap' \in [Context -> [MapName -> [UUID -> Ref \cup {NULL}]]]
      /\ target' \in [UUID -> Object \cup {NULL}]
      /\ \A v \in UUID : target'[v] = IF v = F THEN o ELSE target[v]
      /\ closed' = closed
  BY <1>2, IssueEffect DEF Bookkeeping
<1>4. \A d \in Context, n \in MapName, v \in UUID :
        instanceMap'[d][n][v] # NULL =>
          \/ d = c /\ n = "Statements" /\ v = F /\ target'[v] = o
          \/ /\ instanceMap[d][n][v] # NULL
             /\ v # F /\ target[v] # NULL /\ target'[v] = target[v]
  BY <1>2, IssueEntries DEF Bookkeeping
<1>5. class' = class /\ env' = env /\ env /\ JavaTypeOK'
  BY <1>1, <1>2
  DEF Bookkeeping, TypeOK, JavaTypeOK, javaVars, LiveHandlesHaveEnv
<1> HIDE DEF F, o, r
<1>6. TypeOK'
  BY <1>3, <1>5 DEF Bookkeeping, TypeOK, InstanceMapTypeOK, RestOK
<1>7. LiveHandlesHaveEnv'
  BY <1>5 DEF LiveHandlesHaveEnv
<1>8. (HandlesIssued /\ OnePlace)'
  <2>1. HandlesIssued'
    BY <1>2, <1>4 DEF HandlesIssued, Holds, getInstance
  <2>2. OnePlace'
    BY <1>4 DEF Bookkeeping, OnePlace, Holds, getInstance
  <2> QED BY <2>1, <2>2
<1>9. ClosedGone'
  BY <1>2, <1>3, <1>4 DEF Bookkeeping, ClosedGone, TypeOK, Holds, getInstance
<1>10. TargetsCreated'
  BY <1>2, <1>3, <1>5 DEF Bookkeeping, TargetsCreated
<1>11. HandlesFit'
  BY <1>2, <1>4, <1>5, StoredClasses
  DEF Bookkeeping, HandlesFit, Holds, getInstance
<1>12. OnlyPreparedShared'
  BY <1>2, <1>3, <1>5 DEF Bookkeeping, OnlyPreparedShared
<1> QED
  BY <1>6, <1>7, <1>8, <1>9, <1>10, <1>11, <1>12 DEF Bookkeeping

\* An entry that is erased or left alone, while the targets stay.
LEMMA ErasedBookkeeping ==
  ASSUME Bookkeeping, RestOK,
         instanceMap' \in [Context -> [MapName -> [UUID -> Ref \cup {NULL}]]],
         slot' \in [Ref -> Object \cup {NULL}],
         open' \subseteq open, closed' \subseteq UUID, ClosedGone',
         UNCHANGED <<class, owner, target, env>>,
         \A d \in Context, n \in MapName, v \in UUID :
           instanceMap'[d][n][v] # NULL => instanceMap[d][n][v] # NULL
  PROVE  Bookkeeping'
<1>1. TypeOK'
  BY DEF Bookkeeping, TypeOK, JavaTypeOK, InstanceMapTypeOK, RestOK
<1>2. (LiveHandlesHaveEnv /\ HandlesIssued /\ OnePlace)'
  <2>1. LiveHandlesHaveEnv'
    BY DEF Bookkeeping, LiveHandlesHaveEnv, Holds, getInstance
  <2>2. HandlesIssued'
    BY DEF Bookkeeping, HandlesIssued, Holds, getInstance
  <2>3. OnePlace'
    BY DEF Bookkeeping, OnePlace, Holds, getInstance
  <2> QED BY <2>1, <2>2, <2>3
<1>3. (TargetsCreated /\ HandlesFit /\ OnlyPreparedShared)'
  <2>1. (TargetsCreated /\ OnlyPreparedShared)'
    BY DEF Bookkeeping, TargetsCreated, OnlyPreparedShared
  <2>2. HandlesFit'
    BY DEF Bookkeeping, HandlesFit, Holds, getInstance
  <2> QED BY <2>1, <2>2
<1> QED BY <1>1, <1>2, <1>3 DEF Bookkeeping

\* Every step of every function keeps the books.
LEMMA BookkeepingStep ==
  ASSUME Bookkeeping, Kind, RestOK
  PROVE  Bookkeeping'
<1>1. CASE Deletes
  <2>1. PICK c \in Context, m \in MapName \ {"Connections"}, u \in UUID :
          /\ Holds(c, m, u)
          /\ deleteInstance(c, m, u)
          /\ closed' = closed \cup {u}
          /\ UNCHANGED <<class, owner, open, target, env, fault>>
    BY <1>1 DEF Deletes
  <2>2. /\ instanceMap' \in [Context -> [MapName -> [UUID -> Ref \cup {NULL}]]]
        /\ slot' \in [Ref -> Object \cup {NULL}]
        /\ \A d \in Context, n \in MapName, v \in UUID :
             instanceMap'[d][n][v] # NULL =>
               instanceMap[d][n][v] # NULL /\ ~(d = c /\ n = m /\ v = u)
    BY <2>1, deleteInstanceEffect DEF Bookkeeping
  <2>3. \A d \in Context, n \in MapName : instanceMap'[d][n][u] = NULL
    BY <2>1, <2>2 DEF Bookkeeping, OnePlace, Holds, getInstance
  <2>4. target[u] # NULL
    BY <2>1 DEF Bookkeeping, HandlesIssued
  <2>5. ClosedGone'
    <3> SUFFICES ASSUME NEW v \in closed'
                 PROVE  /\ target'[v] # NULL
                        /\ \A d \in Context, n \in MapName : instanceMap'[d][n][v] = NULL
      BY DEF ClosedGone, Holds, getInstance
    <3>1. CASE v = u
      BY <2>1, <2>3, <2>4, <3>1
    <3>2. CASE v \in closed
      <4>1. v \in UUID
        BY <3>2 DEF Bookkeeping, TypeOK
      <4>2. /\ target[v] # NULL
            /\ \A d \in Context, n \in MapName : instanceMap[d][n][v] = NULL
        BY <3>2 DEF Bookkeeping, ClosedGone, Holds, getInstance
      <4> QED BY <2>1, <2>2, <4>1, <4>2
    <3> QED BY <2>1, <3>1, <3>2
  <2>6. closed' \subseteq UUID
    BY <2>1 DEF Bookkeeping, TypeOK
  <2> QED BY <2>1, <2>2, <2>5, <2>6, ErasedBookkeeping
<1>2. CASE Destroys
  <2>1. PICK c \in Context :
          /\ destroyMaps(c)
          /\ UNCHANGED <<class, owner, target, closed, env, fault>>
    BY <1>2 DEF Destroys
  <2>2. /\ instanceMap' \in [Context -> [MapName -> [UUID -> Ref \cup {NULL}]]]
        /\ slot' \in [Ref -> Object \cup {NULL}]
        /\ open' \subseteq open
        /\ \A d \in Context, n \in MapName, v \in UUID :
             instanceMap'[d][n][v] # NULL => instanceMap[d][n][v] # NULL
    BY <2>1, destroyMapsEffect DEF Bookkeeping
  <2>3. closed' \subseteq UUID /\ ClosedGone'
    BY <2>1, <2>2 DEF Bookkeeping, TypeOK, ClosedGone, Holds, getInstance
  <2> QED BY <2>1, <2>2, <2>3, ErasedBookkeeping
<1>3. CASE Closes
  <2>1. closed' \subseteq UUID /\ ClosedGone'
    BY <1>3 DEF Bookkeeping, Closes, handleVars, TypeOK, ClosedGone, Holds,
                getInstance
  <2>2. UNCHANGED <<instanceMap, slot, class, owner, target, env>> /\ open' \subseteq open
    BY <1>3 DEF Closes, handleVars
  <2>3. /\ instanceMap' \in [Context -> [MapName -> [UUID -> Ref \cup {NULL}]]]
        /\ slot' \in [Ref -> Object \cup {NULL}]
    BY <2>2 DEF Bookkeeping, TypeOK, InstanceMapTypeOK, JavaTypeOK
  <2> QED BY <2>1, <2>2, <2>3, ErasedBookkeeping
<1> QED
  BY <1>1, <1>2, <1>3, QuietBookkeeping, AllocatesBookkeeping,
     IssuesBookkeeping, AliasesBookkeeping
  DEF Kind

-----------------------------------------------------------------------------
(* Handles keep their object *)

\* Targets and closed handles are never forgotten.
LEMMA HistoryGrows ==
  ASSUME Bookkeeping, Kind
  PROVE  /\ \A u \in UUID : target[u] # NULL => target'[u] = target[u]
         /\ closed \subseteq closed'
<1>1. CASE Issues
  <2>1. PICK c \in Context, m \in MapName, r \in Ref, cls \in Class,
             p \in Object \cup {NULL} :
          NewObject(cls, p, r) /\ Issue(c, m, r, NextObject)
    BY <1>1 DEF Issues
  <2> QED BY <2>1, NewObjectEffect, IssueEffect DEF Bookkeeping
<1>2. CASE Aliases
  BY <1>2, FreshUUIDFacts DEF Aliases, Issue, Bookkeeping, TypeOK
<1> QED
  BY <1>1, <1>2 DEF Kind, Quiet, Allocates, Deletes, Destroys, Closes, handleVars

\* Once an alias was closed there is no way back.
LEMMA AliasClosedStays ==
  ASSUME Bookkeeping, Kind, AliasClosed
  PROVE  AliasClosed'
<1>1. PICK u \in closed : \E w \in UUID \ {u} : target[w] = target[u]
  BY DEF AliasClosed
<1>2. PICK w \in UUID \ {u} : target[w] = target[u]
  BY <1>1
<1>3. u \in UUID /\ target[u] # NULL
  BY DEF Bookkeeping, ClosedGone, TypeOK
<1>4. target'[u] = target'[w] /\ u \in closed'
  BY <1>2, <1>3, HistoryGrows
<1> QED BY <1>2, <1>4 DEF AliasClosed

Sound ==
  \A c \in Context, m \in MapName, u \in UUID :
    Holds(c, m, u) => slot[getInstance(c, m, u)] = target[u]

\* Sound and OneContext are kept by a step after which no alias is closed.
LEMMA AllocatesSound ==
  ASSUME Bookkeeping, Allocates, Sound, OneContext
  PROVE  (Sound /\ OneContext)'
<1>1. PICK cls \in Class, p \in Object \cup {NULL}, r \in Ref : NewObject(cls, p, r)
  BY DEF Allocates
<1>2. slot[r] = NULL /\ \A q \in Ref : q # r => slot'[q] = slot[q]
  BY <1>1, NewObjectEffect DEF Bookkeeping
<1>3. \A c \in Context, m \in MapName, u \in UUID :
        Holds(c, m, u) => instanceMap[c][m][u] \in Ref \ {r}
  BY <1>2 DEF Sound, Bookkeeping, HandlesIssued, TypeOK, InstanceMapTypeOK,
              Holds, getInstance
<1>4. Sound'
  BY <1>2, <1>3 DEF Allocates, handleVars, Sound, Holds, getInstance
<1>5. OneContext'
  BY DEF Allocates, handleVars, OneContext, Holds, getInstance
<1> QED BY <1>4, <1>5

\* A new handle denotes its object and takes the slot of no other.
LEMMA IssuesSound ==
  ASSUME Bookkeeping, Issues, Sound, OneContext
  PROVE  (Sound /\ OneContext)'
<1>1. PICK c \in Context, m \in MapName, r \in Ref, cls \in Class,
           p \in Object \cup {NULL} :
        NewObject(cls, p, r) /\ Issue(c, m, r, NextObject)
  BY DEF Issues
<1> DEFINE F == FreshUUID  N == NextObject
<1>2. /\ N \in Object /\ class[N] = "none" /\ slot[r] = NULL
      /\ \A q \in Ref : slot'[q] = IF q = r THEN N ELSE slot[q]
  BY <1>1, NewObjectEffect DEF Bookkeeping
<1>3. \A d \in Context, n \in MapName, v \in UUID :
        instanceMap'[d][n][v] # NULL =>
          \/ /\ d = c /\ n = m /\ v = F
             /\ instanceMap'[d][n][v] = r /\ target'[v] = N
          \/ /\ instanceMap[d][n][v] # NULL
             /\ instanceMap'[d][n][v] = instanceMap[d][n][v]
             /\ v # F /\ target[v] # NULL /\ target'[v] = target[v]
  BY <1>1, <1>2, IssueEntries DEF Bookkeeping
<1>4. \A d \in Context, n \in MapName, v \in UUID :
        instanceMap[d][n][v] # NULL =>
          /\ instanceMap[d][n][v] \in Ref \ {r}
          /\ slot[instanceMap[d][n][v]] = target[v]
          /\ target[v] # N
  BY <1>2 DEF Sound, Bookkeeping, HandlesIssued, TargetsCreated, TypeOK,
              InstanceMapTypeOK, Holds, getInstance
<1> HIDE DEF F, N
<1>5. Sound'
  BY <1>2, <1>3, <1>4 DEF Sound, Holds, getInstance
<1>6. OneContext'
  BY <1>3, <1>4 DEF OneContext, Holds, getInstance
<1> QED BY <1>5, <1>6

\* A further handle denotes what the prepared handle denotes, in its context.
LEMMA AliasesSound ==
  ASSUME Bookkeeping, Aliases, Sound, OneContext
  PROVE  (Sound /\ OneContext)'
<1>1. PICK c \in Context, u \in UUID :
        LET r == getInstance(c, "PreparedStatements", u)
        IN  /\ Holds(c, "PreparedStatements", u)
            /\ Denotes(r, {"PreparedStatement"})
            /\ Issue(c, "Statements", r, slot[r])
            /\ UNCHANGED <<javaVars, env>>
  BY DEF Aliases
<1> DEFINE r == instanceMap[c]["PreparedStatements"][u]
           F == FreshUUID  o == slot[r]
<1>2. /\ r \in Ref /\ r # NULL /\ o \in Object /\ o = target[u]
      /\ Issue(c, "Statements", r, o)
      /\ "Statements" \in MapName /\ "PreparedStatements" \in MapName
      /\ slot' = slot
  BY <1>1
  DEF Bookkeeping, TypeOK, JavaTypeOK, InstanceMapTypeOK, Holds, getInstance,
      Denotes, MapName, Sound, javaVars
<1>3. \A d \in Context, n \in MapName, v \in UUID :
        instanceMap'[d][n][v] # NULL =>
          \/ /\ d = c /\ n = "Statements" /\ v = F
             /\ instanceMap'[d][n][v] = r /\ target'[v] = o
          \/ /\ instanceMap[d][n][v] # NULL
             /\ instanceMap'[d][n][v] = instanceMap[d][n][v]
             /\ v # F /\ target[v] # NULL /\ target'[v] = target[v]
  BY <1>2, IssueEntries DEF Bookkeeping
<1>4. Sound'
  BY <1>2, <1>3 DEF Sound, Holds, getInstance
<1>5. \A d \in Context, n \in MapName, v \in UUID :
        instanceMap[d][n][v] # NULL /\ target[v] = o => d = c
  BY <1>2 DEF OneContext, Holds, getInstance
<1> HIDE DEF F, o, r
<1>6. OneContext'
  BY <1>3, <1>5 DEF OneContext, Holds, getInstance
<1> QED BY <1>4, <1>6

\* Here an unaliased close matters: the slot that is emptied is the slot of no
\* other handle.
LEMMA DeletesSound ==
  ASSUME Bookkeeping, Deletes, Sound, OneContext, ~AliasClosed'
  PROVE  (Sound /\ OneContext)'
<1>1. PICK c \in Context, m \in MapName, u \in UUID :
        /\ Holds(c, m, u) /\ deleteInstance(c, m, u)
        /\ closed' = closed \cup {u} /\ target' = target
  BY DEF Deletes
<1>2. /\ \A d \in Context, n \in MapName, v \in UUID :
           instanceMap'[d][n][v] =
             IF d = c /\ n = m /\ v = u THEN NULL ELSE instanceMap[d][n][v]
      /\ \A q \in Ref :
           slot'[q] = IF q = instanceMap[c][m][u] THEN NULL ELSE slot[q]
  BY <1>1, deleteInstanceEffect DEF Bookkeeping
<1>3. \A w \in UUID \ {u} : target[w] # target[u]
  BY <1>1 DEF AliasClosed
<1>4. \A d \in Context, n \in MapName, v \in UUID :
        instanceMap'[d][n][v] # NULL =>
          /\ instanceMap[d][n][v] # NULL
          /\ instanceMap'[d][n][v] = instanceMap[d][n][v]
          /\ instanceMap[d][n][v] \in Ref
          /\ v # u
  BY <1>1, <1>2
  DEF Bookkeeping, OnePlace, TypeOK, InstanceMapTypeOK, Holds, getInstance
<1>5. \A d \in Context, n \in MapName, v \in UUID :
        instanceMap'[d][n][v] # NULL => instanceMap[d][n][v] # instanceMap[c][m][u]
  BY <1>1, <1>3, <1>4 DEF Sound, Holds, getInstance
<1>6. Sound'
  BY <1>1, <1>2, <1>4, <1>5 DEF Sound, Holds, getInstance
<1>7. OneContext'
  BY <1>1, <1>4 DEF OneContext, Holds, getInstance
<1> QED BY <1>6, <1>7

\* Here one context per object matters: the slots emptied are the slots of no
\* handle of another context.
LEMMA DestroysSound ==
  ASSUME Bookkeeping, Destroys, Sound, OneContext
  PROVE  (Sound /\ OneContext)'
<1>1. PICK c \in Context : destroyMaps(c) /\ target' = target
  BY DEF Destroys
<1>2. /\ \A d \in Context, n \in MapName, v \in UUID :
           instanceMap'[d][n][v] = IF d = c THEN NULL ELSE instanceMap[d][n][v]
      /\ \A q \in Ref :
           slot'[q] = IF \E n \in MapName, v \in UUID : instanceMap[c][n][v] = q
                        THEN NULL ELSE slot[q]
  BY <1>1, destroyMapsEffect DEF Bookkeeping
<1>3. ASSUME NEW d \in Context, NEW n \in MapName, NEW v \in UUID,
             instanceMap'[d][n][v] # NULL
      PROVE  /\ d # c
             /\ instanceMap'[d][n][v] = instanceMap[d][n][v]
             /\ instanceMap[d][n][v] \in Ref
             /\ slot'[instanceMap[d][n][v]] = slot[instanceMap[d][n][v]]
  <2>1. d # c /\ instanceMap'[d][n][v] = instanceMap[d][n][v]
    BY <1>2, <1>3
  <2>2. instanceMap[d][n][v] \in Ref
    BY <1>3, <2>1 DEF Bookkeeping, TypeOK, InstanceMapTypeOK
  <2>3. \A l \in MapName, w \in UUID : instanceMap[c][l][w] # instanceMap[d][n][v]
    <3> SUFFICES ASSUME NEW l \in MapName, NEW w \in UUID,
                        instanceMap[c][l][w] = instanceMap[d][n][v]
                 PROVE  FALSE
      OBVIOUS
    <3>1. Holds(c, l, w) /\ Holds(d, n, v)
      BY <1>3, <2>1 DEF Holds, getInstance
    <3>2. target[w] = target[v]
      BY <3>1 DEF Sound, getInstance
    <3> QED BY <2>1, <3>1, <3>2 DEF OneContext
  <2> QED BY <1>2, <2>1, <2>2, <2>3
<1>4. Sound'
  BY <1>1, <1>3 DEF Sound, Holds, getInstance
<1>5. OneContext'
  BY <1>1, <1>3 DEF OneContext, Holds, getInstance
<1> QED BY <1>4, <1>5

\* Unless an alias was closed, every step leaves every handle on its object.
LEMMA SoundStep ==
  ASSUME Bookkeeping, Kind, HandlesKeepTheirObject, AliasClosed \/ OneContext
  PROVE  (HandlesKeepTheirObject /\ (AliasClosed \/ OneContext))'
<1> SUFFICES ASSUME ~AliasClosed'
             PROVE  (Sound /\ OneContext)'
  BY DEF HandlesKeepTheirObject, Sound
<1>1. Sound /\ OneContext
  BY AliasClosedStays DEF HandlesKeepTheirObject, Sound
<1>2. CASE Quiet \/ Closes
  BY <1>1, <1>2 DEF Quiet, Closes, javaVars, handleVars, Sound, OneContext,
                    Holds, getInstance
<1> QED
  BY <1>1, <1>2, AllocatesSound, IssuesSound, AliasesSound, DeletesSound,
     DestroysSound
  DEF Kind

-----------------------------------------------------------------------------
(* No call on a dead reference, no connection left open *)

\* While handles keep their object, every entry is good for the calls its map
\* is there for, and a connection shares its reference with nobody.
LEMMA NoStaleEntry ==
  ASSUME Bookkeeping, Sound
  PROVE  ~StaleEntry
<1>1. ASSUME NEW c \in Context, NEW m \in MapName, NEW u \in UUID, Holds(c, m, u)
      PROVE  Denotes(getInstance(c, m, u), Stored(m))
  BY <1>1 DEF Bookkeeping, HandlesIssued, HandlesFit, Sound, Denotes
<1>2. ASSUME NEW c \in Context, SharesConnectionRef(c)
      PROVE  FALSE
  <2>1. PICK u, v \in UUID, m \in MapName :
          /\ <<m, v>> # <<"Connections", u>>
          /\ Holds(c, "Connections", u)
          /\ getInstance(c, m, v) = getInstance(c, "Connections", u)
    BY <1>2 DEF SharesConnectionRef
  <2>2. Holds(c, m, v) /\ "Connections" \in MapName
    BY <2>1 DEF Holds, MapName
  <2>3. target[v] = target[u] /\ target[u] # NULL
    BY <2>1, <2>2 DEF Sound, Bookkeeping, HandlesIssued
  <2>4. class[target[u]] = "Connection"
    BY <2>1, <2>2, StoredClasses DEF Bookkeeping, HandlesFit
  <2>5. u = v
    BY <2>3, <2>4 DEF Bookkeeping, OnlyPreparedShared
  <2> QED BY <2>1, <2>2, <2>5 DEF Bookkeeping, OnePlace
<1> QED BY <1>1, <1>2 DEF StaleEntry

\* Unless an alias was closed, no step makes a JNI call on a stale entry.
LEMMA NoStaleCallStep ==
  ASSUME Bookkeeping, Kind, HandlesKeepTheirObject, NoStaleCall
  PROVE  NoStaleCall'
<1> SUFFICES ASSUME fault' = "stale", ~AliasClosed
             PROVE  FALSE
  BY AliasClosedStays DEF NoStaleCall
<1>1. fault # "stale" /\ ~StaleEntry
  BY NoStaleEntry DEF NoStaleCall, HandlesKeepTheirObject, Sound
<1>2. ~Issues /\ ~Aliases
  BY <1>1 DEF Issues, Aliases, Issue
<1> QED
  BY <1>1, <1>2 DEF Kind, Quiet, Allocates, Deletes, Destroys, Closes

\* A connection handed out and in no map any more is closed.
OrphansClosed ==
  \A u \in UUID :
    /\ target[u] # NULL /\ class[target[u]] = "Connection"
    /\ \A c \in Context : ~Holds(c, "Connections", u)
    => target[u] \notin open

\* A new connection is in a map: it is no orphan.
LEMMA IssuesOrphans ==
  ASSUME Bookkeeping, Issues, OrphansClosed
  PROVE  OrphansClosed'
<1>1. PICK c \in Context, m \in MapName, p \in Object \cup {NULL}, r \in Ref,
           cls \in Class :
        cls \in Stored(m) /\ NewObject(cls, p, r) /\ Issue(c, m, r, NextObject)
  BY DEF Issues
<1>2. /\ NextObject \in Object /\ class[NextObject] = "none"
      /\ \A o \in Object : class'[o] = IF o = NextObject THEN cls ELSE class[o]
      /\ open' = open \cup {NextObject}
  BY <1>1, NewObjectEffect DEF Bookkeeping
<1>3. /\ \A d \in Context, n \in MapName, v \in UUID :
           instanceMap'[d][n][v] =
             IF d = c /\ n = m /\ v = FreshUUID THEN r ELSE instanceMap[d][n][v]
      /\ \A v \in UUID :
           target'[v] = IF v = FreshUUID THEN NextObject ELSE target[v]
      /\ FreshUUID \in UUID
  BY <1>1, <1>2, IssueEffect DEF Bookkeeping
<1> SUFFICES ASSUME NEW u \in UUID, target'[u] # NULL,
                    class'[target'[u]] = "Connection",
                    \A d \in Context : instanceMap'[d]["Connections"][u] = NULL
             PROVE  target'[u] \notin open'
  BY DEF OrphansClosed, Holds, getInstance
<1>4. r # NULL /\ "Connections" \in MapName
  BY NullAssumption DEF MapName
<1>5. CASE u = FreshUUID
  <2>1. cls = "Connection"
    BY <1>2, <1>3, <1>5
  <2>2. m = "Connections"
    BY <1>1, <2>1, StoredClasses DEF MapName
  <2> QED BY <1>3, <1>4, <1>5, <2>2
<1>6. CASE u # FreshUUID
  <2>1. target'[u] = target[u] /\ target[u] # NULL /\ target[u] \in Object
    BY <1>3, <1>6 DEF Bookkeeping, TypeOK
  <2>2. target[u] # NextObject /\ class[target[u]] = "Connection"
    BY <1>2, <2>1 DEF Bookkeeping, TargetsCreated
  <2>3. \A d \in Context : instanceMap[d]["Connections"][u] = NULL
    BY <1>3, <1>4, <1>6
  <2> QED BY <1>2, <2>1, <2>2, <2>3 DEF OrphansClosed, Holds, getInstance
<1> QED BY <1>5, <1>6

\* execute-prepared orphans no connection.
LEMMA AliasesOrphans ==
  ASSUME Bookkeeping, Aliases, OrphansClosed
  PROVE  OrphansClosed'
<1>1. PICK c \in Context, w \in UUID :
        LET r == getInstance(c, "PreparedStatements", w)
        IN  /\ Holds(c, "PreparedStatements", w)
            /\ Denotes(r, {"PreparedStatement"})
            /\ Issue(c, "Statements", r, slot[r])
            /\ UNCHANGED <<javaVars, env>>
  BY DEF Aliases
<1> DEFINE r == instanceMap[c]["PreparedStatements"][w]
<1>2. /\ r \in Ref /\ slot[r] \in Object
      /\ class[slot[r]] = "PreparedStatement"
      /\ Issue(c, "Statements", r, slot[r])
      /\ "Statements" \in MapName /\ "Connections" \in MapName
      /\ class' = class /\ open' = open
  BY <1>1
  DEF Bookkeeping, TypeOK, JavaTypeOK, InstanceMapTypeOK, Holds, getInstance,
      Denotes, MapName, javaVars
<1>3. /\ \A d \in Context, v \in UUID :
           instanceMap'[d]["Connections"][v] = instanceMap[d]["Connections"][v]
      /\ \A v \in UUID :
           target'[v] = IF v = FreshUUID THEN slot[r] ELSE target[v]
  BY <1>2, IssueEffect DEF Bookkeeping
<1> QED BY <1>2, <1>3 DEF OrphansClosed, Holds, getInstance

\* The connections of the context destroyed are closed when they are orphaned.
LEMMA DestroysOrphans ==
  ASSUME Bookkeeping, Destroys, Sound, OrphansClosed
  PROVE  OrphansClosed'
<1>1. PICK c \in Context : destroyMaps(c) /\ UNCHANGED <<class, target>>
  BY DEF Destroys
<1>2. /\ \A d \in Context, n \in MapName, v \in UUID :
           instanceMap'[d][n][v] = IF d = c THEN NULL ELSE instanceMap[d][n][v]
      /\ open' \subseteq open
      /\ \A v \in UUID :
           instanceMap[c]["Connections"][v] # NULL =>
             slot[instanceMap[c]["Connections"][v]] \notin open'
      /\ "Connections" \in MapName
  BY <1>1, destroyMapsEffect DEF Bookkeeping, MapName
<1> SUFFICES ASSUME NEW u \in UUID, target[u] # NULL,
                    class[target[u]] = "Connection",
                    \A d \in Context : instanceMap'[d]["Connections"][u] = NULL
             PROVE  target[u] \notin open'
  BY <1>1 DEF OrphansClosed, Holds, getInstance
<1>3. CASE Holds(c, "Connections", u)
  BY <1>2, <1>3 DEF Sound, Holds, getInstance
<1>4. CASE ~Holds(c, "Connections", u)
  BY <1>2, <1>4 DEF OrphansClosed, Holds, getInstance
<1> QED BY <1>3, <1>4

\* Unless an alias was closed, no step orphans a connection that is open.
LEMMA OrphansStep ==
  ASSUME Bookkeeping, Kind, HandlesKeepTheirObject, ConnectionsClosedWithContext
  PROVE  ConnectionsClosedWithContext'
<1> SUFFICES ASSUME ~AliasClosed'
             PROVE  OrphansClosed'
  BY DEF ConnectionsClosedWithContext, OrphansClosed
<1>1. Sound /\ OrphansClosed
  BY AliasClosedStays
  DEF HandlesKeepTheirObject, Sound, ConnectionsClosedWithContext, OrphansClosed
<1>2. CASE Quiet \/ Closes
  BY <1>1, <1>2 DEF Quiet, Closes, javaVars, handleVars, OrphansClosed, Holds,
                    getInstance
<1>3. CASE Allocates
  <2>1. PICK cls \in Class, p \in Object \cup {NULL}, r \in Ref : NewObject(cls, p, r)
    BY <1>3 DEF Allocates
  <2>2. /\ class[NextObject] = "none" /\ open' = open \cup {NextObject}
        /\ \A o \in Object : o # NextObject => class'[o] = class[o]
    BY <2>1, NewObjectEffect DEF Bookkeeping
  <2>3. \A u \in UUID : target[u] # NULL =>
          target[u] # NextObject /\ class'[target[u]] = class[target[u]]
    BY <2>2 DEF Bookkeeping, TargetsCreated, TypeOK
  <2> QED
    BY <1>1, <1>3, <2>2, <2>3 DEF Allocates, handleVars, OrphansClosed, Holds,
                                  getInstance
<1>4. CASE Deletes
  <2>1. PICK c \in Context, m \in MapName \ {"Connections"}, u \in UUID :
          /\ Holds(c, m, u) /\ deleteInstance(c, m, u)
          /\ UNCHANGED <<class, open, target>>
    BY <1>4 DEF Deletes
  <2>2. \A d \in Context, v \in UUID :
          instanceMap'[d]["Connections"][v] = instanceMap[d]["Connections"][v]
    BY <2>1, deleteInstanceEffect DEF Bookkeeping, MapName
  <2> QED BY <1>1, <2>1, <2>2 DEF OrphansClosed, Holds, getInstance
<1> QED
  BY <1>1, <1>2, <1>3, <1>4, IssuesOrphans, AliasesOrphans, DestroysOrphans
  DEF Kind

-----------------------------------------------------------------------------
(* The theorems *)

\* The inductive invariant holds before the first call.
LEMMA InitIInv == Init => IInv
<1> SUFFICES ASSUME Init PROVE IInv
  OBVIOUS
<1>1. \A c \in Context, m \in MapName, u \in UUID : ~Holds(c, m, u)
  BY DEF Init, InitInstanceMaps, EmptyMaps, Holds, getInstance
<1>2. TypeOK
  BY SilentType
  DEF Init, InitJava, InitInstanceMaps, EmptyMaps, TypeOK, JavaTypeOK,
      InstanceMapTypeOK
<1>3. closed = {} /\ fault = "none" /\ \A u \in UUID : target[u] = NULL
  BY DEF Init
<1>4. Bookkeeping
  BY <1>1, <1>2, <1>3
  DEF Bookkeeping, LiveHandlesHaveEnv, HandlesIssued, OnePlace, ClosedGone,
      TargetsCreated, HandlesFit, OnlyPreparedShared
<1> QED
  BY <1>1, <1>3, <1>4
  DEF IInv, HandlesKeepTheirObject, OneContext, NoStaleCall,
      ConnectionsClosedWithContext

\* Every step of the module, or of the driver, keeps the inductive invariant.
LEMMA IInvStep == IInv /\ [Next]_vars => IInv'
<1> SUFFICES ASSUME IInv, [Next]_vars PROVE IInv'
  OBVIOUS
<1>1. CASE Next
  <2>1. Kind /\ RestOK
    BY <1>1, StepKinds DEF IInv, Bookkeeping
  <2> QED
    BY <2>1, BookkeepingStep, SoundStep, NoStaleCallStep, OrphansStep DEF IInv
<1>2. CASE UNCHANGED vars
  <2> USE <1>2 DEF vars, javaVars, handleVars
  <2>1. Quiet /\ RestOK
    BY DEF Quiet, RestOK, IInv, Bookkeeping, TypeOK
  <2> QED
    BY <2>1, BookkeepingStep, SoundStep, NoStaleCallStep, OrphansStep
    DEF IInv, Kind
<1> QED BY <1>1, <1>2

\* IInv is an invariant of JdbcModule.
THEOREM IInvInvariant == Spec => []IInv
BY InitIInv, IInvStep, PTL DEF Spec

\* The variables have their types.
THEOREM TypeCorrect == Spec => []TypeOK
<1>1. IInv => TypeOK
  BY DEF IInv, Bookkeeping
<1> QED BY <1>1, IInvInvariant, PTL

\* A function that skips CHECK_CONNECTION finds no handle while env is NULL.
THEOREM EnvGuardsHandles == Spec => []LiveHandlesHaveEnv
<1>1. IInv => LiveHandlesHaveEnv
  BY DEF IInv, Bookkeeping
<1> QED BY <1>1, IInvInvariant, PTL

\* Until the query closes an alias, a handle denotes the object it was issued
\* for, however the contexts' calls interleave and slots are reused.
THEOREM HandlesAreSound == Spec => []HandlesKeepTheirObject
<1>1. IInv => HandlesKeepTheirObject
  BY DEF IInv
<1> QED BY <1>1, IInvInvariant, PTL

\* Until the query closes an alias, no JNI call is made on a dead reference.
THEOREM CallsAreSound == Spec => []NoStaleCall
<1>1. IInv => NoStaleCall
  BY DEF IInv
<1> QED BY <1>1, IInvInvariant, PTL

\* Until the query closes an alias, every connection that was handed out is
\* closed when its context is gone.
THEOREM ConnectionsAreClosed == Spec => []ConnectionsClosedWithContext
<1>1. IInv => ConnectionsClosedWithContext
  BY DEF IInv
<1> QED BY <1>1, IInvInvariant, PTL

\* The kinds that change a handle report nothing.
LEMMA ErrorsStep ==
  IInv /\ [Next]_vars =>
    [reply'.code \notin {"ok", "true", "false"} => UNCHANGED handleVars]_vars
<1> SUFFICES ASSUME IInv, Next, reply'.code \notin {"ok", "true", "false"}
             PROVE  UNCHANGED handleVars
  OBVIOUS
<1>1. reply' # Silent
  BY DEF Silent, Answer
<1>2. Kind
  BY StepKinds DEF IInv, Bookkeeping
<1>3. CASE Quiet \/ Allocates \/ Closes
  BY <1>3 DEF Quiet, Allocates, Closes
<1>4. CASE Issues \/ Aliases
  BY <1>1, <1>4 DEF Issues, Aliases, Issue
<1>5. CASE Deletes \/ Destroys
  BY <1>1, <1>5 DEF Deletes, Destroys
<1> QED
  BY <1>2, <1>3, <1>4, <1>5 DEF Kind

\* No call both reports an error and changes a handle, for any number of
\* contexts, handles and objects.
THEOREM ErrorsLeaveHandles == Spec => ErrorsChangeNoHandle
BY ErrorsStep, IInvInvariant, PTL DEF Spec, ErrorsChangeNoHandle

-----------------------------------------------------------------------------
(* Handles that are gone *)

\* No kind of step moves an entry, or gives an old handle a new one.
LEMMA EntriesOnlyGo ==
  ASSUME Bookkeeping, Kind, NEW u \in UUID, target[u] # NULL,
         NEW c \in Context, NEW m \in MapName
  PROVE  instanceMap'[c][m][u] \in {instanceMap[c][m][u], NULL}
<1>1. CASE Quiet \/ Allocates \/ Closes
  BY <1>1 DEF Quiet, Allocates, Closes, handleVars
<1>2. ASSUME NEW d \in Context, NEW n \in MapName, NEW r \in Ref, NEW o \in Object,
             Issue(d, n, r, o)
      PROVE  instanceMap'[c][m][u] = instanceMap[c][m][u]
  BY <1>2, IssueEffect DEF Bookkeeping
<1>3. CASE Issues
  <2>1. PICK d \in Context, n \in MapName, r \in Ref, cls \in Class, q \in Object \cup {NULL} :
          NewObject(cls, q, r) /\ Issue(d, n, r, NextObject)
    BY <1>3 DEF Issues
  <2>2. NextObject \in Object
    BY <2>1, NewObjectEffect DEF Bookkeeping
  <2> QED BY <1>2, <2>1, <2>2
<1>4. CASE Aliases
  <2>1. PICK d \in Context, v \in UUID :
          LET r == getInstance(d, "PreparedStatements", v)
          IN  /\ Holds(d, "PreparedStatements", v)
              /\ Denotes(r, {"PreparedStatement"})
              /\ Issue(d, "Statements", r, slot[r])
    BY <1>4 DEF Aliases
  <2> DEFINE r == instanceMap[d]["PreparedStatements"][v]
  <2>2. /\ r \in Ref /\ slot[r] \in Object /\ "Statements" \in MapName
        /\ Issue(d, "Statements", r, slot[r])
    BY <2>1
    DEF Bookkeeping, TypeOK, JavaTypeOK, InstanceMapTypeOK, Holds, getInstance,
        Denotes, MapName
  <2> QED BY <1>2, <2>2
<1>5. CASE Deletes
  <2>1. PICK d \in Context, n \in MapName, v \in UUID :
          Holds(d, n, v) /\ deleteInstance(d, n, v)
    BY <1>5 DEF Deletes
  <2> QED BY <2>1, deleteInstanceEffect DEF Bookkeeping
<1>6. CASE Destroys
  <2>1. PICK d \in Context : destroyMaps(d)
    BY <1>6 DEF Destroys
  <2> QED BY <2>1, destroyMapsEffect DEF Bookkeeping
<1> QED BY <1>1, <1>3, <1>4, <1>5, <1>6 DEF Kind

\* An issued handle stays where it is until it is gone, and is gone for good:
\* storeInstance never meets an entry, getUUID never repeats itself, and no map
\* takes over from another.
THEOREM HandlesNeverReturn == Spec => GoneForGood
<1> DEFINE Stays ==
      UNCHANGED handleVars \/ \A u \in UUID : target[u] # NULL =>
        /\ target'[u] = target[u]
        /\ \A c \in Context, m \in MapName :
             instanceMap'[c][m][u] \in {instanceMap[c][m][u], NULL}
<1>1. IInv /\ [Next]_vars => [Stays]_vars
  <2> SUFFICES ASSUME IInv, Next PROVE Stays
    OBVIOUS
  <2>1. Bookkeeping /\ Kind
    BY StepKinds DEF IInv, Bookkeeping
  <2> QED BY <2>1, HistoryGrows, EntriesOnlyGo
<1>2. GoneForGood <=> [][Stays]_vars
  BY DEF GoneForGood
<1> QED BY <1>1, <1>2, IInvInvariant, PTL DEF Spec
=============================================================================
