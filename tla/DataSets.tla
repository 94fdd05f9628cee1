------------------------------ MODULE DataSets ------------------------------
(***************************************************************************)
(* Results of queries and those who read them.  A function that answers a  *)
(* query returns a JSONItemSequence over a Java ResultSet; the engine asks *)
(* it for iterators and pulls rows from them between other calls.  All the *)
(* iterators over a result share its one cursor, and so does affected-rows.*)
(* Handles are those of JdbcModule: here every data set and every prepared *)
(* statement is found, and a call that is refused changes nothing unless   *)
(* an action says so.                                                      *)
(***************************************************************************)
EXTENDS Integers, Sequences, FiniteSets

CONSTANTS Result,    \* the Java ResultSets
          Statement, \* the Java statements
          DataSet,   \* the data set handles
          Reader,    \* the iterators
          RowCount,  \* how many rows a query can return
          NULL

ASSUME RowCountAssumption == RowCount \subseteq Nat

ASSUME OutcomeAssumption ==
  NULL \notin Result \cup Statement \cup Nat /\ "updated" \notin Result \cup {NULL}

VARIABLES
  rows,      \* rows[r]: the number of rows of result r, NULL before it exists
  live,      \* the results that are open
  pos,       \* pos[r]: the row the cursor is on, 0 before the first
  sql,       \* sql[s]: what kind of statement s is, "none" before s exists
  prepared,  \* the statements made by prepare-statement
  outcome,   \* outcome[s]: the result s has now, "updated", or NULL: neither
  dataset,   \* dataset[d]: the statement d stands for, or NULL
  issuedFor, \* history: the outcome of the execution that returned d
  offered,   \* the results (or NULL) a JSONItemSequence was made for
  reader,    \* reader[i]: the state of iterator i and its result
  delivered, \* history: the rows pulled from r, in order, by all readers
  lost,      \* history: the rows of r the cursor passed that nobody got
  refused,   \* history: an execution of a prepared statement was refused
  counted,   \* the last answer of affected-rows about a query, or NULL
  fault      \* "null": a JNI call on a NULL result set

\* A "silent" statement (DDL, a procedure) may give no result: no rows, and an
\* update count of -1 when it is executed.
SqlKind == {"query", "update", "silent"}

cursorVars == <<rows, live, pos>>
statementVars == <<sql, prepared, outcome, dataset, issuedFor, refused>>
readerVars == <<offered, reader, delivered, lost>>
vars == <<cursorVars, statementVars, readerVars, counted, fault>>

TypeOK ==
  /\ rows \in [Result -> RowCount \cup {NULL}]
  /\ live \subseteq Result
  /\ pos \in [Result -> Nat]
  /\ sql \in [Statement -> SqlKind \cup {"none"}]
  /\ prepared \subseteq Statement
  /\ outcome \in [Statement -> Result \cup {"updated", NULL}]
  /\ dataset \in [DataSet -> Statement \cup {NULL}]
  /\ issuedFor \in [DataSet -> Result \cup {"updated", NULL}]
  /\ offered \subseteq Result \cup {NULL}
  /\ reader \in [Reader -> [state : {"new", "open", "ended", "stopped"},
                            result : Result \cup {NULL}]]
  /\ delivered \in [Result -> Seq(Nat)]
  /\ lost \in [Result -> SUBSET Nat]
  /\ refused \subseteq prepared
  /\ counted \in [result : Result, count : Nat] \cup {NULL}
  /\ fault \in {"none", "null"}

Init ==
  /\ rows = [r \in Result |-> NULL]
  /\ live = {}
  /\ pos = [r \in Result |-> 0]
  /\ sql = [s \in Statement |-> "none"]
  /\ prepared = {}
  /\ outcome = [s \in Statement |-> NULL]
  /\ dataset = [d \in DataSet |-> NULL]
  /\ issuedFor = [d \in DataSet |-> NULL]
  /\ offered = {}
  /\ reader = [i \in Reader |-> [state |-> "new", result |-> NULL]]
  /\ delivered = [r \in Result |-> << >>]
  /\ lost = [r \in Result |-> {}]
  /\ refused = {}
  /\ counted = NULL
  /\ fault = "none"

-----------------------------------------------------------------------------
(* Executing *)

\* Result r comes into being with some rows, cursor before the first; the
\* results in replaced are closed.
NewResult(r, replaced) ==
  /\ rows[r] = NULL
  /\ \E n \in RowCount : rows' = [rows EXCEPT ![r] = n]
  /\ live' = (live \ replaced) \cup {r}
  /\ UNCHANGED pos

\* What executing a statement of this kind gives; o is its new outcome, the
\* first result: getMoreResults is never called.
Runs(kind, replaced, o) ==
  \/ /\ kind = "query" /\ o \in Result
     /\ NewResult(o, replaced)
  \/ /\ \/ kind = "update" /\ o = "updated"
        \/ kind = "silent" /\ o \in {"updated", NULL}
     /\ live' = live \ replaced
     /\ UNCHANGED <<rows, pos>>

Outcomes == Result \cup {"updated", NULL}

\* The handle returned for statement s with outcome o.
NewDataSet(s, o) ==
  \E d \in DataSet :
    /\ dataset[d] = NULL
    /\ dataset' = [dataset EXCEPT ![d] = s]
    /\ issuedFor' = [issuedFor EXCEPT ![d] = o]

\* A slip to guard against: the handle is stored before the statement runs,
\* and stays when it is turned down.
ExecuteStoresFirst(s) ==
  /\ sql[s] = "none"
  /\ \E kind \in {"query", "update"} : sql' = [sql EXCEPT ![s] = kind]
  /\ NewDataSet(s, NULL)
  /\ UNCHANGED <<cursorVars, prepared, outcome, refused, readerVars, counted, fault>>

Execute(s) ==
  \E kind \in SqlKind, o \in Outcomes :
    /\ sql[s] = "none"
    /\ Runs(kind, {}, o)
    /\ sql' = [sql EXCEPT ![s] = kind]
    /\ outcome' = [outcome EXCEPT ![s] = o]
    /\ NewDataSet(s, o)
    /\ UNCHANGED <<prepared, refused, readerVars, counted, fault>>

\* A slip to guard against: the query is run on a statement that is there.
ExecuteQueryReuses ==
  \E s \in Statement, r \in Result :
    /\ sql[s] # "none"
    /\ NewResult(r, {outcome[s]})
    /\ outcome' = [outcome EXCEPT ![s] = r]
    /\ offered' = offered \cup {r}
    /\ UNCHANGED <<sql, prepared, dataset, issuedFor, refused, reader, delivered,
                   lost, counted, fault>>

\* The statement has no handle: its result is reached by the sequence only.
\* tables() ends the same way.
ExecuteQuery ==
  \E r \in Result :
    /\ NewResult(r, {})
    /\ offered' = offered \cup {r}
    /\ UNCHANGED <<statementVars, reader, delivered, lost, counted, fault>>

PrepareStatement(s) ==
  /\ sql[s] = "none"
  /\ \E kind \in SqlKind : sql' = [sql EXCEPT ![s] = kind]
  /\ prepared' = prepared \cup {s}
  /\ UNCHANGED <<cursorVars, outcome, dataset, issuedFor, refused, readerVars,
                 counted, fault>>

\* The driver turns an execution down.  It may have closed the result of the
\* one before, and then the statement has none.
Refuse(s) ==
  /\ s \in prepared
  /\ refused' = refused \cup {s}
  /\ \/ UNCHANGED <<live, outcome>>
     \/ /\ live' = live \ {outcome[s]}
        /\ outcome' = [outcome EXCEPT ![s] = NULL]
  /\ UNCHANGED <<rows, pos, sql, prepared, dataset, issuedFor, readerVars,
                 counted, fault>>

\* A prepared statement runs again and gives o: its earlier result is closed,
\* whoever is still reading it.
RunsAgain(s, o) ==
  /\ s \in prepared
  /\ Runs(sql[s], {outcome[s]}, o)
  /\ outcome' = [outcome EXCEPT ![s] = o]
  /\ refused' = refused \ {s}
  /\ UNCHANGED <<sql, prepared, reader, delivered, lost, counted, fault>>

\* The data set returned stands for the statement, not for this execution.
ExecutePrepared(s) ==
  \/ Refuse(s)
  \/ \E o \in Outcomes :
       /\ RunsAgain(s, o)
       /\ NewDataSet(s, o)
       /\ UNCHANGED offered

ExecuteQueryPrepared(s) ==
  \/ Refuse(s)
  \/ \E r \in Result :
       /\ RunsAgain(s, r)
       /\ offered' = offered \cup {r}
       /\ UNCHANGED <<dataset, issuedFor>>

ExecuteUpdatePrepared(s) ==
  \/ Refuse(s)
  \/ \E o \in {"updated", NULL} :
       /\ RunsAgain(s, o)
       /\ UNCHANGED <<dataset, issuedFor, offered>>

-----------------------------------------------------------------------------
(* Data sets *)

\* SQL005 when the statement counted updates.  The update count of a statement
\* without a result is -1 as well, and its result set NULL.
ResultSet(d) ==
  /\ dataset[d] # NULL
  /\ outcome[dataset[d]] # "updated"
  /\ offered' = offered \cup {outcome[dataset[d]]}
  /\ UNCHANGED <<cursorVars, statementVars, reader, delivered, lost, counted, fault>>

\* A call on the NULL result set of data set d.
CallsNull(d) ==
  /\ dataset[d] # NULL
  /\ outcome[dataset[d]] = NULL
  /\ fault' = "null"
  /\ UNCHANGED <<cursorVars, statementVars, readerVars, counted>>

\* getMetaData of the result; the rest reads.
Metadata(d) == CallsNull(d)

\* What is left of an int that comes back as a jboolean: its low byte, or its
\* low bit where the machine normalises.
Narrowed(n) == {n % 256, n % 2}

\* A slip to guard against: the cursor is put back, but to the first row.
LastRewinds(r) ==
  /\ r \in live
  /\ pos' = [pos EXCEPT ![r] = 0]
  /\ UNCHANGED lost

\* last(): the cursor goes to the last row, if there is one, and the rows it
\* passes reach nobody.
Last(r) ==
  /\ r \in live
  /\ IF rows[r] > 0
       THEN /\ pos' = [pos EXCEPT ![r] = rows[r]]
            /\ lost' = [lost EXCEPT ![r] = @ \cup (pos[r] + 1 .. rows[r])]
       ELSE UNCHANGED <<pos, lost>>

\* A slip to guard against: the -1 of the update count is the answer for a
\* query without rows.
AffectedRowsNoElse(d) ==
  \E r \in Result :
    /\ dataset[d] # NULL
    /\ outcome[dataset[d]] = r
    /\ Last(r)
    /\ \E n \in Narrowed(rows[r]) :
         counted' = [result |-> r, count |-> IF rows[r] = 0 THEN -1 ELSE n]
    /\ UNCHANGED <<rows, live, statementVars, offered, reader, delivered, fault>>

\* Of a query: the cursor is moved to its last row and asked for the number of
\* that row; the second call may still be refused.
AffectedRows(d) ==
  \/ CallsNull(d)
  \/ \E r \in Result :
       /\ dataset[d] # NULL
       /\ outcome[dataset[d]] = r
       /\ Last(r)
       /\ \/ UNCHANGED counted
          \/ \E n \in Narrowed(rows[r]) : counted' = [result |-> r, count |-> n]
       /\ UNCHANGED <<rows, live, statementVars, offered, reader, delivered, fault>>

-----------------------------------------------------------------------------
(* JSONItemSequence and its iterators *)

Become(i, state) == reader' = [reader EXCEPT ![i].state = state]

\* A slip to guard against: an exception in open() is taken for an empty result.
OpenReaderEnds(i, r) ==
  /\ reader[i].state = "new"
  /\ r \in offered
  /\ reader' = [reader EXCEPT ![i] =
                  [state |-> IF r \in live THEN "open" ELSE "ended", result |-> r]]
  /\ UNCHANGED <<cursorVars, statementVars, offered, delivered, lost, counted, fault>>

\* getIterator and open.  Of a NULL result set there is nothing to open.
OpenReader(i, r) ==
  /\ reader[i].state = "new"
  /\ r \in offered
  /\ \E state \in IF r = NULL THEN {"ended"}
                  ELSE IF r \in live THEN {"open", "stopped"}
                  ELSE {"stopped"} :
       reader' = [reader EXCEPT ![i] = [state |-> state, result |-> r]]
  /\ UNCHANGED <<cursorVars, statementVars, offered, delivered, lost, counted, fault>>

\* next() moves the cursor to a row, and the row is delivered or one of its
\* columns cannot be read.
PullRow(i) ==
  LET r == reader[i].result
      k == pos[r] + 1
  IN  /\ r \in live /\ k <= rows[r]
      /\ pos' = [pos EXCEPT ![r] = k]
      /\ \/ /\ delivered' = [delivered EXCEPT ![r] = Append(@, k)]
            /\ UNCHANGED <<reader, lost>>
         \/ /\ lost' = [lost EXCEPT ![r] = @ \cup {k}]
            /\ Become(i, "stopped")
            /\ UNCHANGED delivered

\* A slip to guard against: next() gives an object without asking whether
\* there is a row, and the engine comes back for more.
PullEndGoesOn(i) ==
  LET r == reader[i].result
  IN  /\ r \in live /\ pos[r] >= rows[r]
      /\ pos' = [pos EXCEPT ![r] = rows[r] + 1]
      /\ UNCHANGED <<reader, delivered, lost>>

\* The engine closes an iterator that has no more rows.
PullEnd(i) ==
  LET r == reader[i].result
  IN  /\ r \in live /\ pos[r] >= rows[r]
      /\ pos' = [pos EXCEPT ![r] = rows[r] + 1]
      /\ Become(i, "ended")
      /\ UNCHANGED <<delivered, lost>>

\* ResultSet.next throws, of a closed result in any case.
PullFails(i) ==
  /\ Become(i, "stopped")
  /\ UNCHANGED <<pos, delivered, lost>>

Pull(i) ==
  /\ reader[i].state = "open"
  /\ PullRow(i) \/ PullEnd(i) \/ PullFails(i)
  /\ UNCHANGED <<rows, live, statementVars, offered, counted, fault>>

\* The engine needs no more rows; a result at the driver stays open.
CloseReader(i) ==
  /\ reader[i].state = "open"
  /\ Become(i, "stopped")
  /\ UNCHANGED <<cursorVars, statementVars, offered, delivered, lost, counted, fault>>

-----------------------------------------------------------------------------

\* A result is closed with its connection, or by a commit.
DriverCloses(r) ==
  /\ r \in live
  /\ live' = live \ {r}
  /\ UNCHANGED <<rows, pos, statementVars, readerVars, counted, fault>>

StatementFunction(s) ==
  \/ Execute(s) \/ PrepareStatement(s) \/ ExecutePrepared(s)
  \/ ExecuteQueryPrepared(s) \/ ExecuteUpdatePrepared(s)

DataSetFunction(d) == ResultSet(d) \/ Metadata(d) \/ AffectedRows(d)

ReaderStep(i) ==
  Pull(i) \/ CloseReader(i) \/ \E r \in Result \cup {NULL} : OpenReader(i, r)

Next ==
  /\ fault = "none"
  /\ \/ ExecuteQuery
     \/ \E s \in Statement : StatementFunction(s)
     \/ \E d \in DataSet : DataSetFunction(d)
     \/ \E i \in Reader : ReaderStep(i)
     \/ \E r \in Result : DriverCloses(r)

Spec == Init /\ [][Next]_vars

\* The engine goes on asking a reader it has opened for rows.
FairSpec == Spec /\ \A i \in Reader : WF_vars(fault = "none" /\ Pull(i))

-----------------------------------------------------------------------------
(* Properties *)

Exists(r) == rows[r] # NULL

\* The rows of r the cursor has passed or stands on.
Passed(r) == {k \in 1 .. pos[r] : k <= rows[r]}

\* However many readers share the cursor of a result, and wherever
\* affected-rows sends it, every row it passed was delivered once, in order,
\* or is known to be lost: no reader gets a row that another already got.
RowsAccounted ==
  \A r \in Result :
    LET got == delivered[r]
    IN  /\ \A j, k \in DOMAIN got : j < k => got[j] < got[k]
        /\ {got[k] : k \in DOMAIN got} \cup lost[r] = Passed(r)
        /\ \A k \in DOMAIN got : got[k] \notin lost[r]

\* When a reader ends, all the readers of its result together got every row but
\* those known to be lost: what result-set returns is the whole result as long
\* as affected-rows skipped nothing and every column could be read.
EndMissesOnlyLost ==
  \A i \in Reader :
    LET r == reader[i].result
    IN  reader[i].state = "ended" /\ r # NULL =>
          Len(delivered[r]) = rows[r] - Cardinality(lost[r])

\* A data set of execute keeps the result it was returned for: its statement is
\* in no map a later execution could find it in.
ExecutedKeepsResult ==
  \A d \in DataSet :
    dataset[d] # NULL /\ dataset[d] \notin prepared => outcome[dataset[d]] = issuedFor[d]

\* metadata and affected-rows meet a NULL result set only of a statement that
\* was refused when it was executed again, or of one that gives no result: the
\* data set of a query is returned after the execution, never before, and an
\* execution of another statement takes no result away.
NullHasCause ==
  fault = "null" =>
    \E d \in DataSet :
      /\ dataset[d] # NULL /\ outcome[dataset[d]] = NULL
      /\ dataset[d] \in refused \/ sql[dataset[d]] = "silent"

\* A reader that is asked again and again comes to an end, whatever other
\* readers do and however often affected-rows moves the cursor meanwhile,
\* unless a call on a NULL result set ends the program.
ReadersFinish ==
  \A i \in Reader :
    reader[i].state = "open" ~> reader[i].state # "open" \/ fault = "null"

-----------------------------------------------------------------------------
(* The inductive invariant *)

\* Nothing is known of a result that does not exist yet: its cursor has not
\* moved, no statement has it, no sequence or reader is over it.
Untouched ==
  /\ \A r \in Result : ~Exists(r) =>
       pos[r] = 0 /\ delivered[r] = << >> /\ lost[r] = {}
  /\ \A r \in live : Exists(r)
  /\ \A s \in Statement : outcome[s] \in Result => Exists(outcome[s])
  /\ \A r \in offered \ {NULL} : Exists(r)
  /\ \A i \in Reader : reader[i].result # NULL => Exists(reader[i].result)

\* A data set is of a statement that was run, and lost its outcome to a refusal
\* at most, unless it gives none.
DataSetsHaveRun ==
  \A d \in DataSet : dataset[d] # NULL =>
    \/ outcome[dataset[d]] # NULL
    \/ dataset[d] \in refused \/ sql[dataset[d]] = "silent"

\* A reader that is told there are no more rows shares in a whole result: no
\* row is still to come to anybody.
EndMeansAll ==
  \A i \in Reader :
    reader[i].state = "ended" /\ reader[i].result # NULL =>
      pos[reader[i].result] >= rows[reader[i].result]

\* The count agrees at any moment: what was delivered and what is lost make up
\* the rows up to the cursor, none is counted twice and none forgotten.
RowsConserved ==
  \A r \in Result : Exists(r) =>
    Len(delivered[r]) + Cardinality(lost[r]) = IF pos[r] <= rows[r] THEN pos[r] ELSE rows[r]

\* An open reader is over a result: of NULL there is nothing to open.
OpenOverResult ==
  \A i \in Reader : reader[i].state = "open" => reader[i].result # NULL

\* Whatever stands under a data set, or was prepared, is a statement by now.
StatementsMade ==
  /\ \A d \in DataSet : dataset[d] # NULL => sql[dataset[d]] # "none"
  /\ \A s \in prepared : sql[s] # "none"

CursorInv ==
  /\ TypeOK
  /\ Untouched
  /\ RowsAccounted
  /\ RowsConserved
  /\ EndMeansAll
  /\ OpenOverResult
  /\ DataSetsHaveRun
  /\ NullHasCause
  /\ StatementsMade
  /\ ExecutedKeepsResult

-----------------------------------------------------------------------------
(* The results as streams of rows *)

Left(r) ==
  IF rows[r] = NULL THEN NULL ELSE IF pos[r] < rows[r] THEN rows[r] - pos[r] ELSE 0

\* The rows an open reader may still be given never become more, whatever is
\* called meanwhile, and each next() that keeps it open uses one up: what makes
\* ReadersFinish true of an engine that goes on asking.
ReadersRunOut ==
  [][\A i \in Reader :
       LET r == reader[i].result
       IN  reader[i].state = "open" /\ reader'[i].state = "open" =>
             /\ reader'[i].result = r
             /\ Left(r)' <= Left(r)
             /\ Pull(i) => Left(r)' < Left(r)]_vars

Stream == INSTANCE RowStream WITH
  left  <- [r \in Result |-> Left(r)],
  taken <- [r \in Result |-> Len(delivered[r])],
  open  <- live

\* Cursors that many readers and affected-rows move implement streams whose
\* rows are taken one at a time or dropped, and never come back.
ImplementsStream == Stream!Spec

-----------------------------------------------------------------------------
(* What the documentation of the functions says *)

SoleReader(i) ==
  \A j \in Reader \ {i} : reader[j].result # reader[i].result

\* result-set "returns a sequence of objects representing the rows of data":
\* the only reader of a result, if it comes to the end, got every row.
WholeResult ==
  \A i \in Reader :
    reader[i].state = "ended" /\ reader[i].result # NULL /\ SoleReader(i) =>
      Len(delivered[reader[i].result]) = rows[reader[i].result]

\* result-set gives "the result data rows from the DataSet provided": what the
\* data set was issued for.
DataSetKeepsItsResult ==
  \A d \in DataSet : dataset[d] # NULL => outcome[dataset[d]] = issuedFor[d]

\* affected-rows returns "the number of affected rows of a particular DataSet",
\* for a query (test 07-prepare) the number of its rows.
AffectedRowsCounts == counted # NULL => counted.count = rows[counted.result]
=============================================================================
