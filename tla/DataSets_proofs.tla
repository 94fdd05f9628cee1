-------------------------- MODULE DataSets_proofs --------------------------
(***************************************************************************)
(* Proofs about DataSets, for any results, statements, readers and numbers *)
(* of rows.  What a step does to cursors and rows is one of six kinds; the *)
(* accounting of rows and the refinement of RowStream are proved kind by   *)
(* kind.                                                                   *)
(***************************************************************************)
EXTENDS DataSets, FiniteSetTheorems, TLAPS

-----------------------------------------------------------------------------
(* The kinds of steps *)

accountVars == <<rows, pos, delivered, lost>>

\* No row moves; at most one result is closed.
Still ==
  /\ UNCHANGED accountVars
  /\ live' = live \/ \E r \in Result : live' = live \ {r}

\* A result comes into being, and may replace another.
Begins ==
  \E r \in Result, n \in RowCount :
    /\ rows[r] = NULL
    /\ rows' = [rows EXCEPT ![r] = n]
    /\ \E gone \in {{}} \cup {{q} : q \in Result} : live' = (live \ gone) \cup {r}
    /\ UNCHANGED <<pos, delivered, lost>>

\* affected-rows sends the cursor to the last row.
Skips == \E r \in Result : Last(r) /\ UNCHANGED <<rows, live, delivered>>

\* The cursor moves to the next row, which is delivered ...
Delivers ==
  \E r \in Result :
    /\ r \in live /\ pos[r] + 1 <= rows[r]
    /\ pos' = [pos EXCEPT ![r] = pos[r] + 1]
    /\ delivered' = [delivered EXCEPT ![r] = Append(@, pos[r] + 1)]
    /\ UNCHANGED <<rows, live, lost>>

\* ... or cannot be read.
Loses ==
  \E r \in Result :
    /\ r \in live /\ pos[r] + 1 <= rows[r]
    /\ pos' = [pos EXCEPT ![r] = pos[r] + 1]
    /\ lost' = [lost EXCEPT ![r] = @ \cup {pos[r] + 1}]
    /\ UNCHANGED <<rows, live, delivered>>

\* The cursor moves behind the last row.
Ends ==
  \E r \in Result :
    /\ r \in live /\ pos[r] >= rows[r]
    /\ pos' = [pos EXCEPT ![r] = rows[r] + 1]
    /\ UNCHANGED <<rows, live, delivered, lost>>

Kind == Still \/ Begins \/ Skips \/ Delivers \/ Loses \/ Ends

-----------------------------------------------------------------------------
(* Every step is of one of the kinds *)

\* Executing closes the earlier result of the statement, if it had one.
LEMMA RunsKind ==
  ASSUME TypeOK, NEW kind, NEW o, NEW gone \in Result \cup {"updated", NULL},
         Runs(kind, {gone}, o), UNCHANGED <<delivered, lost>>
  PROVE  Still \/ Begins
<1>1. live \ {gone} = live \/ \E q \in Result : live \ {gone} = live \ {q}
  <2>1. CASE gone \in Result
    BY <2>1
  <2>2. CASE gone \notin Result
    BY <2>2 DEF TypeOK
  <2> QED BY <2>1, <2>2
<1>2. CASE kind = "query" /\ o \in Result /\ NewResult(o, {gone})
  <2>1. \E g \in {{}} \cup {{q} : q \in Result} : live \ {gone} = live \ g
    <3>1. CASE live \ {gone} = live
      <4>1. live = live \ {} /\ {} \in {{}} \cup {{q} : q \in Result}
        OBVIOUS
      <4> QED BY <3>1, <4>1
    <3>2. CASE \E q \in Result : live \ {gone} = live \ {q}
      BY <3>2
    <3> QED BY <1>1, <3>1, <3>2
  <2> QED BY <1>2, <2>1 DEF NewResult, Begins
<1>3. CASE live' = live \ {gone} /\ UNCHANGED <<rows, pos>>
  BY <1>1, <1>3 DEF Still, accountVars
<1> QED BY <1>2, <1>3 DEF Runs

\* The functions that execute statements move no cursor.
LEMMA StatementKind ==
  ASSUME TypeOK, NEW s \in Statement, StatementFunction(s)
  PROVE  Kind
<1>1. CASE Execute(s)
  <2>1. PICK kind \in SqlKind, o \in Outcomes : Runs(kind, {}, o)
    BY <1>1 DEF Execute
  <2>2. UNCHANGED <<delivered, lost>>
    BY <1>1 DEF Execute, readerVars
  <2>3. live \ {} = live
    OBVIOUS
  <2>4. CASE kind = "query" /\ o \in Result /\ NewResult(o, {})
    BY <2>2, <2>4 DEF NewResult, Begins, Kind
  <2>5. CASE live' = live \ {} /\ UNCHANGED <<rows, pos>>
    BY <2>2, <2>3, <2>5 DEF Still, Kind, accountVars
  <2> QED BY <2>1, <2>4, <2>5 DEF Runs
<1>2. CASE PrepareStatement(s)
  BY <1>2 DEF PrepareStatement, cursorVars, readerVars, Still, Kind, accountVars
<1>3. CASE Refuse(s)
  <2>1. UNCHANGED accountVars
    BY <1>3 DEF Refuse, accountVars, readerVars
  <2>2. outcome[s] \in Result \cup {"updated", NULL} /\ live \subseteq Result
    BY DEF TypeOK
  <2>3. live' = live \/ \E r \in Result : live' = live \ {r}
    <3>1. CASE live' = live \ {outcome[s]}
      <4>1. CASE outcome[s] \in Result
        BY <3>1, <4>1
      <4>2. CASE outcome[s] \notin Result
        BY <2>2, <3>1, <4>2
      <4> QED BY <4>1, <4>2
    <3> QED BY <1>3, <3>1 DEF Refuse
  <2> QED BY <2>1, <2>3 DEF Still, Kind
<1>4. ASSUME NEW o, RunsAgain(s, o)
      PROVE  Kind
  <2>1. outcome[s] \in Result \cup {"updated", NULL}
    BY DEF TypeOK
  <2> QED BY <1>4, <2>1, RunsKind DEF RunsAgain, Kind
<1> QED
  BY <1>1, <1>2, <1>3, <1>4
  DEF StatementFunction, ExecutePrepared, ExecuteQueryPrepared,
      ExecuteUpdatePrepared

\* Of the functions on data sets only affected-rows moves a cursor.
LEMMA DataSetKind ==
  ASSUME NEW d \in DataSet, DataSetFunction(d)
  PROVE  Kind
<1>1. CASE ResultSet(d) \/ CallsNull(d)
  BY <1>1 DEF ResultSet, CallsNull, cursorVars, readerVars, Still, Kind, accountVars
<1>2. CASE \E r \in Result : Last(r) /\ UNCHANGED <<rows, live, delivered>>
  BY <1>2 DEF Skips, Kind
<1> QED BY <1>1, <1>2 DEF DataSetFunction, Metadata, AffectedRows

\* A reader moves the cursor of its own result.
LEMMA ReaderKind ==
  ASSUME TypeOK, Untouched, NEW i \in Reader, ReaderStep(i)
  PROVE  Kind
<1>1. CASE Pull(i)
  <2> DEFINE r == reader[i].result
  <2>1. r \in live => r \in Result
    BY DEF TypeOK
  <2>2. UNCHANGED <<rows, live>>
    BY <1>1 DEF Pull
  <2>3. CASE PullRow(i)
    BY <2>1, <2>2, <2>3 DEF PullRow, Delivers, Loses, Kind
  <2>4. CASE PullEnd(i)
    BY <2>1, <2>2, <2>4 DEF PullEnd, Ends, Kind
  <2>5. CASE PullFails(i)
    BY <2>2, <2>5 DEF PullFails, Still, Kind, accountVars
  <2> QED BY <1>1, <2>3, <2>4, <2>5 DEF Pull
<1>2. CASE CloseReader(i) \/ \E r \in Result \cup {NULL} : OpenReader(i, r)
  BY <1>2 DEF CloseReader, OpenReader, cursorVars, Still, Kind, accountVars
<1> QED BY <1>1, <1>2 DEF ReaderStep

\* Every step is of one of the six kinds.
LEMMA StepKinds ==
  ASSUME TypeOK, Untouched, Next
  PROVE  Kind
<1>1. CASE ExecuteQuery
  <2>1. PICK r \in Result : NewResult(r, {}) /\ UNCHANGED <<delivered, lost>>
    BY <1>1 DEF ExecuteQuery
  <2> QED BY <2>1 DEF NewResult, Begins, Kind
<1>2. CASE \E r \in Result : DriverCloses(r)
  BY <1>2 DEF DriverCloses, readerVars, Still, Kind, accountVars
<1> QED
  BY <1>1, <1>2, StatementKind, DataSetKind, ReaderKind DEF Next

-----------------------------------------------------------------------------
(* Types *)

\* The number of rows of a result that exists is a number.
LEMMA RowsAreNumbers ==
  ASSUME TypeOK, NEW r \in Result, Exists(r)
  PROVE  rows[r] \in Nat /\ pos[r] \in Nat /\ lost[r] \subseteq Nat
BY RowCountAssumption DEF TypeOK, Exists

\* Cursors and rows keep their types, whatever kind of step is taken.
LEMMA CursorTypes ==
  ASSUME TypeOK, Untouched, Kind
  PROVE  /\ rows' \in [Result -> RowCount \cup {NULL}]
         /\ live' \subseteq Result
         /\ pos' \in [Result -> Nat]
         /\ delivered' \in [Result -> Seq(Nat)]
         /\ lost' \in [Result -> SUBSET Nat]
<1>1. ASSUME NEW r \in live
      PROVE  r \in Result /\ rows[r] \in Nat /\ pos[r] + 1 \in Nat
  <2>1. r \in Result /\ Exists(r)
    BY DEF TypeOK, Untouched
  <2>2. rows[r] \in Nat /\ pos[r] \in Nat
    BY <2>1, RowsAreNumbers
  <2> QED BY <2>1, <2>2
<1>2. CASE Still
  BY <1>2 DEF TypeOK, Still, accountVars
<1>3. CASE Begins
  BY <1>3 DEF TypeOK, Begins
<1>4. CASE Skips
  <2>1. PICK r \in Result : Last(r) /\ UNCHANGED <<rows, live, delivered>>
    BY <1>4 DEF Skips
  <2>2. r \in live /\ rows[r] \in Nat
    BY <1>1, <2>1 DEF Last
  <2>3. lost[r] \cup (pos[r] + 1 .. rows[r]) \in SUBSET Nat
    BY <2>2 DEF TypeOK
  <2>4. /\ pos' \in [Result -> Nat]
        /\ lost' \in [Result -> SUBSET Nat]
    <3>1. CASE rows[r] > 0
      BY <2>1, <2>2, <2>3, <3>1 DEF Last, TypeOK
    <3>2. CASE ~(rows[r] > 0)
      BY <2>1, <3>2 DEF Last, TypeOK
    <3> QED BY <3>1, <3>2
  <2> QED BY <2>1, <2>4 DEF TypeOK
<1>5. CASE Delivers
  <2>1. PICK r \in Result :
          /\ r \in live
          /\ pos' = [pos EXCEPT ![r] = pos[r] + 1]
          /\ delivered' = [delivered EXCEPT ![r] = Append(@, pos[r] + 1)]
          /\ UNCHANGED <<rows, live, lost>>
    BY <1>5 DEF Delivers
  <2>2. Append(delivered[r], pos[r] + 1) \in Seq(Nat)
    BY <1>1, <2>1 DEF TypeOK
  <2> QED BY <1>1, <2>1, <2>2 DEF TypeOK
<1>6. CASE Loses
  BY <1>1, <1>6 DEF Loses, TypeOK
<1>7. CASE Ends
  BY <1>1, <1>7 DEF Ends, TypeOK
<1> QED BY <1>2, <1>3, <1>4, <1>5, <1>6, <1>7 DEF Kind

\* The variables of statements, data sets and readers.
StatementTypeOK ==
  /\ sql \in [Statement -> SqlKind \cup {"none"}]
  /\ prepared \subseteq Statement
  /\ outcome \in [Statement -> Result \cup {"updated", NULL}]
  /\ dataset \in [DataSet -> Statement \cup {NULL}]
  /\ issuedFor \in [DataSet -> Result \cup {"updated", NULL}]
  /\ refused \subseteq prepared

States == [state : {"new", "open", "ended", "stopped"}, result : Result \cup {NULL}]

ReaderTypeOK ==
  /\ offered \subseteq Result \cup {NULL}
  /\ reader \in [Reader -> States]
  /\ counted \in [result : Result, count : Nat] \cup {NULL}
  /\ fault \in {"none", "null"}

\* A new data set has a statement and an outcome.
LEMMA NewDataSetTypes ==
  ASSUME TypeOK, NEW s \in Statement, NEW o \in Outcomes, NewDataSet(s, o)
  PROVE  /\ dataset' \in [DataSet -> Statement \cup {NULL}]
         /\ issuedFor' \in [DataSet -> Result \cup {"updated", NULL}]
BY DEF NewDataSet, TypeOK, Outcomes

\* The functions that execute statements keep the types.
LEMMA StatementTypes ==
  ASSUME TypeOK, NEW s \in Statement, StatementFunction(s)
  PROVE  StatementTypeOK' /\ ReaderTypeOK'
<1>1. CASE Execute(s)
  <2>1. PICK kind \in SqlKind, o \in Outcomes :
          /\ sql' = [sql EXCEPT ![s] = kind]
          /\ outcome' = [outcome EXCEPT ![s] = o]
          /\ NewDataSet(s, o)
          /\ UNCHANGED <<prepared, refused, readerVars, counted, fault>>
    BY <1>1 DEF Execute
  <2>2. ReaderTypeOK'
    BY <2>1 DEF readerVars, TypeOK, ReaderTypeOK, States
  <2> QED
    BY <2>1, <2>2, NewDataSetTypes DEF TypeOK, Outcomes, StatementTypeOK
<1>2. CASE PrepareStatement(s)
  BY <1>2 DEF PrepareStatement, readerVars, TypeOK, StatementTypeOK, ReaderTypeOK, States
<1>3. CASE Refuse(s)
  BY <1>3 DEF Refuse, readerVars, TypeOK, StatementTypeOK, ReaderTypeOK, States
<1>4. ASSUME NEW o \in Outcomes, RunsAgain(s, o),
             \/ NewDataSet(s, o)
             \/ UNCHANGED <<dataset, issuedFor>>,
             \/ UNCHANGED offered
             \/ o \in Result /\ offered' = offered \cup {o}
      PROVE  StatementTypeOK' /\ ReaderTypeOK'
  <2>1. /\ outcome' \in [Statement -> Result \cup {"updated", NULL}]
        /\ refused' \subseteq prepared'
        /\ UNCHANGED <<sql, prepared, reader, counted, fault>>
    BY <1>4 DEF RunsAgain, TypeOK, Outcomes
  <2>2. /\ dataset' \in [DataSet -> Statement \cup {NULL}]
        /\ issuedFor' \in [DataSet -> Result \cup {"updated", NULL}]
    BY <1>4, NewDataSetTypes DEF TypeOK
  <2>3. offered' \subseteq Result \cup {NULL}
    BY <1>4 DEF TypeOK
  <2> QED BY <2>1, <2>2, <2>3 DEF TypeOK, StatementTypeOK, ReaderTypeOK, States
<1>5. Result \subseteq Outcomes /\ "updated" \in Outcomes /\ NULL \in Outcomes
  BY DEF Outcomes
<1> QED
  BY <1>1, <1>2, <1>3, <1>4, <1>5
  DEF StatementFunction, ExecutePrepared, ExecuteQueryPrepared,
      ExecuteUpdatePrepared

\* The functions on data sets keep the types: affected-rows answers a number.
LEMMA DataSetTypes ==
  ASSUME TypeOK, Untouched, NEW d \in DataSet, DataSetFunction(d)
  PROVE  StatementTypeOK' /\ ReaderTypeOK'
<1>1. CASE ResultSet(d)
  <2>1. offered' \subseteq Result \cup {NULL}
    BY <1>1 DEF ResultSet, TypeOK
  <2> QED
    BY <1>1, <2>1
    DEF ResultSet, statementVars, TypeOK, StatementTypeOK, ReaderTypeOK, States
<1>2. CASE CallsNull(d)
  BY <1>2
  DEF CallsNull, statementVars, readerVars, TypeOK, StatementTypeOK, ReaderTypeOK, States
<1>3. ASSUME NEW r \in Result, Last(r),
             \/ UNCHANGED counted
             \/ \E n \in Narrowed(rows[r]) : counted' = [result |-> r, count |-> n],
             UNCHANGED <<rows, live, statementVars, offered, reader, delivered, fault>>
      PROVE  StatementTypeOK' /\ ReaderTypeOK'
  <2>1. rows[r] \in Nat
    BY <1>3, RowsAreNumbers DEF Last, Untouched
  <2>2. Narrowed(rows[r]) \subseteq Nat
    BY <2>1 DEF Narrowed
  <2>3. counted' \in [result : Result, count : Nat] \cup {NULL}
    BY <1>3, <2>2 DEF TypeOK
  <2> QED
    BY <1>3, <2>3 DEF statementVars, TypeOK, StatementTypeOK, ReaderTypeOK, States
<1> QED BY <1>1, <1>2, <1>3 DEF DataSetFunction, Metadata, AffectedRows

\* The iterators keep the types.
LEMMA ReaderTypes ==
  ASSUME TypeOK, NEW i \in Reader, ReaderStep(i)
  PROVE  StatementTypeOK' /\ ReaderTypeOK'
<1>1. reader' \in [Reader -> States]
  <2>1. ASSUME NEW state \in {"new", "open", "ended", "stopped"},
               Become(i, state) \/ reader' = reader
        PROVE  reader' \in [Reader -> States]
    <3>1. reader \in [Reader -> States]
      BY DEF TypeOK, States
    <3>2. [reader[i] EXCEPT !.state = state] \in States
      BY <2>1, <3>1 DEF States
    <3>3. CASE Become(i, state)
      BY <3>1, <3>2, <3>3 DEF Become
    <3> QED BY <2>1, <3>1, <3>3
  <2>2. CASE Pull(i)
    BY <2>1, <2>2 DEF Pull, PullRow, PullEnd, PullFails
  <2>3. CASE CloseReader(i)
    BY <2>1, <2>3 DEF CloseReader
  <2>4. ASSUME NEW r \in Result \cup {NULL}, OpenReader(i, r)
        PROVE  reader' \in [Reader -> States]
    BY <2>4 DEF OpenReader, TypeOK, States
  <2> QED BY <2>2, <2>3, <2>4 DEF ReaderStep
<1>2. UNCHANGED <<statementVars, offered, counted, fault>>
  BY DEF ReaderStep, Pull, CloseReader, OpenReader
<1> QED
  BY <1>1, <1>2 DEF statementVars, TypeOK, StatementTypeOK, ReaderTypeOK, States

\* Every step keeps every type.
LEMMA TypesStep ==
  ASSUME TypeOK, Untouched, Next
  PROVE  TypeOK'
<1>1. StatementTypeOK' /\ ReaderTypeOK'
  <2>1. CASE ExecuteQuery
    BY <2>1
    DEF ExecuteQuery, statementVars, TypeOK, StatementTypeOK, ReaderTypeOK, States
  <2>2. CASE \E r \in Result : DriverCloses(r)
    BY <2>2
    DEF DriverCloses, statementVars, readerVars, TypeOK, StatementTypeOK,
        ReaderTypeOK, States
  <2> QED BY <2>1, <2>2, StatementTypes, DataSetTypes, ReaderTypes DEF Next
<1> QED
  BY <1>1, CursorTypes, StepKinds DEF TypeOK, StatementTypeOK, ReaderTypeOK, States

-----------------------------------------------------------------------------
(* Results come into being and stay *)

\* A number of rows is not NULL.
LEMMA RowsExist ==
  ASSUME NEW n \in RowCount
  PROVE  n # NULL
BY RowCountAssumption, OutcomeAssumption

\* A result that exists keeps its rows, and one that was read to the end stays
\* read, whichever way the cursor moves.
LEMMA KindGrows ==
  ASSUME TypeOK, Untouched, Kind, NEW r \in Result, Exists(r)
  PROVE  /\ rows'[r] = rows[r]
         /\ pos[r] >= rows[r] => pos'[r] >= rows'[r]
<1>1. rows[r] \in Nat /\ pos[r] \in Nat
  BY RowsAreNumbers
<1>2. CASE Still
  BY <1>2 DEF Still, accountVars
<1>3. CASE Begins
  BY <1>3 DEF Begins, Exists, TypeOK
<1>4. CASE Skips
  <2>1. PICK q \in Result : Last(q) /\ UNCHANGED rows
    BY <1>4 DEF Skips
  <2>2. pos'[r] = pos[r] \/ pos'[r] = rows[r]
    BY <2>1 DEF Last, TypeOK
  <2> QED BY <1>1, <2>1, <2>2
<1>5. CASE Delivers \/ Loses
  <2>1. PICK q \in Result : pos' = [pos EXCEPT ![q] = pos[q] + 1] /\ UNCHANGED rows
    BY <1>5 DEF Delivers, Loses
  <2>2. pos'[r] = pos[r] \/ pos'[r] = pos[r] + 1
    BY <2>1 DEF TypeOK
  <2> QED BY <1>1, <2>1, <2>2
<1>6. CASE Ends
  <2>1. PICK q \in Result : pos' = [pos EXCEPT ![q] = rows[q] + 1] /\ UNCHANGED rows
    BY <1>6 DEF Ends
  <2>2. pos'[r] = pos[r] \/ pos'[r] = rows[r] + 1
    BY <2>1 DEF TypeOK
  <2> QED BY <1>1, <2>1, <2>2
<1> QED BY <1>2, <1>3, <1>4, <1>5, <1>6 DEF Kind

\* Executing a statement brings the result it gives into being.
LEMMA RunsExist ==
  ASSUME TypeOK, NEW kind, NEW gone, NEW o \in Result, Runs(kind, gone, o)
  PROVE  rows'[o] # NULL
<1>1. o # "updated" /\ o # NULL
  BY OutcomeAssumption
<1>2. PICK n \in RowCount : rows' = [rows EXCEPT ![o] = n]
  BY <1>1 DEF Runs, NewResult
<1> QED BY <1>2, RowsExist DEF TypeOK

\* What exists, exists after the step.
LEMMA ExistsStays ==
  ASSUME TypeOK, Untouched, Kind, NEW r \in Result, Exists(r)
  PROVE  Exists(r)'
BY KindGrows DEF Exists

\* A step touches results that exist, and brings at most one into being.
LEMMA FreshUntouched ==
  ASSUME TypeOK, Untouched, Kind
  PROVE  /\ \A r \in Result : ~Exists(r)' =>
              pos'[r] = 0 /\ delivered'[r] = << >> /\ lost'[r] = {}
         /\ \A r \in live' : Exists(r)'
<1>1. \A r \in live : r \in Result /\ Exists(r)
  BY DEF Untouched, TypeOK
<1>2. \A r \in Result : Exists(r) => Exists(r)'
  BY ExistsStays
<1>3. ASSUME NEW r \in Result, ~Exists(r)'
      PROVE  pos'[r] = 0 /\ delivered'[r] = << >> /\ lost'[r] = {}
  <2>1. ~Exists(r) /\ r \notin live
    BY <1>1, <1>2, <1>3
  <2>2. pos[r] = 0 /\ delivered[r] = << >> /\ lost[r] = {}
    BY <2>1 DEF Untouched
  <2>3. pos'[r] = pos[r] /\ delivered'[r] = delivered[r] /\ lost'[r] = lost[r]
    <3>1. CASE Still \/ Begins
      BY <3>1 DEF Still, Begins, accountVars
    <3>2. CASE Skips
      BY <2>1, <3>2 DEF Skips, Last, TypeOK
    <3>3. CASE Delivers
      BY <2>1, <3>3 DEF Delivers, TypeOK
    <3>4. CASE Loses \/ Ends
      BY <2>1, <3>4 DEF Loses, Ends, TypeOK
    <3> QED BY <3>1, <3>2, <3>3, <3>4 DEF Kind
  <2> QED BY <2>2, <2>3
<1>4. ASSUME NEW r \in live'
      PROVE  Exists(r)'
  <2>1. CASE r \in live
    BY <1>1, <1>2, <2>1
  <2>2. CASE r \notin live
    <3>1. ~(Skips \/ Delivers \/ Loses \/ Ends \/ Still)
      BY <1>4, <2>2 DEF Skips, Delivers, Loses, Ends, Still
    <3>2. PICK q \in Result, n \in RowCount :
            /\ rows' = [rows EXCEPT ![q] = n]
            /\ \E gone : live' = (live \ gone) \cup {q}
      BY <3>1 DEF Kind, Begins
    <3>3. r = q
      BY <1>4, <2>2, <3>2
    <3> QED BY <3>2, <3>3, RowsExist DEF TypeOK, Exists
  <2> QED BY <2>1, <2>2
<1> QED BY <1>3, <1>4

\* What statements, sequences and readers know of results.
Known ==
  /\ \A s \in Statement : outcome[s] \in Result => Exists(outcome[s])
  /\ \A r \in offered \ {NULL} : Exists(r)
  /\ \A i \in Reader : reader[i].result # NULL => Exists(reader[i].result)

\* They know results that exist; those of before still do.
LEMMA KnownStays ==
  ASSUME TypeOK, Untouched, Kind
  PROVE  /\ \A s \in Statement : outcome[s] \in Result => rows'[outcome[s]] # NULL
         /\ \A r \in offered \ {NULL} : rows'[r] # NULL
         /\ \A i \in Reader : reader[i].result # NULL => rows'[reader[i].result] # NULL
<1>1. \A r \in Result : Exists(r) => rows'[r] # NULL
  BY ExistsStays DEF Exists
<1>2. \A r \in offered \ {NULL} : r \in Result /\ Exists(r)
  BY DEF Untouched, TypeOK
<1>3. \A i \in Reader : reader[i].result \in Result \cup {NULL}
  BY DEF TypeOK
<1> QED BY <1>1, <1>2, <1>3 DEF Untouched

\* The functions that execute statements know the result they bring into being.
LEMMA StatementKnown ==
  ASSUME TypeOK, Untouched, Kind, NEW s \in Statement, StatementFunction(s)
  PROVE  Known'
<1>1. ASSUME NEW kind, NEW gone, NEW o \in Outcomes, Runs(kind, gone, o)
      PROVE  o \in Result => rows'[o] # NULL
  BY <1>1, RunsExist
<1>2. CASE Execute(s)
  <2>1. PICK kind \in SqlKind, o \in Outcomes :
          /\ Runs(kind, {}, o)
          /\ outcome' = [outcome EXCEPT ![s] = o]
          /\ UNCHANGED <<offered, reader>>
    BY <1>2 DEF Execute, readerVars
  <2> QED BY <1>1, <2>1, KnownStays DEF Known, Exists, TypeOK
<1>3. CASE PrepareStatement(s)
  BY <1>3, KnownStays DEF PrepareStatement, readerVars, Known, Exists
<1>4. CASE Refuse(s)
  <2>1. /\ UNCHANGED <<offered, reader>>
        /\ outcome' = outcome \/ outcome' = [outcome EXCEPT ![s] = NULL]
    BY <1>4 DEF Refuse, readerVars
  <2>2. NULL \notin Result
    BY OutcomeAssumption
  <2> QED BY <2>1, <2>2, KnownStays DEF Known, Exists, TypeOK
<1>5. ASSUME NEW o \in Outcomes, RunsAgain(s, o),
             \/ UNCHANGED offered
             \/ o \in Result /\ offered' = offered \cup {o}
      PROVE  Known'
  <2>1. /\ outcome' = [outcome EXCEPT ![s] = o] /\ UNCHANGED reader
        /\ o \in Result => rows'[o] # NULL
    BY <1>1, <1>5 DEF RunsAgain
  <2> QED BY <1>5, <2>1, KnownStays DEF Known, Exists, TypeOK
<1>6. Result \subseteq Outcomes /\ "updated" \in Outcomes /\ NULL \in Outcomes
  BY DEF Outcomes
<1> QED
  BY <1>2, <1>3, <1>4, <1>5, <1>6
  DEF StatementFunction, ExecutePrepared, ExecuteQueryPrepared,
      ExecuteUpdatePrepared

\* An iterator is over a result that a sequence was made for.
LEMMA ReaderKnown ==
  ASSUME TypeOK, Untouched, Kind, NEW i \in Reader, ReaderStep(i)
  PROVE  Known'
<1>1. UNCHANGED <<statementVars, offered>>
  BY DEF ReaderStep, Pull, CloseReader, OpenReader
<1>2. \A j \in Reader : reader'[j].result = reader[j].result \/ reader'[j].result \in offered
  <2>1. ASSUME NEW state, Become(i, state)
        PROVE  \A j \in Reader : reader'[j].result = reader[j].result
    <3> SUFFICES ASSUME NEW j \in Reader
                 PROVE  reader'[j].result = reader[j].result
      OBVIOUS
    <3>1. reader \in [Reader -> States]
      BY DEF TypeOK, States
    <3>2. CASE j = i
      <4>1. reader'[j] = [reader[i] EXCEPT !.state = state] /\ reader[i] \in States
        BY <2>1, <3>1, <3>2 DEF Become
      <4> QED BY <3>2, <4>1 DEF States
    <3>3. CASE j # i
      BY <2>1, <3>1, <3>3 DEF Become
    <3> QED BY <3>2, <3>3
  <2>2. CASE Pull(i)
    BY <2>1, <2>2 DEF Pull, PullRow, PullEnd, PullFails
  <2>3. CASE CloseReader(i)
    BY <2>1, <2>3 DEF CloseReader
  <2>4. ASSUME NEW r \in Result \cup {NULL}, OpenReader(i, r)
        PROVE  \A j \in Reader :
                 reader'[j].result = reader[j].result \/ reader'[j].result \in offered
    BY <2>4 DEF OpenReader, TypeOK
  <2> QED BY <2>2, <2>3, <2>4 DEF ReaderStep
<1> QED BY <1>1, <1>2, KnownStays DEF statementVars, Known, Exists

\* Of a result that does not exist nothing is known after any step.
LEMMA UntouchedStep ==
  ASSUME TypeOK, Untouched, Next
  PROVE  Untouched'
<1>1. Kind
  BY StepKinds
<1>2. Known'
  <2>1. CASE ExecuteQuery
    <3>1. PICK r \in Result :
            /\ NewResult(r, {})
            /\ offered' = offered \cup {r}
            /\ UNCHANGED <<outcome, reader>>
      BY <2>1 DEF ExecuteQuery, statementVars
    <3>2. rows'[r] # NULL
      BY <3>1, RowsExist DEF NewResult, TypeOK
    <3> QED BY <1>1, <3>1, <3>2, KnownStays DEF Known, Exists
  <2>2. CASE \E r \in Result : DriverCloses(r)
    BY <1>1, <2>2, KnownStays
    DEF DriverCloses, statementVars, readerVars, Known, Exists
  <2>3. ASSUME NEW d \in DataSet, DataSetFunction(d)
        PROVE  Known'
    <3>1. /\ UNCHANGED <<outcome, reader>>
          /\ \/ offered' = offered
             \/ /\ dataset[d] # NULL /\ outcome[dataset[d]] # "updated"
                /\ offered' = offered \cup {outcome[dataset[d]]}
      BY <2>3
      DEF DataSetFunction, ResultSet, Metadata, CallsNull, AffectedRows,
          statementVars, readerVars
    <3>2. dataset[d] # NULL => dataset[d] \in Statement
      BY DEF TypeOK
    <3>3. \A s \in Statement : outcome[s] \in Result \cup {"updated", NULL}
      BY DEF TypeOK
    <3> QED BY <1>1, <3>1, <3>2, <3>3, KnownStays DEF Known, Exists
  <2> QED BY <1>1, <2>1, <2>2, <2>3, StatementKnown, ReaderKnown DEF Next
<1> QED BY <1>1, <1>2, FreshUntouched DEF Known, Untouched

-----------------------------------------------------------------------------
(* Every row is accounted for *)

\* The rows in got and those in gone are the rows in all: got in order, none
\* twice, none both.
Account(got, gone, all) ==
  /\ \A j, k \in DOMAIN got : j < k => got[j] < got[k]
  /\ {got[k] : k \in DOMAIN got} \cup gone = all
  /\ \A k \in DOMAIN got : got[k] \notin gone

\* The rows passed are the first ones, as far as the cursor and the result go.
LEMMA FirstRows ==
  ASSUME NEW p \in Nat, NEW n \in Nat
  PROVE  {k \in 1 .. p : k <= n} = IF p <= n THEN 1 .. p ELSE 1 .. n
OBVIOUS

\* The next row delivered is a row more that is accounted for.
LEMMA DeliveredAccount ==
  ASSUME NEW got \in Seq(Nat), NEW gone, NEW p \in Nat,
         Account(got, gone, 1 .. p)
  PROVE  Account(Append(got, p + 1), gone, 1 .. p + 1)
<1> DEFINE more == Append(got, p + 1)
<1>1. /\ DOMAIN got = 1 .. Len(got) /\ Len(got) \in Nat
      /\ DOMAIN more = 1 .. Len(got) + 1
      /\ \A k \in 1 .. Len(got) : more[k] = got[k]
      /\ more[Len(got) + 1] = p + 1
  OBVIOUS
<1>2. \A k \in DOMAIN got : got[k] \in 1 .. p
  BY DEF Account
<1>3. gone \subseteq 1 .. p
  BY DEF Account
<1> HIDE DEF more
<1>4. \A j, k \in DOMAIN more : j < k => more[j] < more[k]
  <2> SUFFICES ASSUME NEW j \in DOMAIN more, NEW k \in DOMAIN more, j < k
               PROVE  more[j] < more[k]
    OBVIOUS
  <2>1. j \in DOMAIN got /\ more[j] = got[j]
    BY <1>1
  <2>2. CASE k = Len(got) + 1
    BY <1>1, <1>2, <2>1, <2>2
  <2>3. CASE k \in DOMAIN got
    BY <1>1, <2>1, <2>3 DEF Account
  <2> QED BY <1>1, <2>2, <2>3
<1>5. {more[k] : k \in DOMAIN more} = {got[k] : k \in DOMAIN got} \cup {p + 1}
  BY <1>1
<1>6. (1 .. p) \cup {p + 1} = 1 .. p + 1
  OBVIOUS
<1>7. {more[k] : k \in DOMAIN more} \cup gone = 1 .. p + 1
  BY <1>5, <1>6 DEF Account
<1>8. ASSUME NEW k \in DOMAIN more
      PROVE  more[k] \notin gone
  <2>1. CASE k = Len(got) + 1
    BY <1>1, <1>3, <2>1
  <2>2. CASE k \in DOMAIN got
    BY <1>1, <2>2 DEF Account
  <2> QED BY <1>1, <2>1, <2>2
<1> QED BY <1>4, <1>7, <1>8 DEF Account, more

\* So are the rows passed over up to the n-th.
LEMMA LostAccount ==
  ASSUME NEW got \in Seq(Nat), NEW gone, NEW p \in Nat, NEW n \in Nat, p <= n,
         Account(got, gone, 1 .. p)
  PROVE  Account(got, gone \cup (p + 1 .. n), 1 .. n)
<1>1. (1 .. p) \cup (p + 1 .. n) = 1 .. n
  OBVIOUS
<1>2. \A k \in DOMAIN got : got[k] \in 1 .. p
  BY DEF Account
<1>3. \A k \in DOMAIN got : got[k] \notin p + 1 .. n
  BY <1>2
<1> QED BY <1>1, <1>3 DEF Account

\* Whatever a step does to a cursor, the rows it passes are accounted for.
LEMMA AccountStep ==
  ASSUME TypeOK, Untouched, RowsAccounted, Kind
  PROVE  RowsAccounted'
<1> SUFFICES ASSUME NEW r \in Result
             PROVE  Account(delivered'[r], lost'[r], {k \in 1 .. pos'[r] : k <= rows'[r]})
  BY DEF RowsAccounted, Account, Passed
<1>1. Account(delivered[r], lost[r], {k \in 1 .. pos[r] : k <= rows[r]})
  BY DEF RowsAccounted, Account, Passed
<1>2. delivered[r] \in Seq(Nat)
  BY DEF TypeOK
<1>3. r \in live => rows[r] \in Nat /\ pos[r] \in Nat
  BY RowsAreNumbers DEF Untouched
<1>4. r \in live /\ pos[r] <= rows[r] => Account(delivered[r], lost[r], 1 .. pos[r])
  BY <1>1, <1>3, FirstRows
<1>5. r \in live /\ pos[r] >= rows[r] => Account(delivered[r], lost[r], 1 .. rows[r])
  <2>1. CASE r \in live /\ pos[r] = rows[r]
    BY <1>4, <1>3, <2>1
  <2>2. CASE r \in live /\ pos[r] > rows[r]
    <3>1. {k \in 1 .. pos[r] : k <= rows[r]} = 1 .. rows[r]
      BY <1>3, <2>2
    <3> QED BY <1>1, <3>1
  <2> QED BY <1>3, <2>1, <2>2
<1>6. CASE UNCHANGED <<rows[r], pos[r], delivered[r], lost[r]>>
  BY <1>1, <1>6
<1>7. CASE Still
  BY <1>1, <1>7 DEF Still, accountVars
<1>8. CASE Begins
  <2>1. PICK q \in Result, n \in RowCount :
          /\ rows[q] = NULL
          /\ rows' = [rows EXCEPT ![q] = n]
          /\ UNCHANGED <<pos, delivered, lost>>
    BY <1>8 DEF Begins
  <2>2. CASE q = r
    <3>1. pos[r] = 0
      BY <2>1, <2>2 DEF Untouched, Exists
    <3>2. 1 .. pos[r] = {}
      BY <3>1
    <3> QED BY <1>1, <2>1, <3>2
  <2>3. CASE q # r
    BY <1>6, <2>1, <2>3 DEF TypeOK
  <2> QED BY <2>2, <2>3
<1>9. CASE Skips
  <2>1. PICK q \in Result : Last(q) /\ UNCHANGED <<rows, live, delivered>>
    BY <1>9 DEF Skips
  <2>2. CASE q = r /\ rows[r] > 0
    <3>1. /\ r \in live /\ pos'[r] = rows[r] /\ rows'[r] = rows[r]
          /\ lost'[r] = lost[r] \cup (pos[r] + 1 .. rows[r])
          /\ delivered'[r] = delivered[r]
      BY <2>1, <2>2 DEF Last, TypeOK
    <3>2. Account(delivered[r], lost'[r], 1 .. rows[r])
      <4>1. CASE pos[r] <= rows[r]
        BY <1>2, <1>3, <1>4, <3>1, <4>1, LostAccount
      <4>2. CASE pos[r] >= rows[r]
        <5>1. pos[r] + 1 .. rows[r] = {}
          BY <1>3, <3>1, <4>2
        <5> QED BY <1>5, <3>1, <4>2, <5>1
      <4> QED BY <1>3, <3>1, <4>1, <4>2
    <3>3. {k \in 1 .. rows[r] : k <= rows[r]} = 1 .. rows[r]
      BY <1>3, <3>1, FirstRows
    <3> QED BY <3>1, <3>2, <3>3
  <2>3. CASE ~(q = r /\ rows[r] > 0)
    BY <1>6, <2>1, <2>3 DEF Last, TypeOK
  <2> QED BY <2>2, <2>3
<1>10. CASE Delivers \/ Loses
  <2>1. PICK q \in Result :
          /\ q \in live /\ pos[q] + 1 <= rows[q]
          /\ pos' = [pos EXCEPT ![q] = pos[q] + 1]
          /\ UNCHANGED rows
          /\ \/ /\ delivered' = [delivered EXCEPT ![q] = Append(@, pos[q] + 1)]
                /\ UNCHANGED lost
             \/ /\ lost' = [lost EXCEPT ![q] = @ \cup {pos[q] + 1}]
                /\ UNCHANGED delivered
    BY <1>10 DEF Delivers, Loses
  <2>2. CASE q = r
    <3>1. /\ r \in live /\ pos'[r] = pos[r] + 1 /\ rows'[r] = rows[r]
          /\ pos[r] \in Nat /\ rows[r] \in Nat /\ pos[r] + 1 <= rows[r]
      BY <1>3, <2>1, <2>2 DEF TypeOK
    <3>2. Account(delivered[r], lost[r], 1 .. pos[r])
      BY <1>4, <3>1
    <3>3. pos[r] + 1 .. pos[r] + 1 = {pos[r] + 1}
      BY <3>1
    <3>4. \/ delivered'[r] = Append(delivered[r], pos[r] + 1) /\ lost'[r] = lost[r]
          \/ delivered'[r] = delivered[r] /\ lost'[r] = lost[r] \cup {pos[r] + 1}
      BY <2>1, <2>2 DEF TypeOK
    <3>5. Account(Append(delivered[r], pos[r] + 1), lost[r], 1 .. pos[r] + 1)
      BY <1>2, <3>1, <3>2, DeliveredAccount
    <3>6. Account(delivered[r], lost[r] \cup {pos[r] + 1}, 1 .. pos[r] + 1)
      <4>1. pos[r] + 1 \in Nat /\ pos[r] <= pos[r] + 1
        BY <3>1
      <4>2. Account(delivered[r], lost[r] \cup (pos[r] + 1 .. pos[r] + 1), 1 .. pos[r] + 1)
        BY <1>2, <3>1, <3>2, <4>1, LostAccount
      <4> QED BY <3>3, <4>2
    <3>7. {k \in 1 .. pos[r] + 1 : k <= rows[r]} = 1 .. pos[r] + 1
      BY <3>1
    <3> QED BY <3>1, <3>4, <3>5, <3>6, <3>7
  <2>3. CASE q # r
    BY <1>6, <2>1, <2>3 DEF TypeOK
  <2> QED BY <2>2, <2>3
<1>11. CASE Ends
  <2>1. PICK q \in Result :
          /\ q \in live /\ pos[q] >= rows[q]
          /\ pos' = [pos EXCEPT ![q] = rows[q] + 1]
          /\ UNCHANGED <<rows, delivered, lost>>
    BY <1>11 DEF Ends
  <2>2. CASE q = r
    <3>1. {k \in 1 .. rows[r] + 1 : k <= rows[r]} = 1 .. rows[r]
      BY <1>3, <2>1, <2>2
    <3> QED BY <1>3, <1>5, <2>1, <2>2, <3>1 DEF TypeOK
  <2>3. CASE q # r
    BY <1>6, <2>1, <2>3 DEF TypeOK
  <2> QED BY <2>2, <2>3
<1> QED BY <1>7, <1>8, <1>9, <1>10, <1>11 DEF Kind

-----------------------------------------------------------------------------
(* The count of rows *)

\* The rows lost are among the first ones, so they can be counted.
LEMMA LostFinite ==
  ASSUME TypeOK, RowsAccounted, NEW r \in Result
  PROVE  /\ IsFiniteSet(lost[r]) /\ Cardinality(lost[r]) \in Nat
         /\ lost[r] \subseteq 1 .. pos[r]
<1>1. pos[r] \in Nat
  BY DEF TypeOK
<1>2. lost[r] \subseteq 1 .. pos[r]
  BY DEF RowsAccounted, Passed
<1>3. IsFiniteSet(1 .. pos[r])
  BY <1>1, FS_Interval
<1>4. IsFiniteSet(lost[r])
  BY <1>2, <1>3, FS_Subset
<1>5. Cardinality(lost[r]) \in Nat
  BY <1>4, FS_CardinalityType
<1> QED BY <1>2, <1>4, <1>5

\* Losing the rows after the p-th up to the n-th loses as many as that.
LEMMA LostCount ==
  ASSUME NEW p \in Nat, NEW n \in Nat, p <= n, NEW gone \in SUBSET (1 .. p),
         IsFiniteSet(gone)
  PROVE  Cardinality(gone \cup (p + 1 .. n)) = Cardinality(gone) + (n - p)
<1>1. IsFiniteSet(p + 1 .. n) /\ Cardinality(p + 1 .. n) = n - p
  <2>1. /\ IsFiniteSet(p + 1 .. n)
        /\ Cardinality(p + 1 .. n) = IF p + 1 > n THEN 0 ELSE n - (p + 1) + 1
    BY FS_Interval
  <2> QED BY <2>1
<1>2. gone \cap (p + 1 .. n) = {}
  OBVIOUS
<1>3. Cardinality(gone \cap (p + 1 .. n)) = 0
  BY <1>2, FS_EmptySet
<1>4. Cardinality(gone) \in Nat
  BY FS_CardinalityType
<1>5. Cardinality(gone \cup (p + 1 .. n))
        = Cardinality(gone) + Cardinality(p + 1 .. n) - Cardinality(gone \cap (p + 1 .. n))
  BY <1>1, FS_Union
<1> QED BY <1>1, <1>3, <1>4, <1>5

\* RowsConserved for one result: so many delivered, so many lost, the cursor on
\* row p of n.
Adds(got, gone, p, n) == got + gone = IF p <= n THEN p ELSE n

Counted(r) == Adds(Len(delivered[r]), Cardinality(lost[r]), pos[r], rows[r])

\* One row more, delivered or lost.
LEMMA OneMore ==
  ASSUME NEW got \in Nat, NEW gone \in Nat, NEW p \in Nat, NEW n \in Nat,
         Adds(got, gone, p, n), p + 1 <= n
  PROVE  Adds(got + 1, gone, p + 1, n) /\ Adds(got, gone + 1, p + 1, n)
BY DEF Adds

\* Each kind of step moves the cursor by as many rows as it delivers or loses.
LEMMA CountStep ==
  ASSUME TypeOK, Untouched, RowsAccounted, RowsConserved, Kind
  PROVE  RowsConserved'
<1> SUFFICES ASSUME NEW r \in Result, Exists(r)'
             PROVE  Adds(Len(delivered'[r]), Cardinality(lost'[r]), pos'[r], rows'[r])
  BY DEF RowsConserved, Adds
<1>1. Exists(r) => Counted(r)
  BY DEF RowsConserved, Counted, Adds
<1>2. /\ delivered[r] \in Seq(Nat) /\ Len(delivered[r]) \in Nat
      /\ pos[r] \in Nat
  BY DEF TypeOK
<1>3. /\ IsFiniteSet(lost[r]) /\ Cardinality(lost[r]) \in Nat
      /\ lost[r] \subseteq 1 .. pos[r]
  BY LostFinite
<1>4. r \in live => Exists(r) /\ rows[r] \in Nat
  BY RowsAreNumbers DEF Untouched
<1>5. CASE UNCHANGED <<rows[r], pos[r], delivered[r], lost[r]>>
  BY <1>1, <1>5 DEF Exists, Counted
<1>6. CASE Still
  BY <1>1, <1>6 DEF Still, accountVars, Exists, Counted
<1>7. CASE Begins
  <2>1. PICK q \in Result, n \in RowCount :
          /\ rows[q] = NULL
          /\ rows' = [rows EXCEPT ![q] = n]
          /\ UNCHANGED <<pos, delivered, lost>>
    BY <1>7 DEF Begins
  <2>2. CASE q = r
    <3>1. pos[r] = 0 /\ delivered[r] = << >> /\ lost[r] = {}
      BY <2>1, <2>2 DEF Untouched, Exists
    <3>2. rows'[r] \in Nat
      BY <2>1, <2>2, RowCountAssumption DEF TypeOK
    <3>3. Cardinality(lost'[r]) = 0 /\ Len(delivered'[r]) = 0 /\ pos'[r] = 0
      <4>1. Cardinality({}) = 0 /\ Len(<< >>) = 0
        BY FS_EmptySet
      <4> QED BY <2>1, <3>1, <4>1
    <3> QED BY <3>2, <3>3 DEF Adds
  <2>3. CASE q # r
    BY <1>5, <2>1, <2>3 DEF TypeOK
  <2> QED BY <2>2, <2>3
<1>8. CASE Skips
  <2>1. PICK q \in Result : Last(q) /\ UNCHANGED <<rows, live, delivered>>
    BY <1>8 DEF Skips
  <2>2. CASE q = r /\ rows[r] > 0
    <3>1. /\ r \in live /\ pos'[r] = rows[r] /\ rows'[r] = rows[r]
          /\ lost'[r] = lost[r] \cup (pos[r] + 1 .. rows[r])
          /\ delivered'[r] = delivered[r]
      BY <2>1, <2>2 DEF Last, TypeOK
    <3>2. Counted(r) /\ rows[r] \in Nat
      BY <1>1, <1>4, <3>1
    <3>3. CASE pos[r] <= rows[r]
      <4>1. Cardinality(lost'[r]) = Cardinality(lost[r]) + (rows[r] - pos[r])
        BY <1>2, <1>3, <3>1, <3>2, <3>3, LostCount
      <4> QED BY <1>2, <1>3, <3>1, <3>2, <3>3, <4>1 DEF Counted, Adds
    <3>4. CASE pos[r] > rows[r]
      <4>1. pos[r] + 1 .. rows[r] = {}
        BY <1>2, <3>2, <3>4
      <4>2. Cardinality(lost'[r]) = Cardinality(lost[r])
        BY <3>1, <4>1
      <4>3. pos'[r] = rows[r] /\ rows'[r] = rows[r] /\ Len(delivered'[r]) = Len(delivered[r])
        BY <3>1
      <4> QED BY <1>2, <1>3, <3>2, <3>4, <4>2, <4>3 DEF Counted, Adds
    <3> QED BY <1>2, <3>2, <3>3, <3>4
  <2>3. CASE ~(q = r /\ rows[r] > 0)
    BY <1>5, <2>1, <2>3 DEF Last, TypeOK
  <2> QED BY <2>2, <2>3
<1>9. CASE Delivers
  <2>1. PICK q \in Result :
          /\ q \in live /\ pos[q] + 1 <= rows[q]
          /\ pos' = [pos EXCEPT ![q] = pos[q] + 1]
          /\ delivered' = [delivered EXCEPT ![q] = Append(@, pos[q] + 1)]
          /\ UNCHANGED <<rows, lost>>
    BY <1>9 DEF Delivers
  <2>2. CASE q = r
    <3>1. /\ Counted(r) /\ rows[r] \in Nat /\ pos[r] + 1 <= rows[r]
          /\ pos'[r] = pos[r] + 1 /\ rows'[r] = rows[r] /\ lost'[r] = lost[r]
          /\ delivered'[r] = Append(delivered[r], pos[r] + 1)
      BY <1>1, <1>4, <2>1, <2>2 DEF TypeOK
    <3>2. Len(delivered'[r]) = Len(delivered[r]) + 1
      BY <1>2, <3>1
    <3> QED BY <1>2, <1>3, <3>1, <3>2 DEF Counted, Adds
  <2>3. CASE q # r
    BY <1>5, <2>1, <2>3 DEF TypeOK
  <2> QED BY <2>2, <2>3
<1>10. CASE Loses
  <2>1. PICK q \in Result :
          /\ q \in live /\ pos[q] + 1 <= rows[q]
          /\ pos' = [pos EXCEPT ![q] = pos[q] + 1]
          /\ lost' = [lost EXCEPT ![q] = @ \cup {pos[q] + 1}]
          /\ UNCHANGED <<rows, delivered>>
    BY <1>10 DEF Loses
  <2>2. CASE q = r
    <3>1. /\ Counted(r) /\ rows[r] \in Nat /\ pos[r] + 1 <= rows[r]
          /\ pos'[r] = pos[r] + 1 /\ rows'[r] = rows[r] /\ delivered'[r] = delivered[r]
          /\ lost'[r] = lost[r] \cup {pos[r] + 1}
      BY <1>1, <1>4, <2>1, <2>2 DEF TypeOK
    <3>2. pos[r] + 1 \notin lost[r]
      BY <1>2, <1>3
    <3>3. Cardinality(lost'[r]) = Cardinality(lost[r]) + 1
      BY <1>3, <3>1, <3>2, FS_AddElement
    <3>4. Cardinality(lost[r]) \in Nat
      BY <1>3
    <3>5. Adds(Len(delivered[r]), Cardinality(lost[r]) + 1, pos[r] + 1, rows[r])
      BY <1>2, <3>1, <3>4, OneMore DEF Counted
    <3> QED BY <3>1, <3>3, <3>5
  <2>3. CASE q # r
    BY <1>5, <2>1, <2>3 DEF TypeOK
  <2> QED BY <2>2, <2>3
<1>11. CASE Ends
  <2>1. PICK q \in Result :
          /\ q \in live /\ pos[q] >= rows[q]
          /\ pos' = [pos EXCEPT ![q] = rows[q] + 1]
          /\ UNCHANGED <<rows, delivered, lost>>
    BY <1>11 DEF Ends
  <2>2. CASE q = r
    <3>1. /\ Counted(r) /\ rows[r] \in Nat /\ pos[r] >= rows[r]
          /\ pos'[r] = rows[r] + 1 /\ rows'[r] = rows[r]
          /\ delivered'[r] = delivered[r] /\ lost'[r] = lost[r]
      BY <1>1, <1>4, <2>1, <2>2 DEF TypeOK
    <3> QED BY <1>2, <3>1 DEF Counted, Adds
  <2>3. CASE q # r
    BY <1>5, <2>1, <2>3 DEF TypeOK
  <2> QED BY <2>2, <2>3
<1> QED BY <1>6, <1>7, <1>8, <1>9, <1>10, <1>11 DEF Kind

-----------------------------------------------------------------------------
(* Whoever is told there are no more rows *)

\* Only iterators change iterators.
LEMMA OthersKeepReaders ==
  ASSUME Next
  PROVE  UNCHANGED reader \/ \E i \in Reader : ReaderStep(i)
<1>1. CASE ExecuteQuery \/ \E r \in Result : DriverCloses(r)
  BY <1>1 DEF ExecuteQuery, DriverCloses, readerVars
<1>2. CASE \E s \in Statement : StatementFunction(s)
  BY <1>2
  DEF StatementFunction, Execute, PrepareStatement, ExecutePrepared,
      ExecuteQueryPrepared, ExecuteUpdatePrepared, RunsAgain, Refuse, readerVars
<1>3. CASE \E d \in DataSet : DataSetFunction(d)
  BY <1>3
  DEF DataSetFunction, ResultSet, Metadata, CallsNull, AffectedRows, readerVars
<1> QED BY <1>1, <1>2, <1>3 DEF Next

\* An iterator over a result ends by a call of next() that finds no row.
LEMMA EndsByPull ==
  ASSUME TypeOK, NEW i \in Reader, NEW j \in Reader, ReaderStep(j),
         reader'[i].state = "ended", reader'[i].result # NULL
  PROVE  \/ reader'[i] = reader[i]
         \/ reader'[i].result = reader[i].result /\ PullEnd(i) /\ UNCHANGED rows
<1>1. ASSUME NEW state \in {"ended", "stopped"}, Become(j, state)
      PROVE  \/ reader'[i] = reader[i]
             \/ i = j /\ state = "ended" /\ reader'[i].result = reader[i].result
  <2>1. reader \in [Reader -> States]
    BY DEF TypeOK, States
  <2>2. CASE i = j
    <3>1. reader'[i] = [reader[i] EXCEPT !.state = state] /\ reader[i] \in States
      BY <1>1, <2>1, <2>2 DEF Become
    <3> QED BY <2>2, <3>1 DEF States
  <2>3. CASE i # j
    BY <1>1, <2>1, <2>3 DEF Become
  <2> QED BY <2>2, <2>3
<1>2. CASE Pull(j)
  <2>1. CASE PullRow(j) \/ PullFails(j)
    <3>1. UNCHANGED reader \/ Become(j, "stopped")
      BY <2>1 DEF PullRow, PullFails
    <3> QED BY <1>1, <3>1
  <2>2. CASE PullEnd(j)
    <3>1. Become(j, "ended") /\ UNCHANGED rows
      BY <1>2, <2>2 DEF Pull, PullEnd
    <3> QED BY <1>1, <2>2, <3>1
  <2> QED BY <1>2, <2>1, <2>2 DEF Pull
<1>3. CASE CloseReader(j)
  BY <1>1, <1>3 DEF CloseReader
<1>4. ASSUME NEW r \in Result \cup {NULL}, OpenReader(j, r)
      PROVE  reader'[i] = reader[i]
  <2>1. PICK state \in {"open", "stopped", "ended"} :
          /\ reader' = [reader EXCEPT ![j] = [state |-> state, result |-> r]]
          /\ r # NULL => state # "ended"
    BY <1>4 DEF OpenReader
  <2> QED BY <2>1 DEF TypeOK
<1> QED BY <1>2, <1>3, <1>4 DEF ReaderStep

\* An iterator that is open was open before, over the same result, or has just
\* been opened, over a result and not over NULL.
LEMMA OpenSinceOpened ==
  ASSUME TypeOK, NEW i \in Reader, NEW j \in Reader, ReaderStep(j),
         reader'[i].state = "open"
  PROVE  \/ reader'[i] = reader[i]
         \/ reader[i].state = "new" /\ reader'[i].result # NULL
<1>1. ASSUME NEW state \in {"ended", "stopped"}, Become(j, state)
      PROVE  reader'[i] = reader[i]
  <2>1. reader \in [Reader -> States]
    BY DEF TypeOK, States
  <2>2. i # j
    BY <1>1, <2>1 DEF Become, States
  <2> QED BY <1>1, <2>1, <2>2 DEF Become
<1>2. CASE Pull(j) \/ CloseReader(j)
  <2>1. UNCHANGED reader \/ \E state \in {"ended", "stopped"} : Become(j, state)
    BY <1>2 DEF Pull, PullRow, PullEnd, PullFails, CloseReader
  <2> QED BY <1>1, <2>1
<1>3. ASSUME NEW r \in Result \cup {NULL}, OpenReader(j, r)
      PROVE  \/ reader'[i] = reader[i]
             \/ reader[i].state = "new" /\ reader'[i].result # NULL
  <2>1. PICK state \in {"open", "stopped", "ended"} :
          /\ reader' = [reader EXCEPT ![j] = [state |-> state, result |-> r]]
          /\ r = NULL => state = "ended"
    BY <1>3 DEF OpenReader
  <2>2. reader[j].state = "new"
    BY <1>3 DEF OpenReader
  <2> QED BY <2>1, <2>2 DEF TypeOK
<1> QED BY <1>2, <1>3 DEF ReaderStep

\* An open iterator has a result, whatever the step.
LEMMA OpenStep ==
  ASSUME TypeOK, OpenOverResult, Next
  PROVE  OpenOverResult'
BY OthersKeepReaders, OpenSinceOpened DEF OpenOverResult

\* The result of an iterator that ended stays read to the end.
LEMMA EndStep ==
  ASSUME TypeOK, Untouched, EndMeansAll, Next
  PROVE  EndMeansAll'
<1> SUFFICES ASSUME NEW i \in Reader, reader'[i].state = "ended", reader'[i].result # NULL
             PROVE  pos'[reader'[i].result] >= rows'[reader'[i].result]
  BY DEF EndMeansAll
<1>1. Kind
  BY StepKinds
<1>2. CASE reader'[i] = reader[i]
  <2>1. reader[i].result \in Result /\ Exists(reader[i].result)
    BY <1>2 DEF TypeOK, Untouched
  <2>2. pos[reader[i].result] >= rows[reader[i].result]
    BY <1>2 DEF EndMeansAll
  <2> QED BY <1>1, <1>2, <2>1, <2>2, KindGrows
<1>3. CASE reader'[i].result = reader[i].result /\ PullEnd(i) /\ UNCHANGED rows
  <2> DEFINE r == reader[i].result
  <2>1. r \in live /\ r \in Result /\ pos' = [pos EXCEPT ![r] = rows[r] + 1]
    BY <1>3 DEF PullEnd, TypeOK
  <2>2. rows[r] \in Nat
    BY <2>1, RowsAreNumbers DEF Untouched
  <2>3. pos'[r] = rows[r] + 1
    BY <2>1 DEF TypeOK
  <2> QED BY <1>3, <2>2, <2>3
<1> QED BY <1>2, <1>3, OthersKeepReaders, EndsByPull

-----------------------------------------------------------------------------
(* NULL result sets *)

\* Only a silent statement runs without a result.
LEMMA SilentOnly ==
  ASSUME NEW kind, NEW gone, NEW o \in Outcomes, Runs(kind, gone, o)
  PROVE  o # NULL \/ kind = "silent"
BY OutcomeAssumption DEF Runs

\* Data sets are of statements that were run, whatever a statement does next.
LEMMA StatementHasRun ==
  ASSUME TypeOK, DataSetsHaveRun, NEW s \in Statement, StatementFunction(s)
  PROVE  DataSetsHaveRun' /\ UNCHANGED fault
<1>1. NULL \notin Statement
  BY OutcomeAssumption
<1>2. ASSUME NEW d \in DataSet, dataset[d] # NULL
      PROVE  dataset[d] \in Statement
  BY <1>2 DEF TypeOK
<1>3. ASSUME NEW o \in Outcomes,
             outcome' = [outcome EXCEPT ![s] = o],
             o # NULL \/ sql'[s] = "silent",
             \A q \in Statement \ {s} : sql'[q] = sql[q],
             refused' = refused \/ refused' = refused \ {s},
             \A d \in DataSet : dataset'[d] = dataset[d] \/ dataset'[d] = s
      PROVE  DataSetsHaveRun'
  <2> SUFFICES ASSUME NEW d \in DataSet, dataset'[d] # NULL
               PROVE  \/ outcome'[dataset'[d]] # NULL
                      \/ dataset'[d] \in refused' \/ sql'[dataset'[d]] = "silent"
    BY DEF DataSetsHaveRun
  <2>1. dataset'[d] \in Statement
    BY <1>3, <1>2
  <2>2. CASE dataset'[d] = s
    <3>1. outcome'[s] = o
      BY <1>3 DEF TypeOK
    <3> QED BY <1>3, <2>2, <3>1
  <2>3. CASE dataset'[d] # s
    <3>1. outcome'[dataset'[d]] = outcome[dataset[d]] /\ dataset'[d] = dataset[d]
      BY <1>3, <2>1, <2>3 DEF TypeOK
    <3>2. sql'[dataset'[d]] = sql[dataset[d]]
      BY <1>3, <2>1, <2>3, <3>1
    <3> QED BY <1>3, <2>3, <3>1, <3>2 DEF DataSetsHaveRun
  <2> QED BY <2>2, <2>3
<1>4. ASSUME NEW o \in Outcomes, NewDataSet(s, o)
      PROVE  \A d \in DataSet : dataset'[d] = dataset[d] \/ dataset'[d] = s
  BY <1>4 DEF NewDataSet, TypeOK
<1>5. CASE Execute(s)
  <2>1. PICK kind \in SqlKind, o \in Outcomes :
          /\ Runs(kind, {}, o)
          /\ sql' = [sql EXCEPT ![s] = kind]
          /\ outcome' = [outcome EXCEPT ![s] = o]
          /\ NewDataSet(s, o)
          /\ UNCHANGED <<refused, fault>>
    BY <1>5 DEF Execute
  <2>2. o # NULL \/ sql'[s] = "silent"
    BY <2>1, SilentOnly DEF TypeOK
  <2>3. \A q \in Statement \ {s} : sql'[q] = sql[q]
    BY <2>1 DEF TypeOK
  <2> QED BY <1>3, <1>4, <2>1, <2>2, <2>3
<1>6. CASE PrepareStatement(s)
  <2>1. \A q \in Statement : sql[q] = "silent" => sql'[q] = "silent"
    BY <1>6 DEF PrepareStatement, TypeOK
  <2>2. UNCHANGED <<outcome, dataset, refused, fault>>
    BY <1>6 DEF PrepareStatement
  <2> QED BY <1>2, <2>1, <2>2 DEF DataSetsHaveRun
<1>7. CASE Refuse(s)
  <2>1. \A q \in Statement : outcome'[q] = outcome[q] \/ q = s
    BY <1>7 DEF Refuse, TypeOK
  <2>2. refused' = refused \cup {s} /\ UNCHANGED <<sql, dataset, fault>>
    BY <1>7 DEF Refuse
  <2> QED BY <1>2, <2>1, <2>2 DEF DataSetsHaveRun
<1>8. ASSUME NEW o \in Outcomes, RunsAgain(s, o),
             NewDataSet(s, o) \/ UNCHANGED <<dataset, issuedFor>>
      PROVE  DataSetsHaveRun' /\ UNCHANGED fault
  <2>1. o # NULL \/ sql'[s] = "silent"
    BY <1>8, SilentOnly DEF RunsAgain
  <2>2. /\ outcome' = [outcome EXCEPT ![s] = o]
        /\ refused' = refused \ {s}
        /\ UNCHANGED <<sql, fault>>
    BY <1>8 DEF RunsAgain
  <2> QED BY <1>3, <1>4, <1>8, <2>1, <2>2
<1>9. Result \subseteq Outcomes /\ "updated" \in Outcomes /\ NULL \in Outcomes
  BY DEF Outcomes
<1> QED
  BY <1>5, <1>6, <1>7, <1>8, <1>9
  DEF StatementFunction, ExecutePrepared, ExecuteQueryPrepared,
      ExecuteUpdatePrepared

\* A NULL result set is met by a data set whose statement was refused, or
\* gives no result.
LEMMA NullStep ==
  ASSUME TypeOK, DataSetsHaveRun, Next
  PROVE  DataSetsHaveRun' /\ NullHasCause'
<1>1. fault = "none"
  BY DEF Next
<1>2. CASE \E s \in Statement : StatementFunction(s)
  BY <1>1, <1>2, StatementHasRun DEF NullHasCause
<1>3. CASE \E d \in DataSet : CallsNull(d)
  BY <1>3 DEF CallsNull, statementVars, DataSetsHaveRun, NullHasCause
<1>4. CASE UNCHANGED <<statementVars, fault>>
  BY <1>1, <1>4 DEF statementVars, DataSetsHaveRun, NullHasCause
<1>5. CASE ExecuteQuery \/ \E r \in Result : DriverCloses(r)
  BY <1>4, <1>5 DEF ExecuteQuery, DriverCloses
<1>6. CASE \E i \in Reader : ReaderStep(i)
  BY <1>4, <1>6 DEF ReaderStep, Pull, CloseReader, OpenReader
<1>7. CASE \E d \in DataSet : DataSetFunction(d)
  BY <1>3, <1>4, <1>7 DEF DataSetFunction, ResultSet, Metadata, AffectedRows
<1> QED BY <1>2, <1>5, <1>6, <1>7 DEF Next

-----------------------------------------------------------------------------
(* Data sets of statements that are run once *)

\* A new data set is of a statement that was run, with the outcome it has.
LEMMA NewDataSetKeeps ==
  ASSUME TypeOK, NEW s \in Statement, NEW o \in Outcomes, NewDataSet(s, o),
         NEW d \in DataSet, dataset'[d] # NULL
  PROVE  \/ dataset'[d] = s /\ issuedFor'[d] = o
         \/ dataset'[d] = dataset[d] /\ issuedFor'[d] = issuedFor[d]
BY DEF NewDataSet, TypeOK

\* What executes a statement that is not prepared makes the statement.
LEMMA StatementKeepsResults ==
  ASSUME TypeOK, StatementsMade, ExecutedKeepsResult, NEW s \in Statement,
         StatementFunction(s)
  PROVE  StatementsMade' /\ ExecutedKeepsResult'
<1>1. CASE Execute(s)
  <2>1. PICK kind \in SqlKind, o \in Outcomes :
          /\ sql[s] = "none"
          /\ sql' = [sql EXCEPT ![s] = kind]
          /\ outcome' = [outcome EXCEPT ![s] = o]
          /\ NewDataSet(s, o)
          /\ UNCHANGED prepared
    BY <1>1 DEF Execute
  <2>2. sql'[s] # "none" /\ outcome'[s] = o /\ s \notin prepared
    BY <2>1 DEF TypeOK, StatementsMade, SqlKind
  <2>3. \A q \in Statement \ {s} : sql'[q] = sql[q] /\ outcome'[q] = outcome[q]
    BY <2>1 DEF TypeOK
  <2>4. \A d \in DataSet : dataset[d] # NULL => dataset[d] \in Statement \ {s}
    BY <2>1 DEF TypeOK, StatementsMade
  <2>5. ASSUME NEW d \in DataSet, dataset'[d] # NULL
        PROVE  /\ sql'[dataset'[d]] # "none"
               /\ dataset'[d] \notin prepared => outcome'[dataset'[d]] = issuedFor'[d]
    <3>1. CASE dataset'[d] = s /\ issuedFor'[d] = o
      BY <2>2, <3>1
    <3>2. CASE dataset'[d] = dataset[d] /\ issuedFor'[d] = issuedFor[d]
      BY <2>3, <2>4, <2>5, <3>2 DEF StatementsMade, ExecutedKeepsResult
    <3> QED BY <2>1, <2>5, <3>1, <3>2, NewDataSetKeeps
  <2> QED BY <2>1, <2>2, <2>3, <2>5 DEF StatementsMade, ExecutedKeepsResult, TypeOK
<1>2. CASE PrepareStatement(s)
  <2>1. PICK kind \in SqlKind : sql' = [sql EXCEPT ![s] = kind]
    BY <1>2 DEF PrepareStatement
  <2>2. /\ sql[s] = "none" /\ prepared' = prepared \cup {s}
        /\ UNCHANGED <<outcome, dataset, issuedFor>>
    BY <1>2 DEF PrepareStatement
  <2>3. sql'[s] # "none" /\ \A q \in Statement \ {s} : sql'[q] = sql[q]
    BY <2>1 DEF TypeOK, SqlKind
  <2> QED BY <2>2, <2>3 DEF StatementsMade, ExecutedKeepsResult, TypeOK
<1>3. ASSUME s \in prepared, UNCHANGED <<sql, prepared>>,
             \A q \in Statement \ {s} : outcome'[q] = outcome[q],
             \A d \in DataSet : dataset'[d] # NULL =>
               \/ dataset'[d] = s
               \/ dataset'[d] = dataset[d] /\ issuedFor'[d] = issuedFor[d]
      PROVE  StatementsMade' /\ ExecutedKeepsResult'
  <2>1. \A d \in DataSet : dataset[d] # NULL => dataset[d] \in Statement
    BY DEF TypeOK
  <2>2. \A d \in DataSet : dataset'[d] # NULL => sql'[dataset'[d]] # "none"
    BY <1>3, <2>1 DEF StatementsMade
  <2>3. ASSUME NEW d \in DataSet, dataset'[d] # NULL, dataset'[d] \notin prepared
        PROVE  outcome'[dataset'[d]] = issuedFor'[d]
    <3>1. dataset'[d] = dataset[d] /\ issuedFor'[d] = issuedFor[d] /\ dataset[d] # s
      BY <1>3, <2>3
    <3> QED BY <1>3, <2>1, <2>3, <3>1 DEF ExecutedKeepsResult
  <2> QED BY <1>3, <2>2, <2>3 DEF StatementsMade, ExecutedKeepsResult
<1>4. CASE Refuse(s)
  BY <1>3, <1>4 DEF Refuse, TypeOK
<1>5. ASSUME NEW o \in Outcomes, RunsAgain(s, o),
             NewDataSet(s, o) \/ UNCHANGED <<dataset, issuedFor>>
      PROVE  StatementsMade' /\ ExecutedKeepsResult'
  <2>1. /\ s \in prepared /\ UNCHANGED <<sql, prepared>>
        /\ \A q \in Statement \ {s} : outcome'[q] = outcome[q]
    BY <1>5 DEF RunsAgain, TypeOK
  <2>2. \A d \in DataSet : dataset'[d] # NULL =>
          \/ dataset'[d] = s
          \/ dataset'[d] = dataset[d] /\ issuedFor'[d] = issuedFor[d]
    BY <1>5, NewDataSetKeeps
  <2> QED BY <1>3, <2>1, <2>2
<1> QED
  BY <1>1, <1>2, <1>4, <1>5
  DEF StatementFunction, ExecutePrepared, ExecuteQueryPrepared,
      ExecuteUpdatePrepared, Outcomes

\* No other call changes statements or data sets.
LEMMA KeepsResultsStep ==
  ASSUME TypeOK, StatementsMade, ExecutedKeepsResult, Next
  PROVE  StatementsMade' /\ ExecutedKeepsResult'
<1>1. CASE UNCHANGED <<sql, prepared, outcome, dataset, issuedFor>>
  BY <1>1 DEF StatementsMade, ExecutedKeepsResult
<1>2. CASE ExecuteQuery \/ \E r \in Result : DriverCloses(r)
  BY <1>1, <1>2 DEF ExecuteQuery, DriverCloses, statementVars
<1>3. CASE \E d \in DataSet : DataSetFunction(d)
  BY <1>1, <1>3
  DEF DataSetFunction, ResultSet, Metadata, CallsNull, AffectedRows, statementVars
<1>4. CASE \E i \in Reader : ReaderStep(i)
  BY <1>1, <1>4 DEF ReaderStep, Pull, CloseReader, OpenReader, statementVars
<1> QED BY <1>2, <1>3, <1>4, StatementKeepsResults DEF Next

-----------------------------------------------------------------------------
(* The inductive invariant *)

\* It holds before the first call.
LEMMA CursorInvInit ==
  ASSUME Init
  PROVE  CursorInv
<1>1. NULL \notin Result \cup Statement
  BY OutcomeAssumption
<1>2. \A r \in Result : rows[r] = NULL /\ pos[r] = 0 /\ delivered[r] = << >> /\ lost[r] = {}
  BY DEF Init
<1>3. TypeOK
  BY DEF Init, TypeOK
<1>4. Untouched
  BY <1>1, <1>2 DEF Init, Untouched, Exists
<1>5. RowsAccounted
  <2>1. 1 .. 0 = {} /\ DOMAIN << >> = {}
    OBVIOUS
  <2>2. \A r \in Result : Passed(r) = {}
    BY <1>2, <2>1 DEF Passed
  <2>3. \A r \in Result : {delivered[r][k] : k \in DOMAIN delivered[r]} = {}
    BY <1>2, <2>1
  <2>4. \A r \in Result : DOMAIN delivered[r] = {} /\ lost[r] = {}
    BY <1>2, <2>1
  <2> QED BY <2>2, <2>3, <2>4 DEF RowsAccounted
<1>6. EndMeansAll /\ OpenOverResult /\ DataSetsHaveRun /\ NullHasCause
  BY DEF Init, EndMeansAll, OpenOverResult, DataSetsHaveRun, NullHasCause
<1>7. RowsConserved
  <2>1. \A r \in Result : ~Exists(r)
    BY <1>2 DEF Exists
  <2> QED BY <2>1 DEF RowsConserved
<1>8. StatementsMade /\ ExecutedKeepsResult
  BY DEF Init, StatementsMade, ExecutedKeepsResult
<1> QED BY <1>3, <1>4, <1>5, <1>6, <1>7, <1>8 DEF CursorInv

\* Every step keeps it.
LEMMA CursorInvStep ==
  ASSUME CursorInv, Next
  PROVE  CursorInv'
<1> USE DEF CursorInv
<1>1. TypeOK'
  BY TypesStep
<1>2. Untouched'
  BY UntouchedStep
<1>3. RowsAccounted'
  BY AccountStep, StepKinds
<1>4. EndMeansAll' /\ OpenOverResult'
  BY EndStep, OpenStep
<1>5. DataSetsHaveRun' /\ NullHasCause'
  BY NullStep
<1>6. RowsConserved'
  BY CountStep, StepKinds
<1>7. StatementsMade' /\ ExecutedKeepsResult'
  BY KeepsResultsStep
<1> QED BY <1>1, <1>2, <1>3, <1>4, <1>5, <1>6, <1>7

\* A step that changes nothing keeps it.
LEMMA CursorInvStutter ==
  ASSUME CursorInv, UNCHANGED vars
  PROVE  CursorInv'
<1>1. TypeOK' /\ Untouched' /\ RowsAccounted' /\ EndMeansAll' /\ OpenOverResult'
  BY DEF CursorInv, vars, cursorVars, statementVars, readerVars, TypeOK, Untouched,
         Exists, RowsAccounted, Passed, EndMeansAll, OpenOverResult
<1>2. RowsConserved'
  BY DEF CursorInv, vars, cursorVars, readerVars, RowsConserved, Exists
<1>3. DataSetsHaveRun' /\ NullHasCause' /\ StatementsMade' /\ ExecutedKeepsResult'
  BY DEF CursorInv, vars, statementVars, DataSetsHaveRun, NullHasCause,
         StatementsMade, ExecutedKeepsResult
<1> QED BY <1>1, <1>2, <1>3 DEF CursorInv

\* The inductive invariant of results, data sets and iterators holds in every
\* reachable state, for any number of them and of rows.
THEOREM CursorsInductive == Spec => []CursorInv
<1>1. CursorInv /\ [Next]_vars => CursorInv'
  BY CursorInvStep, CursorInvStutter
<1> QED BY <1>1, CursorInvInit, PTL DEF Spec

\* Every variable keeps its type.
THEOREM CursorsTyped == Spec => []TypeOK
<1>1. CursorInv => TypeOK
  BY DEF CursorInv
<1> QED BY <1>1, CursorsInductive, PTL

\* Every row that a cursor passed was delivered once, in order, or lost, however
\* many iterators share the cursor (JSONItemSequence) and wherever affected-rows
\* sends it.
THEOREM EveryRowAccounted == Spec => []RowsAccounted
<1>1. CursorInv => RowsAccounted
  BY DEF CursorInv
<1> QED BY <1>1, CursorsInductive, PTL

\* result-set gives the whole result but for the rows known to be lost: when an
\* iterator ends, the iterators over its result had all the others.
THEOREM OnlyLostAreMissing == Spec => []EndMissesOnlyLost
<1>1. CursorInv => EndMissesOnlyLost
  <2> SUFFICES ASSUME CursorInv, NEW i \in Reader, reader[i].state = "ended",
                      reader[i].result # NULL
               PROVE  Len(delivered[reader[i].result])
                        = rows[reader[i].result] - Cardinality(lost[reader[i].result])
    BY DEF EndMissesOnlyLost
  <2> DEFINE r == reader[i].result
  <2>1. /\ r \in Result /\ Exists(r) /\ pos[r] >= rows[r]
        /\ rows[r] \in Nat /\ pos[r] \in Nat
    BY RowsAreNumbers DEF CursorInv, TypeOK, Untouched, EndMeansAll
  <2>2. Len(delivered[r]) \in Nat /\ Cardinality(lost[r]) \in Nat
    BY <2>1, LostFinite DEF CursorInv, TypeOK
  <2>3. Len(delivered[r]) + Cardinality(lost[r]) = IF pos[r] <= rows[r] THEN pos[r] ELSE rows[r]
    BY <2>1 DEF CursorInv, RowsConserved
  <2> HIDE DEF r
  <2>4. Len(delivered[r]) = rows[r] - Cardinality(lost[r])
    BY <2>1, <2>2, <2>3
  <2> QED BY <2>4 DEF r
<1> QED BY <1>1, CursorsInductive, PTL

\* A data set of execute keeps the result it was returned for; only those of a
\* prepared statement change it.
THEOREM ExecutedDataSetsKeep == Spec => []ExecutedKeepsResult
<1>1. CursorInv => ExecutedKeepsResult
  BY DEF CursorInv
<1> QED BY <1>1, CursorsInductive, PTL

\* metadata and affected-rows meet a NULL result set only of a statement that
\* was refused when it was executed again, or gives no result at all.
THEOREM NullOnlyAfterRefusalOrSilence == Spec => []NullHasCause
<1>1. CursorInv => NullHasCause
  BY DEF CursorInv
<1> QED BY <1>1, CursorsInductive, PTL

-----------------------------------------------------------------------------
(* Cursors implement streams of rows *)

\* What is left of a result, and how much was taken, depends on nothing else.
LEMMA LeftOf ==
  ASSUME TypeOK, Untouched, NEW r \in Result, Exists(r)
  PROVE  /\ rows[r] \in Nat /\ pos[r] \in Nat /\ Left(r) \in Nat
         /\ pos[r] <= rows[r] => Left(r) = rows[r] - pos[r]
         /\ pos[r] >= rows[r] => Left(r) = 0
<1>1. rows[r] \in Nat /\ pos[r] \in Nat
  BY RowsAreNumbers
<1> QED BY <1>1 DEF Left, Exists

\* A step that moves no cursor leaves the streams alone, or closes one.
LEMMA StillRefines ==
  ASSUME TypeOK, Untouched, Still
  PROVE  [Stream!Next]_(Stream!vars)
<1>1. UNCHANGED <<[r \in Result |-> Left(r)], [r \in Result |-> Len(delivered[r])]>>
  BY DEF Still, accountVars, Left
<1>2. CASE \E r \in Result : live' = live \ {r}
  BY <1>1, <1>2 DEF Stream!Next, Stream!Close
<1>3. CASE live' = live
  BY <1>1, <1>3 DEF Stream!vars
<1> QED BY <1>2, <1>3 DEF Still

\* A new result is a new stream.
LEMMA BeginsRefines ==
  ASSUME TypeOK, Untouched, TypeOK', Untouched', Begins
  PROVE  Stream!Next
<1>1. PICK q \in Result, n \in RowCount :
        /\ rows[q] = NULL
        /\ rows' = [rows EXCEPT ![q] = n]
        /\ \E gone \in {{}} \cup {{p} : p \in Result} : live' = (live \ gone) \cup {q}
        /\ UNCHANGED <<pos, delivered, lost>>
  BY DEF Begins
<1>2. Left(q) = NULL /\ pos[q] = 0
  BY <1>1 DEF Left, Untouched, Exists
<1>3. rows'[q] = n /\ n \in Nat /\ n # NULL
  BY <1>1, RowsExist, RowCountAssumption DEF TypeOK
<1>4. Left(q)' = n
  BY <1>1, <1>2, <1>3 DEF Left
<1>5. \A r \in Result \ {q} : Left(r)' = Left(r)
  BY <1>1 DEF Left, TypeOK
<1>6. [r \in Result |-> Left(r)]' = [[r \in Result |-> Left(r)] EXCEPT ![q] = n]
  BY <1>4, <1>5
<1>7. UNCHANGED [r \in Result |-> Len(delivered[r])]
  BY <1>1
<1>8. Stream!Begin(q, n)
  BY <1>1, <1>2, <1>6, <1>7 DEF Stream!Begin
<1> QED BY <1>8 DEF Stream!Next

\* A cursor that moves without delivering drops the rows it passes.
LEMMA MovesRefine ==
  ASSUME TypeOK, Untouched, NEW q \in live, NEW p \in Nat, p >= pos[q] \/ p >= rows[q],
         pos' = [pos EXCEPT ![q] = p], UNCHANGED <<rows, live, delivered>>
  PROVE  [Stream!Next]_(Stream!vars)
<1>1. q \in Result /\ Exists(q)
  BY DEF TypeOK, Untouched
<1>2. /\ rows[q] \in Nat /\ pos[q] \in Nat /\ Left(q) \in Nat /\ rows[q] # NULL
      /\ pos[q] <= rows[q] => Left(q) = rows[q] - pos[q]
      /\ pos[q] >= rows[q] => Left(q) = 0
  BY <1>1, LeftOf DEF Exists
<1>3. pos'[q] = p
  BY <1>1 DEF TypeOK
<1>4. Left(q)' = IF p < rows[q] THEN rows[q] - p ELSE 0
  BY <1>2, <1>3 DEF Left
<1>5. \A r \in Result \ {q} : Left(r)' = Left(r)
  BY DEF Left, TypeOK
<1>6. [r \in Result |-> Left(r)]' = [[r \in Result |-> Left(r)] EXCEPT ![q] = Left(q)']
  BY <1>5
<1>7. Left(q)' \in Nat /\ (Left(q)' = Left(q) \/ Left(q)' < Left(q))
  BY <1>2, <1>4
<1>8. UNCHANGED <<[r \in Result |-> Len(delivered[r])], live>>
  OBVIOUS
<1>9. CASE Left(q)' = Left(q)
  BY <1>1, <1>6, <1>8, <1>9 DEF Stream!vars
<1>10. CASE Left(q)' < Left(q)
  <2>1. Stream!Drop(q, Left(q)')
    BY <1>1, <1>6, <1>8, <1>10 DEF Stream!Drop
  <2>2. Left(q) # NULL /\ Left(q)' \in 0 .. Left(q) - 1
    BY <1>2, <1>7, <1>10, OutcomeAssumption
  <2> QED BY <1>1, <2>1, <2>2 DEF Stream!Next
<1> QED BY <1>7, <1>9, <1>10

\* A row that is delivered is taken from its stream.
LEMMA DeliversRefines ==
  ASSUME TypeOK, Untouched, Delivers
  PROVE  Stream!Next
<1>1. PICK q \in Result :
        /\ q \in live /\ pos[q] + 1 <= rows[q]
        /\ pos' = [pos EXCEPT ![q] = pos[q] + 1]
        /\ delivered' = [delivered EXCEPT ![q] = Append(@, pos[q] + 1)]
        /\ UNCHANGED <<rows, live, lost>>
  BY DEF Delivers
<1>2. Exists(q)
  BY <1>1 DEF Untouched
<1>3. /\ rows[q] \in Nat /\ pos[q] \in Nat /\ rows[q] # NULL
      /\ Left(q) = rows[q] - pos[q] /\ pos'[q] = pos[q] + 1
  BY <1>1, <1>2, RowsAreNumbers DEF Left, Exists, TypeOK
<1>4. Left(q)' = Left(q) - 1 /\ Left(q) > 0
  BY <1>1, <1>3 DEF Left
<1>5. \A r \in Result \ {q} : Left(r)' = Left(r)
  BY <1>1 DEF Left, TypeOK
<1>6. [r \in Result |-> Left(r)]' = [[r \in Result |-> Left(r)] EXCEPT ![q] = @ - 1]
  BY <1>4, <1>5
<1>7. Len(delivered'[q]) = Len(delivered[q]) + 1
  <2>1. delivered[q] \in Seq(Nat) /\ delivered'[q] = Append(delivered[q], pos[q] + 1)
    BY <1>1 DEF TypeOK
  <2> QED BY <1>3, <2>1
<1>8. \A r \in Result \ {q} : delivered'[r] = delivered[r]
  BY <1>1 DEF TypeOK
<1>9. [r \in Result |-> Len(delivered[r])]'
        = [[r \in Result |-> Len(delivered[r])] EXCEPT ![q] = @ + 1]
  BY <1>7, <1>8
<1>10. Stream!Take(q)
  BY <1>1, <1>4, <1>6, <1>9 DEF Stream!Take
<1> QED BY <1>10 DEF Stream!Next

\* Every step is one of the streams, or none.
LEMMA StepStreams ==
  ASSUME CursorInv, CursorInv', [Next]_vars
  PROVE  [Stream!Next]_(Stream!vars)
<1> USE DEF CursorInv
<1>1. CASE UNCHANGED vars
  <2>1. Still
    BY <1>1 DEF vars, cursorVars, readerVars, Still, accountVars
  <2> QED BY <2>1, StillRefines
<1>2. CASE Next
  <2>1. Kind
    BY <1>2, StepKinds
  <2>2. \A q \in live : q \in Result /\ rows[q] \in Nat /\ pos[q] \in Nat
    BY RowsAreNumbers DEF Untouched, TypeOK
  <2>3. CASE Skips
    <3>1. PICK q \in Result : Last(q) /\ UNCHANGED <<rows, live, delivered>>
      BY <2>3 DEF Skips
    <3>2. CASE rows[q] > 0
      <4>1. q \in live /\ pos' = [pos EXCEPT ![q] = rows[q]]
        BY <3>1, <3>2 DEF Last
      <4>2. rows[q] \in Nat /\ rows[q] >= rows[q]
        BY <2>2, <4>1
      <4> QED BY <3>1, <4>1, <4>2, MovesRefine
    <3>3. CASE ~(rows[q] > 0)
      <4>1. Still
        BY <3>1, <3>3 DEF Last, Still, accountVars
      <4> QED BY <4>1, StillRefines
    <3> QED BY <3>2, <3>3
  <2>4. CASE Loses
    <3>1. PICK q \in live : pos' = [pos EXCEPT ![q] = pos[q] + 1]
      BY <2>4 DEF Loses
    <3>2. pos[q] + 1 \in Nat /\ pos[q] + 1 >= pos[q] /\ UNCHANGED <<rows, live, delivered>>
      BY <2>2, <2>4 DEF Loses
    <3> QED BY <3>1, <3>2, MovesRefine
  <2>5. CASE Ends
    <3>1. PICK q \in live : pos[q] >= rows[q] /\ pos' = [pos EXCEPT ![q] = rows[q] + 1]
      BY <2>5 DEF Ends
    <3>2. rows[q] + 1 \in Nat /\ rows[q] + 1 >= rows[q] /\ UNCHANGED <<rows, live, delivered>>
      BY <2>2, <2>5 DEF Ends
    <3> QED BY <3>1, <3>2, MovesRefine
  <2> QED
    BY <2>1, <2>3, <2>4, <2>5, StillRefines, BeginsRefines, DeliversRefines DEF Kind
<1> QED BY <1>1, <1>2

\* No result is no stream.
LEMMA InitStreams ==
  ASSUME Init
  PROVE  Stream!Init
<1>1. \A r \in Result : Left(r) = NULL /\ Len(delivered[r]) = 0
  BY DEF Init, Left
<1> QED BY <1>1 DEF Init, Stream!Init

\* Results whose cursors many iterators and affected-rows move are streams of
\* rows that are taken one at a time or dropped, and never come back.
THEOREM CursorsImplementStreams == Spec => ImplementsStream
<1>1. CursorInv /\ CursorInv' /\ [Next]_vars => [Stream!Next]_(Stream!vars)
  BY StepStreams
<1>2. Init => Stream!Init
  BY InitStreams
<1> QED
  BY <1>1, <1>2, CursorsInductive, PTL DEF Spec, ImplementsStream, Stream!Spec

-----------------------------------------------------------------------------
(* Readers run out of rows *)

\* No kind of step brings rows back to a result that exists.
LEMMA LeftShrinks ==
  ASSUME TypeOK, Untouched, Kind, NEW r \in Result, Exists(r)
  PROVE  Left(r)' \in Nat /\ Left(r)' <= Left(r)
<1>1. /\ rows[r] \in Nat /\ pos[r] \in Nat /\ rows[r] # NULL
      /\ Left(r) = IF pos[r] < rows[r] THEN rows[r] - pos[r] ELSE 0
  BY RowsAreNumbers DEF Exists, Left
<1>2. rows'[r] = rows[r]
  BY KindGrows
<1>3. ASSUME pos'[r] \in Nat, pos'[r] >= pos[r] \/ pos'[r] >= rows[r]
      PROVE  Left(r)' \in Nat /\ Left(r)' <= Left(r)
  <2>1. Left(r)' = IF pos'[r] < rows[r] THEN rows[r] - pos'[r] ELSE 0
    BY <1>1, <1>2 DEF Left
  <2> QED BY <1>1, <1>3, <2>1
<1>4. CASE pos'[r] = pos[r]
  BY <1>1, <1>3, <1>4
<1>5. CASE Still \/ Begins
  BY <1>4, <1>5 DEF Still, Begins, accountVars
<1>6. CASE Skips
  <2>1. pos'[r] = pos[r] \/ pos'[r] = rows[r]
    BY <1>6 DEF Skips, Last, TypeOK
  <2> QED BY <1>1, <1>3, <2>1
<1>7. CASE Delivers \/ Loses
  <2>1. pos'[r] = pos[r] \/ pos'[r] = pos[r] + 1
    BY <1>7 DEF Delivers, Loses, TypeOK
  <2> QED BY <1>1, <1>3, <2>1
<1>8. CASE Ends
  <2>1. pos'[r] = pos[r] \/ pos'[r] = rows[r] + 1
    BY <1>8 DEF Ends, TypeOK
  <2> QED BY <1>1, <1>3, <2>1
<1> QED BY <1>5, <1>6, <1>7, <1>8 DEF Kind

\* A call of next() after which the iterator is still open took a row.
LEMMA PullTakes ==
  ASSUME TypeOK, Untouched, NEW i \in Reader, Pull(i), reader'[i].state = "open",
         reader[i].result \in Result
  PROVE  Left(reader[i].result)' < Left(reader[i].result)
<1> DEFINE r == reader[i].result
<1>1. PullRow(i)
  <2>1. ASSUME NEW state \in {"ended", "stopped"}, Become(i, state)
        PROVE  FALSE
    <3>1. reader \in [Reader -> States]
      BY DEF TypeOK, States
    <3> QED BY <2>1, <3>1 DEF Become, States
  <2> QED BY <2>1 DEF Pull, PullEnd, PullFails
<1>2. /\ r \in live /\ pos[r] + 1 <= rows[r]
      /\ pos' = [pos EXCEPT ![r] = pos[r] + 1]
      /\ UNCHANGED <<rows, reader>>
  <2>1. ~Become(i, "stopped")
    <3>1. reader \in [Reader -> States]
      BY DEF TypeOK, States
    <3> QED BY <3>1 DEF Become, States
  <2> QED BY <1>1, <2>1 DEF PullRow, Pull
<1>3. pos'[r] = pos[r] + 1 /\ rows'[r] = rows[r]
  BY <1>2 DEF TypeOK
<1>4. rows[r] \in Nat /\ pos[r] \in Nat /\ rows[r] # NULL
  BY <1>2, RowsAreNumbers DEF Untouched, Exists
<1>5. reader'[i].result = reader[i].result
  BY <1>2
<1> HIDE DEF r
<1>6. Left(r) = rows[r] - pos[r]
  BY <1>2, <1>4 DEF Left
<1>7. (IF rows'[r] = NULL THEN NULL ELSE IF pos'[r] < rows'[r] THEN rows'[r] - pos'[r] ELSE 0)
        < Left(r)
  BY <1>2, <1>3, <1>4, <1>6
<1> QED BY <1>5, <1>7 DEF Left, r

\* An iterator (JSONItemIterator::next) never gets rows back: whatever is called
\* meanwhile, its result has no more left than before, and each call of next()
\* that leaves it open takes one.
THEOREM ReadersUseUpRows == Spec => ReadersRunOut
<1> DEFINE TakesRow(i) ==
      reader[i].state = "open" /\ reader'[i].state = "open" =>
        /\ reader'[i].result = reader[i].result
        /\ Left(reader[i].result)' <= Left(reader[i].result)
        /\ Pull(i) => Left(reader[i].result)' < Left(reader[i].result)
<1>1. ASSUME CursorInv, Next, NEW i \in Reader
      PROVE  TakesRow(i)
  <2> SUFFICES ASSUME reader[i].state = "open", reader'[i].state = "open"
               PROVE  /\ reader'[i].result = reader[i].result
                      /\ Left(reader[i].result)' <= Left(reader[i].result)
                      /\ Pull(i) => Left(reader[i].result)' < Left(reader[i].result)
    OBVIOUS
  <2>1. TypeOK /\ Untouched /\ OpenOverResult /\ Kind
    BY <1>1, StepKinds DEF CursorInv
  <2>2. reader[i].result \in Result /\ Exists(reader[i].result)
    BY <2>1 DEF TypeOK, Untouched, OpenOverResult
  <2>3. reader'[i] = reader[i]
    BY <1>1, <2>1, OthersKeepReaders, OpenSinceOpened
  <2>4. ASSUME NEW r \in Result, r = reader[i].result
        PROVE  Left(reader[i].result)' <= Left(reader[i].result)
    <3>1. (IF rows'[r] = NULL THEN NULL
            ELSE IF pos'[r] < rows'[r] THEN rows'[r] - pos'[r] ELSE 0) <= Left(r)
      BY <2>1, <2>2, <2>4, LeftShrinks DEF Left
    <3> QED BY <2>3, <2>4, <3>1 DEF Left
  <2> QED BY <2>1, <2>2, <2>3, <2>4, PullTakes
<1>2. CursorInv /\ [Next]_vars => [\A i \in Reader : TakesRow(i)]_vars
  BY <1>1
<1>3. ReadersRunOut <=> [][\A i \in Reader : TakesRow(i)]_vars
  BY DEF ReadersRunOut
<1> QED BY <1>2, <1>3, CursorsInductive, PTL DEF Spec
=============================================================================
