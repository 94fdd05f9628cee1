------------------------ MODULE PreparedParameters ------------------------
(***************************************************************************)
(* The way of a value: a setter gives it to a parameter of a prepared      *)
(* statement, an execution puts the parameters into the columns of a row,  *)
(* and an iterator reads the row back.  One prepared statement, whose      *)
(* parameter i goes to column i; its handle is found (see JdbcModule), and *)
(* a call that is refused (SQL004, SQL003, a Java exception) is no step.   *)
(***************************************************************************)
EXTENDS SqlTypes

CONSTANTS Param,   \* the parameters of the statement, and the columns
          Layout,  \* the types of the columns, a function of Param
          Index,   \* the indexes a query may name
          Item,    \* the items a query may pass
          Datum,   \* what a database may make of a value of another kind
          UNSET,   \* a parameter that has no value
          UNKNOWN  \* history: overwritten by a call that named another index

ItemType == {"XS_DOUBLE", "XS_FLOAT", "XS_INTEGER", "XS_DECIMAL", "XS_BOOLEAN",
             "XS_STRING", "JS_NULL", "other"}

ASSUME ParamAssumption ==
  /\ Param \subseteq 0..(IntRange - 1)
  /\ Index \subseteq Nat
  /\ Layout \subseteq [Param -> Type]

ASSUME ItemAssumption ==
  /\ Item \subseteq [type : ItemType, val : Nat]
  /\ \A x \in Item :
       /\ x.type \in {"XS_DOUBLE", "XS_FLOAT"} => Rounded(x.val) = x.val
       /\ x.type = "XS_BOOLEAN" => x.val \in {0, 1}
       /\ x.type = "JS_NULL" => x.val = 0

ASSUME DatumAssumption == Datum \subseteq Nat

\* A parameter at the driver, by the type of item whose setter gave it.
JavaValue ==
  [type : {"XS_DOUBLE", "XS_FLOAT", "XS_INTEGER", "XS_BOOLEAN", "JS_NULL"}, val : Nat]
  \cup [type : {"XS_STRING"}, val : Text]

ASSUME NoItems ==
  /\ UNSET \notin JavaValue \cup Item \cup {UNKNOWN}
  /\ UNKNOWN \notin Item

VARIABLES
  column,   \* the types of the columns
  param,    \* param[i]: what the driver holds for parameter i
  asked,    \* history: the item last asked for parameter i
  row,      \* the row the last execution stored, or NULL
  inserted, \* history: what had been asked when it did
  answer    \* the row as an iterator returned it, or NULL

vars == <<column, param, asked, row, inserted, answer>>

TypeOK ==
  /\ column \in [Param -> Type]
  /\ param \in [Param -> JavaValue \cup {UNSET}]
  /\ asked \in [Param -> Item \cup {UNSET, UNKNOWN}]
  /\ row \in [Param -> Content] \cup {NULL}
  /\ inserted \in [Param -> Item \cup {UNSET, UNKNOWN}]
  /\ answer \in [Param -> Answer \cup {NOTHING}] \cup {NULL}

Init ==
  /\ column \in Layout
  /\ param = [i \in Param |-> UNSET]
  /\ asked = [i \in Param |-> UNSET]
  /\ row = NULL
  /\ inserted = [i \in Param |-> UNSET]
  /\ answer = NULL

-----------------------------------------------------------------------------
(* Setters *)

\* A slip to guard against: columns of the row are counted from 0.
PassedFromZero(index, x, v) ==
  /\ Narrowed(index + 1) \in Param
  /\ param' = [param EXCEPT ![Narrowed(index + 1)] = v]
  /\ asked' = [asked EXCEPT ![Narrowed(index)] =
                 IF index = Narrowed(index) THEN x ELSE UNKNOWN]
  /\ UNCHANGED <<column, row, inserted, answer>>

\* The JNI call that passes v for item x.  The index is a C++ long, and JNI
\* takes an int from its place: the call reaches the parameter of its lower
\* bits.  A driver turns down an index that is no parameter.
Passed(index, x, v) ==
  /\ Narrowed(index) \in Param
  /\ param' = [param EXCEPT ![Narrowed(index)] = v]
  /\ asked' = [asked EXCEPT ![Narrowed(index)] =
                 IF index = Narrowed(index) THEN x ELSE UNKNOWN]
  /\ UNCHANGED <<column, row, inserted, answer>>

\* sscanf of the decimal's digits.
ToDouble(x) == Typed("XS_DOUBLE", Rounded(x.val))

\* A jstring of the item's text.
NewStringUTF(x) == Typed("XS_STRING", Recoded(x.val))

\* setDouble, setFloat, setLong; a decimal goes through a double.
SetNumeric(index, x) ==
  \/ /\ x.type \in {"XS_DOUBLE", "XS_FLOAT", "XS_INTEGER"}
     /\ Passed(index, x, x)
  \/ /\ x.type = "XS_DECIMAL"
     /\ Passed(index, x, ToDouble(x))

SetString(index, x) ==
  /\ x.type = "XS_STRING"
  /\ Passed(index, x, NewStringUTF(x))

SetBoolean(index, x) ==
  /\ x.type = "XS_BOOLEAN"
  /\ Passed(index, x, x)

\* setNull with the type the driver's metadata gives for the parameter.
SetNull(index, x) ==
  /\ x.type = "JS_NULL"
  /\ Passed(index, x, x)

\* set-value: any other type, the subtypes of xs:integer among them, is
\* passed as a string.
SetValue(index, x) ==
  \/ SetNumeric(index, x)
  \/ SetBoolean(index, x)
  \/ SetNull(index, x)
  \/ /\ x.type \in {"XS_STRING", "other"}
     /\ Passed(index, x, NewStringUTF(x))

ClearParams ==
  /\ param' = [i \in Param |-> UNSET]
  /\ asked' = [i \in Param |-> UNSET]
  /\ UNCHANGED <<column, row, inserted, answer>>

-----------------------------------------------------------------------------
(* The database, and the row that comes back *)

IntegerTypes == {"INTEGER", "BIGINT", "TINYINT", "SMALLINT"}
RealTypes    == {"DECIMAL", "NUMERIC", "DOUBLE", "FLOAT"}
TruthTypes   == {"BOOLEAN", "BIT"}
CharTypes    == {"VARCHAR", "NVARCHAR", "LONGVARCHAR", "LONGNVARCHAR", "CLOB", "NCLOB"}

\* What a column can hold.
Fits(t, c) ==
  c # NULL =>
     /\ t # "_NULL"
     /\ c = GARBLED => t \in CharTypes
     /\ t \in {"INTEGER", "SMALLINT", "TINYINT"} => c < IntRange
     /\ isBoolean(t) => c \in {0, 1}

\* The columns that are made for values of a type.
MadeFor(t, type) ==
  \/ type = "XS_INTEGER" /\ t \in IntegerTypes \cup RealTypes
  \/ type = "XS_DOUBLE"  /\ t \in RealTypes
  \/ type = "XS_BOOLEAN" /\ t \in TruthTypes
  \/ type = "XS_STRING"  /\ t \in CharTypes

\* What a column may keep of the driver's value v.  A value of another kind
\* (a string in a date, a number in a text, what a CHAR pads, what a REAL
\* rounds) is converted as the database pleases.
Kept(t, v) ==
  CASE v.type = "JS_NULL"  -> {NULL}
    [] MadeFor(t, v.type)  -> {IF t \in {"DOUBLE", "FLOAT"} THEN Rounded(v.val) ELSE v.val}
    [] OTHER               -> Datum

\* Nothing, where the database turns the value down.
Stored(t, v) == {c \in Kept(t, v) : Fits(t, c)}

\* The rows whose column i is one of contents[i].
RowsOf(contents) ==
  {f \in [Param -> UNION {contents[i] : i \in Param}] :
     \A i \in Param : f[i] \in contents[i]}

\* A slip to guard against: executing clears the parameters as well.
ExecuteClears ==
  /\ \A i \in Param : param[i] # UNSET
  /\ row' \in RowsOf([i \in Param |-> Stored(column[i], param[i])])
  /\ inserted' = asked
  /\ param' = [i \in Param |-> UNSET]
  /\ answer' = NULL
  /\ UNCHANGED <<column, asked>>

\* A slip to guard against: a parameter without a value is no obstacle.
ExecuteUnset ==
  /\ row' \in RowsOf([i \in Param |-> IF param[i] = UNSET THEN {UNSET}
                                     ELSE Stored(column[i], param[i])])
  /\ inserted' = asked
  /\ answer' = NULL
  /\ UNCHANGED <<column, param, asked>>

\* execute-prepared and its two sisters.  The parameters stay for the next
\* execution.
Execute ==
  /\ \A i \in Param : param[i] # UNSET
  /\ row' \in RowsOf([i \in Param |-> Stored(column[i], param[i])])
  /\ inserted' = asked
  /\ answer' = NULL
  /\ UNCHANGED <<column, param, asked>>

\* next() of an iterator over a query for the row.
ReadRow ==
  /\ row # NULL
  /\ answer' = [i \in Param |-> Reading(column[i], row[i])]
  /\ UNCHANGED <<column, param, asked, row, inserted>>

Next ==
  \/ \E index \in Index, x \in Item :
       \/ SetNumeric(index, x) \/ SetString(index, x) \/ SetBoolean(index, x)
       \/ SetNull(index, x) \/ SetValue(index, x)
  \/ ClearParams \/ Execute \/ ReadRow

Spec == Init /\ [][Next]_vars

-----------------------------------------------------------------------------
(* Properties *)

\* What the driver is sent for an item.
Sent(x) == CASE x.type \in {"XS_STRING", "other"} -> NewStringUTF(x)
             [] x.type = "XS_DECIMAL"            -> ToDouble(x)
             [] OTHER                            -> x

\* The driver holds for each parameter the value last asked for it since
\* clear-params, whichever setter was used and however often the statement
\* was executed, unless a call for an index beyond an int landed on it.
ParametersAsAsked ==
  \A i \in Param : asked[i] # UNKNOWN =>
    param[i] = IF asked[i] = UNSET THEN UNSET ELSE Sent(asked[i])

\* Where an item goes into a column of type t and comes back, type and all: an
\* integer has to be an int, a string to stay within the BMP, a null must not
\* go where numbers and truth values are read.
Faithful(t, x) ==
  \/ x.type = "XS_INTEGER" /\ t \in IntegerTypes /\ x.val < IntRange
  \/ x.type \in {"XS_INTEGER", "XS_DECIMAL", "XS_DOUBLE"} /\ t \in RealTypes
  \/ x.type = "XS_BOOLEAN" /\ t \in TruthTypes
  \/ x.type = "XS_STRING" /\ t \in CharTypes /\ x.val \notin Wide
  \/ /\ x.type = "JS_NULL"
     /\ t \notin IntegerTypes \cup RealTypes \cup {"REAL"} \cup TruthTypes \cup Unread

\* The item that comes back: of any number in a column of reals, the double
\* nearest to it, however often it was rounded on the way.
ReadBack(t, x) == IF t \in RealTypes THEN ToDouble(x) ELSE x

\* A row reads as it was set: set-*, execute-prepared and the iterator of the
\* result undo each other's conversions wherever the way is faithful, through
\* any sequence of setters, executions and readings.
WhatWasSetIsRead ==
  answer # NULL => \A i \in Param :
    LET x == inserted[i]
    IN  x \in Item /\ Faithful(column[i], x) => answer[i] = ReadBack(column[i], x)

Zeros == {Typed("XS_INTEGER", 0), Typed("XS_DOUBLE", 0), Typed("XS_BOOLEAN", 0)}

\* A null that is read was set: no setter, column or reading makes one of a
\* value.  A null that is set may get lost, but reads as 0 or false then and
\* as no other value, one of an earlier row or execution among them.
NullsOrZeros ==
  answer # NULL => \A i \in Param :
    LET x == inserted[i]
    IN  x \in Item =>
          /\ answer[i] = JSONNull => x.type = "JS_NULL"
          /\ x.type = "JS_NULL" /\ column[i] \notin Unread =>
               answer[i] \in Zeros \cup {JSONNull}

-----------------------------------------------------------------------------
(* The inductive invariant *)

\* The stored row is what was asked, as far as the columns keep it.
RowAsAsked ==
  row # NULL => \A i \in Param :
    /\ inserted[i] # UNSET /\ Fits(column[i], row[i])
    /\ inserted[i] # UNKNOWN => row[i] \in Kept(column[i], Sent(inserted[i]))

AnswerFromRow ==
  answer # NULL => row # NULL /\ answer = [i \in Param |-> Reading(column[i], row[i])]

\* The inductive invariant: each stage of the way holds what the one before
\* gave it.
WayInv == TypeOK /\ ParametersAsAsked /\ RowAsAsked /\ AnswerFromRow

-----------------------------------------------------------------------------
(* What the documentation of the functions says *)

\* result-set: "an object of column-value representation of the returned SQL
\* result".  A null that was set is a null when it is read.
NullsStayNull ==
  answer # NULL => \A i \in Param :
    inserted[i] \in Item /\ inserted[i].type = "JS_NULL" /\ column[i] \notin Unread
      => answer[i] = JSONNull

=============================================================================
