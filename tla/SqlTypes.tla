----------------------------- MODULE SqlTypes -----------------------------
(***************************************************************************)
(* The types of java.sql.Types, the five classes SQLTypes sorts them into, *)
(* and the item the iterator of a result makes of a column by its class.   *)
(* Numbers, texts, dates and bytes are natural numbers here: what counts   *)
(* is which of them an int, a double or a string of JNI can hold.          *)
(***************************************************************************)
EXTENDS Naturals

CONSTANTS IntRange,    \* a jint holds the numbers below it
          DoubleExact, \* a double holds the numbers below it exactly
          Wide,        \* the texts with a character outside the BMP
          GARBLED,     \* a text nobody wrote
          NULL,        \* SQL NULL
          NOTHING      \* an Item nobody assigned

ASSUME RangeAssumption ==
  IntRange \in Nat \ {0} /\ DoubleExact \in Nat /\ Wide \subseteq Nat

Text    == Nat \cup {GARBLED}
Content == Text \cup {NULL}

\* The items next() creates.
Answer ==
  [type : {"XS_INTEGER", "XS_DOUBLE", "XS_BOOLEAN", "XS_STRING",
           "XS_BASE64BINARY", "JS_NULL"},
   val  : Text]

ASSUME NoNumbers ==
  /\ GARBLED \notin Nat
  /\ NULL \notin Text
  /\ NOTHING \notin Answer

\* BINARY columns named "timestamp" are told apart from the others.
Declared ==
  {"ARRAY", "BIGINT", "BINARY", "BINARY timestamp", "BIT", "BLOB", "BOOLEAN",
   "CHAR", "CLOB", "DATALINK", "DATE", "DECIMAL", "DISTINCT", "DOUBLE",
   "FLOAT", "INTEGER", "JAVA_OBJECT", "LONGVARCHAR", "LONGNVARCHAR",
   "LONGVARBINARY", "NCHAR", "NCLOB", "_NULL", "NUMERIC", "NVARCHAR", "OTHER",
   "REAL", "REF", "ROWID", "SMALLINT", "SQLXML", "TIME", "TIMESTAMP",
   "TINYINT", "VARBINARY", "VARCHAR"}

\* What else getColumnType may answer; "vendor" is any code of a driver's own.
Undeclared ==
  {"STRUCT", "REF_CURSOR", "TIME_WITH_TIMEZONE", "TIMESTAMP_WITH_TIMEZONE", "vendor"}

Type == Declared \cup Undeclared

\* A slip to guard against: exact numbers are read as ints.
isIntOrDecimal(t) ==
  t \in {"INTEGER", "BIGINT", "TINYINT", "SMALLINT", "DECIMAL", "NUMERIC"}

isInt(t) == t \in {"INTEGER", "BIGINT", "TINYINT", "SMALLINT"}

isFloat(t) == t \in {"DECIMAL", "DOUBLE", "FLOAT", "NUMERIC", "REAL"}

isBoolean(t) == t \in {"BOOLEAN", "BIT"}

isString(t) ==
  t \in {"CHAR", "CLOB", "LONGVARCHAR", "LONGNVARCHAR", "NCHAR", "NCLOB",
         "NVARCHAR", "VARCHAR", "DATE", "TIME", "TIMESTAMP", "SQLXML"}

isBLOB(t) ==
  t \in {"BINARY", "BLOB", "LONGVARBINARY", "VARBINARY", "ARRAY", "DATALINK",
         "JAVA_OBJECT", "OTHER", "REF"}

\* The types of no class, with no reading of their own either.
Unread == {"ROWID", "DISTINCT"} \cup Undeclared

\* open() of the iterator.
OpenedAs(t) == IF t = "BINARY timestamp" THEN "TIMESTAMP" ELSE t

Narrowed(n) == n % IntRange
Rounded(n)  == IF n < DoubleExact THEN n ELSE 2 * (n \div 2)

\* A text that is written in UTF-8 and read as the modified UTF-8 of JNI, or
\* the other way round: the two differ outside the BMP.
Recoded(s) == IF s \in Wide THEN GARBLED ELSE s

\* SQL NULL comes back from getInt, getDouble and getBoolean as 0; wasNull is
\* not asked.
OrZero(v) == IF v = NULL THEN 0 ELSE v

Typed(type, val) == [type |-> type, val |-> val]
JSONNull         == Typed("JS_NULL", 0)

\* What next() puts into a row for the content v of a column.  getInt narrows
\* what is too wide, where the driver does not refuse it.
Reading(type, v) ==
  LET t == OpenedAs(type)
  IN  CASE isInt(t)     -> Typed("XS_INTEGER", Narrowed(OrZero(v)))
        [] isFloat(t)   -> Typed("XS_DOUBLE", Rounded(OrZero(v)))
        [] isBoolean(t) -> Typed("XS_BOOLEAN", OrZero(v))
        [] isString(t)  -> IF v = NULL THEN JSONNull ELSE Typed("XS_STRING", Recoded(v))
        [] isBLOB(t)    -> IF v = NULL THEN JSONNull ELSE Typed("XS_BASE64BINARY", v)
        [] t = "_NULL"  -> JSONNull
        [] OTHER        -> NOTHING

=============================================================================
