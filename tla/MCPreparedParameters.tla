----------------------- MODULE MCPreparedParameters -----------------------
(* One column of any family of types beside one of strings. *)
EXTENDS PreparedParameters, TLC

\* One of each family of types that a driver, a column or next() treats alike.
Family ==
  {"INTEGER", "BIGINT", "DECIMAL", "DOUBLE", "REAL", "BIT", "CHAR", "CLOB",
   "DATE", "BINARY timestamp", "VARBINARY", "OTHER", "_NULL", "ROWID", "DISTINCT",
   "STRUCT", "vendor"}

FamilyAndString == {(1 :> t) @@ (2 :> "VARCHAR") : t \in Family}

Items == [type : {"XS_INTEGER"}, val : {1, 5}]
         \cup [type : {"XS_DECIMAL"}, val : {9}]
         \cup [type : {"XS_BOOLEAN"}, val : {1}]
         \cup [type : {"XS_STRING"}, val : {1, 3}]
         \cup {JSONNull}

=============================================================================
