--------------------- MODULE PreparedParameters_proofs ---------------------
(***************************************************************************)
(* For any parameters, columns, indexes and items: what the driver holds   *)
(* is what was asked, and a row reads as it was set wherever the way of an *)
(* item is faithful.  The inductive invariant is WayInv.                   *)
(***************************************************************************)
EXTENDS PreparedParameters, TLAPS

\* Numbers stay numbers.
LEMMA RoundedNat == \A n \in Nat : Rounded(n) \in Nat
BY SMT DEF Rounded

LEMMA NarrowedNat == \A n \in Nat : Narrowed(n) \in Nat
BY SMT, RangeAssumption DEF Narrowed

\* A number that an int holds is not changed by narrowing.
LEMMA NarrowedSmall == \A n \in Nat : n < IntRange => Narrowed(n) = n
BY SMT, RangeAssumption DEF Narrowed

\* A number that was rounded is not rounded again.
LEMMA RoundedTwice == \A n \in Nat : Rounded(Rounded(n)) = Rounded(n)
BY SMT, RangeAssumption DEF Rounded

LEMMA RecodedText == \A s \in Text : Recoded(s) \in Text
BY DEF Recoded, Text

\* What the driver is sent is a value of its own kind, and a null only for a
\* null.
LEMMA SentValue ==
  ASSUME NEW x \in Item
  PROVE  /\ Sent(x) \in JavaValue
         /\ Sent(x).type = "JS_NULL" <=> x.type = "JS_NULL"
<1>1. x.val \in Nat /\ x.type \in ItemType /\ x = [type |-> x.type, val |-> x.val]
  BY ItemAssumption
<1>2. CASE x.type \in {"XS_STRING", "other"}
  <2>1. Sent(x) = [type |-> "XS_STRING", val |-> Recoded(x.val)]
    BY <1>2 DEF Sent, NewStringUTF, Typed
  <2>2. Recoded(x.val) \in Text
    BY <1>1, RecodedText DEF Text
  <2> QED
    BY <1>2, <2>1, <2>2 DEF JavaValue
<1>3. CASE x.type = "XS_DECIMAL"
  <2>1. Sent(x) = [type |-> "XS_DOUBLE", val |-> Rounded(x.val)]
    BY <1>3 DEF Sent, ToDouble, Typed
  <2>2. Rounded(x.val) \in Nat
    BY <1>1, RoundedNat
  <2> QED
    BY <1>3, <2>1, <2>2 DEF JavaValue
<1>4. CASE x.type \notin {"XS_STRING", "other", "XS_DECIMAL"}
  <2>1. Sent(x) = x
    BY <1>4 DEF Sent
  <2> QED
    BY <1>1, <1>4, <2>1 DEF JavaValue, ItemType
<1> QED
  BY <1>2, <1>3, <1>4

\* A column keeps a null or a text, and a null of a null only.
LEMMA KeptContent ==
  ASSUME NEW t \in Type, NEW v \in JavaValue
  PROVE  /\ v.type = "JS_NULL" => Kept(t, v) = {NULL}
         /\ v.type # "JS_NULL" => Kept(t, v) \subseteq Text
<1>1. v.val \in Text /\ (v.type # "XS_STRING" => v.val \in Nat)
  <2>1. CASE v \in [type : {"XS_STRING"}, val : Text]
    BY <2>1
  <2>2. CASE v \notin [type : {"XS_STRING"}, val : Text]
    BY <2>2 DEF JavaValue, Text
  <2> QED
    BY <2>1, <2>2
<1>2. CASE v.type = "JS_NULL"
  BY <1>2 DEF Kept, MadeFor
<1>3. CASE v.type # "JS_NULL" /\ MadeFor(t, v.type)
  <2>1. CASE t \in {"DOUBLE", "FLOAT"}
    <3>1. v.val \in Nat
      BY <1>1, <1>3, <2>1 DEF MadeFor, CharTypes
    <3>2. Rounded(v.val) \in Text
      BY <3>1, RoundedNat DEF Text
    <3> QED
      BY <1>3, <2>1, <3>2 DEF Kept
  <2>2. CASE t \notin {"DOUBLE", "FLOAT"}
    BY <1>1, <1>3, <2>2 DEF Kept
  <2> QED
    BY <2>1, <2>2
<1>4. CASE v.type # "JS_NULL" /\ ~MadeFor(t, v.type)
  <2>1. Kept(t, v) = Datum
    BY <1>4 DEF Kept
  <2> QED
    BY <1>4, <2>1, DatumAssumption DEF Text
<1> QED
  BY <1>2, <1>3, <1>4

\* The classes are disjoint: the order in which next() asks for them does not
\* matter.
LEMMA OneClass ==
  ASSUME NEW t
  PROVE  /\ isInt(t) => ~isFloat(t) /\ ~isBoolean(t) /\ ~isString(t) /\ ~isBLOB(t) /\ t # "_NULL"
         /\ isFloat(t) => ~isBoolean(t) /\ ~isString(t) /\ ~isBLOB(t) /\ t # "_NULL"
         /\ isBoolean(t) => ~isString(t) /\ ~isBLOB(t) /\ t # "_NULL"
         /\ isString(t) => ~isBLOB(t) /\ t # "_NULL"
         /\ isBLOB(t) => t # "_NULL"
BY DEF isInt, isFloat, isBoolean, isString, isBLOB

\* Whatever a column can hold is read as an item, or not at all.
LEMMA ReadingValue ==
  ASSUME NEW t \in Type, NEW v \in Content, Fits(t, v)
  PROVE  Reading(t, v) \in Answer \cup {NOTHING}
<1> DEFINE u == OpenedAs(t)
<1>1. CASE isInt(u) \/ isFloat(u) \/ isBoolean(u)
  <2>1. t = u /\ t \notin CharTypes
    BY <1>1 DEF OpenedAs, CharTypes, isInt, isFloat, isBoolean
  <2>2. v \in Nat \cup {NULL}
    BY <2>1 DEF Fits, Content, Text
  <2>3. OrZero(v) \in Nat
    BY <2>2 DEF OrZero
  <2>4. /\ Narrowed(OrZero(v)) \in Text /\ Rounded(OrZero(v)) \in Text
        /\ OrZero(v) \in Text
    BY <2>3, NarrowedNat, RoundedNat DEF Text
  <2> HIDE DEF u
  <2>5. \/ Reading(t, v) = Typed("XS_INTEGER", Narrowed(OrZero(v)))
        \/ Reading(t, v) = Typed("XS_DOUBLE", Rounded(OrZero(v)))
        \/ Reading(t, v) = Typed("XS_BOOLEAN", OrZero(v))
    BY <1>1, OneClass DEF Reading, u
  <2> QED
    BY <2>4, <2>5 DEF Typed, Answer
<1>2. CASE isString(u) /\ ~(isInt(u) \/ isFloat(u) \/ isBoolean(u))
  <2>1. CASE v = NULL
    <3>1. Reading(t, v) = Typed("JS_NULL", 0)
      BY <1>2, <2>1 DEF Reading, JSONNull
    <3> QED
      BY <3>1 DEF Typed, Answer, Text
  <2>2. CASE v # NULL
    <3>1. Recoded(v) \in Text
      BY <2>2, RecodedText DEF Content
    <3>2. Reading(t, v) = Typed("XS_STRING", Recoded(v))
      BY <1>2, <2>2, OneClass DEF Reading
    <3> QED
      BY <3>1, <3>2 DEF Typed, Answer
  <2> QED
    BY <2>1, <2>2
<1>3. CASE isBLOB(u) /\ ~(isInt(u) \/ isFloat(u) \/ isBoolean(u) \/ isString(u))
  <2>1. \/ Reading(t, v) = Typed("JS_NULL", 0)
        \/ v # NULL /\ Reading(t, v) = Typed("XS_BASE64BINARY", v)
    BY <1>3 DEF Reading, JSONNull
  <2> QED
    BY <2>1 DEF Typed, Answer, Content, Text
<1>4. CASE ~(isInt(u) \/ isFloat(u) \/ isBoolean(u) \/ isString(u) \/ isBLOB(u))
  <2>1. Reading(t, v) \in {Typed("JS_NULL", 0), NOTHING}
    BY <1>4 DEF Reading, JSONNull
  <2> QED
    BY <2>1 DEF Typed, Answer, Text
<1> QED
  BY <1>1, <1>2, <1>3, <1>4

\* Every setter is a call that passes what it sends for its item.
LEMMA SettersPass ==
  ASSUME NEW index \in Index, NEW x \in Item,
         \/ SetNumeric(index, x) \/ SetString(index, x) \/ SetBoolean(index, x)
         \/ SetNull(index, x) \/ SetValue(index, x)
  PROVE  Passed(index, x, Sent(x))
<1>1. ASSUME SetNumeric(index, x) PROVE Passed(index, x, Sent(x))
  BY <1>1 DEF SetNumeric, Sent
<1>2. ASSUME SetBoolean(index, x) PROVE Passed(index, x, Sent(x))
  BY <1>2 DEF SetBoolean, Sent
<1>3. ASSUME SetNull(index, x) PROVE Passed(index, x, Sent(x))
  BY <1>3 DEF SetNull, Sent
<1>4. ASSUME x.type \in {"XS_STRING", "other"}, Passed(index, x, NewStringUTF(x))
      PROVE  Passed(index, x, Sent(x))
  BY <1>4 DEF Sent
<1> QED
  BY <1>1, <1>2, <1>3, <1>4 DEF SetValue, SetString

LEMMA InitWay == Init => WayInv
<1> SUFFICES ASSUME Init PROVE WayInv
  OBVIOUS
<1>1. column \in [Param -> Type]
  BY ParamAssumption DEF Init
<1>2. TypeOK
  BY <1>1 DEF Init, TypeOK
<1> QED
  BY <1>2 DEF Init, WayInv, ParametersAsAsked, RowAsAsked, AnswerFromRow

LEMMA PassedWay ==
  ASSUME WayInv, NEW index \in Index, NEW x \in Item, Passed(index, x, Sent(x))
  PROVE  WayInv'
<1> DEFINE i == Narrowed(index)
           a == IF index = i THEN x ELSE UNKNOWN
<1>1. /\ i \in Param
      /\ param' = [param EXCEPT ![i] = Sent(x)]
      /\ asked' = [asked EXCEPT ![i] = a]
      /\ UNCHANGED <<column, row, inserted, answer>>
  BY DEF Passed
<1>2. TypeOK
  BY DEF WayInv
<1>3. Sent(x) \in JavaValue
  BY SentValue
<1>4. a \in Item \cup {UNKNOWN}
  OBVIOUS
<1>5. TypeOK'
  BY <1>1, <1>2, <1>3, <1>4 DEF TypeOK
<1>6. ParametersAsAsked'
  <2> SUFFICES ASSUME NEW j \in Param, asked'[j] # UNKNOWN
               PROVE  param'[j] = IF asked'[j] = UNSET THEN UNSET ELSE Sent(asked'[j])
    BY DEF ParametersAsAsked
  <2>1. CASE j = i
    <3>1. asked'[j] = a /\ param'[j] = Sent(x)
      BY <1>1, <1>2, <2>1 DEF TypeOK
    <3>2. a = x /\ a # UNSET
      BY <3>1, NoItems
    <3> QED
      BY <3>1, <3>2
  <2>2. CASE j # i
    BY <1>1, <1>2, <2>2 DEF TypeOK, WayInv, ParametersAsAsked
  <2> QED
    BY <2>1, <2>2
<1>7. RowAsAsked' /\ AnswerFromRow'
  BY <1>1 DEF WayInv, RowAsAsked, AnswerFromRow
<1> QED
  BY <1>5, <1>6, <1>7 DEF WayInv

LEMMA ClearWay ==
  ASSUME WayInv, ClearParams
  PROVE  WayInv'
<1>1. /\ param' = [i \in Param |-> UNSET] /\ asked' = [i \in Param |-> UNSET]
      /\ UNCHANGED <<column, row, inserted, answer>>
  BY DEF ClearParams
<1>2. TypeOK'
  BY <1>1 DEF WayInv, TypeOK
<1>3. ParametersAsAsked'
  BY <1>1 DEF ParametersAsAsked
<1>4. RowAsAsked' /\ AnswerFromRow'
  BY <1>1 DEF WayInv, RowAsAsked, AnswerFromRow
<1> QED
  BY <1>2, <1>3, <1>4 DEF WayInv

LEMMA ExecuteWay ==
  ASSUME WayInv, Execute
  PROVE  WayInv'
<1> DEFINE contents == [i \in Param |-> Stored(column[i], param[i])]
<1>1. /\ \A i \in Param : param[i] # UNSET
      /\ row' \in RowsOf(contents)
      /\ inserted' = asked /\ answer' = NULL
      /\ UNCHANGED <<column, param, asked>>
  BY DEF Execute
<1>2. TypeOK /\ ParametersAsAsked
  BY DEF WayInv
<1>3. \A i \in Param : param[i] \in JavaValue /\ column[i] \in Type
  BY <1>1, <1>2 DEF TypeOK
<1>4. \A i \in Param : row'[i] \in contents[i]
  BY <1>1 DEF RowsOf
<1>5. \A i \in Param : row'[i] \in Kept(column[i], param[i]) /\ Fits(column[i], row'[i])
  BY <1>4 DEF Stored
<1>6. row' \in [Param -> Content]
  <2>1. row' \in [Param -> UNION {contents[i] : i \in Param}]
    BY <1>1 DEF RowsOf
  <2>2. \A i \in Param : row'[i] \in Content
    BY <1>3, <1>5, KeptContent DEF Content
  <2> HIDE DEF contents
  <2> QED
    BY <2>1, <2>2
<1>7. TypeOK'
  BY <1>1, <1>2, <1>6 DEF TypeOK
<1>8. ParametersAsAsked'
  BY <1>1, <1>2 DEF ParametersAsAsked
<1>9. RowAsAsked'
  <2> SUFFICES ASSUME NEW i \in Param
               PROVE  /\ inserted'[i] # UNSET /\ Fits(column'[i], row'[i])
                      /\ inserted'[i] # UNKNOWN =>
                           row'[i] \in Kept(column'[i], Sent(inserted'[i]))
    BY DEF RowAsAsked
  <2>1. inserted'[i] = asked[i] /\ column'[i] = column[i]
    BY <1>1
  <2>2. asked[i] # UNSET
    BY <1>1, <1>2, NoItems DEF ParametersAsAsked
  <2>3. asked[i] # UNKNOWN => param[i] = Sent(asked[i])
    BY <1>2, <2>2 DEF ParametersAsAsked
  <2> QED
    BY <1>5, <2>1, <2>2, <2>3
<1>10. AnswerFromRow'
  BY <1>1 DEF AnswerFromRow
<1> QED
  BY <1>7, <1>8, <1>9, <1>10 DEF WayInv

LEMMA ReadWay ==
  ASSUME WayInv, ReadRow
  PROVE  WayInv'
<1>1. /\ row # NULL /\ answer' = [i \in Param |-> Reading(column[i], row[i])]
      /\ UNCHANGED <<column, param, asked, row, inserted>>
  BY DEF ReadRow
<1>2. \A i \in Param : column[i] \in Type /\ row[i] \in Content /\ Fits(column[i], row[i])
  BY <1>1 DEF WayInv, TypeOK, RowAsAsked
<1>3. answer' \in [Param -> Answer \cup {NOTHING}]
  BY <1>1, <1>2, ReadingValue
<1>4. TypeOK'
  BY <1>1, <1>3 DEF WayInv, TypeOK
<1>5. ParametersAsAsked' /\ RowAsAsked'
  BY <1>1 DEF WayInv, ParametersAsAsked, RowAsAsked
<1>6. AnswerFromRow'
  BY <1>1 DEF AnswerFromRow
<1> QED
  BY <1>4, <1>5, <1>6 DEF WayInv

LEMMA StepWay == WayInv /\ [Next]_vars => WayInv'
<1> SUFFICES ASSUME WayInv, [Next]_vars PROVE WayInv'
  OBVIOUS
<1>1. ASSUME NEW index \in Index, NEW x \in Item,
             \/ SetNumeric(index, x) \/ SetString(index, x) \/ SetBoolean(index, x)
             \/ SetNull(index, x) \/ SetValue(index, x)
      PROVE  WayInv'
  <2>1. Passed(index, x, Sent(x))
    BY <1>1, SettersPass
  <2> QED
    BY <2>1, PassedWay
<1>2. CASE ClearParams
  BY <1>2, ClearWay
<1>3. CASE Execute
  BY <1>3, ExecuteWay
<1>4. CASE ReadRow
  BY <1>4, ReadWay
<1>5. CASE UNCHANGED vars
  BY <1>5 DEF vars, WayInv, TypeOK, ParametersAsAsked, RowAsAsked, AnswerFromRow
<1> QED
  BY <1>1, <1>2, <1>3, <1>4, <1>5 DEF Next

\* Setter, parameter, column and row hand on what they were given.
THEOREM WayInductive == Spec => []WayInv
BY InitWay, StepWay, PTL DEF Spec

\* Every variable keeps its type.
THEOREM ValuesTyped == Spec => []TypeOK
<1>1. WayInv => TypeOK
  BY DEF WayInv
<1> QED
  BY <1>1, WayInductive, PTL

\* The driver holds what was last asked for each parameter.
THEOREM DriverHoldsWhatWasAsked == Spec => []ParametersAsAsked
<1>1. WayInv => ParametersAsAsked
  BY DEF WayInv
<1> QED
  BY <1>1, WayInductive, PTL

\* What a column made for an item keeps of it is read as the item was.
LEMMA FaithfulReading ==
  ASSUME NEW t \in Type, NEW x \in Item, Faithful(t, x),
         NEW c \in Kept(t, Sent(x)), Fits(t, c)
  PROVE  Reading(t, c) = ReadBack(t, x)
<1> DEFINE v == Sent(x)
<1>1. x.val \in Nat /\ x = [type |-> x.type, val |-> x.val]
  BY ItemAssumption
<1>2. CASE x.type = "XS_INTEGER" /\ t \in IntegerTypes /\ x.val < IntRange
  <2>1. v = x /\ MadeFor(t, v.type) /\ t \notin {"DOUBLE", "FLOAT"} \cup RealTypes
    BY <1>2 DEF Sent, MadeFor, IntegerTypes, RealTypes
  <2>2. c = x.val
    BY <1>2, <2>1 DEF Kept
  <2>3. OrZero(c) = x.val /\ Narrowed(x.val) = x.val
    BY <1>1, <1>2, <2>2, NarrowedSmall, NoNumbers DEF OrZero, Text
  <2>4. isInt(OpenedAs(t))
    BY <1>2 DEF IntegerTypes, OpenedAs, isInt
  <2>5. Reading(t, c) = Typed("XS_INTEGER", x.val)
    BY <2>3, <2>4, OneClass DEF Reading
  <2> QED
    BY <1>1, <1>2, <2>1, <2>5 DEF Typed, ReadBack
<1>3. CASE x.type \in {"XS_INTEGER", "XS_DECIMAL", "XS_DOUBLE"} /\ t \in RealTypes
  <2>1. /\ v.type \in {"XS_INTEGER", "XS_DOUBLE"}
        /\ v.val = x.val \/ v.val = Rounded(x.val)
    BY <1>3 DEF Sent, ToDouble, Typed
  <2>2. c = v.val \/ c = Rounded(v.val)
    BY <1>3, <2>1 DEF Kept, MadeFor
  <2>3. c \in Nat /\ Rounded(c) = Rounded(x.val)
    BY <1>1, <2>1, <2>2, RoundedNat, RoundedTwice
  <2>4. OrZero(c) = c
    BY <2>3, NoNumbers DEF OrZero, Text
  <2>5. isFloat(OpenedAs(t)) /\ ~isInt(OpenedAs(t))
    BY <1>3 DEF RealTypes, OpenedAs, isFloat, isInt
  <2>6. Reading(t, c) = Typed("XS_DOUBLE", Rounded(x.val))
    BY <2>3, <2>4, <2>5, OneClass DEF Reading
  <2> QED
    BY <1>3, <2>6 DEF ReadBack, ToDouble
<1>4. CASE x.type = "XS_BOOLEAN" /\ t \in TruthTypes
  <2>1. v = x /\ MadeFor(t, v.type) /\ t \notin {"DOUBLE", "FLOAT"} \cup RealTypes
    BY <1>4 DEF Sent, MadeFor, TruthTypes, RealTypes
  <2>2. c = x.val
    BY <1>4, <2>1 DEF Kept
  <2>3. OrZero(c) = x.val
    BY <1>1, <2>2, NoNumbers DEF OrZero, Text
  <2>4. isBoolean(OpenedAs(t)) /\ ~isInt(OpenedAs(t)) /\ ~isFloat(OpenedAs(t))
    BY <1>4 DEF TruthTypes, OpenedAs, isBoolean, isInt, isFloat
  <2>5. Reading(t, c) = Typed("XS_BOOLEAN", x.val)
    BY <2>3, <2>4, OneClass DEF Reading
  <2> QED
    BY <1>1, <1>4, <2>1, <2>5 DEF Typed, ReadBack
<1>5. CASE x.type = "XS_STRING" /\ t \in CharTypes /\ x.val \notin Wide
  <2>1. v = Typed("XS_STRING", x.val)
    BY <1>5 DEF Sent, NewStringUTF, Recoded
  <2>2. MadeFor(t, v.type) /\ t \notin {"DOUBLE", "FLOAT"} \cup RealTypes
    BY <1>5, <2>1 DEF MadeFor, Typed, CharTypes, RealTypes
  <2>3. c = x.val
    BY <2>1, <2>2 DEF Kept, Typed
  <2>4. c # NULL /\ Recoded(c) = x.val
    BY <1>1, <1>5, <2>3, NoNumbers DEF Recoded, Text
  <2>5. /\ isString(OpenedAs(t)) /\ ~isInt(OpenedAs(t)) /\ ~isFloat(OpenedAs(t))
        /\ ~isBoolean(OpenedAs(t))
    BY <1>5 DEF CharTypes, OpenedAs, isString, isInt, isFloat, isBoolean
  <2>6. Reading(t, c) = Typed("XS_STRING", x.val)
    BY <2>4, <2>5, OneClass DEF Reading
  <2> QED
    BY <1>1, <1>5, <2>2, <2>6 DEF Typed, ReadBack
<1>6. CASE /\ x.type = "JS_NULL"
           /\ t \notin IntegerTypes \cup RealTypes \cup {"REAL"} \cup TruthTypes \cup Unread
  <2>1. c = NULL
    BY <1>6, SentValue, KeptContent
  <2>2. /\ ~isInt(OpenedAs(t)) /\ ~isFloat(OpenedAs(t)) /\ ~isBoolean(OpenedAs(t))
    BY <1>6 DEF isInt, isFloat, isBoolean, OpenedAs, IntegerTypes, RealTypes, TruthTypes
  <2>3. isString(OpenedAs(t)) \/ isBLOB(OpenedAs(t)) \/ OpenedAs(t) = "_NULL"
    BY <1>6, <2>2 DEF Unread, OpenedAs, Type, Declared, Undeclared, isInt, isFloat, isBoolean, isString, isBLOB
  <2>4. Reading(t, c) = JSONNull
    BY <2>1, <2>2, <2>3 DEF Reading
  <2>5. x = JSONNull
    BY <1>1, <1>6, ItemAssumption DEF JSONNull, Typed
  <2> QED
    BY <1>6, <2>4, <2>5 DEF ReadBack
<1> QED
  BY <1>2, <1>3, <1>4, <1>5, <1>6 DEF Faithful

\* What was set is what is read, wherever the way is faithful.
THEOREM RoundTrip == Spec => []WhatWasSetIsRead
<1>1. WayInv => WhatWasSetIsRead
  <2> SUFFICES ASSUME WayInv, answer # NULL, NEW i \in Param,
                      inserted[i] \in Item, Faithful(column[i], inserted[i])
               PROVE  answer[i] = ReadBack(column[i], inserted[i])
    BY DEF WhatWasSetIsRead
  <2>1. column[i] \in Type
    BY DEF WayInv, TypeOK
  <2>2. row # NULL /\ answer[i] = Reading(column[i], row[i])
    BY DEF WayInv, AnswerFromRow
  <2>3. inserted[i] # UNKNOWN
    BY NoItems
  <2>4. row[i] \in Kept(column[i], Sent(inserted[i])) /\ Fits(column[i], row[i])
    BY <2>2, <2>3 DEF WayInv, RowAsAsked
  <2> QED
    BY <2>1, <2>2, <2>4, FaithfulReading
<1> QED
  BY <1>1, WayInductive, PTL

\* Of a value no reading makes a null, and of null each makes null or zero.
LEMMA NullReading ==
  ASSUME NEW t \in Type
  PROVE  /\ \A c \in Text : Fits(t, c) => Reading(t, c) # JSONNull
         /\ t \notin Unread => Reading(t, NULL) \in Zeros \cup {JSONNull}
<1>1. ASSUME NEW c \in Text, Fits(t, c)
      PROVE  Reading(t, c) # JSONNull
  <2>1. c # NULL
    BY NoNumbers
  <2>2. OpenedAs(t) # "_NULL"
    BY <1>1, <2>1 DEF Fits, OpenedAs
  <2>3. /\ \A n : /\ Typed("XS_INTEGER", n) # JSONNull /\ Typed("XS_DOUBLE", n) # JSONNull
                  /\ Typed("XS_BOOLEAN", n) # JSONNull /\ Typed("XS_STRING", n) # JSONNull
                  /\ Typed("XS_BASE64BINARY", n) # JSONNull
        /\ JSONNull \in Answer
    BY DEF Typed, JSONNull, Answer, Text
  <2>4. NOTHING # JSONNull
    BY <2>3, NoNumbers
  <2> QED
    BY <2>1, <2>2, <2>3, <2>4 DEF Reading
<1>2. ASSUME t \notin Unread
      PROVE  Reading(t, NULL) \in Zeros \cup {JSONNull}
  <2>1. OrZero(NULL) = 0
    BY DEF OrZero
  <2>2. Narrowed(0) = 0 /\ Rounded(0) = 0
    BY RangeAssumption DEF Narrowed, Rounded
  <2>3. \/ isInt(OpenedAs(t)) \/ isFloat(OpenedAs(t)) \/ isBoolean(OpenedAs(t))
        \/ isString(OpenedAs(t)) \/ isBLOB(OpenedAs(t)) \/ OpenedAs(t) = "_NULL"
    BY <1>2 DEF Unread, Type, Declared, Undeclared, OpenedAs, isInt, isFloat, isBoolean, isString, isBLOB
  <2> QED
    BY <2>1, <2>2, <2>3 DEF Reading, Zeros
<1> QED
  BY <1>1, <1>2

\* A null that is read was set, and a null that gets lost reads as zero.
THEOREM NullsAreNoValues == Spec => []NullsOrZeros
<1>1. WayInv => NullsOrZeros
  <2> SUFFICES ASSUME WayInv, answer # NULL, NEW i \in Param, inserted[i] \in Item
               PROVE  LET x == inserted[i]
                      IN  /\ answer[i] = JSONNull => x.type = "JS_NULL"
                          /\ x.type = "JS_NULL" /\ column[i] \notin Unread
                               => answer[i] \in Zeros \cup {JSONNull}
    BY DEF NullsOrZeros
  <2> DEFINE x == inserted[i]
             t == column[i]
  <2>1. t \in Type
    BY DEF WayInv, TypeOK
  <2>2. row # NULL /\ answer[i] = Reading(t, row[i])
    BY DEF WayInv, AnswerFromRow
  <2>3. x # UNKNOWN
    BY NoItems
  <2>4. row[i] \in Kept(t, Sent(x)) /\ Fits(t, row[i])
    BY <2>2, <2>3 DEF WayInv, RowAsAsked
  <2>5. CASE x.type = "JS_NULL"
    <3>1. row[i] = NULL
      BY <2>1, <2>4, <2>5, SentValue, KeptContent
    <3> QED
      BY <2>1, <2>2, <2>5, <3>1, NullReading
  <2>6. CASE x.type # "JS_NULL"
    <3>1. row[i] \in Text
      BY <2>1, <2>4, <2>6, SentValue, KeptContent
    <3> QED
      BY <2>1, <2>2, <2>4, <2>6, <3>1, NullReading
  <2> QED
    BY <2>5, <2>6
<1> QED
  BY <1>1, WayInductive, PTL

=============================================================================
