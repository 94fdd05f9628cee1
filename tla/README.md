# Formal model of the Zorba JDBC module

The JDBC module gives XQuery/JSONiq programs run by Zorba access to relational
databases.  It is C++ that drives a Java virtual machine through JNI: a query
calls an external function, the function calls a JDBC driver, and whatever Java
object comes back is kept in an *instance map* under a UUID that the query gets
as an `xs:anyURI`.  This directory models that program in TLA+, checks the
models with TLC, and proves theorems about them with TLAPS.

## 1. Inventory

| component | sources (`src/jdbc.xq.src`) | state | operations |
|---|---|---|---|
| instance maps | `instancemap.cpp` | handle -> JNI local reference, one map for each of connections, statements, prepared statements and dynamic context | `storeInstance`, `getInstance`, `deleteInstance`, `destroy` |
| module entry, errors | `jdbc.cpp`, `include/jdbc.h` | `env`, method identifiers (process-wide) | `getExternalFunction`, `initGlobals`, `getObject`, `deleteObject`, `getUUID`, `throwMapError`, `throwJavaException`, the `CHECK_*` macros |
| connections | `connection/` | Java connection, its options | `connect`, `is-connected`, `connection-options`, `tables` |
| transactions | `transactions/` | the open transaction, in the database | `commit`, `rollback` |
| statements | `statements/` | Java statements, with or without a handle | `execute`, `execute-query`, `execute-update` |
| prepared statements | `prepared/` | Java prepared statement, its parameters | `prepare-statement`, `set-*`, `clear-params`, `parameter-metadata`, `execute-prepared`, `execute-query-prepared`, `execute-update-prepared`, `close-prepared` |
| data sets | `datasets/` | the result of a statement, its cursor | `result-set`, `metadata`, `affected-rows`, `close-dataset` |
| JSON item sequence | `jsonitemsequence.cpp` | an iterator: open flag, column arrays, the shared Java result set | `getIterator`, `open`, `next`, `close` |
| SQL types | `sqltypes.cpp` | constants read from `java.sql.Types` | `init`, `isInt`, `isFloat`, ... |
| Java identifiers | `javaids.cpp` | `jmethodID`s | `init` |

How they interact.  Zorba calls `evaluate` of one function at a time within a
query; several queries (dynamic contexts) take turns.  A function looks up a
handle in the map of its context, makes JNI calls through the one global `env`,
turns a pending Java exception into an error, and may store a new reference.
When a dynamic context goes away Zorba calls `destroy` on each of its maps.
Result rows are not computed by the function: it returns a `JSONItemSequence`,
and Zorba pulls rows from its iterators later, between other calls.

What is hard in this code:

* a JNI local reference is a slot the JVM reuses; an entry that outlives its
  slot silently denotes something else;
* `execute-prepared` stores one reference under two handles;
* contexts end, and connections die, at any moment between two calls;
* a function may fail after it has created a Java object, or while one of many
  objects is being cleaned up;
* lazily pulled rows share the cursor of a Java result set with every other
  reader of it, and with `affected-rows`;
* `env` is a process-wide global, initialised in steps that can fail;
* two threads may be inside `initGlobals` at once, and one that finds `env` set
  goes on with whatever identifiers are there;
* options are set one by one on a connection that already exists, and the
  engine may answer a second `connect` with the first connection;
* a value changes its representation four times between a setter and a row, and
  JNI's strings are not UTF-8.

`PROJECT.json` lists these as hazards, each at its line, with the properties
that watch it or the reason why none does.

What makes each component correct: the maps keep every handle on the object it
was issued for and take nothing from another handle; no JNI call goes through a
reference that is dead or of another class; whatever was handed out is closed in
the end; an error changes nothing; a data set delivers the rows of its own
result, each once and in order; parameters reach the statement as given and read
back as stored; a connection has the options it was asked for, and no work hangs
on one nobody can reach; `env` set means that every identifier is there.

## 2. Plan

1. *(done)* `JavaVM`, `InstanceMap`, `JdbcModule`: handles, references and the
   life of Java objects, every function as one action; `HandleRegistry` as the
   abstract specification; the inductive invariant and the refinement proved.
   Later, `ConnectionLife`: what becomes of connections, implemented by
   `JdbcModule` and by `Sessions`.
2. *(done)* `DataSets`: result sets, cursors and the iterators of
   `JSONItemSequence`, interleaved with `affected-rows` and with re-execution;
   `RowStream` as the abstract specification; the inductive invariant and the
   refinement proved.
3. *(done)* `SqlTypes`, `PreparedParameters`: type dispatch of the setters, index
   narrowing, parameters kept and cleared between executions, and what an
   iterator makes of the columns; the inductive invariant and the round trip
   proved.
4. *(done)* `Sessions`: connect options, a `connect` answered from an earlier
   one, autocommit, commit and rollback, and what a context that ends leaves in
   the database; `Transactions` as the abstract specification of the work over a
   connection; the inductive invariant, every property and both refinements
   proved.
5. *(done)* `InitGlobals`: threads and partial failure of `initGlobals`; the
   inductive invariant and every property proved.
6. Open: the JSON of `metadata` and `parameter-metadata` (it repeats a column's
   keys, which no document speaks of), and the memory of an iterator's column
   arrays, once the engine's protocol of `close` is at hand.

## 3. The modules

| module | models |
|---|---|
| `JavaVM` | external: the slots of JNI local references, the class of every object, which objects are open, which connection a statement belongs to |
| `InstanceMap` | the three maps of every dynamic context; its operators are the methods of the C++ class |
| `JdbcModule` | the external functions, the end of a context, a connection lost at the driver's side |
| `HandleRegistry` | abstract: a handle stands for one object until it is closed or its context ends |
| `ConnectionLife` | abstract: a connection is opened once, for one context or for nobody, and closed by the end of its context or by the other end |
| `DataSets` | results, cursors, the data sets that stand for statements, and the iterators of `JSONItemSequence` |
| `RowStream` | abstract: a result is a stream, every row is taken once or dropped |
| `SqlTypes` | the types of `java.sql.Types`, those the code declares and those it does not, their five classes, and the item `next` makes of a column of each |
| `PreparedParameters` | the parameters of one prepared statement, the row its execution stores, and the row an iterator reads back |
| `Sessions` | connections with their options, who was handed them, and the work pending on them |
| `Transactions` | abstract: work takes effect at once or is pending on its connection, and all that is pending there is published or discarded together |
| `InitGlobals` | the process-wide globals, and threads inside `initGlobals` and after it |
| `MCJdbcModule`, `MCDataSets`, `MCPreparedParameters`, `MCSessions`, `MCInitGlobals` | symmetry and the values of constants for TLC |
| `JdbcModule_proofs`, `JdbcRefinement_proofs`, `JdbcConnections_proofs`, `DataSets_proofs`, `PreparedParameters_proofs`, `Sessions_proofs`, `SessionsRefinement_proofs`, `InitGlobals_proofs` | the theorems and their proofs |

How they fit together.  `JdbcModule` is the whole module seen from its handles,
on top of `InstanceMap` and `JavaVM`; the other three take a handle that is found
for granted and look at what is behind it: `DataSets` at results,
`PreparedParameters` at values, `Sessions` at connections and their
transactions.  `InitGlobals` is what happens before `JdbcModule` may take `env`
for all or nothing, as it does: its one variable `env` stands for a process in
which `LoadedWhenQuiet` holds and no thread is inside `initGlobals`.
`JdbcModule` and `Sessions` both have connections, the one as objects behind
references, the other with options and work.  That they speak of the same thing
is what `ConnectionLife` is for: both implement it.

Correspondence of `JdbcModule` with the code:

* One action is one call of `evaluate`, run to its return or its throw.  The
  module takes no lock and makes no callback, so between the beginning and the
  end of a call nothing of the state below is touched by anyone else.
* The three ways a lookup can end before the function does its own work are the
  disjuncts of `Lookup`: not in the map (`NotFound`, with the code of
  `throwMapError`), the driver throws (`JavaThrows`), the reference is dead or
  of another class (`Misfires`).  `Guarded` puts `CHECK_CONNECTION` before
  them; the two functions that lack the macro do without it.
* JNI on a reference that denotes nothing, or an object of another interface,
  is undefined; the model records it in `fault` and stops there.  The same goes
  for JNI on `NULL` (`Tables`) and `std::terminate` (`DestroyContext`).
* `getCreateInstanceMap` is not a step: a map nobody created and an empty map
  cannot be told apart.
* `target` and `closed` are history variables: no guard reads them except
  `FreshUUID`, which stands for `uuid::create` never repeating itself.
* The operators marked "a slip to
  guard against" are variants used to see that a property notices a bug; no
  action uses them.

The alias.  `execute-prepared` stores the reference of the prepared statement
again, so a prepared handle and the data sets of its executions share a slot.
Closing any of them empties the slot of all.  `AliasClosed` says the query did
that, and what is promised afterwards is nothing: the handle properties are
stated up to that point.  There is no order of closing that avoids it: a query
that executes a prepared statement and then closes its data set, its prepared
handle or both has deleted a reference that is still in use or deleted one
twice.  `PreparedOutlivesDataSets` shows it as a disagreement with the
documentation.

`connect` may fail once the connection is open with an exception of the driver
(`JAVA-EXCEPTION`) or with an error of the engine about an option of another type
than the one it is read as (`ZORBA-ERROR`); either way `Abandon` leaves the
connection behind.

Correspondence of `DataSets` with the code:

* `DataSets` takes over where `JdbcModule` stops: every handle it is asked for is
  found and fits, and the question is what is then done to the Java objects.  A
  call that changes none of the state below (`execute-update`, a setter, a call
  that is refused) is no step of it.
* `dataset` maps a data set handle to a Java *statement*, as `execute` and
  `execute-prepared` store it.  The result of a data set is whatever its
  statement has at the moment of the call (`outcome`), looked up by
  `getResultSet`; `-1` from `getUpdateCount` is `outcome # "updated"`.
* A command is a query, an update or `"silent"`: one that gives no result at all,
  of which some drivers make an update count of 0 and others neither count nor
  result.  In the latter case `outcome` is `NULL`, as it is of a statement the
  driver refused to execute again.
* `execute-query`, `execute-query-prepared`, `result-set` and `tables` return a
  `JSONItemSequence` over a reference they got earlier: `offered` is the set of
  results such a sequence was made for.  `OpenReader` is `getIterator` and
  `open`, `Pull` is `next` with its three ways to end, `CloseReader` the engine
  leaving an iterator before its end.
* All iterators over a result move the one cursor `pos`; `AffectedRows` moves it
  too, by `last()`.  A driver whose cursors go forward only refuses that call,
  and the function then changes nothing.
* `getRow` returns an int and is called through `CallBooleanMethod`; which part
  of the int is left is undefined, so `Narrowed` gives both its low byte and its
  low bit.
* What the driver does is external: executing a statement again closes its
  earlier result (or, when it is refused, may have), `next` on a closed result
  throws, and any result may be closed between two calls by a commit or with its
  connection (`DriverCloses`).  A method called on a `NULL` result set is
  undefined: `fault` records it and the model stops there.
* `delivered`, `lost`, `issuedFor`, `refused` and `counted` are history
  variables: no guard reads them.

Correspondence of `SqlTypes` and `PreparedParameters` with the code:

* `isInt`, `isFloat`, `isBoolean`, `isString`, `isBLOB` are the functions of
  `sqltypes.cpp`, on names instead of the numbers `init` reads.  `Reading` is the
  chain of `if`s in `next`, in its order; `OpenedAs` is what `open` does to a
  `BINARY` column that calls itself a timestamp.
* Items are typed: what a setter passes and what `next` creates are records of a
  type and a value, so an integer that comes back as a double or a string as
  `base64Binary` is another item.  The value is a natural number, and what the
  model keeps of it is whether an int holds it (`IntRange`), whether a double
  holds it exactly (`DoubleExact`) and, of a text, whether it has a character
  outside the BMP (`Wide`).
* `Narrowed` is a jint where a long was given, or a `getInt` of what is wider;
  `Rounded` is the way through a double (`ToDouble` of a decimal, `getDouble` of a
  column); `OrZero` is `getInt`, `getDouble` or `getBoolean` of SQL `NULL`.
* `Recoded` is a text written in UTF-8 and read as the modified UTF-8 of JNI
  (`NewStringUTF` in the setters), or the other way round (`GetStringUTFChars` in
  `next`).  The two differ outside the BMP, and such a text becomes `GARBLED`, a
  text nobody wrote.
* `getColumnType` may answer what `sqltypes.h` does not declare (`Undeclared`, with
  `"vendor"` for the codes of a driver's own).  `Reading` has no case for these, nor
  for `ROWID` and `DISTINCT`: `NOTHING` is the `Item` nobody assigned.
* `Passed` is the JNI call all setters end in.  The index is a C++ `long` passed
  where the callee reads a `jint`, so it reaches the parameter of its lower bits;
  `asked` then says `UNKNOWN`, since nobody asked for that parameter.
* A setter that reports SQL004, a parameter the driver turns down, an execution
  with an unset parameter or a value its column cannot hold change nothing and
  are no step.
* The database is external.  `MadeFor` lists which columns are made for which
  values: those keep what they are given (a column of doubles rounds).  Of a value
  of any other kind (a number in a text, a string in a date, what a `REAL` rounds
  or a `CHAR` pads) a column keeps some member of `Datum`, whichever the database
  pleases, and `Fits` says what it turns down.  A database is taken not to make a
  `NULL` of a value.
* `asked` and `inserted` are history variables.

Correspondence of `Sessions` with the code:

* `Connect` is `evaluate` of the two `connect` functions: `getConnection`, the
  options the query named set one by one, the connection stored, the handle
  returned.  `ConnectRefused` is an exception on the way, after any part of the
  options was set.  An isolation level given as one of the names `jdbc.xq` defines
  is read by `getLongValue`, so such a `connect` always ends there.
* `connect` is declared deterministic (`jdbc.xq:33`): its result "could be cached
  when invoked multiple times with the same arguments in the same query
  execution".  `cached` is what the engine may remember, `ConnectAgain` its
  answer; `connect-nondeterministic` is `Connect` that leaves `cached` alone.
* A session is one evaluation that came back with a handle.  `asked`, `refused`
  and `settledBy` are history variables.
* The database is external: `Update` publishes under autocommit and is pending
  otherwise, `Settle` ends the transaction of a connection, a connection the
  server closes loses what is pending, and one `destroy` closes without
  `commit` or `rollback` does as the driver likes.
* A call that is refused changes nothing and is no step.

Correspondence of `InitGlobals` with the code:

* `phase[t]` is where thread `t` is: between calls (`query`), after it read `env`
  as `NULL` (`attach`), in the `init` of a class (`lookup`), in `SQLTypes::init`
  with the flag found unset (`flag`) or set (`types`), in the rest of `connect` (`connect`).  A step reads
  or writes one of the shared variables, so threads interleave as finely as the
  code lets them: two threads may both find the flag of `SQLTypes::init` unset and
  both read the constants.  The lookups of one class are one step, since all of a group
  is used or lost together.
* Lookups are unchecked: a failed one leaves `NULL` over whatever was there, its
  exception stays pending, further lookups may fail of it, and the first
  `CHECK_EXCEPTION` of `connect` finds it.  `connect` then reports
  `JAVA-EXCEPTION`, with `env` set and the identifiers as they are.
* A JVM that does not start throws before `env` is stored (`NoVM`): that alone
  is tried again.
* Torn reads of `env` and of the flag are left out (a pointer and a `bool`), and
  `env` is taken to work in every thread, as the code does.
* A call through a missing `jmethodID` is undefined and ends the model; without
  the constants of `SQLTypes` the program goes on, reading columns for types they
  are not.

## 4. What is checked

All runs use `CHECK_DEADLOCK FALSE`: a program whose contexts have all ended, or
that has crashed, stops.

| run | question | result |
|---|---|---|
| `handles` | do handles, calls and connections stay sound over reused slots, until an alias is closed?  is every step one of the registry up to then?  does a handle that is gone stay away?  does the strengthening used by the proofs (`IInv`) hold? | pass |
| `registry` | do the maps implement the registry of handles, and their connections the life of connections, for a query that closes no alias? | pass |
| `prepared_outlives_data_sets` | a prepared statement is there for multiple executions (`jdbc.xq:393`) | violated |
| `closed_handles_are_closed` | closing a handle closes the statement (`jdbc.xq:624`, `705`) | violated |
| `data_sets` | is every row delivered once or known to be lost, and an end the end for all?  does a data set of `execute` keep its result?  who meets a `NULL` result set?  do shared cursors implement streams of rows?  does an iterator that is asked again and again come to an end?  does the strengthening used by the proofs (`CursorInv`) hold? | pass |
| `whole_result` | the only reader of a result gets all its rows (`jdbc.xq:643`) | violated |
| `data_set_keeps_its_result` | a data set keeps the result it was returned for (`jdbc.xq:651`) | violated |
| `affected_rows_counts` | `affected-rows` counts the rows (`jdbc.xq:691`) | violated |
| `values` | does the driver hold what was asked, and does a row read back as it was set where that is possible, type and all?  what becomes of nulls?  does the strengthening used by the proofs (`WayInv`) hold? | pass |
| `nulls_stay_null` | a row is read as column-value representation of the result (`jdbc.xq:654`): is a null a null? | violated |
| `sessions` | does every handle have its options?  who can be out of reach?  who settles whose work?  do connections live as in `JdbcModule`, and does all work on one share one fate?  does the strengthening used by the proofs (`SessionsInv`) hold? | pass |
| `init_globals` | what does `env` set stand for, when threads race and lookups fail?  does the strengthening used by the proofs (`GlobalsInv`) hold? | pass |

Properties of `handles`:

* `HandlesKeepTheirObject`: an entry of any map denotes the object its handle
  was issued for.  Takes a deleted slot, its reuse and a surviving entry to
  break.
* `NoStaleCall`: no call, and no `destroy`, reaches a dead or retyped slot.
* `LiveHandlesHaveEnv`: why `prepare-statement`, `close-dataset` and `destroy`
  get away without `CHECK_CONNECTION`.
* `ConnectionsClosedWithContext`: a connection that was handed out and is in no
  map any more is closed.  It says nothing of the connection `connect` abandons
  when an option is refused: that one was never handed out, and stays open.
* `ErrorsChangeNoHandle`: a call that reports an error has stored, removed and
  redirected no handle, however far it got: everything that can fail comes before
  `storeInstance`.
* `GoneForGood`: an entry keeps its reference until it goes, and a handle that
  was closed, or whose context ended, is found by no later call; its target never
  changes.  This one holds after an alias was closed, too.
* `RegistryUntilAliasClosed`: for any query, each step up to the one that closes
  an alias is one of `HandleRegistry` or changes no handle.

Properties of `registry`, for a query that closes no alias:

* `ImplementsRegistry`: a handle stands for one object until it is closed or its
  context ends, however references are recycled underneath.
* `ImplementsConnectionLife`: `destroy` closes the connections of its context
  and no others, though all it has are references; no function closes one; a
  closed connection never comes back, and one that `connect` abandons gets into
  no map later.

Properties of `data_sets`:

* `RowsAccounted`: the rows a cursor passed are those delivered, once and in
  order, and those known to be lost (skipped by `affected-rows`, or a row one of
  whose columns could not be read), and none is both.
* `EndMissesOnlyLost`: when an iterator is told there are no more rows, the
  iterators over its result together had every row but those known to be lost: none is still to come to
  anybody.
* `ExecutedKeepsResult`: a data set of `execute` stands for the result it was
  returned for; only those of a prepared statement change theirs (finding
  `data_set_keeps_its_result`).
* `ReadersRunOut`: the rows an open iterator can still get never become more,
  whatever is called meanwhile, and every `next` that leaves it open uses one up.
* `NullHasCause`: `metadata` and `affected-rows` take an update count of -1 for a
  result set and do not look whether there is one.  They call `NULL` only if a
  data set's statement gave neither a count nor a result, or was refused when it
  was executed again: a call that fails in `execute` leaves no data set behind.
* `ImplementsStream`: rows never come back, and a closed result gives none.
* `ReadersFinish`: an iterator ends, whoever else takes its rows and though its
  result may be closed under it, unless a call on `NULL` ends the program.

Properties of `values`:

* `ParametersAsAsked`: each parameter has the value last asked for it since
  `clear-params`, through any mix of setters and executions, unless an index
  beyond an int landed on it.
* `WhatWasSetIsRead`: an item that goes into a column made for it comes back as the
  same item, its type included, or from a column of reals as the double nearest to
  it.  `Faithful` lists the ways: integers into columns of integers, if an int
  holds them; numbers into columns of reals; truth values into columns of truth
  values; strings within the BMP into columns of text; nulls into columns that are
  not read as numbers or truth values.
* `NullsOrZeros`: no setter, column or reading makes a null of a value, and a
  null that is lost on the way (finding `nulls_stay_null`) reads as 0 or false,
  never as what an earlier row or execution had there.  Columns `next` leaves
  without a value (`Unread`) are excepted.

Properties of `sessions`:

* `OptionsInForce`: the connection of a session has the options the session
  asked for and defaults otherwise; none is handed out half-way, none is answered
  for other options.
* `UnreachableWereRefused`: an open connection outside every live context's map
  refused an option in `connect`, and nobody has it.
* `PendingCanBeSettled`: pending work is on an open connection a live context
  holds, so its query can still commit it or roll it back.
* `SettledByItsOwn`: a session's work is settled by a session over the same
  connection, which then asked for the same options.  It may be another one: the
  engine gave both the same answer.
* `ImplementsConnectionLife`: shared sessions, refused options and remembered
  answers leave connections the life they have in `JdbcModule`.
* `ImplementsTransactions`: whoever ends the transaction of a connection (any of
  its sessions, the context, the server), all that is pending there shares one
  fate; no work is settled twice, and none gets lost.

Properties of `init_globals`:

* `LoadedWhenQuiet`: with nobody inside `initGlobals` and no failure so far, `env`
  set means that everything is loaded: `CHECK_CONNECTION` may go by it.
* `OwnInitSuffices`: who went through `initGlobals` itself misses at most the SQL
  types, whose flag another thread may have set first.
* `MissingNeedsRaceOrFailure`: an identifier that is used and missing means that
  somebody is initialising at that moment, or a failure before.  The run reaches
  both.
* `NeverRepaired`: once everybody has left, no later `connect` loads anything.

The violations need few steps.  `nulls_stay_null`: `set-null` on an integer
column, an execution, a read (test `04-set-null.xq` sets a null, and reads
nothing back).  `whole_result`: `execute`, `result-set`,
`affected-rows` (which test `07-prepare.xq` calls on a query), then the rows are
asked for.  `data_set_keeps_its_result`: a prepared statement is executed
twice.  `affected_rows_counts`: a query with 256 rows.

Three disagreements with the documentation have no run of their own.  A missing
statement is reported as SQL003 and a missing prepared statement as SQL008
(`jdbc.cpp:216`), which `jdbc.xq:418` and `647` have the other way round; a
closed connection is reported as JAVA-EXCEPTION, where `jdbc.xq:273` says SQL08000;
`connect` with an isolation level given as one of the names `jdbc.xq` defines
always fails (`connect.cpp:96` reads a number).  `throwMapError`, `JavaThrows` and
`Applied` have what the code does.

Bounds of the `handles` runs.  They are the sizes of the constant sets: `Context` 2 (one context
destroyed while another is at work), `UUID` the number of handles ever issued
(4: a connection and a prepared statement, its data set, and one more object in
either context), `Object` the Java objects ever created (3), `Ref` the slots
(2 or 3: they are freed and reused).  No other bound: nothing
in the state counts.  Slots are interchangeable, and so are contexts: the runs use
symmetry on `Ref` and `Context`; handles and objects are not, since `FreshUUID` and `NextObject` choose
among them, which is itself only a choice of names.  The proofs do not depend
on any of these sizes.

Bounds of the `data_sets` runs.  `Result` 2 (one replaced by the next execution,
or two read at once), `Statement` 1, since statements share nothing but results,
`DataSet` 1 (2 in `data_set_keeps_its_result`: an earlier and a later one of a
statement), `Reader` 2 (two iterators over a result, or one on each), `RowCount`
the numbers of rows a query can return: none and two in `data_sets`, 256 in
`affected_rows_counts`.  A result is opened once and an iterator used once, so
the state space is finite without further bounds.  The run has no symmetry, which
its liveness property does not allow; all its safety properties are proved for
any sizes: several statements, some executed once and some again, are covered by
the theorems alone.

Bounds of the `values` runs.  `IntRange` 4 and `DoubleExact` 8, so that there are
numbers an int holds, numbers only a double holds and numbers neither does;
`Param` 2, one column of each family of types (`Family` in `MCPreparedParameters`:
one or more of every class, those without a class and two the code does not
declare among them) beside one of strings, enough for a call that lands on the
wrong parameter; `Index` {0, 1, 2, 5}: no parameter, both, and one that is 1 in the
lower bits; `Item` two integers (one too wide), a decimal no double holds, a
boolean, two strings (3 is `Wide`), a null; `Datum` one number, which is no zero.
The theorems are for every type, item and datum.

Bounds of `sessions`.  `Context` 2, `Conn` 3, `Session` 3 (two that share a
connection and a third), `Work` 2, `Options` three objects: a manual transaction
with a numeric isolation level, the same with a level by name, none.  Connections
and sessions are used once.

Bounds of `init_globals`.  `Thread` 2: a third could only do what one of two
does, and the proofs are for any number.  The ten groups are those of the code.

Fairness.  `FairSpec`, the specification of run `data_sets`, has weak fairness of `Pull(i)` for every iterator, as long
as no call on `NULL` has ended the program: Zorba goes on
asking an iterator it has opened until the iterator ends or is closed.  Nothing
is assumed of the functions a query calls, of the driver or of the server: the
call that is made may be refused, and results may be closed at any moment.  No
other run assumes fairness: a query may stop calling functions.

## 5. What is proved

For every `Context`, `UUID`, `Ref` and `Object`, under the one assumption that
`NULL` is neither a reference nor an object:

* `TypeCorrect`, `HandlesAreSound`, `CallsAreSound`, `ConnectionsAreClosed`,
  `EnvGuardsHandles`: the five invariants of run `handles`;
* `ErrorsLeaveHandles`, `HandlesNeverReturn`: its action properties;
* `IInvInvariant`: the inductive invariant;
* `RegistryWhileUnaliased`: `Spec => RegistryUntilAliasClosed`;
* `MapsImplementRegistry`, `ConnectionsLiveOn`: `DisciplinedSpec` implements
  `HandleRegistry` and `ConnectionLife`.

The argument.  `HandlesKeepTheirObject` is not inductive: a slot may be emptied
under an entry if two entries of different contexts share it, or if a target is
shared by handles that should not share.  `IInv` adds `OneContext` (handles for
one object live in one context), `OnlyPreparedShared`, `OnePlace`,
`HandlesIssued`, `ClosedGone`, `TargetsCreated`, `HandlesFit` and
`LiveHandlesHaveEnv`.  The twenty-seven functions change handles and objects in
only seven ways (`Quiet`, `Allocates`, `Issues`, `Aliases`, `Deletes`,
`Destroys`, `Closes`); `StepKinds` sorts every step into one of them, and each
part of `IInv`, `GoneForGood` and both refinements are then proved kind by kind.
For the refinements, what an entry denotes is the target of its handle as long
as no alias was closed, so each kind is a step of the registry or a stutter; the
discipline makes `~AliasClosed` an invariant, which leaves nothing of the
condition.  `ConnectionLife` sees three of the kinds: a new connection, the
end of a context, a close at the other end.  There the objects that `destroy`
closes through the references it finds have to be the connections the context
was given, which is `HandlesKeepTheirObject` once more.

For every `Result`, `Statement`, `DataSet`, `Reader` and every set `RowCount` of
natural numbers, under the assumption that `NULL` and `"updated"` are none of
these:

* `CursorsInductive`, `CursorsTyped`, `EveryRowAccounted`, `OnlyLostAreMissing`,
  `ExecutedDataSetsKeep`, `NullOnlyAfterRefusalOrSilence`: the inductive invariant
  and the other invariants of run `data_sets`;
* `ReadersUseUpRows`: its action property;
* `CursorsImplementStreams`: `Spec => ImplementsStream`.

The argument.  `CursorInv` adds six parts to the properties. `Untouched` says
that of a result that does not exist yet nothing is known: without it a new
result could come into being with its cursor moved, or under an iterator that
already ended. `DataSetsHaveRun` says a data set's statement has an outcome,
was refused or is silent, which is what `NullHasCause` is read off from. `RowsConserved`
says that the rows a cursor passed are as many as those delivered to all
iterators and those lost together; with `EndMeansAll`, which has the cursor past
all rows once an iterator ended, it gives `EndMissesOnlyLost`, by lemmas on the
cardinality of sets of rows. `OpenOverResult` has every open iterator over a
result that exists, which `ReadersRunOut` needs for its count of rows to come,
and `StatementsMade` has data sets stand for statements that exist, so that a
new statement changes the result of no earlier data set (`ExecutedKeepsResult`).
What a step does to cursors and rows is one of six kinds (`Still`, `Begins`,
`Skips`, `Delivers`, `Loses`, `Ends`); the accounting and the refinement are
proved kind by kind, and two lemmas on sequences of rows (`DeliveredAccount`,
`LostAccount`) carry the accounting. `ReadersRunOut` is the decreasing measure
behind `ReadersFinish`: what is missing from there to an end is only that
somebody keeps asking, which is the fairness.

For every set of parameters below `IntRange`, every layout of column types, all
items and indexes, every `Datum`, and every `IntRange`, `DoubleExact` and `Wide`
(`RangeAssumption`, `ParamAssumption`, `ItemAssumption`, `DatumAssumption`; doubles
among the items are ones a double holds, booleans are 0 or 1, and `NoNumbers` and
`NoItems` tell the special values apart from all others):

* `WayInductive`, `ValuesTyped`, `DriverHoldsWhatWasAsked`, `RoundTrip`,
  `NullsAreNoValues`: the invariants of run `values`.

The argument.  `WayInv` says of each stage that it holds what the stage before
gave it: the parameters are what was asked, each column of the row is something the
column may keep of what was asked when it was stored (`RowAsAsked`), the answer is the reading of that row
(`AnswerFromRow`).  The round trip is then a matter of one column (`FaithfulReading`): for
each way of `Faithful` the column keeps exactly what it was sent, its type is in one
class only (`OneClass`), and the reading of that class gives the item back; a
number that was rounded is not rounded again (`RoundedTwice`).  That a garbled text
is in a column of text only is part of `Fits`, without which a reading could be no
item.

For every `Context`, `Conn`, `Session`, `Work` and every set of `Options`:

* `SessionsInductive`, `SessionsTyped`, `HandlesHaveTheirOptions`,
  `OnlyRefusedAreUnreachable`, `NoTransactionIsStranded`,
  `SettledBySharersOnly`: the six invariants of run `sessions`;
* `SharedConnectionsLiveOn`, `WorkIsTransacted`: `Spec` implements
  `ConnectionLife` and `Transactions`.

The argument.  `AnswersGranted` says that sessions and remembered answers stand
for connections opened with exactly their options, which never change again;
`OneAnswer` that a connection is for one set of options; `OpenHeld` that an open
connection is in a live context's map or refused; `WorkHasSession` that work
which was executed has a session.  A new connection is nobody's (`NewIsNobodys`),
so `connect` disturbs no session there is; `WorkKept` has the conditions under
which the connections may change without touching work.  For `Transactions` the
invariant says that pending work is on one connection (`OnePlace`): a new session
takes none along, and whatever ends a transaction is a step that settles sets of
connections for good or for bad (`SettlesAll`), one of them by `commit` and
`rollback`, all of a context by `destroy`.

For any number of threads:

* `GlobalsInductive`, `GlobalsTyped`, `EnvMeansLoaded`, `OwnInitIsEnough`: the
  four invariants of run `init_globals`;
* `MissingHasACause`, `FailureIsForGood`: its action properties.

The argument.  As long as nothing failed, groups are only added: `Progress` says
that a thread has loaded every group before the one it is at, `TypesLast`,
`TypesComing` and `FlagSet` what the flag of `SQLTypes::init` stands for, and
`EnvHasAuthor` that whoever stored `env` is still at it or went to the end.  With
nobody inside, somebody went to the end, and everything is there.

Only model-checked: the violations of section 4, and `ReadersFinish`, since
liveness under fairness is out of the prover's reach.

## 6. What is not modelled

The column arrays of an iterator and when they are freed: how often
`close` is called is Zorba's protocol, which is not in this repository.  Calls
the engine merges, other than `connect` and the sequences of `execute-query`
(which `DataSets` lets be read several times): `is-connected`,
`connection-options` and `affected-rows` carry no annotation either, and their
answers may be stale.  The JNI environment of one thread used by another, and JNI
calls with an exception pending: undefined, the models take the outcome the code
is written for.  The JSON of `metadata`, `parameter-metadata` and
`connection-options`, and the arguments of `tables`: read-only.  Left out for
good: the names and signatures of the Java methods, the texts of error messages, the
build files, the test queries (they need a live database).  The slots of
strings, metadata objects and other temporaries are left out because no handle
stands for one; that they are never deleted makes slots scarcer, not reused.
