---------------------------- MODULE InitGlobals ----------------------------
(***************************************************************************)
(* initGlobals and its users.  connect stores the JNI environment first    *)
(* and looks up the identifiers of the Java classes after that, group by   *)
(* group, in globals all threads share and no lock protects.  A thread     *)
(* that finds env set returns at once; no lookup is checked.  env is taken *)
(* to work in any thread, as the code does.                                *)
(***************************************************************************)
EXTENDS Naturals, Sequences

CONSTANTS Thread, \* the threads that run queries
          NULL    \* no thread

ASSUME ThreadAssumption == NULL \notin Thread

VARIABLES
  env,         \* the thread whose environment was stored last, or NULL
  loaded,      \* the groups whose identifiers are in the globals
  typesLoaded, \* the static flag of SQLTypes::init
  phase,       \* phase[t]: what thread t is doing
  at,          \* at[t]: the group t looks up next
  pending,     \* the threads with a Java exception pending
  connected,   \* the threads whose query was handed a connection
  initialised, \* history: the threads that went through initGlobals to its end
  cut,         \* history: an initialisation was cut short, or a lookup failed
  missed       \* history: the groups that were used and were not there

vars == <<env, loaded, typesLoaded, phase, at, pending, connected,
          initialised, cut, missed>>

\* The order of initGlobals.
Group == <<"DriverManager", "Connection", "Statement", "ResultSet",
           "ResultSetMetadata", "DatabaseMetadata", "PreparedStatement",
           "ParameterMetadata", "Blob", "SQLTypes">>

Last == 10
Position == 1..Last
Groups == {Group[k] : k \in Position}

\* Inside initGlobals with env set.
Initialising(t) == phase[t] \in {"lookup", "flag", "types"}

TypeOK ==
  /\ env \in Thread \cup {NULL}
  /\ loaded \subseteq Groups
  /\ typesLoaded \in BOOLEAN
  /\ phase \in [Thread -> {"query", "attach", "lookup", "flag", "types", "connect"}]
  /\ at \in [Thread -> Position]
  /\ pending \subseteq Thread
  /\ connected \subseteq Thread
  /\ initialised \subseteq Thread
  /\ cut \in BOOLEAN
  /\ missed \subseteq Groups

Init ==
  /\ env = NULL
  /\ loaded = {}
  /\ typesLoaded = FALSE
  /\ phase = [t \in Thread |-> "query"]
  /\ at = [t \in Thread |-> 1]
  /\ pending = {}
  /\ connected = {}
  /\ initialised = {}
  /\ cut = FALSE
  /\ missed = {}

-----------------------------------------------------------------------------
(* initGlobals, one step for each read or write of what threads share *)

Goto(t, p) == phase' = [phase EXCEPT ![t] = p]

\* A slip to guard against: initGlobals does not look whether it was run.
CallConnectAlways(t) ==
  /\ phase[t] = "query"
  /\ Goto(t, "attach")
  /\ UNCHANGED <<env, loaded, typesLoaded, at, pending, connected,
                 initialised, cut, missed>>

\* connect begins with initGlobals: is env set?
CallConnect(t) ==
  /\ phase[t] = "query"
  /\ Goto(t, IF env = NULL THEN "attach" ELSE "connect")
  /\ UNCHANGED <<env, loaded, typesLoaded, at, pending, connected,
                 initialised, cut, missed>>

\* VM001: the machine does not start, and the next connect tries again.
NoVM(t) ==
  /\ phase[t] = "attach"
  /\ Goto(t, "query")
  /\ UNCHANGED <<env, loaded, typesLoaded, at, pending, connected,
                 initialised, cut, missed>>

\* env is stored; an exception found pending ends initGlobals there.
Attach(t) ==
  /\ phase[t] = "attach"
  /\ env' = t
  /\ \/ /\ Goto(t, "lookup")
        /\ at' = [at EXCEPT ![t] = 1]
        /\ UNCHANGED cut
     \/ /\ Goto(t, "query")
        /\ cut' = TRUE
        /\ UNCHANGED at
  /\ UNCHANGED <<loaded, typesLoaded, pending, connected, initialised, missed>>

\* The lookups of group g, in JavaX::init or SQLTypes::init.  They overwrite
\* what was there: when one fails, with an exception that stays pending, the
\* group is lost.  With an exception pending any lookup may fail.
LookUp(t, g) ==
  \/ /\ loaded' = loaded \cup {g}
     /\ UNCHANGED <<pending, cut>>
  \/ /\ loaded' = loaded \ {g}
     /\ pending' = pending \cup {t}
     /\ cut' = TRUE

\* A slip to guard against: the end of the table comes too early.
InitGroupSkips(t) ==
  /\ phase[t] = "lookup" /\ at[t] < Last
  /\ LookUp(t, Group[at[t]])
  /\ at' = [at EXCEPT ![t] = IF at[t] = Last - 2 THEN Last ELSE at[t] + 1]
  /\ UNCHANGED <<env, typesLoaded, phase, connected, initialised, missed>>

\* A slip to guard against: the end of the table is not looked for.
InitGroupPast(t) ==
  /\ phase[t] = "lookup"
  /\ LookUp(t, Group[at[t]])
  /\ at' = [at EXCEPT ![t] = at[t] + 1]
  /\ UNCHANGED <<env, typesLoaded, phase, connected, initialised, missed>>

InitGroup(t) ==
  /\ phase[t] = "lookup" /\ at[t] < Last
  /\ LookUp(t, Group[at[t]])
  /\ at' = [at EXCEPT ![t] = at[t] + 1]
  /\ UNCHANGED <<env, typesLoaded, phase, connected, initialised, missed>>

\* initGlobals returns to connect.
Return(t) ==
  /\ Goto(t, "connect")
  /\ initialised' = initialised \cup {t}

\* A slip to guard against: the flag is set, the constants are not read.
InitTypesFlagOnly(t) ==
  /\ phase[t] = "lookup" /\ at[t] = Last
  /\ Return(t)
  /\ typesLoaded' = TRUE
  /\ UNCHANGED <<env, loaded, at, pending, connected, cut, missed>>

\* SQLTypes::init asks whether its flag is set.
InitTypes(t) ==
  /\ phase[t] = "lookup" /\ at[t] = Last
  /\ \/ /\ typesLoaded
        /\ Return(t)
     \/ /\ ~typesLoaded
        /\ Goto(t, "flag")
        /\ UNCHANGED initialised
  /\ UNCHANGED <<env, loaded, typesLoaded, at, pending, connected, cut, missed>>

\* The flag is set before the constants are read; two threads that found it
\* unset both read them.
SetFlag(t) ==
  /\ phase[t] = "flag"
  /\ Goto(t, "types")
  /\ typesLoaded' = TRUE
  /\ UNCHANGED <<env, loaded, at, pending, connected, initialised, cut, missed>>

ReadTypes(t) ==
  /\ phase[t] = "types"
  /\ LookUp(t, "SQLTypes")
  /\ Return(t)
  /\ UNCHANGED <<env, typesLoaded, at, connected, missed>>

-----------------------------------------------------------------------------
(* The users *)

\* The rest of connect: a pending exception is found by its first
\* CHECK_EXCEPTION and cleared.
Connect(t) ==
  /\ phase[t] = "connect"
  /\ Goto(t, "query")
  /\ pending' = pending \ {t}
  /\ \/ connected' \in {connected, connected \cup {t}}
        /\ t \notin pending /\ "DriverManager" \in loaded
        /\ UNCHANGED missed
     \/ t \in pending /\ UNCHANGED <<connected, missed>>
     \/ t \notin pending /\ "DriverManager" \notin loaded
        /\ missed' = missed \cup {"DriverManager"}
        /\ UNCHANGED connected
  /\ UNCHANGED <<env, loaded, typesLoaded, at, initialised, cut>>

\* A function of a query with a connection makes a call through an
\* identifier of g.  CHECK_CONNECTION looks at env alone.
JniCall(t, g) ==
  /\ phase[t] = "query" /\ t \in connected /\ env # NULL
  /\ missed' = IF g \in loaded THEN missed ELSE missed \cup {g}
  /\ UNCHANGED <<env, loaded, typesLoaded, phase, at, pending, connected,
                 initialised, cut>>

\* A call through a missing jmethodID is undefined; without the constants of
\* SQLTypes the program goes on, and takes every column for none it knows.
Running == missed \subseteq {"SQLTypes"}

Step(t) ==
  \/ CallConnect(t) \/ NoVM(t) \/ Attach(t) \/ InitGroup(t) \/ InitTypes(t)
  \/ SetFlag(t) \/ ReadTypes(t) \/ Connect(t) \/ \E g \in Groups : JniCall(t, g)

Next == \E t \in Thread : Running /\ Step(t)

Spec == Init /\ [][Next]_vars

-----------------------------------------------------------------------------
(* Properties *)

\* env set stands for everything being there, which is all CHECK_CONNECTION
\* and the early return of initGlobals have to go by: once no thread is in
\* the middle of initGlobals, unless one was cut short or a lookup failed.
LoadedWhenQuiet ==
  env # NULL /\ ~cut /\ (\A t \in Thread : ~Initialising(t)) => loaded = Groups

\* A thread that went through initGlobals itself misses nothing but the SQL
\* types, which it leaves to whoever set the flag of SQLTypes::init first.
OwnInitSuffices ==
  initialised # {} /\ ~cut => Groups \ {"SQLTypes"} \subseteq loaded

\* No function uses an identifier that is not there, unless at that moment
\* another thread is still initialising, or an initialisation failed earlier.
MissingNeedsRaceOrFailure ==
  [][missed' # missed => cut \/ \E t \in Thread : Initialising(t)]_vars

\* Everybody has left initGlobals, and env is set.
Settled == env # NULL /\ \A t \in Thread : phase[t] \in {"query", "connect"}

\* A failure is for good: once every thread has left initGlobals and env is
\* set, no later connect enters it again, and what is missing stays missing.
NeverRepaired == [][Settled => Settled' /\ UNCHANGED <<env, loaded>>]_vars

-----------------------------------------------------------------------------
(* The inductive invariant *)

\* The thread has looked up every group before the one it is at.
Progress ==
  \A t \in Thread :
    phase[t] = "lookup" => \A k \in Position : k < at[t] => Group[k] \in loaded

\* Past the test of SQLTypes::init, every other group has been looked up.
TypesLast ==
  (\E t \in Thread : phase[t] \in {"flag", "types"}) => Groups \ {"SQLTypes"} \subseteq loaded

\* The flag of SQLTypes::init: the types are there, or a thread that is
\* reading them will see to it.
TypesComing ==
  typesLoaded =>
    "SQLTypes" \in loaded \/ \E t \in Thread : phase[t] = "types"

\* Whoever is reading the types, or has gone through initGlobals, has set the
\* flag or found it set.
FlagSet ==
  initialised # {} \/ (\E t \in Thread : phase[t] = "types") => typesLoaded

\* env was stored by a thread that is still at it or went to the end.
EnvHasAuthor ==
  env # NULL => initialised # {} \/ \E t \in Thread : Initialising(t)

\* The inductive invariant behind LoadedWhenQuiet: as long as no lookup
\* failed, what each thread relies on is in the globals or on its way there.
GlobalsInv ==
  /\ TypeOK
  /\ \A t \in Thread : phase[t] \notin {"query", "attach"} => env # NULL
  /\ ~cut => Progress /\ TypesLast /\ TypesComing /\ FlagSet /\ EnvHasAuthor
  /\ OwnInitSuffices

=============================================================================
