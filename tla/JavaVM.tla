------------------------------ MODULE JavaVM ------------------------------
(***************************************************************************)
(* The Java virtual machine and the JDBC driver, as far as the module uses *)
(* them through JNI.  They are external code.  A local reference is a slot *)
(* of the attached thread's reference table: it denotes a Java object      *)
(* until DeleteLocalRef empties it, and the machine may then hand the same *)
(* slot out again for another object.  The slots of strings, metadata      *)
(* objects and other temporaries are left out: no handle ever stands for   *)
(* one.                                                                    *)
(***************************************************************************)
CONSTANTS Ref, Object, NULL

ASSUME NullAssumption == NULL \notin Ref \cup Object

VARIABLES slot,   \* slot[r]: the object reference r denotes, or NULL
          class,  \* class[o]: the interface o implements, "none" before creation
          owner,  \* owner[s]: the connection that created statement s
          open    \* the objects neither closed nor cut off by the driver

javaVars == <<slot, class, owner, open>>

Class == {"Connection", "Statement", "PreparedStatement"}

JavaTypeOK ==
  /\ slot \in [Ref -> Object \cup {NULL}]
  /\ class \in [Object -> Class \cup {"none"}]
  /\ owner \in [Object -> Object \cup {NULL}]
  /\ open \subseteq Object

InitJava ==
  /\ slot = [r \in Ref |-> NULL]
  /\ class = [o \in Object |-> "none"]
  /\ owner = [o \in Object |-> NULL]
  /\ open = {}

CanAllocate == \E o \in Object : class[o] = "none"

NextObject == CHOOSE o \in Object : class[o] = "none"

\* A call that returns a new object, referred to by a slot that was free.
NewObject(cls, parent, r) ==
  /\ CanAllocate
  /\ slot[r] = NULL
  /\ slot' = [slot EXCEPT ![r] = NextObject]
  /\ class' = [class EXCEPT ![NextObject] = cls]
  /\ owner' = [owner EXCEPT ![NextObject] = parent]
  /\ open' = open \cup {NextObject}

\* A slot is emptied whatever it denotes by now, and even if it is empty.
DeleteLocalRefs(refs) ==
  slot' = [r \in Ref |-> IF r \in refs THEN NULL ELSE slot[r]]

\* A reference on which a method of one of these classes can be invoked.
Denotes(r, classes) == slot[r] # NULL /\ class[slot[r]] \in classes

\* A statement works as long as it and its connection are open.
Usable(o) == o \in open /\ (owner[o] # NULL => owner[o] \in open)
=============================================================================
