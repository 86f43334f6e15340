--------------------------------- MODULE Heap ---------------------------------
(***************************************************************************)
(* What the collector promises a program: objects that are there as long   *)
(* as it can name them, and collections that happen at once, between two   *)
(* steps of the program.                                                   *)
(***************************************************************************)
EXTENDS FiniteSets

CONSTANTS
  Obj,          \* identities of objects
  Permanent,    \* the objects the program always has
  Weak,         \* the tables that do not keep what they refer to ...
  WeakValues,   \* ... and those of them whose entries leave with the value
  Findable,     \* objects the runtime finds again when nothing refers to them
  Userdata, Finalizable

VARIABLES
  exists,   \* the objects there are
  holds,    \* what each of them refers to
  roots,    \* what the program starts from
  waiting,  \* the userdata whose finalizer is to be called
  noticed   \* the userdata that were found to be garbage once

heapVars == <<exists, holds, roots, waiting, noticed>>

\* The objects in every set that has the roots and, with an object outside `passed', what
\* it refers to.
From(passed) ==
  {o \in Obj : \A S \in SUBSET Obj :
                 roots \subseteq S /\ (\A x \in S \ passed : holds[x] \subseteq S) => o \in S}
Named  == From({})
Needed == From(Weak)

HeapInit ==
  /\ exists = Permanent /\ roots = Permanent /\ holds = [o \in Obj |-> {}]
  /\ waiting = {} /\ noticed = {}

\* The program makes objects, and stores what it can name or has made.
Program ==
  LET new   == exists' \ exists
      named == Named
  IN
  /\ exists \subseteq exists' /\ waiting' = waiting
  /\ \A o \in Obj : \A v \in holds'[o] \ holds[o] :
       v \in new \/ (v \in Findable /\ v \in exists) \/ v \in named
  /\ Permanent \subseteq roots' /\ \A r \in roots' \ roots : r \in new \/ r \in named
  /\ noticed' \subseteq noticed /\ noticed \ noticed' \subseteq new

\* Objects go that nothing left refers to, and entries of weak tables whose objects are not
\* needed, or are values noticed before.  Userdata with a finalizer stay for it; those that
\* wait are not looked through for what is garbage, even if the program found them again.
Collect ==
  LET needed == Needed
      seen   == noticed' \ noticed
  IN
  /\ exists' \subseteq exists /\ roots' = roots
  /\ seen \subseteq (exists \cap Userdata) \ From(Weak \cup waiting) /\ noticed \subseteq noticed'
  /\ waiting' = waiting \cup (seen \cap Finalizable)
  /\ roots \cup waiting' \subseteq exists'
  /\ (exists \ exists') \cap Finalizable \subseteq noticed'
  /\ \A o \in Obj \ exists' : holds'[o] = {}
  /\ \A o \in exists' :
       /\ holds'[o] \subseteq holds[o] \cap exists'
       /\ \A v \in holds[o] \ holds'[o] :
            o \in Weak /\ (v \notin needed \/ (o \in WeakValues /\ v \in noticed'))

\* A finalizer is called, with its userdata on the stack.
Finalize(u) ==
  /\ u \in waiting /\ waiting' = waiting \ {u}
  /\ \E r \in roots : holds' = [holds EXCEPT ![r] = @ \cup {u}]
  /\ UNCHANGED <<exists, roots, noticed>>

HeapNext == Program \/ Collect \/ \E u \in Userdata : Finalize(u)
HeapSpec == HeapInit /\ [][HeapNext]_heapVars
=============================================================================
