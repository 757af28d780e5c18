--------------------------- MODULE LibraryLoading ---------------------------
(***************************************************************************)
(* Loading the C++ library before its first use.  The static initialiser   *)
(* of each class with native methods calls ensureInitialized, and so does  *)
(* every call of the functions of Fact.kt.  ensureInitialized is           *)
(* synchronized on the value of the variable isLoaded, boxed: there are    *)
(* two such objects in the virtual machine, one for FALSE and one for      *)
(* TRUE, so the monitor a thread takes depends on when it read the         *)
(* variable.                                                               *)
(***************************************************************************)
EXTENDS Naturals

CONSTANTS
  Threads,
  Classes,        \* Problem, Domain, SetOfInferences, GoalsRemovedTracker
  Function,       \* a function of Fact.kt: no class to initialise
  NoThread,
  MaxFailures     \* bound: how often System.loadLibrary fails

ASSUME FunctionAssumption == Function \notin Classes
ASSUME NoThreadAssumption == NoThread \notin Threads
ASSUME MaxFailuresAssumption == MaxFailures \in Nat

VARIABLES
  isLoaded,
  loads,        \* how often the library was loaded
  failures,
  monitor,      \* who holds the monitor of the boxed FALSE and TRUE
  boxed,        \* the object each thread synchronizes on
  pc,
  use,          \* what each thread uses: a class or Function
  class         \* new, busy (its initialiser runs), ready or broken

libraryVars == <<isLoaded, loads, failures>>
vars == <<libraryVars, monitor, boxed, pc, use, class>>

Init ==
  /\ isLoaded = FALSE /\ loads = 0 /\ failures = 0
  /\ monitor = [b \in BOOLEAN |-> NoThread]
  /\ boxed = [t \in Threads |-> FALSE]
  /\ pc = [t \in Threads |-> "idle"]
  /\ use = [t \in Threads |-> Function]
  /\ class = [c \in Classes |-> "new"]

Go(t, from, to) == pc[t] = from /\ pc' = [pc EXCEPT ![t] = to]

-----------------------------------------------------------------------------
(* Mutants of the actions below. *)

TestNotRepeated(t) ==
  /\ Go(t, "synchronized", IF boxed[t] THEN "leaving" ELSE "loading")
  /\ UNCHANGED <<libraryVars, monitor, boxed, use, class>>
TestMarksFirst(t) ==
  /\ Go(t, "synchronized", IF isLoaded THEN "leaving" ELSE "loading") /\ isLoaded' = TRUE
  /\ UNCHANGED <<loads, failures, monitor, boxed, use, class>>
LeaveForgetsMonitor(t, from, to, outcome) ==
  /\ Go(t, from, to)
  /\ class' = [c \in Classes |-> IF c = use[t] THEN outcome ELSE class[c]]
  /\ UNCHANGED <<libraryVars, monitor, boxed, use>>

-----------------------------------------------------------------------------

\* The client constructs an object of class c,
Construct(t, c) ==
  /\ Go(t, "idle", "wantsClass") /\ use' = [use EXCEPT ![t] = c]
  /\ UNCHANGED <<libraryVars, monitor, boxed, class>>

\* or gets or sets the punctual prefix.
CallFunction(t) ==
  /\ Go(t, "idle", "boxing") /\ use' = [use EXCEPT ![t] = Function]
  /\ UNCHANGED <<libraryVars, monitor, boxed, class>>

\* One thread runs the initialiser of a class; others that want the class wait,
\* and get an error if the initialiser failed.
EnterInitialiser(t) ==
  /\ Go(t, "wantsClass", "boxing") /\ class[use[t]] = "new"
  /\ class' = [class EXCEPT ![use[t]] = "busy"]
  /\ UNCHANGED <<libraryVars, monitor, boxed, use>>
FindClass(t) ==
  /\ \/ Go(t, "wantsClass", "native") /\ class[use[t]] = "ready"
     \/ Go(t, "wantsClass", "idle") /\ class[use[t]] = "broken"
  /\ UNCHANGED <<libraryVars, monitor, boxed, use, class>>

\* synchronized(isLoaded): the variable is read without a lock and is not
\* volatile, so the value may be the old one,
Box(t) ==
  /\ Go(t, "boxing", "waiting")
  /\ \E b \in {isLoaded, FALSE} : boxed' = [boxed EXCEPT ![t] = b]
  /\ UNCHANGED <<libraryVars, monitor, use, class>>

\* and the monitor of what was read is taken.
Synchronize(t) ==
  /\ Go(t, "waiting", "synchronized") /\ monitor[boxed[t]] = NoThread
  /\ monitor' = [monitor EXCEPT ![boxed[t]] = t]
  /\ UNCHANGED <<libraryVars, boxed, use, class>>

\* The second test, under the monitor.  A thread that read TRUE before reads TRUE.
Test(t) ==
  /\ Go(t, "synchronized", IF isLoaded THEN "leaving" ELSE "loading")
  /\ UNCHANGED <<libraryVars, monitor, boxed, use, class>>

\* System.loadLibrary, with JNI_OnLoad, or its error.
Load(t) ==
  /\ \/ Go(t, "loading", "loaded") /\ loads' = loads + 1 /\ UNCHANGED failures
     \/ /\ Go(t, "loading", "failing") /\ failures < MaxFailures
        /\ failures' = failures + 1 /\ UNCHANGED loads
  /\ UNCHANGED <<isLoaded, monitor, boxed, use, class>>

MarkLoaded(t) ==
  /\ Go(t, "loaded", "leaving") /\ isLoaded' = TRUE
  /\ UNCHANGED <<loads, failures, monitor, boxed, use, class>>

\* The monitor is left, and with it the initialiser if this is one.
Leave(t, from, to, outcome) ==
  /\ Go(t, from, to) /\ monitor' = [monitor EXCEPT ![boxed[t]] = NoThread]
  /\ class' = [c \in Classes |-> IF c = use[t] THEN outcome ELSE class[c]]
  /\ UNCHANGED <<libraryVars, boxed, use>>

Exit(t) == Leave(t, "leaving", "native", "ready")
Fail(t) == Leave(t, "failing", "idle", "broken")

NativeReturns(t) ==
  /\ Go(t, "native", "idle")
  /\ UNCHANGED <<libraryVars, monitor, boxed, use, class>>

\* What a thread does without the client and without taking a monitor.
Step(t) ==
  \/ EnterInitialiser(t) \/ FindClass(t) \/ Box(t) \/ Test(t) \/ Load(t) \/ MarkLoaded(t)
  \/ Exit(t) \/ Fail(t) \/ NativeReturns(t)

Next ==
  \E t \in Threads :
    (\E c \in Classes : Construct(t, c)) \/ CallFunction(t) \/ Step(t) \/ Synchronize(t)

Spec == Init /\ [][Next]_vars

\* Threads that can go on do, and a free monitor goes to one of its waiters.
FairSpec ==
  /\ Spec
  /\ \A t \in Threads : WF_vars(Step(t))
  /\ \A b \in BOOLEAN : WF_vars(\E t \in Threads : boxed[t] = b /\ Synchronize(t))

-----------------------------------------------------------------------------

Holding == {"synchronized", "loading", "loaded", "leaving", "failing"}

TypeOK ==
  /\ isLoaded \in BOOLEAN /\ loads \in Nat /\ failures \in 0 .. MaxFailures
  /\ monitor \in [BOOLEAN -> Threads \cup {NoThread}]
  /\ boxed \in [Threads -> BOOLEAN]
  /\ pc \in [Threads -> {"idle", "wantsClass", "boxing", "waiting", "native"} \cup Holding]
  /\ use \in [Threads -> Classes \cup {Function}]
  /\ class \in [Classes -> {"new", "busy", "ready", "broken"}]

\* The library is loaded once and by one thread at a time, although threads
\* that came before and after the assignment hold different monitors.
LoadedOnce ==
  /\ loads <= 1
  /\ \A t, u \in Threads : pc[t] = "loading" /\ pc[u] = "loading" => t = u

\* No native method is called before the library is loaded, from no class and
\* from no function, even when an earlier attempt to load it failed.
LoadedBeforeUse == \A t \in Threads : pc[t] = "native" => loads > 0

\* After a thread has entered ensureInitialized the library is loaded in the
\* end, or the thread is idle again, with an error.
LoadingEnds == \A t \in Threads : pc[t] = "boxing" ~> isLoaded \/ pc[t] = "idle"
=============================================================================
