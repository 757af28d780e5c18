------------------------------- MODULE Mutexes -------------------------------
(***************************************************************************)
(* The mutexes of the JNI library.  _jniPlannerMutex is a static variable  *)
(* of a header, so every translation unit has its own.  protectByMutex is  *)
(* static too and locks the mutex of its unit.  protectByMutexWithReturn   *)
(* is a template with external linkage that names a static variable, which *)
(* breaks the one-definition rule: where a call is inlined it locks the    *)
(* mutex of its unit, where it is not the linker keeps one copy for each   *)
(* return type, and that copy locks the mutex of the first unit that       *)
(* instantiates it.  The constant Outlined says what the build did.        *)
(***************************************************************************)
EXTENDS Naturals

CONSTANTS
  Threads,
  Outlined,      \* the handlers whose template call is not inlined
  NoThread

-----------------------------------------------------------------------------
(* The exported handlers that lock: their unit, the type they return from  *)
(* under the mutex, the registries they change and the registries they     *)
(* look objects up in.  The two handlers of fact-jni.cpp lock nothing.     *)

Registries == {"problems", "domains", "sets", "trackers"}

Exported(unit, returns, names, changes, looksUp) ==
  {[name |-> n, unit |-> unit, returns |-> returns,
    changes |-> changes, looksUp |-> looksUp] : n \in names}

ProblemHandlers ==
  Exported("problem", "jint", {"newProblem"}, {"problems"}, {})
    \cup Exported("problem", "void",
           {"pushFrontGoal", "pushBackGoal", "removeGoals", "setGoalPriority", "addFact",
            "removeFact", "modifyFacts", "addGoals", "addVariableToValue",
            "removeFirstGoalsThatAreAlreadySatisfied"}, {}, {"problems"})
    \cup Exported("problem", "void", {"notifyActionDone"}, {}, {"problems", "domains"})
    \cup Exported("problem", "void", {"addSetOfInferences", "removeSetOfInferences"},
                  {}, {"problems", "sets"})
    \cup Exported("problem", "jobjectArray",
           {"getGoals", "getNotSatisfiedGoals", "flushPunctualFacts", "flushFactsAdded"},
           {}, {"problems"})
    \cup Exported("problem", "jboolean", {"hasFact", "areFactsTrue"}, {}, {"problems"})
    \cup Exported("problem", "void", {"Problem.dispose"}, {"problems"}, {})

DomainHandlers ==
  Exported("domain", "jint", {"newDomain"}, {"domains"}, {})
    \cup Exported("domain", "void", {"addAction", "removeAction"}, {}, {"domains"})
    \cup Exported("domain", "void", {"Domain.dispose"}, {"domains"}, {})

SetHandlers ==
  Exported("sets", "jint", {"newSetOfInferences"}, {"sets"}, {})
    \cup Exported("sets", "void", {"addInference", "removeInference"}, {}, {"sets"})
    \cup Exported("sets", "void", {"SetOfInferences.dispose"}, {"sets"}, {})

TrackerHandlers ==
  Exported("tracker", "jint", {"newGoalsRemovedTracker"}, {"trackers"}, {"problems"})
    \cup Exported("tracker", "jobjectArray", {"flushGoalsRemoved"}, {}, {"trackers"})
    \cup Exported("tracker", "void", {"GoalsRemovedTracker.dispose"}, {"trackers"}, {})

PlannerHandlers ==
  Exported("planner", "jobject", {"lookForAnActionToDo"}, {}, {"problems", "domains"})

PrintHandlers == Exported("print", "jstring", {"printGoals", "printFacts"}, {}, {"problems"})

ReplaceHandlers == Exported("replace", "jstring", {"replaceVariables"}, {}, {"problems"})

Handlers == ProblemHandlers \cup DomainHandlers \cup SetHandlers \cup TrackerHandlers
              \cup PlannerHandlers \cup PrintHandlers \cup ReplaceHandlers

Named(n) == CHOOSE h \in Handlers : h.name = n

Units == {h.unit : h \in Handlers}

\* The order of the units in CMakeLists.txt decides which copy is kept.
FirstUnit(returns) ==
  CASE returns \in {"jint", "jobjectArray"} -> "tracker"
    [] returns = "jstring"                  -> "print"
    [] returns = "jobject"                  -> "planner"
    [] returns = "jboolean"                 -> "problem"

\* Mutant of LockOf: a compiler that never inlines.
LockOfNeverInlined(h) == IF h.returns # "void" THEN FirstUnit(h.returns) ELSE h.unit

\* The unit whose mutex a handler locks.
LockOf(h) == IF h \in Outlined /\ h.returns # "void" THEN FirstUnit(h.returns) ELSE h.unit

ASSUME OutlinedAssumption == Outlined \subseteq Handlers
ASSUME NoThreadAssumption == NoThread \notin Threads

VARIABLES
  pc,       \* idle, waiting for the mutex, inside the protected function
  call,     \* the handler each thread is in or was in last
  owner     \* who holds the mutex of each unit

lockVars == <<pc, call, owner>>

InitLocks ==
  /\ pc = [t \in Threads |-> "idle"]
  /\ call \in [Threads -> {Named("hasFact")}]
  /\ owner = [u \in Units |-> NoThread]

-----------------------------------------------------------------------------
(* Mutants of the actions below. *)

LockWithoutOwner(t) ==
  /\ pc[t] = "waiting" /\ owner[LockOf(call[t])] = NoThread
  /\ pc' = [pc EXCEPT ![t] = "inside"] /\ UNCHANGED <<call, owner>>
LockWithoutWaiting(t) ==
  /\ pc[t] = "waiting"
  /\ pc' = [pc EXCEPT ![t] = "inside"] /\ owner' = [owner EXCEPT ![LockOf(call[t])] = t]
  /\ UNCHANGED call
ReturnWithoutUnlock(t) ==
  /\ pc[t] = "inside" /\ pc' = [pc EXCEPT ![t] = "idle"] /\ UNCHANGED <<call, owner>>

-----------------------------------------------------------------------------

\* Kotlin calls a native method.
Call(t, h) ==
  /\ pc[t] = "idle" /\ pc' = [pc EXCEPT ![t] = "waiting"]
  /\ call' = [call EXCEPT ![t] = h]
  /\ UNCHANGED owner

\* The constructor of lock_guard.
Lock(t) ==
  /\ pc[t] = "waiting" /\ owner[LockOf(call[t])] = NoThread
  /\ pc' = [pc EXCEPT ![t] = "inside"]
  /\ owner' = [owner EXCEPT ![LockOf(call[t])] = t]
  /\ UNCHANGED call

\* Its destructor, at a return or when an exception passes.
Return(t) ==
  /\ pc[t] = "inside" /\ pc' = [pc EXCEPT ![t] = "idle"]
  /\ owner' = [owner EXCEPT ![LockOf(call[t])] = NoThread]
  /\ UNCHANGED call

NextLocks ==
  \E t \in Threads : (\E h \in Handlers : Call(t, h)) \/ Lock(t) \/ Return(t)

LocksSpec == InitLocks /\ [][NextLocks]_lockVars

-----------------------------------------------------------------------------

Inside(t) == pc[t] = "inside"

LocksTypeOK ==
  /\ pc \in [Threads -> {"idle", "waiting", "inside"}]
  /\ call \in [Threads -> Handlers]
  /\ owner \in [Units -> Threads \cup {NoThread}]

\* A mutex is owned exactly while its owner is inside a handler that locked it:
\* none is lost, none is taken twice.
OwnerIsInside ==
  \A u \in Units, t \in Threads : owner[u] = t <=> Inside(t) /\ LockOf(call[t]) = u

\* In every build the void handlers of one unit exclude each other: all calls
\* that change the facts or the goals of a problem, lookForAnActionToDo apart.
VoidHandlersExclude ==
  \A t, u \in Threads : t # u /\ Inside(t) /\ Inside(u)
    /\ call[t].returns = "void" /\ call[u].returns = "void"
      => call[t].unit # call[u].unit

\* When every call is inlined all handlers of one unit exclude each other, so a
\* handler is atomic for the other handlers of its unit; in particular no two
\* threads hand out ids of one registry at a time.
UnitHandlersExclude ==
  \A t, u \in Threads : t # u /\ Inside(t) /\ Inside(u) => call[t].unit # call[u].unit

\* Nobody else is in a registry while a handler changes it.
Undisturbed(r) ==
  \A t, u \in Threads : t # u /\ Inside(t) /\ Inside(u) /\ r \in call[t].changes
    => r \notin call[u].changes \cup call[u].looksUp

\* The registry of trackers is the only one that no other unit looks into: no
\* thread walks it while another one changes it, in any build.
TrackersUndisturbed == Undisturbed("trackers")

=============================================================================
