---------------------------- MODULE GoalsTracker ----------------------------
(***************************************************************************)
(* Trackers of removed goals.  A tracker's native object, a collector, is  *)
(* connected to the signal of one native problem; the signal fills the     *)
(* collector's set goalsRemoved until a flush hands it to Java.  Several   *)
(* trackers may watch one problem, trackers and problems are disposed in   *)
(* any order, and the registries of both recycle ids.  A native object is  *)
(* named by the handle it was created for.  Handlers are atomic here;      *)
(* FlushCache is about what runs between the steps of a flush.             *)
(***************************************************************************)
EXTENDS RegistryIds

CONSTANTS
  Problems,   \* handles of class Problem
  Trackers,   \* handles of class GoalsRemovedTracker
  Goals,
  NoObject,   \* an id that a registry does not hold
  Tidy        \* the client uses no disposed object

\* Two Kotlin classes, neither extends the other.
ASSUME HandlesAssumption == Problems \cap Trackers = {}
ASSUME NoObjectAssumption == NoObject \notin Problems \cup Trackers
ASSUME TidyAssumption == Tidy \in BOOLEAN

VARIABLES
  id,             \* the val id of each handle, 0 before it is constructed
  open,           \* the handles constructed and not disposed
  problemAt,      \* _idToRobotPlannerProblem
  trackerAt,      \* _idToGoalsRemovedCollector
  goals,          \* the goals of each native problem
  source,         \* the native problem each collector is connected to
  goalsRemoved,   \* what each collector holds
  watched,        \* history: the problem each tracker was made for
  due,            \* history: what was removed from it since the last flush
  crashed         \* a null pointer was dereferenced

handles == <<id, open>>
history == <<watched, due>>
vars == <<handles, problemAt, trackerAt, goals, source, goalsRemoved, history, crashed>>

\* A handler works on the object that has the id of the handle now.
Found(registry, object) ==
  IF id[object] \in Ids THEN registry[id[object]] ELSE NoObject

MayUse(object) == id[object] # 0 /\ (Tidy => object \in open)

Init ==
  /\ id = [object \in Problems \cup Trackers |-> 0] /\ open = {}
  /\ problemAt = [k \in Ids |-> NoObject] /\ trackerAt = [k \in Ids |-> NoObject]
  /\ goals = [p \in Problems |-> {}]
  /\ source = [t \in Trackers |-> NoObject] /\ watched = source
  /\ goalsRemoved = [t \in Trackers |-> {}] /\ due = goalsRemoved
  /\ crashed = FALSE

-----------------------------------------------------------------------------
(* Mutants of the definitions below. *)

CollectReplaces(c, removed) == removed
DisconnectedToZero(p)       == [t \in Trackers |-> IF source[t] = p THEN 0 ELSE source[t]]

-----------------------------------------------------------------------------

Free(registry, k) == IsMissingKey({j \in Ids : registry[j] # NoObject}, k)

Opened(object, k) == id' = [id EXCEPT ![object] = k] /\ open' = open \cup {object}

\* p stands for a new object when no tracker is left that was made for its last.
NewProblem(p, k) ==
  /\ p \notin open /\ \A t \in Trackers : watched[t] # p
  /\ Free(problemAt, k)
  /\ Opened(p, k) /\ problemAt' = [problemAt EXCEPT ![k] = p]
  /\ UNCHANGED <<trackerAt, goals, source, goalsRemoved, history, crashed>>

\* The problem takes its signal with it; the trackers of it stay.
Disconnected(p) == [t \in Trackers |-> IF source[t] = p THEN NoObject ELSE source[t]]
DisposeProblem(p) ==
  /\ p \in open /\ open' = open \ {p}
  /\ problemAt' = [problemAt EXCEPT ![id[p]] = NoObject]
  /\ goals' = [goals EXCEPT ![p] = {}] /\ source' = Disconnected(Found(problemAt, p))
  /\ UNCHANGED <<id, trackerAt, goalsRemoved, history, crashed>>

AddGoal(p, g) ==
  /\ MayUse(p) /\ Found(problemAt, p) # NoObject
  /\ goals' = [goals EXCEPT ![Found(problemAt, p)] = @ \cup {g}]
  /\ UNCHANGED <<handles, problemAt, trackerAt, source, goalsRemoved, history, crashed>>

\* The callback connected by newGoalsRemovedTracker.
Collect(c, removed) == goalsRemoved[c] \cup removed

\* A handler removes goals, or the planner drops them.
RemoveGoals(p, removed) ==
  /\ MayUse(p) /\ Found(problemAt, p) # NoObject /\ removed \subseteq goals[Found(problemAt, p)]
  /\ goals' = [goals EXCEPT ![Found(problemAt, p)] = @ \ removed]
  /\ goalsRemoved' = [c \in Trackers |->
       IF source[c] = Found(problemAt, p) THEN Collect(c, removed) ELSE goalsRemoved[c]]
  /\ due' = [t \in Trackers |-> IF watched[t] = p THEN due[t] \cup removed ELSE due[t]]
  /\ UNCHANGED <<handles, problemAt, trackerAt, source, watched, crashed>>

\* Without a problem the constructor succeeds too, with an id that is no key.
NewGoalsRemovedTracker(t, p, k) ==
  /\ t \notin open /\ MayUse(p)
  /\ IF Found(problemAt, p) = NoObject
     THEN Opened(t, -1) /\ UNCHANGED <<trackerAt, source, goalsRemoved>>
     ELSE /\ Free(trackerAt, k)
          /\ Opened(t, k) /\ trackerAt' = [trackerAt EXCEPT ![k] = t]
          /\ source' = [source EXCEPT ![t] = Found(problemAt, p)]
          /\ goalsRemoved' = [goalsRemoved EXCEPT ![t] = {}]
  /\ watched' = [watched EXCEPT ![t] = p] /\ due' = [due EXCEPT ![t] = {}]
  /\ UNCHANGED <<problemAt, goals, crashed>>

\* The set is copied if the collector exists, and cleared in any case.
FlushGoalsRemoved(t) ==
  /\ MayUse(t)
  /\ IF Found(trackerAt, t) = NoObject
     THEN crashed' = TRUE /\ UNCHANGED goalsRemoved
     ELSE goalsRemoved' = [goalsRemoved EXCEPT ![Found(trackerAt, t)] = {}] /\ UNCHANGED crashed
  /\ due' = [due EXCEPT ![t] = {}]
  /\ UNCHANGED <<handles, problemAt, trackerAt, goals, source, watched>>

\* The collector that is erased disconnects.
DisposeTracker(t) ==
  /\ t \in open /\ open' = open \ {t}
  /\ trackerAt' = [k \in Ids |-> IF k = id[t] THEN NoObject ELSE trackerAt[k]]
  /\ source' = [c \in Trackers |-> IF c = Found(trackerAt, t) THEN NoObject ELSE source[c]]
  /\ goalsRemoved' = [goalsRemoved EXCEPT ![t] = {}]
  /\ watched' = [watched EXCEPT ![t] = NoObject] /\ due' = [due EXCEPT ![t] = {}]
  /\ UNCHANGED <<id, problemAt, goals, crashed>>

Next ==
  /\ ~ crashed
  /\ \/ \E p \in Problems, k \in Ids : NewProblem(p, k)
     \/ \E p \in Problems : DisposeProblem(p)
     \/ \E p \in Problems, g \in Goals : AddGoal(p, g)
     \/ \E p \in Problems, removed \in SUBSET Goals : RemoveGoals(p, removed)
     \/ \E t \in Trackers, p \in Problems, k \in Ids : NewGoalsRemovedTracker(t, p, k)
     \/ \E t \in Trackers : FlushGoalsRemoved(t)
     \/ \E t \in Trackers : DisposeTracker(t)

Spec == Init /\ [][Next]_vars

-----------------------------------------------------------------------------

TypeOK ==
  /\ id \in [Problems \cup Trackers -> {-1, 0} \cup Ids]
  /\ open \subseteq Problems \cup Trackers
  /\ problemAt \in [Ids -> Problems \cup {NoObject}]
  /\ trackerAt \in [Ids -> Trackers \cup {NoObject}]
  /\ goals \in [Problems -> SUBSET Goals]
  /\ {source, watched} \subseteq [Trackers -> Problems \cup {NoObject}]
  /\ goalsRemoved \in [Trackers -> SUBSET Goals] /\ due \in [Trackers -> SUBSET Goals]
  /\ crashed \in BOOLEAN

\* Every tracker of the client holds just what was removed from the problem it
\* was made for since it was made or last flushed: another tracker's flush
\* takes nothing from it, and no problem that got the id of its own adds to it.
TrackersHoldTheirGoals ==
  \A t \in Trackers \cap open :
    Found(trackerAt, t) = t /\ goalsRemoved[t] = due[t]

\* flushGoalsRemoved returns an array (GoalsRemovedTracker.kt:16-17), an empty
\* one for a tracker that is not registered (goalsremovedtracker-jni.cpp:86-87).
\* Does not hold for a client that uses a disposed object: that branch passes,
\* and line 89 clears the set of the collector that was not found.
FlushReturns == ~ crashed
=============================================================================
