# Contextual Planner Android in TLA+

This directory models the JNI wrapper of the planner: the Kotlin classes, the
native objects behind them, and the C++ handlers in between
(`contextualplanner/src/main`). The planning library itself is a git submodule
and is not part of the repository; where a handler calls it, the models state
what they assume of it.

Paths below are relative to `contextualplanner/src/main/`; `jni/` is
`cpp/jni/`, `kt/` is `java/com/contextualplanner/`.

## The system

A client holds Kotlin objects of four classes. Each has an `id`; a native
registry (`std::map<jint, T>`, one per class and translation unit) maps the id to
a C++ object. Every method is an `external fun`, a handler in `jni/` that locks
a mutex, looks the ids of its arguments up and works on the objects.

| Component | State | Operations | Correct when |
|---|---|---|---|
| Registries, `findMissingKey` (`jni/contextualplanner-jni.hpp`) | keys of each map | find a free id, insert, erase, look up | the id found is free and the least one |
| `DisposableWithId` (`kt/types/detail`) | `id`, `isDisposed` | constructor, `dispose` | a native object lives from its handle's construction to its dispose, and nobody else ends it |
| Problem (`jni/types/problem-jni.cpp`) | facts, goals by priority, attached sets of inferences; caches `punctualFacts`, `factsAdded` | 20 handlers | flushes return what was added, once; goals keep their order; conditions count |
| Domain (`jni/types/domain-jni.cpp`) | actions by id | new, `addAction`, `removeAction`, dispose | the action applied is the one the domain has |
| SetOfInferences (`jni/types/setofinferences-jni.cpp`) | inferences by id; a `shared_ptr` in the registry and in the problems it is attached to | new, add, remove, dispose; attach, detach (handlers of Problem) | attached from add to remove |
| GoalsRemovedTracker (`jni/util/trackers`) | cache `goalsRemoved`, a connection to its problem | new, flush, dispose | returns every goal its problem lost, once |
| Planner entry (`jni/contextualplanner-jni.cpp`, `kt/ContextualPlanner.kt`) | none | `lookForAnActionToDo` | finds actions for enabled goals |
| Conversions (`jni/jobjectsconversions.cpp`) | none | Java objects to C++ and back | lose nothing the library needs |
| Mutexes, exceptions (`jni/contextualplanner-jni.hpp`) | one mutex per translation unit | lock, unlock, convert | handlers that share state exclude each other |
| Punctual prefix (`jni/util/fact-jni.cpp`) | a global string | get, set | punctual facts are never stored |
| Library loading (`kt/util/detail/EnsureInitialized.kt`) | `isLoaded` | `ensureInitialized` | the library is loaded once, before its first use |
| Log forwarding (`jni/androidlog.hpp`) | a character buffer | write, flush | not part of the default build |
| Printing, variable replacement (`jni/util`) | none | read a problem | do not disturb the others |

How they interact: Kotlin calls handlers from any thread. The library calls
back into `newProblem`'s and the tracker's callbacks while a handler of the
problem runs. Handlers of one file reach into the registries of others:
`notifyActionDone` uses a domain, `addSetOfInferences` a set, the planner entry
both a problem and a domain, a tracker its problem. Every class initialiser and
the functions of `Fact.kt` call `ensureInitialized` before native code runs.

What is hard here: several threads with mutexes that are not one mutex (the
header makes one per translation unit, and a template may be linked to the
mutex of another unit); ids that are handed out again while old handles keep
them; `dispose`, which tests and sets a flag around native code; caches that
callbacks fill and flushes copy and clear; sets that problems keep alive under
ids that belong to other sets by then; a loader that synchronizes on the value
it assigns; planner results applied later to
changed problems and domains; goals that cross the bridge in both directions.
Nothing is persisted and nothing is sent over a network, so there is no
recovery and no message loss to model. `PROJECT.json` lists each hazard at its
line.

## The modules

| Module | Models | Corresponds to the code by |
|---|---|---|
| `RegistryIds` | ids of a registry | `IsMissingKey` is the promise of `findMissingKey` |
| `MissingKey` | the loop of `findMissingKey` | one step per map entry; `currentId` is the variable, `rest` the entries ahead of the iterator; `Begin` is a call |
| `Handles` | registry, handles, `dispose` | `New` is any `newX`; `CheckNotDisposed`, `DisposeImplementation`, `MarkDisposed` are the three lines of `dispose` with thread switches between them; `Collect` lets the client drop a handle and make a new one |
| `Construction` | a constructor as it runs, with the mutex of its unit | extends `Handles` and instantiates `MissingKey`: `BeginNew` takes the mutex and calls the loop, `SearchId` is a step of it, `EndNew` makes the entry or throws; an erase waits for the mutex, the other steps of `dispose` do not. It implements `Handles` |
| `ObjectStore` | abstract: life of native objects | `Handles` implements it |
| `Selections` | the elements of a sequence that are in a set | a helper of the next modules; `SelectSeq` takes an operator, which the prover cannot reason about |
| `GoalConversions` | goals on both sides of the bridge | one operator per conversion function, named like it |
| `ProblemJni` | one problem, its client's domain, last planner result and the punctual prefix | one action per handler that changes state, named like it; callbacks are `OnFactsAdded`, `OnFactsRemoved`, `OnPunctualFacts` |
| `GoalList` | abstract: what each call does to the list that `getGoals` shows | `HandlersDoAsGoalListSays` of `ProblemJni` says which handler is which operation |
| `Mutexes` | threads, handlers, mutexes | a table of the exported handlers that lock a mutex (the two of `fact-jni.cpp` lock none), with unit, return type, and registries touched; `LockOf` says which mutex a handler locks; `Outlined` says which template calls the build did not inline |
| `FlushCache` | a cache filled and flushed by threads | extends `Mutexes`; copy and clear of `_flushFacts` and `flushGoalsRemoved` are two steps |
| `Lookups` | handlers that find objects in registries while others construct or dispose | extends `Mutexes`; `Find` is the lookup, `BeginChange` and `EndChange` the emplace or erase, all between lock and unlock; the two lookups of a handler that makes two are one step |
| `InferenceSets` | sets of inferences, their registry, the problems that hold them | one action per handler; `registry` and `attached` are the two maps, an object is named by the handle it was made for |
| `AttachedSets` | abstract: which problem uses which set, and what a collision with a disposed set may do | `InferenceSets` implements it for a client that uses no disposed set |
| `GoalsTracker` | trackers and problems with recycled ids | one action per handler; `source` is the problem a collector is connected to, `due` the history of what it owes its client |
| `LibraryLoading` | `ensureInitialized` and the class initialisers around it | one action per step between two thread switches; `monitor` has one entry for each of the two boxed values |
| `MC...` | TLC instances | constants only |
| `...Proofs` | theorems | see below |

Two modules compose the locks with what they protect: `FlushCache` with the
caches of the problem and the tracker, `Lookups` with the registries; `Construction`
puts the loop of a constructor between lock and unlock. `Handles`,
`ProblemJni`, `InferenceSets` and `GoalsTracker` treat a handler as atomic;
`Mutexes` says for which pairs of handlers that is true.

### What is assumed of the library and of the virtual machine

`ProblemJni` gives the library free choices within this contract: a modification
names no fact both to add and to remove; additions are announced before
removals; every stored fact that is new is announced, and facts that were
already there may be announced again; facts with the punctual prefix are raised
and never stored; an attached set of inferences fires at most once after a
modification, with a second round of announcements; the planner drops satisfied
goals ahead of the one it acts for unless they are persistent, and may find any
action of the domain for any goal that is enabled and not satisfied. A fact is
punctual if it has the prefix of the moment a handler modifies it. What the
library would read in the text of a goal ("imply", "persist", "oneStepTowards")
is the constant `Parse`. An action done for a goal of one step drops that goal
(`PlannerTest.kt:404-420`): one that equals it at its priority, if there still is
one, before the goals of the inference and the effect are added; which of several
equal goals goes is a free choice. A call on a problem that is not registered
returns at once; it changes nothing and is not a step of the model.

`InferenceSets` leaves open whether the library replaces the set it has under an
id or keeps it. `Lookups` lets a walk over a `std::map` that another thread is
changing miss what is there or meet what is being erased, and lets two changes
at once leave anything behind. `GoalsTracker` assumes that the signal of a
problem that is erased no longer reaches its trackers. `LibraryLoading` models
class initialisation as the Java language defines it: one thread runs the
initialiser, others wait for it, and a class whose initialiser failed stays
unusable; the unlocked read of `isLoaded` may be stale, but a thread that read
TRUE once does not read FALSE afterwards (the second test, under the monitor of
the boxed TRUE).

## The runs

| Run | Result | Shows |
|---|---|---|
| `Construction` | passes | findMissingKey returns the least free id of any registry a constructor meets; a constructor is one step for the others; recycled ids and failed constructors never let one handle touch another's object; every object lives as `ObjectStore` says; a `dispose` that has begun ends |
| `DisposeRace` | violation | two threads that dispose of one handle both run the dispose code |
| `ProblemFacts` | passes | the caches of added and punctual facts under every handler, actions and inferences |
| `ProblemGoals` | passes | each call does to the list of goals what `GoalList` says of that call; goals survive `getGoals` followed by `addGoals` |
| `GoalCondition` | violation | the `condition` field of a Kotlin goal is dropped |
| `FlushFacts` | passes | a build that inlines `flushFactsAdded` and nothing else: the flush loses and repeats no fact, although other handlers with a result lock the mutex of another unit; void handlers of a unit exclude each other and nobody looks into a changing registry of trackers |
| `FlushGoalsRemoved` | violation | a removed goal is lost in every build: the tracker has its own mutex |
| `InferenceSets` | passes | for a client that uses no disposed set, a set that is not disposed stays attached from add to remove although ids are recycled; only a disposed set loses its place or keeps another out |
| `Lookups` | passes | inlined build: handlers of a unit exclude each other, lookups in the own registry are exact, and pointers stay good into the own registry and to objects of one thread |
| `LibraryLoading` | passes | the library is loaded once and before its use; after a thread has entered the loader the library is loaded in the end, or the thread is idle again with an error |
| `GoalsTracker` | passes | each tracker holds just what its own problem lost, whatever is disposed first |
| `TrackerFlush` | violation | a flush of a tracker without a collector dereferences a null pointer |

A violation run checks one statement of the documentation or of a test that the
code does not keep; `PROJECT.json` quotes the statement under "findings":

* `toGoal` never reads `Goal.condition`. A condition counts only when it is
  written in the text, as `imply(condition, fact)`, which is how `PlannerTest`
  writes it.
* The tracker's flush locks the mutex of `goalsremovedtracker-jni.cpp`, the
  handlers that remove goals those of `problem-jni.cpp` and
  `contextualplanner-jni.cpp`, in every build.
* `DisposableWithId.dispose` is a check followed by an act, and its class promises
  to run the dispose code once. Two threads run it twice; the second one erases
  whatever object has the id by then. The properties of the run `Construction`
  are about handles that one thread disposes each (`SingleDisposer`).
* `newGoalsRemovedTracker` returns -1 for a problem that is not registered, so
  the constructor succeeds; `flushGoalsRemoved` of such a tracker makes an empty
  array and then clears a set through a null pointer.

The models also show where a promise ends. Each of these is a named assumption of
a module, a constant of a run or a case a property leaves out, and a hazard in
`PROJECT.json`:

* `_jniPlannerMutex` is `static` in a header and `protectByMutexWithReturn` is a
  template with external linkage that names it. In a build without inlining the
  linker keeps one copy of the template per return type, the copy of the first
  unit in `cpp/CMakeLists.txt`; `flushFactsAdded` (a `jobjectArray`) then locks
  the tracker's mutex while `addFact` (void, a static function) locks the
  problem's. `SameLock` of `CriticalSectionsProofs` excludes that, and
  `FlushFacts` is a build that inlines this one call.
* `setPunctualFactPrefix` only assigns a global. Facts that carry the new prefix
  and are stored already stay in the world state. `ProblemFacts` checks the
  client that has no problem when it changes the prefix (`PrefixSetFirst`).
* A problem keeps a set under the text of its id. Dispose the set, construct
  another: it gets the same id, and adding it to the problem evicts the one
  still attached, or does nothing; removing it removes the other. `AttachedSets`
  names these as the only things that can happen (`Colliding`): no set that is
  not disposed is evicted. A client that detaches its sets before it disposes of
  them never meets a collision. `Tidy` excludes calls on disposed sets.
* `lookForAnActionToDo` looks into two registries that change under other
  mutexes. Clients that share no object still share the two maps, and the
  planner may answer null for a problem that is there: `OwnCallsAreExact` is
  about handlers that stay in their own unit. What the pointers found point to
  is safe as long as nobody else disposes of it (`PointersAreValid`); a problem or
  a domain that another thread disposes of during the call is not.

### Bounds

* `MaxId` bounds ids. Three keys in `Construction` give a registry with a hole at
  the front, in the middle and none, and `FindMissingKeyCorrect` is proved for
  every bound. Three handles and a failed constructor compete for three ids, so
  they are recycled often: one handle is disposed while its id goes to the
  second, the third is untouched. Two threads dispose. A constructor that would
  need an id above the bound is not taken; the code has no such limit short of
  the range of `jint`. `Collect` makes histories unbounded.
* `ProblemFacts` has three facts to store and a punctual one: enough for an
  action that adds one and removes another and an inference that does the
  opposite. `MaxGoals = 1`, because goals do not matter there.
* `ProblemGoals` has `MaxGoals = 3` goals in two priorities and two groups, one
  persistent with a condition, one of one step: front, middle and back of a priority
  all occur. A call that would exceed the bound is not taken. Its VIEW leaves
  out the caches of facts, which no goal operation reads.
* Three threads in the runs of `FlushCache`, so two flushes and a filler can meet;
  two items, each put in the cache once, so that a loss is visible. The threads
  call the fillers and the flush, and in `FlushFacts` also a constructor of a
  problem and the handlers of trackers (`CalledHandlers`); the theorems are about
  all handlers. Threads and items are symmetric.
* `ProblemFacts` has two prefixes. An action batch for `newDomain` holds one
  action more than there are ids, so one id occurs twice.
* `Lookups` uses the eight handlers in which problems and domains are made,
  disposed and used, one of each unit that looks across; one object that all
  threads use and one of a single thread, so that an unrelated one can come and
  go; two threads, the least that can disturb.
* `InferenceSets` has three sets for two ids and two problems: an id is recycled
  while its former owner is attached elsewhere. An id above `MaxId` is not
  handed out, as in `Handles`.
* `GoalsTracker` has two problems, two trackers, two ids: both trackers on one
  problem, or one tracker on a problem that has the id of the other's.
* `LibraryLoading` has three threads (one loading, one waiting on each
  monitor), two classes and one failure of `System.loadLibrary`.

### Fairness

* `Construction`: a thread inside `dispose` goes on, and gets the mutex if that
  stays free. `std::mutex` does not promise who is next, so `DisposeCompletes` is
  about behaviours in which constructors leave the mutex alone in the end.
  Nothing forces a client to construct or dispose anything.
* `LibraryLoading`: a thread that can go on does, and a free monitor goes to one
  of the threads that wait for it. `LoadingEnds` needs no more: a thread that
  waits is overtaken only by threads that find the library loaded or fail.
* `ProblemJni`, `FlushCache`, `Lookups`, `InferenceSets` and `GoalsTracker` state
  safety only: no client must call anything.

## The proofs

TLAPS checks these for all values of the constants that meet the named
assumptions. The assumptions that the modules make of their constants give them
their types; those that restrict a client or a build are named below.

* `ConstructionProofs`: `FindMissingKeyCorrect`, `FindMissingKeyVisitsInOrder` and
  `ConstructionKeepsTypes` for every client, and `ConstructorsAreAtomic`, the
  refinement of `Handles`. The inductive invariant joins the loop's (the entries
  behind the iterator are exactly `1..currentId`; `ReturnsMissingKey` alone says
  nothing before the return) to the registry's: while a constructor runs, the
  keys it walks are those of the registry, since an erase waits for the mutex.
* `HandlesProofs`: `HandlesTypeOK` for every client; `LiveHandlesOwn`,
  `NoEntryLeftBehind` and `HandlesImplementObjectStore`, the refinement of
  `ObjectStore` step by step, under the assumption `SingleDisposer`: each handle
  is disposed by one thread. The strengthening says where a thread may stand in
  `dispose` for which states of its handle, so that the erase always hits the
  handle's own entry. By `ConstructorsAreAtomic` they hold in `Construction`.
* `CriticalSectionsProofs`, on the locks and the two modules that extend them.
  The two do not share a variable besides those of `Mutexes`, so that one module
  can hold the proofs of both (`stage` of `FlushCache` is to a flush what
  `progress` of `Lookups` is to a handler that looks objects up).
  * Of `Mutexes`: `MutexesAreSound`, `VoidHandlersAreAtomic`,
    `TrackersAreUndisturbed` for every build, `InlinedHandlersAreAtomic` for
    builds with `Outlined = {}`. The invariant is that a mutex is owned exactly
    while its owner is inside a handler that locked it; two threads inside hold
    different mutexes, and the table of handlers gives the rest.
    `FlushImplementsLocks` and `LookupsImplementLocks` say that both extensions
    are refinements of it, so what is proved of the locks holds in them.
  * Of `FlushCache`: `FlushKeepsTypes` for every build, `FlushLosesNothing` and
    `FlushReturnsOnce` under `SameLock`: the handlers that fill the cache lock
    the mutex of the flush. `InlinedUnitSharesLock` gives the assumption for
    handlers of one unit when all calls are inlined. The invariant adds that from
    copy to clear the cache is what was copied, and from clear to return the copy
    is apart from the cache.
  * Of `Lookups`: `LookupsKeepTypes` for every build; `OwnPointersStayGood`,
    `OwnCallsFindTheirObject` and, for pointers to an object that one thread
    alone uses, `ConfinedPointersStayGood`, for builds with `Outlined = {}` and
    for all handlers, threads and objects. Two threads inside handlers of one
    unit are the same thread, so nobody else is between begin and end of a
    change of that registry. The strengthening ties `progress` to `pc` and says
    that a registry's entry is there while the thread that found it may use it.
* `InferenceSetsProofs`: `SetsTypeOK`, `SetsStayUnderTheirIds` for every client,
  and `LiveSetsAreNeverEvicted`, the refinement of `AttachedSets` step by step.
  The key is that a set is attached under its own id or not at all, so for a tidy
  client the place a handler writes to holds the set itself, nothing, or a set
  that lost its entry in the registry: a disposed one.
* `GoalsTrackerProofs`: `TrackersKeepTypes` for every client; `TrackersAreExact`
  for a client that uses no disposed object (`Tidy`). The
  invariant: the registries hold the open handles, each at its id, and a
  collector is connected to the problem its tracker was made for exactly as long
  as that problem is open. What a problem removes then reaches the trackers
  made for it and no others, also after its id was handed on.
* `LibraryLoadingProofs`: `LoadingKeepsTypes`, `TheLibraryIsLoadedOnce`,
  `TheLibraryIsLoadedBeforeUse`. The invariant: whoever loads holds the monitor of
  the boxed FALSE and `isLoaded` is FALSE, since a thread that holds the other
  monitor read TRUE and finds TRUE; and a class is ready only after loading.
* `ProblemJniProofs`, for every set of facts, goals, effects and inferences and
  every finite set of integers as priorities:
  * `FlushMissesNothing`, `FlushReturnsFacts` and, under `PrefixSetFirst`,
    `PunctualFactsAreNotStored`. Each announcement preserves the relation of
    facts and caches (`Modified`), so one round and a second round of an
    inference do.
  * `ProblemKeepsTypes`: facts, goals, domain and planner result keep their
    types through both conversions; the other theorems on goals rest on it.
  * `GoalsCrossTheBridge`: the array of `getGoals` converts back to the goals it
    was made from. The priorities have a descending enumeration (they are
    finite), each occurs in it once, and the slice of one priority of the
    flattened rows is the row of that priority.
  * `HandlersKeepTheGoalList`: every call does to the list that the client sees
    what `GoalList` says of that call, with its goal, group, priority and flag. The
    key is `ConvertUnique`: a list sorted by descending priority is determined by
    its slices, one for each priority, so two such lists are equal when they agree
    priority by priority. `GoalList` cuts the list by comparing priorities and the
    code changes one vector of a map: `ConvertPushedFront`, `ConvertAppended`,
    `WithoutIsRemoveAt`, `ExpiredIsExpire` and `ThoseConverted` show that these
    agree, for one operation each; `IsPosition` says where in the list a place in
    a vector is, so that the goals ahead of it are the same in both. A batch is an
    induction on its length (`OneMore`), and an action done is a goal of one step
    dropped, a batch, a front and an expiry (`StepLeaves`, `ActionAdds`,
    `RemovesSatisfied`). One lemma for each group of calls (`GoalCallsDoIt` and the
    others) goes through the handlers. The invariant needed is that of the types
    alone: the list is sorted because it is converted from a map.
  * `ConditionInTextEnablesGoal`, what is left of the promise of `Goal.kt:6` that
    the run `GoalCondition` finds broken: if the condition of every Kotlin goal
    is written in its text too (`ConditionsAreInTheTexts`; the goals of the run
    `ProblemGoals` are such), an action is found only for a goal somebody wrote
    with a condition that holds. The invariant (`WrittenOK`, stronger than the
    types) is provenance: every goal in the problem is the conversion of a goal
    of the client, of an effect or of an inference.
* `SelectionsProofs` has the lemmas on sequences of any length these rest on.
  The induction theorems of the library take an operator as a parameter, which
  no backend can instantiate. `SetInduction` and `SeqInduction` say the same of a
  set instead of a predicate and are proved from the well-founded order of the
  natural numbers. `FlattenSeq` is a fold in the community modules; `IsFlat`
  names the recursive function it is, `FlatExists` and `FlatUnique` say that there
  is exactly one. The same is done for `AddAll` of `GoalList` (`IsAdding`).

Only model-checked: the liveness properties (`DisposeCompletes`, `LoadingEnds`:
fairness and ENABLED are out of the prover's reach), and that the runs with a
violation have one. Every safety property of a passing run is stated by a theorem.

## Not modelled

* The search of the planning library, times (`maxTimeToKeepInactive`), the
  history of actions, resources, build scripts.
* Log forwarding (`jni/androidlog.hpp`): compiled only with
  `COUT_TO_ANDROID_LOG`, which the build leaves off; it keeps no state of the
  planner.
* Variables: `addVariableToValue` fills a map that only the library and
  `replaceVariables` read; formatting in `printGoals` and `printFacts`. Their
  locks are in `Mutexes`.
* What a data race does inside an object: a set of inferences walked while
  `addInference` changes it, a tracker disposed while its problem raises the
  signal, the string of the prefix assigned while it is read. `Mutexes` says when
  such pairs meet, `Lookups` and `FlushCache` what is lost even if each single
  operation on a container is atomic.
* Exceptions that leave native code from handlers without conversion.
* Java local references: `shared_jobject` and the references the handlers leave
  to the end of the call. The table they live in grows on the Android versions
  the build supports (`minSdk 28`).

## Plan

Done: every part of the wrapper that keeps state, with a theorem for each
safety property the passing runs check and for each refinement. What is
left, the most important first:

1. What the library's contract rests on: a hazard without a property is one
   where the repository does not say what the library does. If its sources come
   with the repository, `Stored`, `Modified` and `FirstSatisfiedRemoved` can
   become operations of a module that is checked against them.
2. `Lookups` for builds that do not inline every call: which handlers keep their
   pointers when only those of one return type are outlined.
3. A problem whose facts are modified by handlers of two units at once, below
   the level at which `ProblemJni` is atomic, for the builds in which `Mutexes`
   allows it.
