------------------------ MODULE LibraryLoadingProofs ------------------------
(***************************************************************************)
(* ensureInitialized loads the library once and before every use, proved   *)
(* for any number of threads and classes and any failures.                 *)
(*                                                                         *)
(* A thread that boxed TRUE read it after the library was loaded, so it    *)
(* never loads; threads that load all hold the monitor of FALSE.           *)
(***************************************************************************)
EXTENDS LibraryLoading, TLAPS

MonitorsAreHeld ==
  \A b \in BOOLEAN, t \in Threads : monitor[b] = t <=> pc[t] \in Holding /\ boxed[t] = b

LoadersBoxedFalse ==
  /\ \A t \in Threads : boxed[t] => isLoaded
  /\ \A t \in Threads :
       pc[t] \in {"loading", "loaded", "failing"} => ~ isLoaded /\ ~ boxed[t]

LoadsAreRight ==
  /\ loads = IF isLoaded \/ \E t \in Threads : pc[t] = "loaded" THEN 1 ELSE 0
  /\ \A t \in Threads : pc[t] \in {"leaving", "native"} => isLoaded
  /\ \A c \in Classes : class[c] = "ready" => isLoaded

UsesAreClasses == \A t \in Threads : pc[t] = "wantsClass" => use[t] \in Classes

IInv == TypeOK /\ MonitorsAreHeld /\ LoadersBoxedFalse /\ LoadsAreRight /\ UsesAreClasses

LEMMA InitIInv == Init => IInv
<1> SUFFICES ASSUME Init PROVE IInv
  OBVIOUS
<1>1. TypeOK
  <2>1. isLoaded \in BOOLEAN
    BY Zenon DEF Init
  <2>5. loads \in Nat /\ failures \in 0 .. MaxFailures
    <3>1. loads = 0 /\ failures = 0
      BY Zenon DEF Init
    <3> QED
      BY <3>1, MaxFailuresAssumption
  <2>2. monitor \in [BOOLEAN -> Threads \cup {NoThread}] /\ boxed \in [Threads -> BOOLEAN]
    BY DEF Init
  <2>3. pc \in [Threads -> {"idle", "wantsClass", "boxing", "waiting", "native"} \cup Holding]
    BY DEF Init
  <2>4. /\ use \in [Threads -> Classes \cup {Function}]
        /\ class \in [Classes -> {"new", "busy", "ready", "broken"}]
    BY DEF Init
  <2> QED
    BY <2>1, <2>2, <2>3, <2>4, <2>5 DEF TypeOK
<1>2. MonitorsAreHeld
  <2> SUFFICES ASSUME NEW b \in BOOLEAN, NEW t \in Threads
               PROVE  monitor[b] # t /\ pc[t] \notin Holding
    BY DEF MonitorsAreHeld
  <2> QED
    BY NoThreadAssumption DEF Init, Holding
<1>3. LoadersBoxedFalse /\ UsesAreClasses
  BY DEF Init, LoadersBoxedFalse, UsesAreClasses
<1>4. LoadsAreRight
  BY DEF Init, LoadsAreRight
<1> QED
  BY <1>1, <1>2, <1>3, <1>4 DEF IInv

\* Steps that neither take nor leave a monitor, read or write isLoaded.
LEMMA PlainStep ==
  ASSUME IInv, NEW t \in Threads, UNCHANGED <<libraryVars, monitor, boxed>>,
         NEW from, NEW to, from \notin Holding, to \notin Holding, Go(t, from, to),
         TypeOK', to = "native" => isLoaded,
         \A c \in Classes : class'[c] = "ready" => isLoaded,
         \A u \in Threads \ {t} : use'[u] = use[u],
         to = "wantsClass" => use'[t] \in Classes
  PROVE  IInv'
<1>1. pc' = [pc EXCEPT ![t] = to] /\ pc[t] \notin Holding
  BY DEF Go
<1>2. MonitorsAreHeld' /\ LoadersBoxedFalse'
  BY <1>1 DEF IInv, TypeOK, MonitorsAreHeld, LoadersBoxedFalse, Holding, libraryVars
<1>3. LoadsAreRight'
  BY <1>1 DEF IInv, TypeOK, LoadsAreRight, Holding, libraryVars
<1>4. UsesAreClasses'
  BY <1>1 DEF IInv, TypeOK, UsesAreClasses
<1> QED
  BY <1>2, <1>3, <1>4 DEF IInv

\* Two threads that hold the monitor of FALSE are one.
LEMMA OneLoader ==
  ASSUME IInv, NEW t \in Threads, NEW u \in Threads,
         pc[t] \in {"loading", "loaded", "failing"}, pc[u] \in Holding, ~ boxed[u]
  PROVE  t = u
<1>1. monitor[FALSE] = t /\ monitor[FALSE] = u
  BY DEF IInv, TypeOK, MonitorsAreHeld, LoadersBoxedFalse, Holding
<1> QED
  BY <1>1

LEMMA NextIInv == IInv /\ [Next]_vars => IInv'
<1> SUFFICES ASSUME IInv, [Next]_vars PROVE IInv'
  OBVIOUS
<1>1. ASSUME NEW t \in Threads, NEW c \in Classes, Construct(t, c) PROVE IInv'
  <2>1. TypeOK'
    BY <1>1 DEF Construct, Go, libraryVars, IInv, TypeOK
  <2> QED
    BY <1>1, <2>1, PlainStep DEF Construct, Holding, IInv, TypeOK, LoadsAreRight
<1>2. ASSUME NEW t \in Threads, CallFunction(t) PROVE IInv'
  <2>1. TypeOK'
    BY <1>2 DEF CallFunction, Go, libraryVars, IInv, TypeOK
  <2> QED
    BY <1>2, <2>1, PlainStep DEF CallFunction, Holding, IInv, TypeOK, LoadsAreRight
<1>3. ASSUME NEW t \in Threads, EnterInitialiser(t) PROVE IInv'
  <2>1. TypeOK'
    BY <1>3 DEF EnterInitialiser, Go, libraryVars, IInv, TypeOK
  <2>2. \A c \in Classes : class'[c] = "ready" => isLoaded
    BY <1>3 DEF EnterInitialiser, IInv, TypeOK, LoadsAreRight
  <2> QED
    BY <1>3, <2>1, <2>2, PlainStep DEF EnterInitialiser, Holding
<1>4. ASSUME NEW t \in Threads, FindClass(t) PROVE IInv'
  <2>1. TypeOK'
    BY <1>4 DEF FindClass, Go, libraryVars, IInv, TypeOK
  <2>2. \A c \in Classes : class[c] = "ready" => isLoaded
    BY DEF IInv, LoadsAreRight
  <2>3. UNCHANGED <<libraryVars, monitor, boxed, use, class>>
    BY <1>4 DEF FindClass
  <2>4. CASE class[use[t]] = "ready" /\ Go(t, "wantsClass", "native")
    <3>1. use[t] \in Classes
      BY <2>4 DEF Go, IInv, UsesAreClasses
    <3> QED
      BY <2>1, <2>2, <2>3, <2>4, <3>1, PlainStep DEF Holding
  <2>5. CASE Go(t, "wantsClass", "idle")
    BY <2>1, <2>2, <2>3, <2>5, PlainStep DEF Holding
  <2> QED
    BY <1>4, <2>4, <2>5 DEF FindClass
<1>5. ASSUME NEW t \in Threads, Box(t) PROVE IInv'
  <2>1. PICK b \in {isLoaded, FALSE} : boxed' = [boxed EXCEPT ![t] = b]
    BY <1>5 DEF Box
  <2>2. /\ pc[t] = "boxing" /\ pc' = [pc EXCEPT ![t] = "waiting"]
        /\ UNCHANGED <<isLoaded, loads, failures, monitor, use, class>>
    BY <1>5 DEF Box, Go, libraryVars
  <2>3. TypeOK'
    BY <2>1, <2>2 DEF IInv, TypeOK
  <2>4. MonitorsAreHeld'
    BY <2>1, <2>2 DEF IInv, TypeOK, MonitorsAreHeld, Holding
  <2>5. LoadersBoxedFalse'
    BY <2>1, <2>2 DEF IInv, TypeOK, LoadersBoxedFalse
  <2>6. LoadsAreRight' /\ UsesAreClasses'
    BY <2>2 DEF IInv, TypeOK, LoadsAreRight, UsesAreClasses
  <2> QED
    BY <2>3, <2>4, <2>5, <2>6 DEF IInv
<1>6. ASSUME NEW t \in Threads, Synchronize(t) PROVE IInv'
  <2>1. /\ pc[t] = "waiting" /\ pc' = [pc EXCEPT ![t] = "synchronized"]
        /\ monitor[boxed[t]] = NoThread /\ monitor' = [monitor EXCEPT ![boxed[t]] = t]
        /\ UNCHANGED <<isLoaded, loads, failures, boxed, use, class>>
    BY <1>6 DEF Synchronize, Go, libraryVars
  <2>2. TypeOK'
    BY <2>1 DEF IInv, TypeOK, Holding
  <2>3. MonitorsAreHeld'
    BY <2>1, NoThreadAssumption DEF IInv, TypeOK, MonitorsAreHeld, Holding
  <2>4. LoadersBoxedFalse' /\ LoadsAreRight' /\ UsesAreClasses'
    BY <2>1 DEF IInv, TypeOK, LoadersBoxedFalse, LoadsAreRight, UsesAreClasses
  <2> QED
    BY <2>2, <2>3, <2>4 DEF IInv
<1>7. ASSUME NEW t \in Threads, Test(t) PROVE IInv'
  <2>1. /\ pc[t] = "synchronized"
        /\ pc' = [pc EXCEPT ![t] = IF isLoaded THEN "leaving" ELSE "loading"]
        /\ UNCHANGED <<isLoaded, loads, failures, monitor, boxed, use, class>>
    BY <1>7 DEF Test, Go, libraryVars
  <2>2. TypeOK'
    BY <2>1 DEF IInv, TypeOK, Holding
  <2>3. MonitorsAreHeld'
    BY <2>1 DEF IInv, TypeOK, MonitorsAreHeld, Holding
  <2>4. LoadersBoxedFalse'
    BY <2>1 DEF IInv, TypeOK, LoadersBoxedFalse
  <2>5. LoadsAreRight' /\ UsesAreClasses'
    BY <2>1 DEF IInv, TypeOK, LoadsAreRight, UsesAreClasses
  <2> QED
    BY <2>2, <2>3, <2>4, <2>5 DEF IInv
<1>8. ASSUME NEW t \in Threads, Load(t) PROVE IInv'
  <2>1. PICK to \in {"loaded", "failing"} :
          /\ pc[t] = "loading" /\ pc' = [pc EXCEPT ![t] = to]
          /\ loads' = loads + (IF to = "loaded" THEN 1 ELSE 0)
          /\ failures' \in 0 .. MaxFailures
          /\ UNCHANGED <<isLoaded, monitor, boxed, use, class>>
    BY <1>8, MaxFailuresAssumption DEF Load, Go, IInv, TypeOK
  <2>2. TypeOK'
    BY <2>1 DEF IInv, TypeOK, Holding
  <2>3. MonitorsAreHeld'
    BY <2>1 DEF IInv, TypeOK, MonitorsAreHeld, Holding
  <2>4. LoadersBoxedFalse'
    BY <2>1 DEF IInv, TypeOK, LoadersBoxedFalse
  <2>5. LoadsAreRight'
    <3>1. \A u \in Threads : pc[u] # "loaded"
      BY <2>1, OneLoader DEF IInv, LoadersBoxedFalse, Holding
    <3>2. ~ isLoaded /\ loads = 0
      BY <2>1, <3>1 DEF IInv, LoadersBoxedFalse, LoadsAreRight
    <3>3. (\E u \in Threads : pc'[u] = "loaded") <=> to = "loaded"
      BY <2>1, <3>1 DEF IInv, TypeOK
    <3>4. loads' = IF isLoaded' \/ \E u \in Threads : pc'[u] = "loaded" THEN 1 ELSE 0
      BY <2>1, <3>2, <3>3
    <3> QED
      BY <2>1, <3>4 DEF IInv, TypeOK, LoadsAreRight
  <2>6. UsesAreClasses'
    BY <2>1 DEF IInv, TypeOK, UsesAreClasses
  <2> QED
    BY <2>2, <2>3, <2>4, <2>5, <2>6 DEF IInv
<1>9. ASSUME NEW t \in Threads, MarkLoaded(t) PROVE IInv'
  <2>1. /\ pc[t] = "loaded" /\ pc' = [pc EXCEPT ![t] = "leaving"] /\ isLoaded' = TRUE
        /\ UNCHANGED <<loads, failures, monitor, boxed, use, class>>
    BY <1>9 DEF MarkLoaded, Go
  <2>2. TypeOK'
    BY <2>1 DEF IInv, TypeOK, Holding
  <2>3. MonitorsAreHeld'
    BY <2>1 DEF IInv, TypeOK, MonitorsAreHeld, Holding
  <2>4. LoadersBoxedFalse'
    <3>1. \A u \in Threads : pc[u] \in {"loading", "loaded", "failing"} => u = t
      BY <2>1, OneLoader DEF IInv, LoadersBoxedFalse, Holding
    <3> QED
      BY <2>1, <3>1 DEF IInv, TypeOK, LoadersBoxedFalse
  <2>5. LoadsAreRight' /\ UsesAreClasses'
    BY <2>1 DEF IInv, TypeOK, LoadsAreRight, UsesAreClasses
  <2> QED
    BY <2>2, <2>3, <2>4, <2>5 DEF IInv
<1>10. ASSUME NEW t \in Threads, Exit(t) \/ Fail(t) PROVE IInv'
  <2>1. PICK from \in {"leaving", "failing"}, to \in {"native", "idle"},
             outcome \in {"ready", "broken"} :
          /\ Leave(t, from, to, outcome)
          /\ to = "native" \/ outcome = "ready" => from = "leaving"
    BY <1>10 DEF Exit, Fail
  <2>2. /\ pc[t] = from /\ pc' = [pc EXCEPT ![t] = to]
        /\ monitor' = [monitor EXCEPT ![boxed[t]] = NoThread]
        /\ class' = [c \in Classes |-> IF c = use[t] THEN outcome ELSE class[c]]
        /\ UNCHANGED <<isLoaded, loads, failures, boxed, use>>
    BY <2>1 DEF Leave, Go, libraryVars
  <2>3. TypeOK'
    BY <2>2 DEF IInv, TypeOK, Holding
  <2>4. MonitorsAreHeld'
    BY <2>2, NoThreadAssumption DEF IInv, TypeOK, MonitorsAreHeld, Holding
  <2>5. LoadersBoxedFalse' /\ UsesAreClasses'
    BY <2>2 DEF IInv, TypeOK, LoadersBoxedFalse, UsesAreClasses
  <2>6. LoadsAreRight'
    BY <2>1, <2>2 DEF IInv, TypeOK, LoadsAreRight
  <2> QED
    BY <2>3, <2>4, <2>5, <2>6 DEF IInv
<1>11. ASSUME NEW t \in Threads, NativeReturns(t) PROVE IInv'
  <2>1. TypeOK'
    BY <1>11 DEF NativeReturns, Go, libraryVars, IInv, TypeOK
  <2> QED
    BY <1>11, <2>1, PlainStep DEF NativeReturns, Holding, IInv, TypeOK, LoadsAreRight
<1>12. ASSUME UNCHANGED vars PROVE IInv'
  BY <1>12 DEF vars, libraryVars, IInv, TypeOK, MonitorsAreHeld, LoadersBoxedFalse,
     LoadsAreRight, UsesAreClasses
<1> QED
  BY <1>1, <1>2, <1>3, <1>4, <1>5, <1>6, <1>7, <1>8, <1>9, <1>10, <1>11, <1>12 DEF Next, Step

\* Every step keeps the types of the state.
THEOREM LoadingKeepsTypes == Spec => []TypeOK
<1>1. IInv => TypeOK
  BY DEF IInv
<1> QED
  BY InitIInv, NextIInv, <1>1, PTL DEF Spec

\* ensureInitialized loads the library once, by one thread at a time, however
\* many threads come with either boxed value and however often loading fails.
THEOREM TheLibraryIsLoadedOnce == Spec => []LoadedOnce
<1>1. IInv => LoadedOnce
  <2> SUFFICES ASSUME IInv PROVE LoadedOnce
    OBVIOUS
  <2>1. loads <= 1
    BY DEF IInv, LoadsAreRight
  <2>2. \A t, u \in Threads : pc[t] = "loading" /\ pc[u] = "loading" => t = u
    BY OneLoader DEF IInv, LoadersBoxedFalse, Holding
  <2> QED
    BY <2>1, <2>2 DEF LoadedOnce
<1> QED
  BY InitIInv, NextIInv, <1>1, PTL DEF Spec

\* No thread calls a native method before the library is loaded.
THEOREM TheLibraryIsLoadedBeforeUse == Spec => []LoadedBeforeUse
<1>1. IInv => LoadedBeforeUse
  BY DEF IInv, LoadsAreRight, LoadedBeforeUse
<1> QED
  BY InitIInv, NextIInv, <1>1, PTL DEF Spec
=============================================================================
